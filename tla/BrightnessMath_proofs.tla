----------------------- MODULE BrightnessMath_proofs -----------------------
(* What the arithmetic of BrightnessMath guarantees, for all its arguments. *)
EXTENDS BrightnessMath, TLAPS

\* A product divided by one of its positive factors' bounds stays below the
\* other factor: the fade never goes beyond its range.
LEMMA QuotientInRange ==
    ASSUME NEW d \in Nat, NEW n \in Nat \ {0}, NEW k \in 0 .. n
    PROVE  (d * k) \div n \in 0 .. d
PROOF
<1> DEFINE q == (d * k) \div n
<1>1. d * k \in Nat
  BY SMT
<1>2. q \in Int /\ n * q <= d * k /\ d * k < n * q + n
  BY <1>1, SMT
<1>3. d * k <= d * n
  BY SMT
<1>4. q >= 0
  <2>1. SUFFICES ASSUME q <= -1 PROVE FALSE
    BY <1>2, SMT
  <2>2. n * q <= n * (-1)
    BY <1>2, <2>1, SMT
  <2> QED
    BY <1>1, <1>2, <2>2, SMT
<1>5. q <= d
  <2>1. SUFFICES ASSUME q >= d + 1 PROVE FALSE
    BY <1>2, SMT
  <2>2. n * q >= n * (d + 1)
    BY <1>2, <2>1, SMT
  <2> QED
    BY <1>2, <1>3, <2>2, SMT
<1> QED
  BY <1>2, <1>4, <1>5, SMT

\* A later step of a fade has gone at least as far.
LEMMA QuotientMonotone ==
    ASSUME NEW d \in Nat, NEW n \in Nat \ {0}, NEW k \in Nat
    PROVE  (d * k) \div n <= (d * (k + 1)) \div n
PROOF
<1> DEFINE q == (d * k) \div n
           r == (d * (k + 1)) \div n
<1>1. d * k \in Nat /\ d * (k + 1) \in Nat /\ d * k <= d * (k + 1)
  BY SMT
<1>2. q \in Int /\ n * q <= d * k
  BY <1>1, SMT
<1>3. r \in Int /\ d * (k + 1) < n * r + n
  BY <1>1, SMT
<1>4. n * q < n * (r + 1)
  BY <1>1, <1>2, <1>3, SMT
<1>5. q < r + 1
  <2>1. SUFFICES ASSUME q >= r + 1 PROVE FALSE
    BY <1>2, <1>3, SMT
  <2>2. n * q >= n * (r + 1)
    BY <1>2, <1>3, <2>1, SMT
  <2> QED
    BY <1>2, <1>3, <1>4, <2>2, SMT
<1> QED
  BY <1>2, <1>3, <1>5, SMT

\* limit_step_size stays between the last percent and the request, so that
\* limited moves never leave the range of a percent.
THEOREM LimitStepSizeInRange ==
    ASSUME NEW max \in Nat, NEW last \in (0 .. max) \cup {None},
           NEW requested \in 0 .. max, NEW step \in Nat
    PROVE  LimitStepSize(last, requested, step) \in 0 .. max
PROOF
  BY NoneAssumption, SMT DEF LimitStepSize, AbsDiff

\* Without a last percent the request is written as it is.
LEMMA LimitStepSizeOfNone ==
    ASSUME NEW requested, NEW step
    PROVE  LimitStepSize(None, requested, step) = requested
PROOF
  BY DEF LimitStepSize

\* Every percent of a fade lies between its start and its goal.
THEOREM FadePercentInRange ==
    ASSUME NEW max \in Nat, NEW start \in 0 .. max, NEW goal \in 0 .. max,
           NEW step \in Nat, NEW total \in Nat \ {0}
    PROVE  FadePercent(start, goal, step, total) \in 0 .. max
PROOF
<1>1. CASE step >= total
  BY <1>1 DEF FadePercent
<1>2. CASE step < total /\ goal >= start
  <2>1. ((goal - start) * step) \div total \in 0 .. (goal - start)
    <3>1. goal - start \in Nat /\ step \in 0 .. total
      BY <1>2, SMT
    <3> QED
      BY <3>1, QuotientInRange
  <2>2. FadePercent(start, goal, step, total) = start + ((goal - start) * step) \div total
    BY <1>2, SMT DEF FadePercent
  <2> QED
    BY <1>2, <2>1, <2>2, SMT
<1>3. CASE step < total /\ ~ (goal >= start)
  <2>1. ((start - goal) * step) \div total \in 0 .. (start - goal)
    <3>1. start - goal \in Nat /\ step \in 0 .. total
      BY <1>3, SMT
    <3> QED
      BY <3>1, QuotientInRange
  <2>2. FadePercent(start, goal, step, total) = start - ((start - goal) * step) \div total
    BY <1>3, SMT DEF FadePercent
  <2> QED
    BY <1>3, <2>1, <2>2, SMT
<1> QED
  BY <1>1, <1>2, <1>3, SMT

\* A fade begins where it starts.
THEOREM FadePercentAtStart ==
    ASSUME NEW start \in Nat, NEW goal \in Nat, NEW total \in Nat \ {0}
    PROVE  FadePercent(start, goal, 0, total) = start
PROOF
<1>1. 0 \div total = 0
  BY SMT
<1>2. (goal - start) * 0 = 0 /\ (start - goal) * 0 = 0
  BY SMT
<1> QED
  BY <1>1, <1>2, SMT DEF FadePercent

\* The steps of a fade approach the goal: each lies between the one before
\* and the goal.
THEOREM FadePercentApproaches ==
    ASSUME NEW start \in Nat, NEW goal \in Nat, NEW step \in Nat,
           NEW total \in Nat \ {0}, step < total
    PROVE  LET now == FadePercent(start, goal, step, total)
               next == FadePercent(start, goal, step + 1, total)
           IN  (now <= next /\ next <= goal) \/ (goal <= next /\ next <= now)
PROOF
<1>1. CASE goal >= start
  <2> DEFINE q == ((goal - start) * step) \div total
             r == ((goal - start) * (step + 1)) \div total
  <2>1. goal - start \in Nat /\ step \in 0 .. total /\ step + 1 \in 0 .. total
    BY <1>1, SMT
  <2>2. q \in 0 .. (goal - start) /\ r \in 0 .. (goal - start)
    BY <2>1, QuotientInRange
  <2>3. q <= r
    BY <2>1, QuotientMonotone
  <2>4. FadePercent(start, goal, step, total) = start + q
    BY <1>1, SMT DEF FadePercent
  <2>5. FadePercent(start, goal, step + 1, total)
          = IF step + 1 >= total THEN goal ELSE start + r
    BY <1>1, SMT DEF FadePercent
  <2> HIDE DEF q, r
  <2> QED
    BY <1>1, <2>2, <2>3, <2>4, <2>5, SMT
<1>2. CASE ~ (goal >= start)
  <2> DEFINE q == ((start - goal) * step) \div total
             r == ((start - goal) * (step + 1)) \div total
  <2>1. start - goal \in Nat /\ step \in 0 .. total /\ step + 1 \in 0 .. total
    BY <1>2, SMT
  <2>2. q \in 0 .. (start - goal) /\ r \in 0 .. (start - goal)
    BY <2>1, QuotientInRange
  <2>3. q <= r
    BY <2>1, QuotientMonotone
  <2>4. FadePercent(start, goal, step, total) = start - q
    BY <1>2, SMT DEF FadePercent
  <2>5. FadePercent(start, goal, step + 1, total)
          = IF step + 1 >= total THEN goal ELSE start - r
    BY <1>2, SMT DEF FadePercent
  <2> HIDE DEF q, r
  <2> QED
    BY <1>2, <2>2, <2>3, <2>4, <2>5, SMT
<1> QED
  BY <1>1, <1>2

\* The failure backoff never exceeds its maximum.
LEMMA BackoffDelayInRange ==
    ASSUME NEW failures \in Nat, NEW base \in Nat, NEW max \in Nat
    PROVE  BackoffDelay(failures, base, max) \in 0 .. max
PROOF
<1> DEFINE shift == IF failures = 0 THEN 0 ELSE Least(failures - 1, 16)
<1>1. shift \in 0 .. 16
  BY SMT DEF Least
<1>2. Shifted[shift + 1] \in Nat
  BY <1>1, SMT DEF Shifted
<1>3. base * Shifted[shift + 1] \in Nat
  BY <1>2, SMT
<1> HIDE DEF shift
<1> QED
  BY <1>3, SMT DEF BackoffDelay, Least, shift
=============================================================================
