--------------------------- MODULE MCWeatherEngine ---------------------------
(* The instance of WeatherEngine: two places with a key, one of them without a
   key, and weather disabled. *)
EXTENDS WeatherEngine

CONSTANTS home, away

MCPlace == {home, away}
MCConfiguration ==
    {[enabled |-> TRUE, key |-> TRUE, place |-> home],
     [enabled |-> TRUE, key |-> TRUE, place |-> away],
     [enabled |-> TRUE, key |-> FALSE, place |-> home],
     [enabled |-> FALSE, key |-> TRUE, place |-> away]}
=============================================================================
