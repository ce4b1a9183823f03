---------------------------- MODULE MCEngineLoop ----------------------------
(* TLC instances of EngineLoop: the headset and another machine on the LAN, *)
(* two PINs, and a clock long enough for a lockout and two holds.           *)
EXTENDS EngineLoop, TLC

\* Sound for the safety run: no definition tells clients or PINs apart.
Symmetry == Permutations(Clients) \cup Permutations(Pins)
=============================================================================
