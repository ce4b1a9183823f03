--------------------------- MODULE MCVideoReceiver --------------------------
(* TLC instances of VideoReceiver.                                         *)
EXTENDS VideoReceiver

=============================================================================
