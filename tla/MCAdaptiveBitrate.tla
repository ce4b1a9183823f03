-------------------------- MODULE MCAdaptiveBitrate --------------------------
(* TLC instances of AdaptiveBitrate.                                          *)
EXTENDS AdaptiveBitrate
=============================================================================
