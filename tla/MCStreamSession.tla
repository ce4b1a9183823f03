-------------------------- MODULE MCStreamSession --------------------------
(* TLC instances of StreamSession: two views, two streams and two launches, *)
(* in every interleaving of the session thread with the app and the engine. *)
EXTENDS StreamSession

=============================================================================
