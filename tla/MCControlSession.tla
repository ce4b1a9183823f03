-------------------------- MODULE MCControlSession --------------------------
(* TLC instance of ControlSession: two machines, two sessions, channels and *)
(* buffers of one place, so that every one of them fills up.               *)
EXTENDS ControlSession

=============================================================================
