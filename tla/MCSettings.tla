----------------------------- MODULE MCSettings -----------------------------
(* TLC instance of Settings with one choice per setting: the local.toml of   *)
(* before holds limits that do not fit together, or a key with a typing error.*)
EXTENDS Settings

SomeChoices == [codec |-> {"h264"}, audio |-> {FALSE}, rate |-> {96}]

SomeManualKeys ==
  {[warn |-> 70], [warn |-> 90, limit |-> 100, emergency |-> 95], [fecMin |-> 50], [mistyped |-> 0]}
=============================================================================
