-------------------------- MODULE MCEventSourcing --------------------------
(* Small instances of EventSourcing: three commands, one of which persists  *)
(* two events in one commit and one of which may absorb a conflict.         *)
EXTENDS EventSourcing, TLC

CONSTANTS c1, c2, c3, e1, e2, e3, e4

BatchOfThree == (c1 :> <<e1>>) @@ (c2 :> <<e2, e3>>) @@ (c3 :> <<e4>>)
BatchOfTwo   == (c1 :> <<e1>>) @@ (c2 :> <<e2, e3>>)

=============================================================================
