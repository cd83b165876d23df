---- MODULE MCStudioDraft ----
(* Two workflows.  One has a step without a next, a conditional that leads *)
(* back to it, and a last step; the other has two steps in a cycle.        *)
EXTENDS StudioDraft
CONSTANTS a, b, broken
Step(id, type, next, yes) ==
    [id |-> id, type |-> type, next |-> next,
     branches |-> [l \in Labels |-> IF l = "true" THEN yes ELSE 0]]
MCWorkflows == {a, b}
MCFileOf == [w \in {a, b} |->
    IF w = a THEN <<Step(1, "other", 0, 0), Step(2, "conditional", 3, 1), Step(3, "other", 0, 0)>>
    ELSE <<Step(1, "other", 2, 0), Step(2, "other", 1, 0)>>]
MCTyped == {broken, <<Step(1, "other", 0, 0)>>}
====
