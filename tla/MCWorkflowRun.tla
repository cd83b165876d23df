----------------------------- MODULE MCWorkflowRun -----------------------------
(* Two-step workflows small enough for TLC: s1 may retry, s2 comes after it. *)
EXTENDS WorkflowRun, TLC
CONSTANTS s1, s2

Then2 == s1 :> s2 @@ s2 :> Done
Straight == s1 :> {s2} @@ s2 :> {Done}
\* s2 may branch back to s1 or name a step that does not exist
Branching == s1 :> {s2} @@ s2 :> {s1, Done, Invalid}
TwoThenOne == s1 :> 2 @@ s2 :> 1
Twice == s1 :> 2 @@ s2 :> 2
AllFail == s1 :> "fail" @@ s2 :> "fail"
SkipFirst == s1 :> "skip" @@ s2 :> "fail"
FallbackFirst == s1 :> s2 @@ s2 :> "skip"
=============================================================================
