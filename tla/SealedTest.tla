----------------------------- MODULE SealedTest -----------------------------
(***************************************************************************)
(* What the final-evaluation protocol promises: the held-out test split is *)
(* sealed, is opened by one authorized evaluation that is recorded first,  *)
(* and the evaluation that opened it is the one that gets registered.      *)
(***************************************************************************)
CONSTANTS FinalRuns, NoRun

VARIABLES
    phase,       \* "sealed", "authorized" or "completed"
    authorized,  \* the recorded evaluation, NoRun while sealed
    opened       \* the evaluations that have read the test split

vars == <<phase, authorized, opened>>

Init == phase = "sealed" /\ authorized = NoRun /\ opened = {}

Authorize(e) ==
    /\ phase = "sealed"
    /\ phase' = "authorized"
    /\ authorized' = e
    /\ UNCHANGED opened

Open ==
    /\ phase = "authorized" /\ opened = {}
    /\ opened' = {authorized}
    /\ UNCHANGED <<phase, authorized>>

Complete ==
    /\ phase = "authorized" /\ opened = {authorized}
    /\ phase' = "completed"
    /\ UNCHANGED <<authorized, opened>>

Next == (\E e \in FinalRuns : Authorize(e)) \/ Open \/ Complete

Spec == Init /\ [][Next]_vars

=============================================================================
