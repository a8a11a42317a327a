----------------------------- MODULE SaltState -----------------------------
(***************************************************************************)
(* What a Salt state function promises the state compiler that calls it,   *)
(* whatever resource it manages: the abstract specification of one run of  *)
(* a function of _states/tdns.py.  The detailed modules implement it.      *)
(*                                                                         *)
(*   - a run with test=True never changes the resource;                    *)
(*   - a run answers result None only when test=True was asked;            *)
(*   - a run that changed the resource lists changes, so that requisites   *)
(*     such as onchanges and watch fire, if it succeeds or if it heard     *)
(*     what became of each of its writes;                                  *)
(*   - a run over a resource that is as asked, undisturbed, never changes  *)
(*     it, lists no changes and succeeds: applying a state twice is        *)
(*     applying it once.                                                   *)
(***************************************************************************)
CONSTANT Result        \* the values of ret['result']
VARIABLES
  phase,               \* "idle", "running" or "done"
  dry,                 \* the run was asked for with test=True
  heard,               \* the run knows what became of each of its writes
  settled,             \* the resource was as asked when the run began, and
                       \* neither a fault nor anybody else disturbed the run
  touched,             \* the run has changed the resource
  result, changed      \* ret['result'], and whether ret['changes'] is not {}

vars == <<phase, dry, heard, settled, touched, result, changed>>

Init == /\ phase = "idle"
        /\ dry \in BOOLEAN /\ heard \in BOOLEAN /\ settled \in BOOLEAN
        /\ touched = FALSE
        /\ result = "false"
        /\ changed = FALSE

\* What a run does not hear, and what disturbs it, stays so to its end.
Fade == (heard' => heard) /\ (settled' => settled)

\* The pillar is rewritten: the next run may be asked for something else.
Rewrite == /\ phase # "running"
           /\ phase' = "idle"
           /\ dry' \in BOOLEAN /\ heard' \in BOOLEAN /\ settled' \in BOOLEAN
           /\ UNCHANGED <<touched, result, changed>>

Begin == /\ phase # "running"
         /\ phase' = "running"
         /\ heard' \in BOOLEAN /\ settled' \in BOOLEAN
         /\ touched' = FALSE
         /\ result' = "false"
         /\ changed' = FALSE
         /\ UNCHANGED dry

\* A reply is lost, or somebody else changes the resource.
Disturb == Fade /\ UNCHANGED <<phase, dry, touched, result, changed>>

Touch == /\ phase = "running"
         /\ ~dry /\ ~settled'
         /\ touched' = TRUE
         /\ Fade
         /\ UNCHANGED <<phase, dry, result, changed>>

\* The run returns, its last call to the resource included.
Return == /\ phase = "running"
          /\ phase' = "done"
          /\ Fade
          /\ touched' \in {touched, TRUE}
          /\ dry => touched' = touched
          /\ result' \in Result
          /\ changed' \in BOOLEAN
          /\ result' = "none" => dry
          /\ touched' /\ (heard' \/ result' = "true") => changed'
          /\ settled' => ~touched' /\ ~changed' /\ (dry \/ result' = "true")
          /\ UNCHANGED dry

\* The job dies with its minion.
Killed == /\ phase = "running"
          /\ phase' = "idle"
          /\ Fade
          /\ UNCHANGED <<dry, touched, result, changed>>

Next == Rewrite \/ Begin \/ Disturb \/ Touch \/ Return \/ Killed

Spec == Init /\ [][Next]_vars
=============================================================================
