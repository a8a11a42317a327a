------------------------ MODULE TdnsSettings_proofs ------------------------
(***************************************************************************)
(* Proofs about TdnsSettings, for all settings, values, requests and       *)
(* bounds.                                                                 *)
(***************************************************************************)
EXTENDS TdnsSettings, TLAPS

-----------------------------------------------------------------------------
(* Lemmas about the operators. *)

\* A call spends at most the faults that are left, and one answered ok was
\* acted on.
LEMMA CallBudget ==
  ASSUME TypeOK, NEW o \in Outcome, NEW can \in BOOLEAN, Call(o, can)
  PROVE  /\ faults' \in 0..MaxFaults
         /\ faulted' \in BOOLEAN
         /\ o.applied \in BOOLEAN /\ o.reply \in {"ok", "nok", "raise"}
         /\ o.reply = "ok" => o.applied
<1>1. o.applied \in BOOLEAN /\ o.reply \in {"ok", "nok", "raise"} /\ (o.reply = "ok" => o.applied)
  BY DEF Outcome, Reply
<1>2. faults' \in 0..MaxFaults /\ faulted' \in BOOLEAN
  <2>1. faults \in 0..MaxFaults /\ MaxFaults \in Nat
    BY SettingsAssumption DEF TypeOK
  <2>2. \/ faults' = faults + 0
        \/ faults' = faults + 1 /\ MaxFaults - faults > 0
    BY DEF Call, Possible, FaultsOf
  <2>3. faults' \in 0..MaxFaults
    BY <2>1, <2>2
  <2>4. faulted' \in BOOLEAN
    BY DEF Call, TypeOK
  <2>5. QED BY <2>3, <2>4
<1>3. QED BY <1>1, <1>2

\* The parts of a request.
LEMMA RequestShape ==
  ASSUME NEW r \in Requests
  PROVE  /\ r.want \in [Fields -> Values \cup {Unmanaged}]
         /\ r.test \in BOOLEAN /\ r.legal \in BOOLEAN /\ r.joinable \in BOOLEAN
BY SettingsAssumption DEF Request

\* What is read of settings is settings: theirs, but for those of the proxy.
LEMMA ReadSettings ==
  ASSUME NEW s \in Settings
  PROVE  /\ Read(s) \in Settings
         /\ \A f \in Fields \ Nested : Read(s)[f] = s[f]
         /\ \A f \in Fields \cap Nested : Read(s)[f] = Default[f]
BY SettingsAssumption DEF Read, Settings

\* A request laid over settings gives settings, and gets what it asks.
LEMMA OverlaySettings ==
  ASSUME NEW s \in Settings, NEW want \in [Fields -> Values \cup {Unmanaged}]
  PROVE  /\ Overlay(s, want) \in Settings
         /\ \A f \in Fields : want[f] \in {Unmanaged, Overlay(s, want)[f]}
         /\ \A f \in Fields : want[f] = Unmanaged => Overlay(s, want)[f] = s[f]
BY DEF Overlay, Settings

\* What the server has after it took the request is settings; in a whole request
\* each is as it arrived.
LEMMA TakenSettings ==
  ASSUME TypeOK
  PROVE  /\ Taken \subseteq Settings
         /\ Sendable(merged) => \A s \in Taken, f \in Fields : s[f] = Arrived(f, merged[f])
<1>1. \A f \in Fields : Arrived(f, merged[f]) \in Values
  <2>1. /\ None \in Values /\ merged \in [Fields -> Values]
        /\ Arrives \in [Fields -> [Values -> Values]]
    BY SettingsAssumption DEF TypeOK, Settings
  <2>2. QED BY <2>1 DEF Arrived
<1>2. [f \in Fields |-> Arrived(f, merged[f])] \in Settings
  BY <1>1 DEF Settings
<1>3. Wrecks \subseteq Settings
  BY SettingsAssumption
<1>4. QED BY <1>2, <1>3 DEF Taken

-----------------------------------------------------------------------------
(* Types. *)

LEMMA TypeStep ==
  ASSUME TypeOK, [Next]_vars
  PROVE  TypeOK'
<1>1. CASE Start
  BY <1>1, SettingsAssumption DEF Start, TypeOK, server
<1>2. CASE Get
  <2>1. PICK o \in Outcome :
          /\ Call(o, TRUE)
          /\ \/ o.reply # "ok" /\ Abort /\ UNCHANGED merged
             \/ /\ o.reply = "ok"
                /\ merged' = Overlay(Read(settings), req.want)
                /\ Compare(Differs(Read(settings), req.want) \/ ~req.joinable)
                /\ UNCHANGED unheard
    BY <1>2 DEF Get
  <2>2. faults' \in 0..MaxFaults /\ faulted' \in BOOLEAN
    BY <2>1, CallBudget
  <2>3. Overlay(Read(settings), req.want) \in Settings
    BY ReadSettings, RequestShape, OverlaySettings DEF TypeOK
  <2>4. merged' \in Settings
    BY <2>1, <2>3 DEF TypeOK
  <2>5. (Differs(Read(settings), req.want) \/ ~req.joinable) \in BOOLEAN
    OBVIOUS
  <2>6. /\ pc' \in {"set", "done"} /\ result' \in {"true", "false", "none"}
        /\ changed' \in BOOLEAN /\ unheard' \in BOOLEAN
    <3>1. CASE o.reply # "ok"
      BY <2>1, <3>1 DEF Abort, Finish
    <3>2. CASE o.reply = "ok"
      BY <2>1, <2>5, <3>2 DEF Compare, Finish, report, TypeOK
    <3>3. QED BY <3>1, <3>2
  <2>7. UNCHANGED <<server, req, before, wrote, raced>>
    BY <1>2 DEF Get
  <2>8. QED BY <2>2, <2>4, <2>6, <2>7 DEF TypeOK, server
<1>3. CASE Set
  <2>1. PICK o \in Outcome, can \in {TRUE, Sendable(merged)} :
          /\ Call(o, can)
          /\ \/ o.applied /\ settings' \in Taken
             \/ ~o.applied /\ UNCHANGED settings
          /\ wrote' = (wrote \/ o.applied)
          /\ \/ o.reply = "raise" /\ Abort
             \/ o.reply # "raise" /\ Finish(SetResult(o), TRUE) /\ UNCHANGED unheard
    BY <1>3 DEF Set
  <2>2. faults' \in 0..MaxFaults /\ faulted' \in BOOLEAN
    <3>1. can \in BOOLEAN
      BY DEF Sendable
    <3>2. QED BY <2>1, <3>1, CallBudget
  <2>3. settings' \in Settings /\ wrote' \in BOOLEAN
    BY <2>1, TakenSettings DEF TypeOK
  <2>4. /\ pc' = "done" /\ result' \in {"true", "false", "none"}
        /\ changed' \in BOOLEAN /\ unheard' \in BOOLEAN
    BY <2>1 DEF Abort, Finish, SetResult, TypeOK
  <2>5. UNCHANGED <<edits, req, merged, before, raced>>
    BY <1>3 DEF Set
  <2>6. QED BY <2>2, <2>3, <2>4, <2>5 DEF TypeOK
<1>31. CASE SetRaises
  BY <1>31, SettingsAssumption DEF SetRaises, Abort, Finish, TypeOK, server
<1>4. CASE Killed
  BY <1>4, SettingsAssumption DEF Killed, TypeOK, server, report, ghosts
<1>5. CASE Console
  <2>1. settings' \in Settings
    BY <1>5 DEF Console, TypeOK, Settings
  <2>2. edits' \in 0..MaxEdits
    BY <1>5, SettingsAssumption DEF Console, TypeOK
  <2>3. QED BY <1>5, <2>1, <2>2 DEF Console, TypeOK, report
<1>6. CASE Rewrite
  BY <1>6, SettingsAssumption DEF Rewrite, TypeOK, report, ghosts
<1>7. CASE UNCHANGED vars
  BY <1>7 DEF vars, TypeOK
<1>8. QED BY <1>1, <1>2, <1>3, <1>31, <1>4, <1>5, <1>6, <1>7 DEF Next

\* The type invariant.
THEOREM SettingsTypes == Spec => []TypeOK
<1>1. Init => TypeOK
  <2> SUFFICES ASSUME Init PROVE TypeOK
    OBVIOUS
  <2>1. settings \in Settings /\ Default \in Settings
    BY SettingsAssumption DEF Init
  <2>2. 0 \in 0..MaxFaults /\ 0 \in 0..MaxEdits
    BY SettingsAssumption
  <2>3. QED BY <2>1, <2>2 DEF Init, TypeOK
<1>2. TypeOK /\ [Next]_vars => TypeOK'
  BY TypeStep
<1>3. QED BY <1>1, <1>2, PTL DEF Spec

-----------------------------------------------------------------------------
(* The inductive invariant: what the run knows, and what it promises. *)

Inv == RunInv /\ TruthfulSuccess /\ KeepsUnmanaged /\ HonestReport /\ Idempotent

LEMMA InvInit ==
  ASSUME Init
  PROVE  Inv
BY DEF Init, Inv, RunInv, TruthfulSuccess, KeepsUnmanaged, HonestReport, Idempotent, Running

LEMMA InvGet ==
  ASSUME TypeOK, Inv, Get
  PROVE  Inv'
<1> DEFINE seen == Read(settings)
<1>1. PICK o \in Outcome :
        /\ Call(o, TRUE)
        /\ \/ o.reply # "ok" /\ Abort /\ UNCHANGED merged
           \/ /\ o.reply = "ok"
              /\ merged' = Overlay(seen, req.want)
              /\ Compare(Differs(seen, req.want) \/ ~req.joinable)
              /\ UNCHANGED unheard
  BY DEF Get
<1>2. /\ pc = "get" /\ ~wrote /\ (~raced => settings = before)
      /\ UNCHANGED <<settings, edits, req, before, wrote, raced>>
  BY DEF Get, Inv, RunInv, server
<1>3. KeepsUnmanaged'
  BY <1>2 DEF KeepsUnmanaged
<1>4. CASE o.reply # "ok"
  <2>1. pc' = "done" /\ result' = "false" /\ changed' = FALSE /\ unheard'
    BY <1>1, <1>4 DEF Abort, Finish
  <2>2. faulted'
    <3>1. o # Undisturbed(TRUE)
      BY <1>4 DEF Undisturbed
    <3>2. QED BY <1>1, <3>1 DEF Call
  <2>3. QED
    BY <1>2, <1>3, <2>1, <2>2 DEF Inv, RunInv, TruthfulSuccess, HonestReport, Idempotent
<1>5. CASE o.reply = "ok" /\ (Differs(seen, req.want) \/ ~req.joinable)
  <2>1. \/ pc' = "done" /\ result' \in {"false", "none"} /\ (changed' => ~req.legal \/ req.test)
        \/ pc' = "set" /\ req.legal /\ ~req.test
    BY <1>1, <1>5 DEF Compare, Finish
  <2>2. merged' = Overlay(seen, req.want)
    BY <1>1, <1>5
  <2>3. RunInv'
    BY <1>2, <1>5, <2>1, <2>2 DEF RunInv
  <2>4. TruthfulSuccess' /\ HonestReport'
    BY <1>2, <2>1 DEF TruthfulSuccess, HonestReport
  <2>5. ASSUME ~raced, req.joinable, \A f \in Fields : req.want[f] \in {Unmanaged, before[f]},
               \A f \in Lists : req.want[f] # None,
               \A f \in Nested : req.want[f] \in {Unmanaged, Default[f]}
        PROVE  FALSE
    <3>1. \A f \in Fields : req.want[f] \in {Unmanaged, seen[f]}
      BY <1>2, <2>5 DEF Read
    <3>2. QED BY <1>5, <2>5, <3>1 DEF Differs
  <2>6. Idempotent'
    BY <1>2, <2>5 DEF Idempotent
  <2>7. QED BY <1>3, <2>3, <2>4, <2>6 DEF Inv
<1>6. CASE o.reply = "ok" /\ ~(Differs(seen, req.want) \/ ~req.joinable)
  <2>1. /\ pc' = "done" /\ changed' = FALSE
        /\ req.legal /\ ~req.test => result' = "true"
    BY <1>1, <1>6 DEF Compare, Finish
  <2>2. \A f \in Fields : req.want[f] \in {Unmanaged, seen[f]}
    BY <1>6 DEF Differs
  <2>3. \A f \in Fields : Compared(f) => req.want[f] \in {Unmanaged, settings[f]}
    BY <2>2 DEF Compared, Read
  <2>4. TruthfulSuccess'
    BY <1>2, <2>3 DEF TruthfulSuccess, Compared
  <2>5. QED
    BY <1>2, <1>3, <2>1, <2>4 DEF Inv, RunInv, HonestReport, Idempotent
<1>7. QED BY <1>1, <1>4, <1>5, <1>6

LEMMA InvSet ==
  ASSUME TypeOK, Inv, Set
  PROVE  Inv'
<1>1. PICK o \in Outcome, can \in {TRUE, Sendable(merged)} :
        /\ Call(o, can)
        /\ \/ o.applied /\ settings' \in Taken
           \/ ~o.applied /\ UNCHANGED settings
        /\ wrote' = (wrote \/ o.applied)
        /\ \/ o.reply = "raise" /\ Abort
           \/ o.reply # "raise" /\ Finish(SetResult(o), TRUE) /\ UNCHANGED unheard
  BY DEF Set
<1>2. /\ pc = "set" /\ req.joinable /\ ~wrote /\ (~raced => settings = before)
      /\ ~raced => /\ merged = Overlay(Read(before), req.want)
                   /\ Differs(Read(before), req.want)
      /\ UNCHANGED <<edits, req, merged, before, raced>>
  BY DEF Set, Inv, RunInv
<1>3. /\ pc' = "done"
      /\ result' = "true" => o.reply = "ok"
      /\ result' \in {"true", "false"}
      /\ unheard' \/ changed'
  BY <1>1 DEF Abort, Finish, SetResult
<1>4. o.applied \in BOOLEAN /\ (o.reply = "ok" => o.applied)
  BY DEF Outcome
<1>41. ASSUME NEW f \in Fields, o.applied, Carried(f)'
       PROVE  settings'[f] = merged[f]
  <2>1. wrote' /\ merged' = merged /\ req' = req
    BY <1>1, <1>2, <1>41
  <2>2. Sendable(merged) /\ Arrived(f, merged[f]) = merged[f]
    BY <1>41, <2>1 DEF Carried, Sendable, Arrived
  <2>3. QED BY <1>1, <1>41, <2>2, TakenSettings
<1>42. ~o.applied => settings' = settings
  BY <1>1
<1>5. ~raced => /\ \A f \in Fields : req.want[f] \in {Unmanaged, merged[f]}
                /\ \A f \in Fields \ Nested : req.want[f] = Unmanaged => merged[f] = before[f]
  BY <1>2, ReadSettings, OverlaySettings, RequestShape DEF TypeOK
<1>6. RunInv'
  BY <1>3 DEF RunInv
<1>7. TruthfulSuccess'
  BY <1>2, <1>3, <1>4, <1>41, <1>5 DEF TruthfulSuccess, Compared
<1>8. KeepsUnmanaged'
  BY <1>2, <1>4, <1>41, <1>42, <1>5 DEF KeepsUnmanaged
<1>9. HonestReport'
  BY <1>3 DEF HonestReport
<1>10. ASSUME ~raced, \A f \in Fields : req.want[f] \in {Unmanaged, before[f]},
              \A f \in Lists : req.want[f] # None,
              \A f \in Nested : req.want[f] \in {Unmanaged, Default[f]}
       PROVE  FALSE
  <2>1. \A f \in Fields : req.want[f] \in {Unmanaged, Read(before)[f]}
    BY <1>10 DEF Read
  <2>2. QED BY <1>2, <1>10, <2>1 DEF Differs
<1>11. Idempotent'
  BY <1>2, <1>10 DEF Idempotent
<1>12. QED BY <1>6, <1>7, <1>8, <1>9, <1>11 DEF Inv

LEMMA InvStep ==
  ASSUME TypeOK, Inv, [Next]_vars
  PROVE  Inv'
<1> USE DEF Inv, RunInv, TruthfulSuccess, KeepsUnmanaged, HonestReport, Idempotent,
            Running, Compared, Carried, Arrived
<1>1. CASE Start
  BY <1>1 DEF Start, server
<1>2. CASE Get
  BY <1>2, InvGet
<1>3. CASE Set
  BY <1>3, InvSet
<1>31. CASE SetRaises
  BY <1>31 DEF SetRaises, Abort, Finish, server
<1>4. CASE Killed
  BY <1>4 DEF Killed
<1>5. CASE Console
  <2>1. raced' /\ UNCHANGED <<req, pc, merged, result, changed, before, wrote, unheard>>
    BY <1>5 DEF Console, report
  <2>2. QED BY <2>1
<1>6. CASE Rewrite
  BY <1>6 DEF Rewrite
<1>7. CASE UNCHANGED vars
  BY <1>7 DEF vars
<1>8. QED BY <1>1, <1>2, <1>3, <1>31, <1>4, <1>5, <1>6, <1>7 DEF Next

LEMMA Invariance == Spec => []Inv
<1>1. Init => Inv
  BY InvInit
<1>2. TypeOK /\ Inv /\ [Next]_vars => Inv'
  BY InvStep
<1>3. QED BY <1>1, <1>2, SettingsTypes, PTL DEF Spec

\* A run of server_configured that reports success leaves every setting it
\* compares, and whose value survives the way, as asked, whatever calls failed.
THEOREM SettingsTruthful == Spec => []TruthfulSuccess
<1>1. Inv => TruthfulSuccess
  BY DEF Inv
<1>2. QED BY <1>1, Invariance, PTL

\* No step disturbs a setting outside the proxy that the pillar leaves alone and
\* whose own value survives being sent back.
THEOREM SettingsKept == Spec => []KeepsUnmanaged
<1>1. Inv => KeepsUnmanaged
  BY DEF Inv
<1>2. QED BY <1>1, Invariance, PTL

\* A run that heard its replies never hides that it set something.
THEOREM SettingsHonest == Spec => []HonestReport
<1>1. Inv => HonestReport
  BY DEF Inv
<1>2. QED BY <1>1, Invariance, PTL

\* A run over settings that are as asked changes nothing and lists nothing.
THEOREM SettingsTwice == Spec => []Idempotent
<1>1. Inv => Idempotent
  BY DEF Inv
<1>2. QED BY <1>1, Invariance, PTL

\* Every behaviour of server_configured is one of the abstract state function.
THEOREM SettingsImplement == Spec => KeepsContract
<1> USE DEF Running
<1>1. Init => Contract!Init
  BY RequestShape DEF Init, Contract!Init, Settled
<1>2. TypeOK /\ TypeOK' /\ Inv /\ Inv' /\ [Next]_vars => [Contract!Next]_(Contract!vars)
  <2> SUFFICES ASSUME TypeOK, TypeOK', Inv, Inv', [Next]_vars
               PROVE  [Contract!Next]_(Contract!vars)
    OBVIOUS
  <2> USE DEF Contract!Next, Contract!vars
  <2>1. CASE Start
    <3>1. Settled' \in BOOLEAN
      BY DEF Settled
    <3>2. QED BY <2>1, <3>1 DEF Start, Contract!Begin, server, TypeOK
  <2>2. CASE Killed
    <3>1. UNCHANGED <<req, before, wrote, raced, faulted, unheard, result, changed>>
      BY <2>2 DEF Killed, report, ghosts, server
    <3>2. Settled' = Settled
      BY <3>1 DEF Settled
    <3>3. QED BY <2>2, <3>1, <3>2 DEF Killed, Contract!Killed, Contract!Fade
  <2>3. CASE Console
    <3>1. ~Settled'
      BY <2>3 DEF Console, Settled
    <3>2. QED
      BY <2>3, <3>1 DEF Console, Contract!Disturb, Contract!Fade, report
  <2>4. CASE Rewrite
    <3>1. Settled' \in BOOLEAN
      BY DEF Settled
    <3>2. QED
      BY <2>4, <3>1, RequestShape DEF Rewrite, Contract!Rewrite, report, ghosts, TypeOK
  <2>5. CASE Get \/ Set \/ SetRaises
    <3>1. /\ req' = req /\ before' = before /\ raced' = raced
          /\ pc \in {"get", "set"} /\ pc' \in {"set", "done"}
          /\ (faulted => faulted') /\ (unheard => unheard')
          /\ wrote' \in {wrote, TRUE}
          /\ pc' = "set" => wrote' = wrote /\ UNCHANGED <<result, changed>>
      BY <2>5 DEF Get, Set, SetRaises, server, Call, Compare, Abort, Finish, report, TypeOK
    <3>2. (req.test => wrote' = wrote) /\ (pc' = "done" /\ result' = "none" => req.test)
      BY <2>5 DEF Get, Set, SetRaises, Compare, Abort, Finish, SetResult, Inv, RunInv
    <3>3. Settled' => Settled
      BY <3>1 DEF Settled
    <3>4. Contract!Fade
      BY <3>1, <3>3 DEF Contract!Fade
    <3>5. CASE pc' = "set"
      BY <3>1, <3>4, <3>5 DEF Contract!Disturb
    <3>6. CASE pc' = "done"
      <4>1. wrote' /\ (~unheard' \/ result' = "true") => changed'
        <5>1. CASE Get
          BY <5>1 DEF Get, Inv, RunInv
        <5>2. CASE Set
          BY <5>2 DEF Set, Abort, Finish
        <5>3. CASE SetRaises
          BY <5>3 DEF SetRaises, Abort, Finish
        <5>4. QED BY <2>5, <5>1, <5>2, <5>3
      <4>2. Settled' => ~wrote' /\ ~changed' /\ (req.test \/ result' = "true")
        BY <3>1, <3>6 DEF Settled, Inv, Idempotent
      <4>3. result' \in {"true", "false", "none"} /\ changed' \in BOOLEAN
        BY DEF TypeOK
      <4>4. QED
        BY <3>1, <3>2, <3>4, <3>6, <4>1, <4>2, <4>3 DEF Contract!Return
    <3>7. QED BY <3>1, <3>5, <3>6
  <2>6. CASE UNCHANGED vars
    <3>1. Settled' = Settled
      BY <2>6 DEF vars, Settled
    <3>2. QED BY <2>6, <3>1 DEF vars
  <2>7. QED BY <2>1, <2>2, <2>3, <2>4, <2>5, <2>6 DEF Next
<1>3. QED
  BY <1>1, <1>2, SettingsTypes, Invariance, PTL DEF Spec, KeepsContract, Contract!Spec
=============================================================================
