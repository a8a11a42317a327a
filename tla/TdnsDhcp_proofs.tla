-------------------------- MODULE TdnsDhcp_proofs --------------------------
(***************************************************************************)
(* Proofs about TdnsDhcp, for all fields, values, requests and bounds.     *)
(***************************************************************************)
EXTENDS TdnsDhcp, TLAPS

-----------------------------------------------------------------------------
(* Lemmas about the operators. *)

\* An outcome is a pair, and only an applied call is answered ok.
LEMMA OutcomeShape ==
  ASSUME NEW o \in Outcome
  PROVE  o.applied \in BOOLEAN /\ o.reply \in {"ok", "nok", "raise"}
         /\ (o.reply = "ok" => o.applied)
BY DEF Outcome, Reply

\* A call spends at most the faults that are left, and never acts on a
\* request that the server cannot serve.
LEMMA CallBudget ==
  ASSUME TypeOK, NEW o, NEW can \in BOOLEAN, Call(o, can)
  PROVE  /\ faults' \in 0..MaxFaults
         /\ faulted' \in BOOLEAN
         /\ o \in Outcome
         /\ o.applied => can
BY DhcpAssumption DEF TypeOK, Call, Possible, FaultsOf

\* A run remembers its faults, and a call the server could serve that is not
\* answered ok is one.
LEMMA CallFaults ==
  ASSUME TypeOK, NEW o, NEW can \in BOOLEAN, Call(o, can)
  PROVE  /\ faulted => faulted'
         /\ can /\ o.reply # "ok" => faulted'
<1>1. can /\ o.reply # "ok" => o # Undisturbed(can)
  BY DEF Undisturbed
<1>2. QED BY <1>1 DEF Call

\* Laying the wanted fields over options gives options.
LEMMA OverlayOptions ==
  ASSUME NEW base \in Options,
         NEW want \in [Fields -> Values \cup {Unmanaged}]
  PROVE  Overlay(base, want) \in Options
BY DEF Overlay, Options

\* Options over which a request is laid give it what it wants.
LEMMA OverlaySatisfies ==
  ASSUME NEW base, NEW want
  PROVE  /\ \A f \in Fields : want[f] \in {Unmanaged, Overlay(base, want)[f]}
         /\ \A f \in Fields : want[f] = Unmanaged => Overlay(base, want)[f] = base[f]
BY DEF Overlay

\* The parts of a request.
LEMMA RequestShape ==
  ASSUME NEW r \in Requests
  PROVE  /\ r.fn \in {"managed", "absent"}
         /\ r.want \in [Fields -> Values \cup {Unmanaged}]
         /\ r.enable \in {"unset", "on", "off"}
         /\ r.test \in BOOLEAN /\ r.legal \in BOOLEAN
BY DhcpAssumption DEF Request

\* The parts of a scope.
LEMMA ScopeShape ==
  ASSUME NEW s \in Scopes
  PROVE  s.exists \in BOOLEAN /\ s.opts \in Options /\ s.enabled \in BOOLEAN
BY DEF Scopes

LEMMA NoScopeIsScope == NoScope \in Scopes
BY DhcpAssumption DEF NoScope, Scopes

\* What the server does with a set, an enable and a delete is a scope.
LEMMA ServerScopes ==
  ASSUME TypeOK, NEW o \in Outcome, NEW on \in BOOLEAN
  PROVE  /\ dhcpscope_set(o) \subseteq Scopes
         /\ dhcpscope_enable(o, on) \in Scopes
         /\ dhcpscope_delete(o) \in Scopes
<1>1. dhcpscope_set(o) \subseteq Scopes
  <2>1. scope \in Scopes /\ scope.enabled \in BOOLEAN /\ opts \in Options
    BY ScopeShape DEF TypeOK
  <2>2. \A e \in BOOLEAN : [exists |-> TRUE, opts |-> opts, enabled |-> e] \in Scopes
    BY <2>1 DEF Scopes
  <2>3. QED BY <2>1, <2>2 DEF dhcpscope_set
<1>2. dhcpscope_enable(o, on) \in Scopes
  BY DEF dhcpscope_enable, TypeOK, Scopes
<1>3. dhcpscope_delete(o) \in Scopes
  BY NoScopeIsScope DEF dhcpscope_delete, TypeOK
<1>4. QED BY <1>1, <1>2, <1>3

-----------------------------------------------------------------------------
(* Type correctness. *)

\* A finished plan leaves variables of the right kind.
LEMMA PlanType ==
  ASSUME TypeOK, NEW n \in BOOLEAN, NEW o \in Options, NEW t \in BOOLEAN,
         NEW d \in BOOLEAN, Plan(n, o, t, d)
  PROVE  /\ new' \in BOOLEAN /\ opts' \in Options /\ toggle' \in BOOLEAN
         /\ pc' \in Labels /\ changed' \in BOOLEAN
         /\ result' \in {"true", "false", "none"}
BY DEF Plan, Finish, Goto, report, TypeOK, Labels

LEMMA TypeInit == Init => TypeOK
<1> SUFFICES ASSUME Init PROVE TypeOK
  OBVIOUS
<1>1. scope \in Scopes /\ before \in Scopes
  BY NoScopeIsScope DEF Init
<1>2. faults \in 0..MaxFaults /\ edits \in 0..MaxEdits
  BY DhcpAssumption DEF Init
<1>3. opts \in Options
  BY DhcpAssumption DEF Init
<1>4. /\ req \in Requests /\ pc \in Labels /\ new \in BOOLEAN
      /\ toggle \in BOOLEAN /\ changed \in BOOLEAN
      /\ result \in {"true", "false", "none"}
      /\ wrote \in BOOLEAN /\ misread \in BOOLEAN /\ raced \in BOOLEAN
      /\ faulted \in BOOLEAN /\ unheard \in BOOLEAN
  BY DEF Init, Labels
<1>5. QED BY <1>1, <1>2, <1>3, <1>4 DEF TypeOK

LEMMA TypeNext == TypeOK /\ [Next]_vars => TypeOK'
<1> SUFFICES ASSUME TypeOK, [Next]_vars PROVE TypeOK'
  OBVIOUS
<1> USE DEF Labels
<1>1. CASE Start
  BY <1>1, DhcpAssumption DEF Start, TypeOK, server
<1>2. CASE Exists
  <2>1. PICK o \in Outcome : Call(o, TRUE) /\ (ManagedExists(o) \/ AbsentExists(o))
    BY <1>2 DEF Exists
  <2>2. faults' \in 0..MaxFaults /\ faulted' \in BOOLEAN
    BY <2>1, CallBudget
  <2>3. UNCHANGED <<scope, edits, req, before, wrote, raced>>
    BY <1>2 DEF Exists, server
  <2>4. /\ new' \in BOOLEAN /\ opts' \in Options /\ toggle' \in BOOLEAN
        /\ pc' \in Labels /\ changed' \in BOOLEAN
        /\ result' \in {"true", "false", "none"}
        /\ misread' \in BOOLEAN /\ unheard' \in BOOLEAN
    <3>1. CASE ManagedExists(o)
      <4>1. Overlay(Default, req.want) \in Options
        BY OverlayOptions, RequestShape, DhcpAssumption DEF TypeOK
      <4>2. HasEnable(req) \in BOOLEAN
        BY DEF HasEnable
      <4>3. CASE o.reply = "raise" /\ Abort /\ UNCHANGED <<locals, misread>>
        BY <4>3 DEF Abort, Finish, locals, TypeOK
      <4>4. CASE /\ o.reply # "raise" /\ ~dhcpscope_exists(o)
                 /\ Plan(TRUE, Overlay(Default, req.want), HasEnable(req), TRUE)
                 /\ misread' = scope.exists
                 /\ UNCHANGED unheard
        BY <4>1, <4>2, <4>4, PlanType, ScopeShape DEF TypeOK
      <4>5. CASE /\ dhcpscope_exists(o)
                 /\ Goto(IF HasEnable(req) THEN "enabled" ELSE "get")
                 /\ UNCHANGED <<locals, misread, unheard>>
        BY <4>5 DEF Goto, report, locals, TypeOK
      <4>6. QED BY <3>1, <4>3, <4>4, <4>5 DEF ManagedExists
    <3>2. CASE AbsentExists(o)
      <4>1. dhcpscope_exists(o) \in BOOLEAN /\ scope.exists \in BOOLEAN
        BY ScopeShape DEF dhcpscope_exists, TypeOK
      <4>2. QED
        BY <3>2, <4>1 DEF AbsentExists, Abort, Finish, Goto, report, locals, TypeOK
    <3>3. QED BY <2>1, <3>1, <3>2
  <2>5. QED BY <2>2, <2>3, <2>4 DEF TypeOK
<1>3. CASE Enabled
  <2>1. PICK o \in Outcome :
       /\ Call(o, TRUE)
       /\ \/ o.reply # "ok" /\ Abort /\ UNCHANGED toggle
          \/ /\ o.reply = "ok"
             /\ toggle' = (WantsOn(req) # dhcpscope_enabled)
             /\ Goto("get")
             /\ UNCHANGED unheard
    BY <1>3 DEF Enabled
  <2>2. faults' \in 0..MaxFaults /\ faulted' \in BOOLEAN
    BY <2>1, CallBudget
  <2>3. QED
    BY <1>3, <2>1, <2>2 DEF Enabled, Abort, Finish, Goto, report, server, TypeOK
<1>4. CASE Get
  <2>1. PICK o \in Outcome :
       /\ Call(o, scope.exists)
       /\ \/ o.reply # "ok" /\ Abort /\ UNCHANGED locals
          \/ /\ o.reply = "ok"
             /\ Plan(FALSE, Overlay(scope.opts, req.want), toggle,
                     toggle \/ Overlay(scope.opts, req.want) # scope.opts)
             /\ UNCHANGED unheard
    BY <1>4 DEF Get
  <2>2. faults' \in 0..MaxFaults /\ faulted' \in BOOLEAN
    BY <2>1, CallBudget, ScopeShape DEF TypeOK
  <2>3. Overlay(scope.opts, req.want) \in Options
    BY OverlayOptions, RequestShape, ScopeShape DEF TypeOK
  <2>4. CASE o.reply # "ok" /\ Abort /\ UNCHANGED locals
    BY <1>4, <2>2, <2>4 DEF Get, Abort, Finish, locals, server, TypeOK
  <2>5. CASE /\ o.reply = "ok"
             /\ Plan(FALSE, Overlay(scope.opts, req.want), toggle,
                     toggle \/ Overlay(scope.opts, req.want) # scope.opts)
             /\ UNCHANGED unheard
    <3>1. (toggle \/ Overlay(scope.opts, req.want) # scope.opts) \in BOOLEAN
      BY DEF TypeOK
    <3>2. /\ new' \in BOOLEAN /\ opts' \in Options /\ toggle' \in BOOLEAN
          /\ pc' \in Labels /\ changed' \in BOOLEAN
          /\ result' \in {"true", "false", "none"}
      BY <2>3, <2>5, <3>1, PlanType DEF TypeOK
    <3>3. QED BY <1>4, <2>2, <2>5, <3>2 DEF Get, server, TypeOK
  <2>6. QED BY <2>1, <2>4, <2>5
<1>5. CASE Set
  <2>1. PICK o \in Outcome :
       /\ Call(o, Acceptable(opts))
       /\ scope' \in dhcpscope_set(o)
       /\ wrote' = (wrote \/ o.applied)
       /\ unheard' = (unheard \/ (o.applied /\ o.reply # "ok"))
       /\ \/ o.reply # "ok" /\ Finish("false", FALSE)
          \/ o.reply = "ok" /\ toggle /\ Goto("toggle")
          \/ o.reply = "ok" /\ ~toggle /\ Finish("true", TRUE)
    BY <1>5 DEF Set
  <2>2. faults' \in 0..MaxFaults /\ faulted' \in BOOLEAN
    BY <2>1, CallBudget DEF Acceptable
  <2>3. scope' \in Scopes
    BY <2>1, ServerScopes
  <2>4. QED
    BY <1>5, <2>1, <2>2, <2>3, OutcomeShape DEF Set, Finish, Goto, report, locals, TypeOK
<1>6. CASE Toggle
  <2>1. PICK o \in Outcome :
       /\ Call(o, scope.exists)
       /\ scope' = dhcpscope_enable(o, WantsOn(req))
       /\ wrote' = (wrote \/ o.applied)
       /\ \/ o.reply = "raise" /\ Abort
          \/ o.reply = "nok" /\ Finish("false", TRUE)
             /\ unheard' = (unheard \/ o.applied)
          \/ o.reply = "ok" /\ Finish("true", TRUE) /\ UNCHANGED unheard
    BY <1>6 DEF Toggle
  <2>2. faults' \in 0..MaxFaults /\ faulted' \in BOOLEAN
    BY <2>1, CallBudget, ScopeShape DEF TypeOK
  <2>3. scope' \in Scopes
    BY <2>1, ServerScopes DEF WantsOn
  <2>4. QED
    BY <1>6, <2>1, <2>2, <2>3, OutcomeShape DEF Toggle, Abort, Finish, locals, TypeOK
<1>7. CASE DeleteList
  <2>1. PICK o \in Outcome :
       /\ Call(o, TRUE)
       /\ \/ o.reply # "ok" /\ Abort
          \/ o.reply = "ok" /\ ~scope.exists /\ Finish("true", TRUE)
             /\ UNCHANGED unheard
          \/ o.reply = "ok" /\ scope.exists /\ Goto("delete")
             /\ UNCHANGED unheard
    BY <1>7 DEF DeleteList
  <2>2. faults' \in 0..MaxFaults /\ faulted' \in BOOLEAN
    BY <2>1, CallBudget
  <2>3. QED
    BY <1>7, <2>1, <2>2 DEF DeleteList, Abort, Finish, Goto, report, locals, server, TypeOK
<1>8. CASE Delete
  <2>1. PICK o \in Outcome :
       /\ Call(o, scope.exists)
       /\ scope' = dhcpscope_delete(o)
       /\ wrote' = (wrote \/ o.applied)
       /\ \/ o.reply = "raise" /\ Abort
          \/ o.reply = "nok" /\ Finish("false", FALSE)
             /\ unheard' = (unheard \/ o.applied)
          \/ o.reply = "ok" /\ Finish("true", TRUE) /\ UNCHANGED unheard
    BY <1>8 DEF Delete
  <2>2. faults' \in 0..MaxFaults /\ faulted' \in BOOLEAN
    BY <2>1, CallBudget, ScopeShape DEF TypeOK
  <2>3. scope' \in Scopes
    BY <2>1, ServerScopes
  <2>4. QED
    BY <1>8, <2>1, <2>2, <2>3, OutcomeShape DEF Delete, Abort, Finish, locals, TypeOK
<1>9. CASE Killed
  BY <1>9, DhcpAssumption DEF Killed, server, locals, report, ghosts, TypeOK
<1>10. CASE Console
  BY <1>10, NoScopeIsScope, DhcpAssumption DEF Console, locals, report, TypeOK
<1>11. CASE Rewrite
  BY <1>11, DhcpAssumption DEF Rewrite, locals, report, ghosts, TypeOK
<1>12. CASE UNCHANGED vars
  BY <1>12 DEF vars, TypeOK
<1>13. QED
  BY <1>1, <1>2, <1>3, <1>4, <1>5, <1>6, <1>7, <1>8, <1>9, <1>10, <1>11, <1>12
     DEF Next, Step

\* Every variable always holds a value of its kind.
THEOREM TypeCorrect == Spec => []TypeOK
<1>1. Init => TypeOK BY TypeInit
<1>2. TypeOK /\ [Next]_vars => TypeOK' BY TypeNext
<1>3. QED BY <1>1, <1>2, PTL DEF Spec

-----------------------------------------------------------------------------
(* The inductive invariant. *)

\* Options that already hold what is wanted are not changed by the overlay.
LEMMA OverlayOfHeld ==
  ASSUME NEW base \in Options, Holds(base)
  PROVE  Overlay(base, req.want) = base
BY DEF Overlay, Options, Holds

Inv == /\ RunInv
       /\ TruthfulSuccess /\ KeepsUnmanaged /\ HonestReport /\ Idempotent

LEMMA InvInit == Init => Inv
BY DEF Init, Inv, RunInv, ReadsFirst, AtExists, AtEnabled, AtSet, AtToggle,
  AtDelete, MisreadIsFault, Heard, TruthfulSuccess, KeepsUnmanaged, HonestReport,
  Idempotent, Running

LEMMA InvStart == TypeOK /\ Inv /\ Start => Inv'
BY DEF Start, Inv, RunInv, ReadsFirst, AtExists, AtEnabled, AtSet, AtToggle,
  AtDelete, MisreadIsFault, Heard, TruthfulSuccess, KeepsUnmanaged, HonestReport,
  Idempotent, Running, server

\* The world outside the run either marks it as raced or leaves it idle.
LEMMA InvOutside == TypeOK /\ Inv /\ (Killed \/ Console \/ Rewrite) => Inv'
<1> SUFFICES ASSUME TypeOK, Inv, Killed \/ Console \/ Rewrite PROVE Inv'
  OBVIOUS
<1> USE DEF Inv, RunInv, ReadsFirst, AtExists, AtEnabled, AtSet, AtToggle,
  AtDelete, MisreadIsFault, Heard, TruthfulSuccess, KeepsUnmanaged, HonestReport,
  Idempotent, Running, server, locals, report, ghosts
<1>1. CASE Killed BY <1>1 DEF Killed
<1>2. CASE Console BY <1>2 DEF Console, Holds
<1>3. CASE Rewrite BY <1>3 DEF Rewrite
<1>4. QED BY <1>1, <1>2, <1>3

LEMMA InvStutter == Inv /\ UNCHANGED vars => Inv'
BY DEF vars, Inv, RunInv, ReadsFirst, AtExists, AtEnabled, AtSet, AtToggle,
  AtDelete, MisreadIsFault, Heard, TruthfulSuccess, KeepsUnmanaged, HonestReport,
  Idempotent, Running, Holds, AgreeElsewhere, NeedsToggle, Satisfies, HasEnable,
  WantsOn

LEMMA InvDelete == TypeOK /\ Inv /\ (DeleteList \/ Delete) => Inv'
<1> SUFFICES ASSUME TypeOK, Inv, DeleteList \/ Delete PROVE Inv'
  OBVIOUS
<1> USE DEF Inv, RunInv, ReadsFirst, AtExists, AtEnabled, AtSet, AtToggle,
  AtDelete, MisreadIsFault, Heard, TruthfulSuccess, KeepsUnmanaged, HonestReport,
  Idempotent, Running, server, locals, Satisfies
<1>1. CASE DeleteList
  <2>1. PICK o \in Outcome :
       /\ Call(o, TRUE)
       /\ \/ o.reply # "ok" /\ Abort
          \/ o.reply = "ok" /\ ~scope.exists /\ Finish("true", TRUE)
             /\ UNCHANGED unheard
          \/ o.reply = "ok" /\ scope.exists /\ Goto("delete")
             /\ UNCHANGED unheard
    BY <1>1 DEF DeleteList
  <2>2. faulted => faulted'
    BY <2>1 DEF Call
  <2>3. QED BY <1>1, <2>1, <2>2 DEF DeleteList, Abort, Finish, Goto, report
<1>2. CASE Delete
  <2>1. PICK o \in Outcome :
       /\ Call(o, scope.exists)
       /\ scope' = dhcpscope_delete(o)
       /\ wrote' = (wrote \/ o.applied)
       /\ \/ o.reply = "raise" /\ Abort
          \/ o.reply = "nok" /\ Finish("false", FALSE)
             /\ unheard' = (unheard \/ o.applied)
          \/ o.reply = "ok" /\ Finish("true", TRUE) /\ UNCHANGED unheard
    BY <1>2 DEF Delete
  <2>2. faulted => faulted'
    BY <2>1 DEF Call
  <2>3. Heard'
    BY <1>2, <2>1 DEF Delete, Abort, Finish, TypeOK
  <2>4. UNCHANGED <<raced, misread, before, req>> /\ pc = "delete" /\ pc' = "done"
    BY <1>2, <2>1 DEF Delete, Abort, Finish
  <2>5. TruthfulSuccess'
    BY <2>1, <2>4, OutcomeShape DEF dhcpscope_delete, NoScope, Abort, Finish
  <2>6. HonestReport'
    BY <2>1, <2>4, OutcomeShape DEF Abort, Finish, TypeOK
  <2>7. Idempotent' /\ MisreadIsFault'
    BY <2>1, <2>2, <2>4
  <2>8. QED BY <2>3, <2>4, <2>5, <2>6, <2>7
<1>3. QED BY <1>1, <1>2

LEMMA InvExists == TypeOK /\ Inv /\ Exists => Inv'
<1> SUFFICES ASSUME TypeOK, Inv, Exists PROVE Inv'
  OBVIOUS
<1> USE DEF Inv, RunInv, ReadsFirst, AtExists, AtEnabled, AtSet, AtToggle,
  AtDelete, MisreadIsFault, Heard, TruthfulSuccess, KeepsUnmanaged, HonestReport,
  Idempotent, Running, server
<1>1. PICK o \in Outcome : Call(o, TRUE) /\ (ManagedExists(o) \/ AbsentExists(o))
  BY DEF Exists
<1>2. /\ pc = "exists" /\ UNCHANGED <<scope, edits, req, before, wrote, raced>>
  BY DEF Exists
<1>3. (faulted => faulted') /\ (o.reply # "ok" => faulted')
  BY <1>1, CallFaults
<1>4. CASE ManagedExists(o)
  <2>1. CASE o.reply = "raise" /\ Abort /\ UNCHANGED <<locals, misread>>
    BY <1>2, <1>3, <1>4, <2>1 DEF ManagedExists, Abort, Finish, locals
  <2>2. CASE /\ o.reply # "raise" /\ ~dhcpscope_exists(o)
             /\ Plan(TRUE, Overlay(Default, req.want), HasEnable(req), TRUE)
             /\ misread' = scope.exists
             /\ UNCHANGED unheard
    <3>1. misread' => faulted'
      BY <1>3, <2>2 DEF dhcpscope_exists
    <3>2. \A f \in Fields : req.want[f] \in {Unmanaged, Overlay(Default, req.want)[f]}
      BY OverlaySatisfies
    <3>3. scope.exists => misread'
      BY <2>2
    <3>4. req.fn = "managed" /\ wrote = FALSE /\ wrote' = FALSE
      BY <1>2, <1>4 DEF ManagedExists, TypeOK
    <3>5. CASE pc' = "set"
      <4>1. /\ ~req.test /\ new' = TRUE /\ toggle' = HasEnable(req)
            /\ opts' = Overlay(Default, req.want)
        BY <2>2, <3>5 DEF Plan, Finish
      <4>2. Holds(opts)'
        BY <1>2, <3>2, <4>1 DEF Holds
      <4>3. QED BY <1>2, <2>2, <3>1, <3>3, <3>4, <3>5, <4>1, <4>2 DEF HasEnable
    <3>6. CASE pc' = "done" /\ result' # "true"
      BY <1>2, <2>2, <3>1, <3>3, <3>4, <3>6 DEF Satisfies
    <3>7. QED BY <2>2, <3>5, <3>6 DEF Plan, Finish, Goto
  <2>3. CASE /\ dhcpscope_exists(o)
             /\ Goto(IF HasEnable(req) THEN "enabled" ELSE "get")
             /\ UNCHANGED <<locals, misread, unheard>>
    BY <1>2, <1>3, <1>4, <2>3
       DEF ManagedExists, dhcpscope_exists, Goto, locals, report, NeedsToggle, HasEnable, TypeOK
  <2>4. QED BY <1>4, <2>1, <2>2, <2>3 DEF ManagedExists
<1>5. CASE AbsentExists(o)
  <2>1. misread' => faulted'
    BY <1>1, <1>2, <1>3, <1>5 DEF AbsentExists, dhcpscope_exists, Abort
  <2>2. CASE o.reply = "raise"
    BY <1>2, <1>3, <1>5, <2>1, <2>2 DEF AbsentExists, Abort, Finish
  <2>3. CASE o.reply # "raise"
    <3>1. UNCHANGED <<unheard, req, before, wrote, raced, scope>> /\ ~unheard
          /\ ~wrote /\ req.fn = "absent" /\ pc' \in {"done", "dellist"}
      BY <1>2, <1>5, <2>3 DEF AbsentExists, Abort, Finish, Goto
    <3>2. Heard' /\ HonestReport' /\ ReadsFirst'
      BY <1>2, <3>1
    <3>3. TruthfulSuccess' /\ KeepsUnmanaged'
      BY <1>2, <1>5, <2>3, <3>1
         DEF AbsentExists, dhcpscope_exists, Finish, Goto, Satisfies, TypeOK
    <3>4. Idempotent' /\ AtDelete'
      BY <1>2, <1>5, <2>3, <3>1
         DEF AbsentExists, dhcpscope_exists, Finish, Goto, Satisfies, TypeOK
    <3>5. QED BY <2>1, <3>1, <3>2, <3>3, <3>4
  <2>4. QED BY <2>2, <2>3
<1>6. QED BY <1>1, <1>4, <1>5

LEMMA InvEnabled == TypeOK /\ Inv /\ Enabled => Inv'
<1> SUFFICES ASSUME TypeOK, Inv, Enabled PROVE Inv'
  OBVIOUS
<1> USE DEF Inv, RunInv, ReadsFirst, AtExists, AtEnabled, AtSet, AtToggle,
  AtDelete, MisreadIsFault, Heard, TruthfulSuccess, KeepsUnmanaged, HonestReport,
  Idempotent, Running, server
<1>1. PICK o \in Outcome :
       /\ Call(o, TRUE)
       /\ \/ o.reply # "ok" /\ Abort /\ UNCHANGED toggle
          \/ /\ o.reply = "ok"
             /\ toggle' = (WantsOn(req) # dhcpscope_enabled)
             /\ Goto("get")
             /\ UNCHANGED unheard
  BY DEF Enabled
<1>2. /\ pc = "enabled"
      /\ UNCHANGED <<scope, edits, req, new, opts, before, wrote, misread, raced>>
  BY DEF Enabled
<1>3. (faulted => faulted') /\ (o.reply # "ok" => faulted')
  BY <1>1, CallFaults
<1>4. CASE o.reply # "ok" /\ Abort /\ UNCHANGED toggle
  BY <1>2, <1>3, <1>4 DEF Abort, Finish
<1>5. CASE /\ o.reply = "ok"
           /\ toggle' = (WantsOn(req) # dhcpscope_enabled)
           /\ Goto("get")
           /\ UNCHANGED unheard
  <2>1. HasEnable(req)' /\ HasEnable(req)
    BY <1>2 DEF HasEnable
  <2>2. ~raced => toggle' = (WantsOn(req) # scope.enabled)
    BY <1>2, <1>5, ScopeShape DEF dhcpscope_enabled, TypeOK, WantsOn
  <2>3. ~raced => toggle' = NeedsToggle'
    BY <1>2, <2>1, <2>2, ScopeShape DEF NeedsToggle, TypeOK, WantsOn
  <2>4. pc' = "get"
    BY <1>5 DEF Goto
  <2>5. QED BY <1>2, <1>3, <1>5, <2>1, <2>3, <2>4
<1>6. QED BY <1>1, <1>4, <1>5

LEMMA InvGet == TypeOK /\ Inv /\ Get => Inv'
<1> SUFFICES ASSUME TypeOK, Inv, Get PROVE Inv'
  OBVIOUS
<1> USE DEF Inv, RunInv, ReadsFirst, AtExists, AtEnabled, AtSet, AtToggle,
  AtDelete, MisreadIsFault, Heard, TruthfulSuccess, KeepsUnmanaged, HonestReport,
  Idempotent, Running, server
<1> DEFINE merged == Overlay(scope.opts, req.want)
<1>1. PICK o \in Outcome :
       /\ Call(o, scope.exists)
       /\ \/ o.reply # "ok" /\ Abort /\ UNCHANGED locals
          \/ /\ o.reply = "ok"
             /\ Plan(FALSE, merged, toggle, toggle \/ merged # scope.opts)
             /\ UNCHANGED unheard
  BY DEF Get
<1>2. /\ pc = "get"
      /\ UNCHANGED <<scope, edits, req, before, wrote, misread, raced>>
  BY DEF Get
<1>3. (faulted => faulted')
  BY <1>1 DEF Call
<1>4. CASE o.reply # "ok" /\ Abort /\ UNCHANGED locals
  <2>1. scope.exists => faulted'
    BY <1>1, <1>4, CallFaults, ScopeShape DEF TypeOK
  <2>2. QED BY <1>2, <1>3, <1>4, <2>1 DEF Abort, Finish
<1>5. CASE /\ o.reply = "ok"
           /\ Plan(FALSE, merged, toggle, toggle \/ merged # scope.opts)
           /\ UNCHANGED unheard
  <2>1. /\ \A f \in Fields : req.want[f] \in {Unmanaged, merged[f]}
        /\ \A f \in Fields : req.want[f] = Unmanaged => merged[f] = scope.opts[f]
    BY OverlaySatisfies
  <2>2. Holds(scope.opts) => merged = scope.opts
    BY OverlayOfHeld, ScopeShape DEF TypeOK
  <2>3. Satisfies(scope, req) <=> scope.exists /\ Holds(scope.opts)
                  /\ (req.enable = "on" => scope.enabled)
                  /\ (req.enable = "off" => ~scope.enabled)
    BY <1>2 DEF Satisfies, Holds
  <2>4. req.enable \in {"unset", "on", "off"} /\ scope.enabled \in BOOLEAN
        /\ scope.exists \in BOOLEAN /\ wrote = FALSE /\ toggle \in BOOLEAN
    BY <1>2, RequestShape, ScopeShape DEF TypeOK
  <2>5. scope.exists
    BY <1>1, <1>5, OutcomeShape, <2>4 DEF Call, Possible
  <2>6. ~raced => (toggle <=> /\ HasEnable(req)
                              /\ WantsOn(req) # scope.enabled)
    BY <1>2 DEF NeedsToggle
  <2> HIDE DEF merged
  <2>7. CASE pc' = "set"
    <3>1. /\ ~req.test /\ new' = FALSE /\ toggle' = toggle /\ opts' = merged
          /\ (toggle \/ merged # scope.opts)
      BY <1>5, <2>7 DEF Plan, Finish
    <3>2. Holds(opts)' /\ AgreeElsewhere(opts, scope.opts)'
      BY <1>2, <2>1, <3>1 DEF Holds, AgreeElsewhere
    <3>3. toggle \/ ~Holds(scope.opts)
      BY <2>2, <3>1
    <3>4. toggle' \/ ~Holds(scope.opts)'
      BY <1>2, <3>1, <3>3 DEF Holds
    <3>5. NeedsToggle' = NeedsToggle /\ HasEnable(req)' = HasEnable(req)
      BY <1>2 DEF NeedsToggle, HasEnable, WantsOn
    <3>6. QED BY <1>2, <1>3, <1>5, <2>5, <2>6, <2>7, <3>1, <3>2, <3>4, <3>5
  <2>8. CASE pc' = "done"
    <3>1. CASE result' = "true"
      <4>1. ~toggle /\ merged = scope.opts /\ changed' = FALSE /\ ~req.test
        BY <1>5, <2>8, <3>1 DEF Plan, Finish, Goto
      <4>2. Holds(scope.opts)
        BY <2>1, <4>1 DEF Holds
      <4>3. ~raced => Satisfies(scope, req)
        BY <2>3, <2>4, <2>5, <2>6, <4>1, <4>2 DEF HasEnable, WantsOn
      <4>4. TruthfulSuccess'
        BY <1>2, <4>3 DEF Satisfies
      <4>5. QED BY <1>2, <1>3, <1>5, <2>4, <2>8, <3>1, <4>1, <4>4
    <3>2. CASE result' # "true"
      <4>1. changed' => toggle \/ merged # scope.opts
        BY <1>5, <2>8 DEF Plan, Finish, Goto
      <4>2. req.legal /\ ~req.test => toggle \/ merged # scope.opts
        BY <1>5, <2>8, <3>2 DEF Plan, Finish, Goto
      <4>3. ~raced /\ Satisfies(before, req) => ~changed' /\ ~(req.legal /\ ~req.test)
        BY <1>2, <2>2, <2>3, <2>4, <2>6, <4>1, <4>2 DEF HasEnable, WantsOn
      <4>4. Idempotent'
        BY <1>2, <2>4, <4>3 DEF Satisfies
      <4>5. QED BY <1>2, <1>3, <2>4, <2>8, <3>2, <4>4
    <3>3. QED BY <3>1, <3>2
  <2>9. QED BY <1>5, <2>7, <2>8 DEF Plan, Finish, Goto
<1>6. QED BY <1>1, <1>4, <1>5

LEMMA InvSet == TypeOK /\ Inv /\ Set => Inv'
<1> SUFFICES ASSUME TypeOK, Inv, Set PROVE Inv'
  OBVIOUS
<1> USE DEF Inv, RunInv, ReadsFirst, AtExists, AtEnabled, AtSet, AtToggle,
  AtDelete, MisreadIsFault, Heard, TruthfulSuccess, KeepsUnmanaged, HonestReport,
  Idempotent, Running
<1>1. PICK o \in Outcome :
       /\ Call(o, Acceptable(opts))
       /\ scope' \in dhcpscope_set(o)
       /\ wrote' = (wrote \/ o.applied)
       /\ unheard' = (unheard \/ (o.applied /\ o.reply # "ok"))
       /\ \/ o.reply # "ok" /\ Finish("false", FALSE)
          \/ o.reply = "ok" /\ toggle /\ Goto("toggle")
          \/ o.reply = "ok" /\ ~toggle /\ Finish("true", TRUE)
  BY DEF Set
<1>2. /\ pc = "set" /\ wrote = FALSE /\ req.fn = "managed"
      /\ UNCHANGED <<edits, req, new, opts, toggle, before, misread, raced>>
  BY DEF Set, locals, TypeOK
<1>3. faulted => faulted'
  BY <1>1, CallFaults DEF Acceptable
<1>3a. Heard'
  BY <1>1, <1>2 DEF Finish, Goto, TypeOK
<1>4. ~raced => scope = before
  BY <1>2
<1>5. req.enable \in {"unset", "on", "off"}
  BY RequestShape DEF TypeOK
\* Either nothing happened, or the scope holds the options of the run.
<1>6. \/ scope' = scope /\ ~o.applied
      \/ /\ o.applied /\ scope'.exists /\ scope'.opts = opts
         /\ scope.exists => scope'.enabled = scope.enabled
  BY <1>1, OutcomeShape DEF dhcpscope_set
\* A run that gets here undisturbed had something to do.
<1>7. ~raced /\ ~faulted => ~Satisfies(before, req)
  <2>1. CASE new
    BY <1>2, <1>4, <2>1 DEF Satisfies
  <2>2. CASE ~new
    <3>1. ~raced => NeedsToggle \/ ~Holds(scope.opts)
      BY <1>2, <2>2
    <3>2. Satisfies(scope, req) => Holds(scope.opts)
      BY <1>2 DEF Satisfies, Holds
    <3>3. Satisfies(scope, req) => ~NeedsToggle
      BY <1>2, <1>5, ScopeShape DEF Satisfies, NeedsToggle, HasEnable, WantsOn, TypeOK
    <3>4. QED BY <1>4, <3>1, <3>2, <3>3
  <2>3. QED BY <2>1, <2>2
\* Fields the pillar leaves alone survive, unless the run misread the scope.
<1>8. ~raced /\ ~misread /\ before.exists /\ scope'.opts = opts
        => AgreeElsewhere(scope.opts, before.opts)' /\ AgreeElsewhere(opts, before.opts)
  BY <1>2, <1>4 DEF AgreeElsewhere
<1>9. KeepsUnmanaged'
  BY <1>2, <1>4, <1>6, <1>8, RequestShape DEF AgreeElsewhere, HasEnable
<1>10. CASE o.reply # "ok" /\ Finish("false", FALSE)
  BY <1>1, <1>2, <1>3, <1>6, <1>7, <1>9, <1>10, OutcomeShape DEF Finish, Satisfies
<1>11. CASE o.reply = "ok" /\ toggle /\ Goto("toggle")
  <2>1. scope'.exists /\ scope'.opts = opts
    BY <1>6, <1>11, OutcomeShape
  <2>2. Holds(scope.opts)'
    BY <1>2, <2>1 DEF Holds
  <2>3. HasEnable(req)' /\ ~req.test
    BY <1>2, <1>11 DEF HasEnable
  <2>4. Satisfies(before, req)' = Satisfies(before, req)
    BY <1>2 DEF Satisfies
  <2>5. QED
    BY <1>2, <1>3, <1>3a, <1>7, <1>8, <1>9, <1>11, <2>1, <2>2, <2>3, <2>4 DEF Goto
<1>12. CASE o.reply = "ok" /\ ~toggle /\ Finish("true", TRUE)
  <2>1. scope'.exists /\ scope'.opts = opts /\ (scope.exists => scope'.enabled = scope.enabled)
    BY <1>6, <1>12, OutcomeShape
  <2>2. ~raced => Satisfies(scope, req)'
    <3>1. \A f \in Fields : req.want[f] \in {Unmanaged, opts[f]}
      BY <1>2 DEF Holds
    <3>2. CASE new
      BY <1>2, <1>5, <1>12, <2>1, <3>1, <3>2 DEF Satisfies, HasEnable
    <3>3. CASE ~new
      <4>1. ~raced => scope.exists /\ ~NeedsToggle
        BY <1>2, <1>12, <3>3
      <4>2. scope.enabled \in BOOLEAN
        BY ScopeShape DEF TypeOK
      <4>3. ~raced => /\ req.enable = "on" => scope.enabled
                      /\ req.enable = "off" => ~scope.enabled
        BY <4>1, <4>2 DEF NeedsToggle, HasEnable, WantsOn
      <4>4. QED
        BY <1>2, <2>1, <3>1, <4>1, <4>3 DEF Satisfies
    <3>4. QED BY <3>2, <3>3
  <2>3. TruthfulSuccess'
    BY <1>2, <2>2
  <2>4. Idempotent'
    BY <1>2, <1>3, <1>7 DEF Satisfies
  <2>5. QED
    BY <1>2, <1>3, <1>3a, <1>9, <1>12, <2>3, <2>4 DEF Finish
<1>13. QED BY <1>1, <1>10, <1>11, <1>12

LEMMA InvToggle == TypeOK /\ Inv /\ Toggle => Inv'
<1> SUFFICES ASSUME TypeOK, Inv, Toggle PROVE Inv'
  OBVIOUS
<1> USE DEF Inv, RunInv, ReadsFirst, AtExists, AtEnabled, AtSet, AtToggle,
  AtDelete, MisreadIsFault, Heard, TruthfulSuccess, KeepsUnmanaged, HonestReport,
  Idempotent, Running
<1>1. PICK o \in Outcome :
       /\ Call(o, scope.exists)
       /\ scope' = dhcpscope_enable(o, WantsOn(req))
       /\ wrote' = (wrote \/ o.applied)
       /\ \/ o.reply = "raise" /\ Abort
          \/ o.reply = "nok" /\ Finish("false", TRUE)
             /\ unheard' = (unheard \/ o.applied)
          \/ o.reply = "ok" /\ Finish("true", TRUE) /\ UNCHANGED unheard
  BY DEF Toggle
<1>2. /\ pc = "toggle" /\ req.fn = "managed" /\ HasEnable(req)
      /\ UNCHANGED <<edits, req, new, opts, toggle, before, misread, raced>>
  BY DEF Toggle, locals
<1>3. faulted => faulted'
  BY <1>1, CallFaults, ScopeShape DEF TypeOK
<1>4. /\ scope'.exists = scope.exists /\ scope'.opts = scope.opts
      /\ o.applied => scope'.enabled = WantsOn(req)
  BY <1>1, ScopeShape DEF dhcpscope_enable, TypeOK, Scopes
<1>5. KeepsUnmanaged'
  BY <1>2, <1>4 DEF AgreeElsewhere, HasEnable
<1>6. Idempotent'
  BY <1>2, <1>3 DEF Satisfies
<1>7. CASE o.reply # "ok"
  BY <1>1, <1>2, <1>3, <1>5, <1>6, <1>7, OutcomeShape DEF Abort, Finish
<1>8. CASE o.reply = "ok"
  <2>1. scope'.enabled = WantsOn(req)
    BY <1>4, <1>8, OutcomeShape
  <2>2. ~raced => Satisfies(scope, req)'
    BY <1>2, <1>4, <2>1 DEF Satisfies, Holds, WantsOn
  <2>3. QED
    BY <1>1, <1>2, <1>3, <1>5, <1>6, <1>8, <2>2 DEF Finish
<1>9. QED BY <1>7, <1>8

LEMMA InvNext == TypeOK /\ Inv /\ [Next]_vars => Inv'
BY InvStart, InvOutside, InvStutter, InvDelete, InvExists, InvEnabled, InvGet,
   InvSet, InvToggle DEF Next, Step

\* What a run knows at each call, and all four promises, always hold.
LEMMA Invariance == Spec => []Inv
<1>1. TypeOK /\ Inv /\ [Next]_vars => Inv' BY InvNext
<1>2. QED BY InvInit, <1>1, TypeCorrect, PTL DEF Spec

-----------------------------------------------------------------------------
(* The theorems. *)

\* A success is true: the scope is as the request asks.
THEOREM Truthful == Spec => []TruthfulSuccess
<1>1. Inv => TruthfulSuccess BY DEF Inv
<1>2. QED BY <1>1, Invariance, PTL

\* What the pillar does not name survives every moment of a run.
THEOREM Keeps == Spec => []KeepsUnmanaged
<1>1. Inv => KeepsUnmanaged BY DEF Inv
<1>2. QED BY <1>1, Invariance, PTL

\* A change is never hidden by a run that heard its replies.
THEOREM Honest == Spec => []HonestReport
<1>1. Inv => HonestReport BY DEF Inv
<1>2. QED BY <1>1, Invariance, PTL

\* Applying twice is applying once.
THEOREM ApplyTwice == Spec => []Idempotent
<1>1. Inv => Idempotent BY DEF Inv
<1>2. QED BY <1>1, Invariance, PTL

\* dhcpscope_managed and dhcpscope_absent implement the contract of a Salt
\* state function: every step of theirs is one of its steps, or a stutter.
THEOREM Implements == Spec => KeepsContract
<1> USE DEF Running
<1>1. Init => Contract!Init
  BY RequestShape DEF Init, Contract!Init
<1>2. TypeOK /\ TypeOK' /\ Inv /\ Inv' /\ [Next]_vars => [Contract!Next]_(Contract!vars)
  <2> SUFFICES ASSUME TypeOK, TypeOK', Inv, Inv', [Next]_vars
               PROVE  [Contract!Next]_(Contract!vars)
    OBVIOUS
  <2> USE DEF Contract!Next, Contract!vars
  <2>1. CASE Start
    BY <2>1 DEF Start, Contract!Begin, server
  <2>2. CASE Killed
    BY <2>2 DEF Killed, Contract!Killed, Contract!Fade, locals, report, ghosts, server
  <2>3. CASE Console
    BY <2>3 DEF Console, Contract!Disturb, Contract!Fade, locals, report
  <2>4. CASE Rewrite
    BY <2>4, RequestShape DEF Rewrite, Contract!Rewrite, locals, report, ghosts, TypeOK
  <2>5. CASE Step
    <3>1. /\ req' = req /\ before' = before /\ raced' = raced
          /\ pc \notin {"idle", "done"} /\ pc' # "idle"
      BY <2>5 DEF Step, Exists, ManagedExists, AbsentExists, Enabled, Get, Set,
             Toggle, DeleteList, Delete, Plan, Abort, Finish, Goto, server, locals
    <3>1a. unheard => unheard'
      BY <2>5 DEF Inv, RunInv, Heard, Step, Exists, Enabled, Get, Set, Toggle,
                  DeleteList, Delete
    <3>2. wrote' \in {wrote, TRUE} /\ (req.test => wrote' = wrote)
      BY <2>5 DEF Step, Exists, Enabled, Get, Set, Toggle, DeleteList, Delete,
                  server, Inv, RunInv, AtSet, AtToggle, AtDelete, TypeOK
    <3>3. pc' # "done" => UNCHANGED <<result, changed>>
      BY <2>5 DEF Step, Exists, ManagedExists, AbsentExists, Enabled, Get, Set,
             Toggle, DeleteList, Delete, Plan, Abort, Finish, Goto, report
    <3>4. pc' = "done" /\ result' = "none" => req.test
      BY <2>5 DEF Step, Exists, ManagedExists, AbsentExists, Enabled, Get, Set,
             Toggle, DeleteList, Delete, Plan, Abort, Finish, Goto
    <3>5. pc' = "done" /\ (~unheard' \/ result' = "true") /\ wrote' => changed'
      BY DEF Inv, RunInv, Heard, HonestReport
    <3>6. faulted => faulted'
      BY <2>5 DEF Step, Exists, Enabled, Get, Set, Toggle, DeleteList, Delete, Call
    <3>7. Satisfies(before, req)' = Satisfies(before, req)
      BY <3>1 DEF Satisfies
    <3>8. pc' # "done" /\ wrote' # wrote => pc' = "toggle"
      BY <2>5 DEF Step, Exists, Enabled, Get, Set, Toggle, DeleteList, Delete,
                  Abort, Finish, Goto, server
    <3>9. CASE pc' = "done"
      <4>1. /\ Contract!Fade
            /\ result' \in {"true", "false", "none"} /\ changed' \in BOOLEAN
        BY <3>1, <3>1a, <3>6, <3>7 DEF Contract!Fade, TypeOK
      <4>2. req'.legal /\ Satisfies(before, req)' /\ ~raced' /\ ~faulted'
              => ~wrote' /\ ~changed' /\ (req.test \/ result' = "true")
        BY <3>1, <3>9 DEF Inv, Idempotent
      <4>3. QED
        BY <3>1, <3>2, <3>4, <3>5, <3>9, <4>1, <4>2 DEF Contract!Return
    <3>10. CASE pc' # "done" /\ wrote' = wrote
      BY <3>1, <3>1a, <3>3, <3>6, <3>7, <3>10 DEF Contract!Disturb, Contract!Fade
    <3>11. CASE pc' # "done" /\ wrote' # wrote
      <4>1. ~(Satisfies(before, req)' /\ ~raced' /\ ~faulted')
        BY <3>8, <3>11 DEF Inv, RunInv, AtToggle
      <4>2. QED
        BY <3>1, <3>1a, <3>2, <3>3, <3>6, <3>7, <3>11, <4>1
           DEF Contract!Touch, Contract!Fade
    <3>12. QED BY <3>9, <3>10, <3>11
  <2>6. CASE UNCHANGED vars
    <3>1. Satisfies(before, req)' = Satisfies(before, req)
      BY <2>6 DEF vars, Satisfies
    <3>2. QED BY <2>6, <3>1 DEF vars
  <2>7. QED BY <2>1, <2>2, <2>3, <2>4, <2>5, <2>6 DEF Next
<1>3. QED
  BY <1>1, <1>2, TypeCorrect, Invariance, PTL DEF Spec, KeepsContract, Contract!Spec
=============================================================================
