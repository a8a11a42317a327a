------------------------------ MODULE TdnsDhcp ------------------------------
(***************************************************************************)
(* The states tdns.dhcpscope_managed and tdns.dhcpscope_absent, run again  *)
(* and again against one DHCP scope of a Technitium DNS server that other  *)
(* hands (its web console) may change between any two API calls.           *)
(*                                                                         *)
(* One action is one API call with the Python code up to the next call.    *)
(* The execution-module functions (dhcpscope_exists, dhcpscope_enabled,    *)
(* dhcpscope, dhcpscope_set, dhcpscope_enable, dhcpscope_disable,          *)
(* dhcpscope_delete) are part of the step that makes their call.           *)
(***************************************************************************)
EXTENDS TdnsApi

CONSTANTS
  Fields,     \* the scope fields of the API
  Required,   \* startingAddress, endingAddress and subnetMask
  Values,     \* the values a field has in Python, '' and False among them
  Blank,      \* ''
  NotAList,   \* False, where the encoder iterates: the reservedLeases default
  Unmanaged,  \* the pillar does not name the field
  Default,    \* the dictionary scope_settings_options
  Requests,   \* what a pillar may ask for
  MaxFaults,  \* bound on lost calls, failed logins and killed jobs
  MaxEdits    \* bound on console changes and pillar rewrites

Options == [Fields -> Values]
Scopes  == [exists : BOOLEAN, opts : Options, enabled : BOOLEAN]
NoScope == [exists |-> FALSE, opts |-> Default, enabled |-> FALSE]

\* The keyword arguments of a state: the fields wanted, the `enable' key,
\* test, and whether every other key is a field the code knows.
Request == [fn     : {"managed", "absent"},
            want   : [Fields -> Values \cup {Unmanaged}],
            enable : {"unset", "on", "off"},
            test   : BOOLEAN,
            legal  : BOOLEAN]

ASSUME DhcpAssumption ==
  /\ Required \subseteq Fields
  /\ Blank \in Values /\ NotAList \in Values /\ Unmanaged \notin Values
  /\ Default \in Options
  /\ Requests \subseteq Request
  /\ MaxFaults \in Nat /\ MaxEdits \in Nat

VARIABLES
  scope,     \* the scope as the server has it
  req,       \* the state's arguments, from the pillar
  pc,        \* the API call the run makes next, or "idle" or "done"
  new,       \* new_scope
  opts,      \* scope_options
  toggle,    \* enable_present
  result,    \* ret['result']
  changed,   \* ret['changes'] is not {}
  faults, edits,
  \* What an observer of the run knows:
  before,    \* the scope when the run began
  wrote,     \* the run changed the scope
  misread,   \* a failed list was taken for the absence of the scope
  raced,     \* the console changed the scope since the run began
  faulted,   \* the run met a fault
  unheard    \* a write was done whose reply was not ok, or the run aborted

server  == <<scope, edits>>
locals  == <<new, opts, toggle>>
report  == <<result, changed>>
ghosts  == <<before, wrote, misread, raced, faulted, unheard>>
vars    == <<scope, req, pc, new, opts, toggle, result, changed,
             faults, edits, before, wrote, misread, raced, faulted, unheard>>

Running == pc \notin {"idle", "done"}

-----------------------------------------------------------------------------
(* Pure parts of the code, and of the server. *)

\* (Mutant: the branch for an empty list is missing.)
EncodableIfFull(o) == \A f \in Fields : o[f] \notin {NotAList, Blank}
\* dhcpscope_set joins the list fields; False cannot be iterated.
Encodable(o) == \A f \in Fields : o[f] # NotAList

\* The server takes a scope only with its addresses.
Acceptable(o) == /\ \A f \in Fields : o[f] # NotAList
                 /\ \A f \in Required : o[f] # Blank

\* (Mutant: no merge.)
OverlayRaw(base, want) == want
\* (Mutant: the merge is the wrong way round.)
OverlayDefault(base, want) ==
  [f \in Fields |-> IF want[f] = Unmanaged THEN Default[f] ELSE want[f]]
\* The wanted fields laid over the options read (or the defaults).
Overlay(base, want) ==
  [f \in Fields |-> IF want[f] = Unmanaged THEN base[f] ELSE want[f]]

HasEnable(r) == r.enable # "unset"
WantsOn(r)   == r.enable = "on"

\* What the execution module's functions make of a call's outcome, and what
\* the call does to the scope.
dhcpscope_exists(o) == o.reply = "ok" /\ scope.exists
dhcpscope_enabled   == scope.exists /\ scope.enabled
dhcpscope_set(o) ==
  \* The server decides whether a scope it creates is enabled.
  IF ~o.applied THEN {scope}
  ELSE {[exists |-> TRUE, opts |-> opts, enabled |-> e] :
          e \in IF scope.exists THEN {scope.enabled} ELSE BOOLEAN}
dhcpscope_enable(o, on) ==
  IF o.applied THEN [scope EXCEPT !.enabled = on] ELSE scope
dhcpscope_delete(o) == IF o.applied THEN NoScope ELSE scope

\* The scope is as the request asks.
Satisfies(s, r) ==
  IF r.fn = "absent"
    THEN ~s.exists
    ELSE /\ s.exists
         /\ \A f \in Fields : r.want[f] \in {Unmanaged, s.opts[f]}
         /\ r.enable = "on"  => s.enabled
         /\ r.enable = "off" => ~s.enabled

-----------------------------------------------------------------------------
Init ==
  /\ scope \in {NoScope} \cup
       {s \in Scopes : s.exists /\ Acceptable(s.opts)}
  /\ req \in Requests
  /\ pc = "idle"
  /\ new = FALSE /\ opts = Default /\ toggle = FALSE
  /\ result = "false" /\ changed = FALSE
  /\ faults = 0 /\ edits = 0
  /\ before = scope
  /\ wrote = FALSE /\ misread = FALSE /\ raced = FALSE
  /\ faulted = FALSE /\ unheard = FALSE

\* A call that the server can serve iff `can' has outcome o.
Call(o, can) ==
  /\ o \in Possible(can, MaxFaults - faults)
  /\ faults' = faults + FaultsOf(o, can)
  /\ faulted' = (faulted \/ o # Undisturbed(can))

\* (Mutants: changes make a success; a failure loses its changes.)
FinishByChanges(r, c) ==
  pc' = "done" /\ result' = (IF c THEN "true" ELSE r) /\ changed' = c
FinishClean(r, c) ==
  pc' = "done" /\ result' = r /\ changed' = (c /\ r # "false")
\* The state function returns r with changes c.
Finish(r, c) == pc' = "done" /\ result' = r /\ changed' = c

\* An exception escapes the state function: Salt reports a failed state
\* without changes.
Abort == Finish("false", FALSE) /\ unheard' = TRUE

Goto(l) == pc' = l /\ UNCHANGED report

\* The compiler calls the state function.
Start ==
  /\ ~Running
  /\ pc' = "exists"
  /\ new' = FALSE /\ opts' = Default /\ toggle' = FALSE
  /\ result' = "false" /\ changed' = FALSE
  /\ before' = scope
  /\ wrote' = FALSE /\ misread' = FALSE /\ raced' = FALSE
  /\ faulted' = FALSE /\ unheard' = FALSE
  /\ UNCHANGED <<server, req, faults>>

\* dhcpscope_managed once it has its options: n is new_scope, o the options,
\* t enable_present, d whether changes are recorded.
Plan(n, o, t, d) ==
  /\ new' = n /\ opts' = o /\ toggle' = t
  /\ \/ ~req.legal /\ Finish("false", FALSE)
     \/ req.legal /\ n /\ (\E f \in Required : o[f] = Blank)
        /\ Finish("false", FALSE)
     \/ /\ req.legal
        /\ n => \A f \in Required : o[f] # Blank
        /\ \/ req.test /\ Finish("none", d)
           \/ ~req.test /\ ~d /\ Finish("true", FALSE)
           \/ ~req.test /\ d /\ ~Encodable(o) /\ Finish("false", FALSE)
           \/ ~req.test /\ d /\ Encodable(o) /\ Goto("set")

\* dhcp/scopes/list, from dhcpscope_exists: a failed call reads as absent.
ManagedExists(o) ==
  /\ req.fn = "managed"
  /\ \/ o.reply = "raise" /\ Abort /\ UNCHANGED <<locals, misread>>
     \/ /\ o.reply # "raise" /\ ~dhcpscope_exists(o)
        /\ Plan(TRUE, Overlay(Default, req.want), HasEnable(req), TRUE)
        /\ misread' = scope.exists
        /\ UNCHANGED unheard
     \/ /\ dhcpscope_exists(o)
        /\ Goto(IF HasEnable(req) THEN "enabled" ELSE "get")
        /\ UNCHANGED <<locals, misread, unheard>>

AbsentExists(o) ==
  LET seen == dhcpscope_exists(o) IN
  /\ req.fn = "absent"
  /\ UNCHANGED locals
  /\ \/ o.reply = "raise" /\ Abort /\ UNCHANGED misread
     \/ /\ o.reply # "raise"
        /\ misread' = (scope.exists /\ ~seen)
        /\ \/ req.test /\ Finish("none", seen)
           \/ ~req.test /\ ~seen /\ Finish("true", FALSE)
           \/ ~req.test /\ seen /\ Goto("dellist")
        /\ UNCHANGED unheard

Exists ==
  /\ pc = "exists"
  /\ \E o \in Outcome : Call(o, TRUE) /\ (ManagedExists(o) \/ AbsentExists(o))
  /\ UNCHANGED <<server, req, before, wrote, raced>>

\* dhcp/scopes/list again, from dhcpscope_enabled, which indexes the list it
\* could not get; a scope that is gone counts as disabled.
Enabled ==
  /\ pc = "enabled"
  /\ \E o \in Outcome :
       /\ Call(o, TRUE)
       /\ \/ o.reply # "ok" /\ Abort /\ UNCHANGED toggle
          \/ /\ o.reply = "ok"
             /\ toggle' = (WantsOn(req) # dhcpscope_enabled)
             /\ Goto("get")
             /\ UNCHANGED unheard
  /\ UNCHANGED <<server, req, new, opts, before, wrote, misread, raced>>

\* dhcp/scopes/get: a failed call is the value False, which cannot be merged.
Get ==
  /\ pc = "get"
  /\ \E o \in Outcome :
       /\ Call(o, scope.exists)
       /\ \/ o.reply # "ok" /\ Abort /\ UNCHANGED locals
          \/ /\ o.reply = "ok"
             /\ Plan(FALSE, Overlay(scope.opts, req.want), toggle,
                     toggle \/ Overlay(scope.opts, req.want) # scope.opts)
             /\ UNCHANGED unheard
  /\ UNCHANGED <<server, req, before, wrote, misread, raced>>

\* dhcp/scopes/set creates or updates the scope, inside a try block.
Set ==
  /\ pc = "set"
  /\ \E o \in Outcome :
       /\ Call(o, Acceptable(opts))
       /\ scope' \in dhcpscope_set(o)
       /\ wrote' = (wrote \/ o.applied)
       /\ unheard' = (unheard \/ (o.applied /\ o.reply # "ok"))
       /\ \/ o.reply # "ok" /\ Finish("false", FALSE)
          \/ o.reply = "ok" /\ toggle /\ Goto("toggle")
          \/ o.reply = "ok" /\ ~toggle /\ Finish("true", TRUE)
  /\ UNCHANGED <<edits, req, locals, before, misread, raced>>

\* dhcp/scopes/enable or dhcp/scopes/disable.
Toggle ==
  /\ pc = "toggle"
  /\ \E o \in Outcome :
       /\ Call(o, scope.exists)
       /\ scope' = dhcpscope_enable(o, WantsOn(req))
       /\ wrote' = (wrote \/ o.applied)
       /\ \/ o.reply = "raise" /\ Abort
          \/ o.reply = "nok" /\ Finish("false", TRUE)
             /\ unheard' = (unheard \/ o.applied)
          \/ o.reply = "ok" /\ Finish("true", TRUE) /\ UNCHANGED unheard
  /\ UNCHANGED <<edits, req, locals, before, misread, raced>>

\* dhcp/scopes/list once more, from dhcpscope_delete; the changes announced
\* after the first list stand although there is nothing left to delete.
DeleteList ==
  /\ pc = "dellist"
  /\ \E o \in Outcome :
       /\ Call(o, TRUE)
       /\ \/ o.reply # "ok" /\ Abort
          \/ o.reply = "ok" /\ ~scope.exists /\ Finish("true", TRUE)
             /\ UNCHANGED unheard
          \/ o.reply = "ok" /\ scope.exists /\ Goto("delete")
             /\ UNCHANGED unheard
  /\ UNCHANGED <<server, req, locals, before, wrote, misread, raced>>

\* dhcp/scopes/delete.
Delete ==
  /\ pc = "delete"
  /\ \E o \in Outcome :
       /\ Call(o, scope.exists)
       /\ scope' = dhcpscope_delete(o)
       /\ wrote' = (wrote \/ o.applied)
       /\ \/ o.reply = "raise" /\ Abort
          \/ o.reply = "nok" /\ Finish("false", FALSE)
             /\ unheard' = (unheard \/ o.applied)
          \/ o.reply = "ok" /\ Finish("true", TRUE) /\ UNCHANGED unheard
  /\ UNCHANGED <<edits, req, locals, before, misread, raced>>

-----------------------------------------------------------------------------
(* The rest of the world. *)

\* The job is killed: the minion restarts, as its own states make it do.
Killed ==
  /\ Running /\ faults < MaxFaults
  /\ pc' = "idle" /\ faults' = faults + 1
  /\ UNCHANGED <<server, req, locals, report, ghosts>>

\* Somebody creates, changes or deletes the scope in the web console.
Console ==
  /\ edits < MaxEdits
  /\ edits' = edits + 1
  /\ scope' \in {NoScope} \cup {s \in Scopes : s.exists /\ Acceptable(s.opts)}
  /\ scope' # scope
  /\ raced' = TRUE
  /\ UNCHANGED <<req, pc, locals, report, faults,
                 before, wrote, misread, faulted, unheard>>

\* The pillar is rewritten between two runs.
Rewrite ==
  /\ ~Running /\ edits < MaxEdits
  /\ req' \in Requests
  /\ edits' = edits + 1
  /\ pc' = "idle"
  /\ UNCHANGED <<scope, locals, report, faults, ghosts>>

Step == Exists \/ Enabled \/ Get \/ Set \/ Toggle \/ DeleteList \/ Delete

Next == Start \/ Step \/ Killed \/ Console \/ Rewrite

Spec == Init /\ [][Next]_vars

\* The highstate is applied time and again, and Python runs what it started.
FairSpec == Spec /\ WF_vars(Start) /\ WF_vars(Step)

-----------------------------------------------------------------------------
(* Properties. *)

Labels == {"idle", "exists", "enabled", "get", "set", "toggle",
           "dellist", "delete", "done"}

\* Every variable holds a value of its kind.
TypeOK ==
  /\ scope \in Scopes /\ before \in Scopes
  /\ req \in Requests
  /\ pc \in Labels
  /\ opts \in Options
  /\ new \in BOOLEAN /\ toggle \in BOOLEAN
  /\ result \in {"true", "false", "none"} /\ changed \in BOOLEAN
  /\ faults \in 0..MaxFaults /\ edits \in 0..MaxEdits
  /\ wrote \in BOOLEAN /\ misread \in BOOLEAN /\ raced \in BOOLEAN
  /\ faulted \in BOOLEAN /\ unheard \in BOOLEAN

\* A run that reports success leaves the scope as asked, whatever calls
\* failed on the way, as long as nobody else touched the scope meanwhile.
\* dhcpscope_absent alone is believed only if its list call succeeded.
TruthfulSuccess ==
  pc = "done" /\ result = "true" /\ ~raced /\ (req.fn = "absent" => ~misread)
    => Satisfies(scope, req)

\* A managed run never disturbs what the pillar does not name (fields,
\* or whether the scope is enabled), at any moment, even if it dies half-way
\* -- unless a failed list made it take the scope for a new one.
KeepsUnmanaged ==
  Running \/ pc = "done" =>
    (req.fn = "managed" /\ before.exists /\ ~raced /\ ~misread =>
       /\ scope.exists
       /\ \A f \in Fields :
            req.want[f] = Unmanaged => scope.opts[f] = before.opts[f]
       /\ req.enable = "unset" => scope.enabled = before.enabled)

\* Unless a reply was lost, a report without changes means that the scope
\* was not changed, whether the run succeeded or not: a failed enable after
\* a good set still lists the changes that were made.
HonestReport ==
  pc = "done" /\ ~unheard => (wrote => changed) /\ (result = "none" => ~wrote)

\* A run over a scope that is as asked, undisturbed, changes nothing, reports
\* no changes and succeeds: applying the highstate twice is applying it once.
Idempotent ==
  pc = "done" /\ Satisfies(before, req) /\ ~raced /\ ~faulted
    => ~wrote /\ ~changed /\ (req.legal /\ ~req.test => result = "true")

-----------------------------------------------------------------------------
(* The inductive invariant: what a run knows at each of its calls. *)

\* The options o hold every field the request names.
Holds(o) == \A f \in Fields : req.want[f] \in {Unmanaged, o[f]}

\* The options o and p agree on every field the request leaves alone.
AgreeElsewhere(o, p) == \A f \in Fields : req.want[f] = Unmanaged => o[f] = p[f]

NeedsToggle == HasEnable(req) /\ WantsOn(req) # scope.enabled

\* Until its first write a run leaves the scope alone.
ReadsFirst ==
  pc \in {"exists", "enabled", "get", "set", "dellist", "delete"} =>
    ~wrote /\ (~raced => scope = before)

AtExists == pc = "exists" => ~toggle /\ ~misread

AtEnabled == pc \in {"enabled", "get"} =>
  /\ req.fn = "managed" /\ ~misread
  /\ ~raced => scope.exists
  /\ pc = "enabled" => HasEnable(req)
  /\ ~HasEnable(req) => ~toggle
  /\ pc = "get" /\ ~raced => toggle = NeedsToggle

\* The options to be set are what the request wants over what the scope had
\* or, for a new scope, over the defaults; and there is something to change.
AtSet == pc = "set" =>
  /\ req.fn = "managed" /\ ~req.test
  /\ Holds(opts)
  /\ new => /\ toggle = HasEnable(req)
            /\ ~raced /\ scope.exists => misread
  /\ ~new => /\ ~misread
             /\ ~HasEnable(req) => ~toggle
             /\ ~raced => /\ scope.exists
                          /\ toggle = NeedsToggle
                          /\ AgreeElsewhere(opts, scope.opts)
                          /\ toggle \/ ~Holds(scope.opts)

AtToggle == pc = "toggle" =>
  /\ req.fn = "managed" /\ ~req.test /\ HasEnable(req)
  /\ ~raced => /\ scope.exists
               /\ Holds(scope.opts)
               /\ before.exists /\ ~misread => AgreeElsewhere(scope.opts, before.opts)
               /\ ~faulted => ~Satisfies(before, req)

AtDelete == pc \in {"dellist", "delete"} =>
  /\ req.fn = "absent" /\ ~req.test /\ ~misread
  /\ ~raced => scope.exists

MisreadIsFault == misread => faulted

\* A run that goes on, or succeeds, has heard every reply.
Heard == Running \/ (pc = "done" /\ result = "true") => ~unheard

RunInv == /\ ReadsFirst /\ AtExists /\ AtEnabled /\ AtSet /\ AtToggle
          /\ AtDelete /\ MisreadIsFault /\ Heard

-----------------------------------------------------------------------------
(* Liveness, and the contract of a state function. *)

\* The request can be carried out: every field is known, every address
\* is given and the list fields can be encoded even for a new scope.
Feasible(r) ==
  /\ r.legal /\ ~r.test
  /\ r.fn = "managed" => Acceptable(Overlay(Default, r.want))

\* Once faults, console and pillar changes stop, repeated runs bring the
\* scope to what a feasible request asks and leave it there.
EventuallyApplied == <>[](Feasible(req) => Satisfies(scope, req))

\* The abstract promise of a state function, which these two keep: test mode,
\* honest reports and idempotence, for every request and at every step.
Contract == INSTANCE SaltState WITH
  Result  <- {"true", "false", "none"},
  phase   <- IF Running THEN "running" ELSE pc,
  dry     <- req.test,
  heard   <- ~unheard,
  settled <- req.legal /\ Satisfies(before, req) /\ ~raced /\ ~faulted,
  touched <- wrote
KeepsContract == Contract!Spec
=============================================================================
