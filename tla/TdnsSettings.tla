---------------------------- MODULE TdnsSettings ----------------------------
(***************************************************************************)
(* The state tdns.server_configured: it gets all the settings of the       *)
(* server, lays the pillar's over them and sets them all again if one      *)
(* differs.  The settings of the proxy are asked for and set one by one,   *)
(* but the server answers them under one key, `proxy'; what the state lays *)
(* the pillar's over is, for them, its own table of defaults.              *)
(*                                                                         *)
(* Not every value survives the way to the server: settings_set turns a    *)
(* setting that should be a list and is none into the empty text, and it   *)
(* takes back the quoting of the request it has built, so that a `+' in a  *)
(* value arrives as a blank, and a `&' or a `#' breaks the request itself. *)
(***************************************************************************)
EXTENDS TdnsApi

CONSTANTS
  Fields,     \* the settings
  Nested,     \* those the server answers under `proxy': proxyType, ...
  Lists,      \* those that can be no list at all: forwarders
  Values,
  None,       \* no list
  Unmanaged,  \* the pillar does not name the field
  Arrives,    \* what the server takes each value of each setting for, as
              \* settings_set sends it
  Breaks,     \* values that break the request they are sent in: '&', '#', ...
  Wrecks,     \* what a broken request may leave the server with: anything, but
              \* for a bound
  Default,    \* the table of defaults
  Initial,    \* what the settings may be to begin with
  Requests,   \* what a pillar may ask for
  MaxFaults,  \* bound on lost calls, failed logins and killed jobs
  MaxEdits    \* bound on console changes and pillar rewrites

Settings == [Fields -> Values]
Request  == [want  : [Fields -> Values \cup {Unmanaged}],
             test  : BOOLEAN,
             legal : BOOLEAN,   \* every field named is one of the table's
             joinable : BOOLEAN]  \* its lists are of texts, its keys complete

ASSUME SettingsAssumption ==
  /\ Nested \subseteq Fields /\ Lists \subseteq Fields \ Nested
  /\ Unmanaged \notin Values /\ None \in Values
  /\ Arrives \in [Fields -> [Values -> Values]] /\ Breaks \subseteq Values
  /\ Wrecks \subseteq Settings
  /\ Default \in Settings /\ Initial \subseteq Settings
  /\ Requests \subseteq Request
  /\ MaxFaults \in Nat /\ MaxEdits \in Nat

VARIABLES
  settings,  \* as the server has them
  req,       \* the state's arguments, from the pillar
  pc,        \* the API call the run makes next, or "idle" or "done"
  merged,    \* the settings to be set
  result,    \* ret['result']
  changed,   \* ret['changes'] is not {}
  faults, edits,
  \* What an observer of the run knows:
  before,    \* the settings when the run began
  wrote,     \* the run set the settings
  raced,     \* the console changed them since the run began
  faulted,   \* the run met a fault
  unheard    \* a write was done whose reply was not ok, or the run aborted

server == <<settings, edits>>
report == <<result, changed>>
ghosts == <<before, wrote, raced, faulted, unheard>>
vars   == <<settings, req, pc, merged, result, changed, faults, edits,
            before, wrote, raced, faulted, unheard>>

Running == pc \in {"get", "set"}

-----------------------------------------------------------------------------
(* Pure parts of the code. *)

\* (Mutant: the defaults win over what the server answers.)
DefaultsOnly(s) == Default

\* The answer laid over the defaults.
Read(s) == [f \in Fields |-> IF f \in Nested THEN Default[f] ELSE s[f]]

\* (Mutant: what the pillar does not name is not filled in.)
OverlayRaw(s, want) == want

Overlay(s, want) ==
  [f \in Fields |-> IF want[f] = Unmanaged THEN s[f] ELSE want[f]]

\* Some setting is listed as changed.  No list is False in the pillar and the
\* text 'False' in what was read, so it always differs.
Differs(s, want) ==
  \E f \in Fields : \/ want[f] \notin {Unmanaged, s[f]}
                    \/ f \in Lists /\ want[f] = None

\* What settings_set makes of value v of setting f, and the server of that:
\* only the False of a pillar is sent as no list.
Arrived(f, v) ==
  IF f \in Lists /\ req.want[f] = None THEN None ELSE Arrives[f][v]

\* The settings s, sent in one request, leave that request whole.
Sendable(s) == \A f \in Fields : s[f] \notin Breaks

-----------------------------------------------------------------------------
Init ==
  /\ settings \in Initial
  /\ req \in Requests
  /\ pc = "idle"
  /\ merged = Default
  /\ result = "false" /\ changed = FALSE
  /\ faults = 0 /\ edits = 0
  /\ before = settings
  /\ wrote = FALSE /\ raced = FALSE /\ faulted = FALSE /\ unheard = FALSE

\* A call the server can serve, or cannot, has outcome o.
Call(o, can) ==
  /\ o \in Possible(can, MaxFaults - faults)
  /\ faults' = faults + FaultsOf(o, can)
  /\ faulted' = (faulted \/ o # Undisturbed(can))

\* The state function returns r with changes c.
Finish(r, c) == pc' = "done" /\ result' = r /\ changed' = c

\* An exception escapes the state function.
Abort == Finish("false", FALSE) /\ unheard' = TRUE

\* The compiler calls the state function.
Start ==
  /\ ~Running
  /\ pc' = "get"
  /\ merged' = Default
  /\ result' = "false" /\ changed' = FALSE
  /\ before' = settings
  /\ wrote' = FALSE /\ raced' = FALSE /\ faulted' = FALSE /\ unheard' = FALSE
  /\ UNCHANGED <<server, req, faults>>

\* (Mutant: test=True is only heeded when nothing differs.)
CompareEager(d) ==
  IF d THEN pc' = "set" /\ UNCHANGED report
       ELSE Finish(IF req.test THEN "none" ELSE "true", FALSE)

\* What follows the comparison, d telling whether something differs.
Compare(d) ==
  \/ ~req.legal /\ Finish("false", FALSE)
  \/ req.legal /\ req.test /\ Finish("none", d)
  \/ req.legal /\ ~req.test /\ ~d /\ Finish("true", FALSE)
  \/ req.legal /\ ~req.test /\ d /\ pc' = "set" /\ UNCHANGED report

\* settings/get: a failed call is answered with a text, which cannot be merged.
\* What cannot be joined is never what the server answered.
Get ==
  /\ pc = "get"
  /\ \E o \in Outcome :
       /\ Call(o, TRUE)
       /\ \/ o.reply # "ok" /\ Abort /\ UNCHANGED merged
          \/ /\ o.reply = "ok"
             /\ merged' = Overlay(Read(settings), req.want)
             /\ Compare(Differs(Read(settings), req.want) \/ ~req.joinable)
             /\ UNCHANGED unheard
  /\ UNCHANGED <<server, req, before, wrote, raced>>

\* (Mutant: success is taken for granted.)
SetResultAnyway(o) == "true"

\* ret['result'] after settings/set.
SetResult(o) == IF o.reply = "ok" THEN "true" ELSE "false"

\* What the server may have after it took the request: each setting as it
\* arrived.
Taken == IF Sendable(merged) THEN {[f \in Fields |-> Arrived(f, merged[f])]}
                             ELSE Wrecks

\* settings/set, of all settings.  A refusal leaves the changes listed.
Set ==
  /\ pc = "set" /\ req.joinable
  /\ \E o \in Outcome, can \in {TRUE, Sendable(merged)} :
       /\ Call(o, can)
       /\ \/ o.applied /\ settings' \in Taken
          \/ ~o.applied /\ UNCHANGED settings
       /\ wrote' = (wrote \/ o.applied)
       /\ \/ o.reply = "raise" /\ Abort
          \/ o.reply # "raise" /\ Finish(SetResult(o), TRUE) /\ UNCHANGED unheard
  /\ UNCHANGED <<edits, req, merged, before, raced>>

\* settings_set cannot join a list, and sends nothing.
SetRaises ==
  /\ pc = "set" /\ ~req.joinable
  /\ Abort
  /\ UNCHANGED <<server, req, merged, faults, before, wrote, raced, faulted>>

-----------------------------------------------------------------------------
(* The rest of the world. *)

Killed ==
  /\ Running /\ faults < MaxFaults
  /\ pc' = "idle" /\ faults' = faults + 1
  /\ UNCHANGED <<server, req, merged, report, ghosts>>

Console ==
  /\ edits < MaxEdits
  /\ edits' = edits + 1
  /\ \E f \in Fields, v \in Values : settings' = [settings EXCEPT ![f] = v]
  /\ raced' = TRUE
  /\ UNCHANGED <<req, pc, merged, report, faults, before, wrote, faulted, unheard>>

Rewrite ==
  /\ ~Running /\ edits < MaxEdits
  /\ req' \in Requests
  /\ edits' = edits + 1
  /\ pc' = "idle"
  /\ UNCHANGED <<settings, merged, report, faults, ghosts>>

Next == Start \/ Get \/ Set \/ SetRaises \/ Killed \/ Console \/ Rewrite

Spec == Init /\ [][Next]_vars

FairSpec == Spec /\ WF_vars(Start) /\ WF_vars(Get \/ Set \/ SetRaises)

-----------------------------------------------------------------------------
(* Properties. *)

\* Every variable holds a value of its kind.
TypeOK ==
  /\ settings \in Settings /\ before \in Settings /\ merged \in Settings
  /\ req \in Requests
  /\ pc \in {"idle", "get", "set", "done"}
  /\ result \in {"true", "false", "none"} /\ changed \in BOOLEAN
  /\ faults \in 0..MaxFaults /\ edits \in 0..MaxEdits
  /\ wrote \in BOOLEAN /\ raced \in BOOLEAN
  /\ faulted \in BOOLEAN /\ unheard \in BOOLEAN

\* The setting is one whose value, if the pillar names it, a run compares with
\* the server's.
Compared(f) == f \in Nested => req.want[f] # Default[f]

\* If the run set the settings, the value of f came to the server as it was, in
\* a request that was whole.
Carried(f) == wrote => Sendable(merged) /\ Arrived(f, merged[f]) = merged[f]

\* A run that reports success leaves every setting as asked -- but a setting of
\* the proxy that is asked to have its default may be left at another value,
\* and so may one whose value did not survive the way to the server.
TruthfulSuccess ==
  pc = "done" /\ result = "true" /\ ~req.test /\ ~raced
    => \A f \in Fields : Compared(f) /\ Carried(f)
                          => req.want[f] \in {Unmanaged, settings[f]}

\* At no step does a run disturb a setting outside the proxy that the pillar
\* does not name -- unless that setting's own value does not survive being sent
\* back, or any value breaks the request.
KeepsUnmanaged ==
  (Running \/ pc = "done") /\ ~raced
    => \A f \in Fields \ Nested : req.want[f] = Unmanaged /\ Carried(f)
                                    => settings[f] = before[f]

\* Unless a reply was lost, a report without changes means that nothing was
\* set, and result None that nothing was set in any case.
HonestReport ==
  pc = "done" /\ ~unheard => (wrote => changed) /\ (result = "none" => ~wrote)

\* A run over settings that are as asked changes nothing and lists nothing,
\* and succeeds unless it met a fault -- unless it asks for no list, for a
\* proxy, or for what cannot be joined.
Idempotent ==
  pc = "done" /\ ~raced /\ req.joinable
     /\ (\A f \in Fields : req.want[f] \in {Unmanaged, before[f]})
     /\ (\A f \in Lists : req.want[f] # None)
     /\ (\A f \in Nested : req.want[f] \in {Unmanaged, Default[f]})
    => /\ ~wrote /\ ~changed
       /\ req.legal /\ ~req.test /\ ~faulted => result = "true"

\* What a run knows at each call: until it sets something, the settings are
\* those it began with, unless the console was there, and it sets only what it
\* should and because something differs.
RunInv ==
  /\ pc \in {"get", "set"} => ~wrote /\ (~raced => settings = before)
  /\ pc = "set" => /\ req.legal /\ ~req.test
                   /\ ~raced => /\ merged = Overlay(Read(before), req.want)
                                /\ Differs(Read(before), req.want) \/ ~req.joinable

\* Repeated runs bring the settings to what is asked, once faults and changes
\* stop -- as far as what is asked survives the way, and for as long as no
\* value breaks the request.
EventuallyConfigured ==
  <>[](/\ req.legal /\ req.joinable /\ ~req.test
       /\ Sendable(Overlay(Read(settings), req.want))
       => \A f \in Fields : Compared(f)
            => \/ req.want[f] \in {Unmanaged, settings[f]}
               \/ Arrived(f, req.want[f]) # req.want[f])

\* The settings were as asked when the run began, and nothing disturbed it; a
\* pillar that asks for no list, or for a proxy, is never as asked.
Settled == /\ req.legal /\ req.joinable /\ ~raced /\ ~faulted
           /\ \A f \in Fields : req.want[f] \in {Unmanaged, before[f]}
           /\ \A f \in Lists : req.want[f] # None
           /\ \A f \in Nested : req.want[f] \in {Unmanaged, Default[f]}

\* The abstract promise of a state function, which this one keeps.
Contract == INSTANCE SaltState WITH
  Result  <- {"true", "false", "none"},
  phase   <- IF Running THEN "running" ELSE pc,
  dry     <- req.test,
  heard   <- ~unheard,
  settled <- Settled,
  touched <- wrote
KeepsContract == Contract!Spec
=============================================================================
