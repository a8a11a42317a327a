----------------------------- MODULE TdnsZones -----------------------------
(***************************************************************************)
(* The states tdns.zone_managed and tdns.zone_absent, run again and again  *)
(* against one zone that the console may change meanwhile.                 *)
(*                                                                         *)
(* A managed run reads up to five things (is there a zone; its options,    *)
(* twice; its FWD or SOA record) and writes up to six (the zone, its       *)
(* signing, its options, the FWD record, the SOA record, its signing), one *)
(* API call each; a record is read and written behind a zones/list of its  *)
(* own.  One action is one call with the Python code up to the next one.   *)
(***************************************************************************)
EXTENDS TdnsApi

CONSTANTS
  Options,     \* what zones/options/set sets: disabled, notify, update, ...
  SoaFields,   \* refresh, retry, responsiblePerson, ...
  FwdFields,   \* forwarder, protocol, proxyHost, dnssecValidation, ...
  Validation,  \* dnssecValidation among them
  SentAtCreation, \* the FwdFields that zones/create is given as well
  Renamed,     \* the FwdFields the server knows under `new' + key.title()
  Values, Unmanaged,
  DefaultOptions, DefaultSoa, DefaultFwd,  \* those of a zone just made
  MaxSerial,
  Unread,      \* the SOA record could not be read
  Requests,    \* what a pillar may ask for
  MaxFaults,   \* bound on lost calls, failed logins and killed jobs
  MaxEdits     \* bound on console changes and pillar rewrites

Kinds   == {"Primary", "Secondary", "Stub", "Forwarder"}
Serials == 0..MaxSerial
Soas    == [fields : [SoaFields -> Values], serial : Serials]
Counts  == {"none", "one", "many"}
Zones   == [exists : BOOLEAN, kind : Kinds,
            opts : [Options -> Values], soa : Soas,
            fwd  : [FwdFields -> Values],  \* a forwarder's FWD record,
            fwds : Counts,                 \* and how many it has
            signed : BOOLEAN]

\* The keyword arguments.  sign is dnssecValidation, which for a forwarder is
\* also a field of its FWD record.  A request is not legal if it has a field of
\* none of the groups.
Request == { r \in [fn   : {"managed", "absent"},
                    kind : Kinds,
                    opts : [Options -> Values \cup {Unmanaged}],
                    soa  : [SoaFields -> Values \cup {Unmanaged}],
                    pin  : Serials \cup {Unmanaged},
                    fwd  : [FwdFields -> Values \cup {Unmanaged}],
                    sign : {"unset", "on", "off"},
                    test : BOOLEAN, legal : BOOLEAN] :
               r.kind = "Forwarder" => (r.sign = "unset" <=> r.fwd[Validation] = Unmanaged) }

ASSUME ZonesAssumption ==
  /\ SentAtCreation \subseteq FwdFields /\ Renamed \subseteq FwdFields
  /\ Validation \in FwdFields \ Renamed
  /\ Unmanaged \notin Values /\ Unmanaged \notin Serials
  /\ DefaultOptions \in [Options -> Values]
  /\ DefaultSoa \in Soas /\ Unread \notin Soas
  /\ DefaultFwd \in [FwdFields -> Values]
  /\ Requests \subseteq Request
  /\ MaxSerial \in Nat /\ MaxFaults \in Nat /\ MaxEdits \in Nat

VARIABLES
  zone,      \* the zone as the server has it
  req,       \* the state's arguments, from the pillar
  pc,        \* the API call the run makes next, or "idle" or "done"
  new,       \* new_zone
  zopts,     \* the options to be set, for a zone that was there
  fwd, soa,  \* the FWD and SOA records, as they were read
  action,    \* dnssec_action
  listed,    \* ret['changes'] is not {} so far
  result,    \* ret['result']
  changed,   \* ret['changes'] is not {}
  faults, edits,
  \* What an observer of the run knows:
  before,    \* the zone when the run began
  wrote,     \* the run changed the zone
  overran,   \* it wrote a record back, with nothing to list, over what the
             \* console had changed since the record was read
  raced,     \* the console changed the zone since the run began
  faulted,   \* the run met a fault
  unheard    \* a write was done whose reply was not ok, or the run aborted

server == <<zone, edits>>
reads  == <<zopts, fwd, soa>>
locals == <<new, zopts, fwd, soa, action, listed>>
report == <<result, changed>>
ghosts == <<before, wrote, overran, raced, faulted, unheard>>
vars   == <<zone, req, pc, new, zopts, fwd, soa, action, listed, result, changed,
            faults, edits, before, wrote, overran, raced, faulted, unheard>>

Running == pc \notin {"idle", "done"}

-----------------------------------------------------------------------------
(* Pure parts of the code, and of the server. *)

\* (Mutant: what the pillar does not name is not filled in.)
OverlayRaw(old, want) == want

\* What the pillar asks for, laid over what is there.
Overlay(old, want) ==
  [f \in DOMAIN old |-> IF want[f] = Unmanaged THEN old[f] ELSE want[f]]

\* (Mutant: laid over the record of a zone just made.)
SoaOverlayFresh(r, old) ==
  [fields |-> Overlay(DefaultSoa.fields, r.soa),
   serial |-> IF r.pin = Unmanaged THEN DefaultSoa.serial ELSE r.pin]

SoaOverlay(r, old) ==
  [fields |-> Overlay(old.fields, r.soa),
   serial |-> IF r.pin = Unmanaged THEN old.serial ELSE r.pin]

\* The FWD record after an update: a field whose new name the server does not
\* know is sent with its old value.
FwdOverlay(r, old) ==
  [f \in FwdFields |-> IF f \in Renamed THEN Overlay(old, r.fwd)[f] ELSE old[f]]

HasSoa(r) == r.kind \in {"Primary", "Secondary"}

\* (Mutant: the serial alone is not worth a write.)
SoaAskedByFields(r) == HasSoa(r) /\ \E f \in SoaFields : r.soa[f] # Unmanaged

\* soa_nr['overwrite'] and fwd_nr['overwrite']: the pillar names a field of the
\* record, whether or not it differs.
SoaAsked(r) ==
  HasSoa(r) /\ (r.pin # Unmanaged \/ \E f \in SoaFields : r.soa[f] # Unmanaged)
FwdAsked(r) == r.kind = "Forwarder" /\ \E f \in FwdFields : r.fwd[f] # Unmanaged

\* (Mutant: the zone's status is not compared.)
ActionAnyway(r, signed) ==
  IF r.kind # "Primary" \/ r.sign = "unset" THEN "none"
  ELSE IF r.sign = "on" THEN "sign" ELSE "unsign"

\* (Mutant: a zone is never unsigned.)
ActionOn(r, signed) ==
  IF r.kind = "Primary" /\ r.sign = "on" /\ ~signed THEN "sign" ELSE "none"

\* dnssec_action, of a zone that was there and is signed or not.
DnssecAction(r, signed) ==
  CASE r.kind = "Primary" /\ r.sign = "on"  /\ ~signed -> "sign"
    [] r.kind = "Primary" /\ r.sign = "off" /\ signed  -> "unsign"
    [] OTHER -> "none"

\* zones/create, with the fields it is given.
Created(r) ==
  [exists |-> TRUE, kind |-> r.kind, opts |-> DefaultOptions, soa |-> DefaultSoa,
   fwd |-> [f \in FwdFields |-> IF f \in SentAtCreation
                                  THEN Overlay(DefaultFwd, r.fwd)[f] ELSE DefaultFwd[f]],
   fwds |-> "one", signed |-> FALSE]

NoZone(k) == [exists |-> FALSE, kind |-> k, opts |-> DefaultOptions, soa |-> DefaultSoa,
              fwd |-> DefaultFwd, fwds |-> "one", signed |-> FALSE]

\* The zone is as the request asks.  The fields of the FWD record that no
\* update reaches do not count.
Agrees(have, want) == \A f \in DOMAIN have : want[f] \in {Unmanaged, have[f]}
Satisfies(z, r) ==
  IF r.fn = "absent" THEN ~z.exists
  ELSE /\ z.exists /\ z.kind = r.kind
       /\ Agrees(z.opts, r.opts)
       /\ HasSoa(r) => Agrees(z.soa.fields, r.soa) /\ r.pin \in {Unmanaged, z.soa.serial}
       /\ r.kind = "Primary" => r.sign \in {"unset", IF z.signed THEN "on" ELSE "off"}
FwdSatisfies(z, r, fields) ==
  r.kind = "Forwarder" => /\ z.fwds = "one"
                          /\ \A f \in fields : r.fwd[f] \in {Unmanaged, z.fwd[f]}

-----------------------------------------------------------------------------
Init ==
  /\ req \in Requests
  /\ zone \in {NoZone(req.kind), Created([req EXCEPT !.fwd = [f \in FwdFields |-> Unmanaged]])}
  /\ pc = "idle"
  /\ new = FALSE /\ zopts = DefaultOptions /\ fwd = DefaultFwd /\ soa = DefaultSoa
  /\ action = "none" /\ listed = FALSE
  /\ result = "false" /\ changed = FALSE
  /\ faults = 0 /\ edits = 0
  /\ before = zone
  /\ wrote = FALSE /\ overran = FALSE /\ raced = FALSE /\ faulted = FALSE /\ unheard = FALSE

\* A call that the server can serve iff `can' has outcome o.
Call(o, can) ==
  /\ o \in Possible(can, MaxFaults - faults)
  /\ faults' = faults + FaultsOf(o, can)
  /\ faulted' = (faulted \/ o # Undisturbed(can))

\* The state function returns r with changes c.
Finish(r, c) == pc' = "done" /\ result' = r /\ changed' = c

\* It returns and the calls it made were heard.
Return(r, c) == Finish(r, c) /\ UNCHANGED unheard

\* An exception escapes the state function.
Abort == Finish("false", FALSE) /\ unheard' = TRUE

Goto(l) == pc' = l /\ UNCHANGED <<report, unheard>>

\* The compiler calls the state function.
Start ==
  /\ ~Running
  /\ pc' = "exists"
  /\ new' = FALSE /\ zopts' = DefaultOptions /\ fwd' = DefaultFwd /\ soa' = DefaultSoa
  /\ action' = "none" /\ listed' = FALSE
  /\ result' = "false" /\ changed' = FALSE
  /\ before' = zone
  /\ wrote' = FALSE /\ overran' = FALSE /\ raced' = FALSE /\ faulted' = FALSE /\ unheard' = FALSE
  /\ UNCHANGED <<server, req, faults>>

-----------------------------------------------------------------------------
(* What is read. *)

\* What comes after the options, the FWD and the SOA record are written.  The
\* primed locals are those the step that gets here leaves.
AfterSoa == IF action' # "none" THEN Goto("sign") ELSE Return("true", listed')

\* soa_nr['overwrite'] raises when soa_nr is no record.
AfterFwd == CASE HasSoa(req) /\ soa' = Unread -> Abort
              [] HasSoa(req) /\ soa' # Unread /\ SoaAsked(req) -> Goto("soa!?")
              [] OTHER -> AfterSoa

AfterOptions == IF ~new' /\ FwdAsked(req) THEN Goto("fwd!?") ELSE AfterFwd

\* Everything is read.  Without changes the options are left alone, but a
\* record the pillar names a field of is written back.
Conclude ==
  CASE req.test                         -> Return("none", listed')
    [] ~req.test /\ new'                -> Goto("create")
    [] ~req.test /\ ~new' /\ listed'    -> Goto("set")
    [] ~req.test /\ ~new' /\ ~listed'   -> AfterOptions

\* zones/list, from zone_exists: a failed call reads as absent.
Exists ==
  /\ pc = "exists"
  /\ \E o \in Outcome :
       /\ Call(o, TRUE)
       /\ LET there == o.reply = "ok" /\ zone.exists IN
          \/ o.reply = "raise" /\ Abort /\ UNCHANGED locals
          \/ /\ o.reply # "raise" /\ req.fn = "absent"
             /\ CASE ~there            -> Return("true", FALSE)
                  [] there /\ req.test -> Return("true", TRUE)
                  [] OTHER             -> Goto("delete?")
             /\ UNCHANGED locals
          \/ /\ o.reply # "raise" /\ req.fn = "managed"
             /\ new' = ~there
             /\ listed' = ~there
             /\ UNCHANGED <<reads, action>>
             /\ CASE there -> Goto("kind")
                  [] ~there /\ ~req.legal -> Return("false", FALSE)
                  [] OTHER -> Conclude
  /\ UNCHANGED <<server, req, before, wrote, overran, raced>>

\* zones/options/get, for the zone's type; False['type'] raises.
Kind ==
  /\ pc = "kind"
  /\ \E o \in Outcome :
       /\ Call(o, zone.exists)
       /\ \/ o.reply # "ok" /\ Abort
          \/ o.reply = "ok" /\ IF zone.kind = req.kind THEN Goto("options")
                                                       ELSE Return("false", FALSE)
  /\ UNCHANGED <<server, req, locals, before, wrote, overran, raced>>

\* zones/options/get again, for the options; False.pop raises.
ReadOptions ==
  /\ pc = "options"
  /\ \E o \in Outcome :
       /\ Call(o, zone.exists)
       /\ \/ o.reply # "ok" /\ Abort /\ UNCHANGED locals
          \/ o.reply = "ok" /\ ~req.legal /\ Return("false", FALSE) /\ UNCHANGED locals
          \/ /\ o.reply = "ok" /\ req.legal
             /\ zopts' = Overlay(zone.opts, req.opts)
             /\ action' = DnssecAction(req, zone.signed)
             /\ listed' = (zopts' # zone.opts \/ action' # "none")
             /\ UNCHANGED <<new, fwd, soa>>
             /\ CASE req.kind = "Forwarder" -> Goto("fwd?")
                  [] HasSoa(req)            -> Goto("soa?")
                  [] req.kind = "Stub"      -> Conclude
  /\ UNCHANGED <<server, req, before, wrote, overran, raced>>

\* The record could not be read.  Without the FWD record the run succeeds;
\* without the SOA record it goes on.
Missing ==
  /\ UNCHANGED <<new, zopts, fwd, action, listed>>
  /\ IF pc \in {"fwd?", "fwd"}
       THEN Return("true", listed) /\ UNCHANGED soa
       ELSE /\ soa' = Unread
            /\ IF new THEN Goto("set") ELSE Conclude

\* zones/list, from zonerecord_clean.
ReadList ==
  /\ pc \in {"fwd?", "soa?"}
  /\ \E o \in Outcome :
       /\ Call(o, TRUE)
       /\ \/ o.reply = "raise" /\ Abort /\ UNCHANGED locals
          \/ /\ o.reply = "ok" /\ zone.exists
             /\ Goto(IF pc = "fwd?" THEN "fwd" ELSE "soa")
             /\ UNCHANGED locals
          \/ (o.reply = "nok" \/ (o.reply = "ok" /\ ~zone.exists)) /\ Missing
  /\ UNCHANGED <<server, req, before, wrote, overran, raced>>

\* zones/records/get, from zonerecord_clean: an answer that is not ok raises.
\* A zone that the console has made anew may have another type, and a forwarder
\* may have several FWD records, of which none is chosen.
ReadRecord ==
  /\ pc \in {"fwd", "soa"}
  /\ \E o \in Outcome :
       /\ Call(o, zone.exists)
       /\ \/ o.reply # "ok" /\ Abort /\ UNCHANGED locals
          \/ /\ o.reply = "ok" /\ pc = "fwd"
             /\ zone.kind # "Forwarder" \/ zone.fwds # "one"
             /\ Missing
          \/ /\ o.reply = "ok" /\ pc = "fwd"
             /\ zone.kind = "Forwarder" /\ zone.fwds = "one"
             /\ fwd' = zone.fwd
             /\ listed' = (listed \/ Overlay(zone.fwd, req.fwd) # zone.fwd)
             /\ UNCHANGED <<new, zopts, soa, action>>
             /\ Conclude
          \/ /\ o.reply = "ok" /\ pc = "soa"
             /\ soa' = zone.soa
             /\ listed' = (listed \/ SoaOverlay(req, zone.soa) # zone.soa)
             /\ UNCHANGED <<new, zopts, fwd, action>>
             /\ IF new THEN Goto("set") ELSE Conclude
  /\ UNCHANGED <<server, req, before, wrote, overran, raced>>

-----------------------------------------------------------------------------
(* What is written. *)

\* The server is asked for a write that it can do iff `can', and that makes
\* the zone `after'; changes c are left in the report if it is refused.
Write(can, after, c, Proceed) ==
  /\ UNCHANGED <<edits, req, locals, before, raced>>
  /\ \E o \in Outcome :
    /\ Call(o, can)
    /\ zone' = IF o.applied THEN after ELSE zone
    /\ wrote' = (wrote \/ zone' # zone)
    /\ overran' = (overran \/ (/\ pc \in {"fwd!", "soa!"} /\ ~listed
                               /\ raced /\ zone' # zone))
    /\ \/ o.reply = "raise" /\ Abort
       \/ o.reply = "nok" /\ Finish("false", c) /\ unheard' = (unheard \/ o.applied)
       \/ o.reply = "ok" /\ Proceed


AfterCreate == IF HasSoa(req) THEN Goto("soa?") ELSE Goto("set")

Create ==
  /\ pc = "create"
  /\ Write(~zone.exists, Created(req), FALSE,
           IF req.sign = "on" /\ req.kind \in {"Primary", "Forwarder"}
             THEN Goto("createsign") ELSE AfterCreate)

CanSign(on) == zone.exists /\ zone.kind = "Primary" /\ zone.signed # on

\* zone_create signs what it made, a forwarder too; if it cannot, the caller
\* takes it that nothing was made.
CreateSign ==
  /\ pc = "createsign"
  /\ Write(CanSign(TRUE), [zone EXCEPT !.signed = TRUE], FALSE, AfterCreate)

\* zones/options/set: the options named, or for a zone that was there all that
\* were read.
SetOptions ==
  /\ pc = "set"
  /\ Write(zone.exists,
           [zone EXCEPT !.opts = IF new THEN Overlay(@, req.opts) ELSE zopts],
           new, AfterOptions)

\* zones/list, from zonerecord_set.
WriteList ==
  /\ pc \in {"fwd!?", "soa!?"}
  /\ \E o \in Outcome :
       /\ Call(o, TRUE)
       /\ \/ o.reply = "raise" /\ Abort
          \/ /\ o.reply = "ok" /\ zone.exists
             /\ Goto(IF pc = "fwd!?" THEN "fwd!" ELSE "soa!")
          \/ (o.reply = "nok" \/ (o.reply = "ok" /\ ~zone.exists)) /\ Return("false", listed)
  /\ UNCHANGED <<server, req, locals, before, wrote, overran, raced>>

\* zones/records/update names the record by the fields that have a new name.
WriteFwd ==
  /\ pc = "fwd!"
  /\ Write(/\ zone.exists /\ zone.kind = "Forwarder" /\ zone.fwds # "none"
           /\ \A f \in Renamed : zone.fwd[f] = fwd[f],
           [zone EXCEPT !.fwd = FwdOverlay(req, fwd)], listed, AfterFwd)

\* The SOA record of a secondary zone is its primary's.
WriteSoa ==
  /\ pc = "soa!"
  /\ Write(zone.exists /\ zone.kind = "Primary",
           [zone EXCEPT !.soa = SoaOverlay(req, soa)], listed, AfterSoa)

Sign ==
  /\ pc = "sign"
  /\ Write(CanSign(action = "sign"), [zone EXCEPT !.signed = (action = "sign")],
           listed, Return("true", listed))

\* zone_delete asks again; a zone it does not find is a zone it removed.
DeleteList ==
  /\ pc = "delete?"
  /\ \E o \in Outcome :
       /\ Call(o, TRUE)
       /\ \/ o.reply = "raise" /\ Abort
          \/ o.reply = "ok" /\ zone.exists /\ Goto("delete")
          \/ (o.reply = "nok" \/ (o.reply = "ok" /\ ~zone.exists)) /\ Return("true", TRUE)
  /\ UNCHANGED <<server, req, locals, before, wrote, overran, raced>>

Delete ==
  /\ pc = "delete"
  /\ Write(zone.exists, NoZone(zone.kind), TRUE, Return("true", TRUE))

-----------------------------------------------------------------------------
(* The rest of the world. *)

Killed ==
  /\ Running /\ faults < MaxFaults
  /\ pc' = "idle" /\ faults' = faults + 1
  /\ UNCHANGED <<server, req, locals, report, ghosts>>

\* Somebody makes or drops the zone, or changes one thing of it.
Console ==
  /\ edits < MaxEdits
  /\ edits' = edits + 1
  /\ \/ zone.exists /\ zone' = NoZone(zone.kind)
     \/ /\ ~zone.exists
        /\ \E k \in Kinds : zone' = [NoZone(k) EXCEPT !.exists = TRUE]
     \/ /\ zone.exists
        /\ \/ \E f \in Options, v \in Values :
                v # zone.opts[f] /\ zone' = [zone EXCEPT !.opts[f] = v]
           \/ \E f \in SoaFields, v \in Values :
                /\ zone.kind = "Primary" /\ v # zone.soa.fields[f]
                /\ zone' = [zone EXCEPT !.soa.fields[f] = v,
                                        !.soa.serial = (@ + 1) % (MaxSerial + 1)]
           \/ \E f \in FwdFields, v \in Values :
                /\ zone.kind = "Forwarder" /\ v # zone.fwd[f]
                /\ zone' = [zone EXCEPT !.fwd[f] = v]
           \/ \E n \in Counts :
                /\ zone.kind = "Forwarder" /\ n # zone.fwds
                /\ zone' = [zone EXCEPT !.fwds = n]
           \/ zone.kind = "Primary" /\ zone' = [zone EXCEPT !.signed = ~@]
  /\ raced' = TRUE
  /\ UNCHANGED <<req, pc, locals, report, faults,
                 before, wrote, overran, faulted, unheard>>

Rewrite ==
  /\ ~Running /\ edits < MaxEdits
  /\ req' \in Requests
  /\ edits' = edits + 1
  /\ pc' = "idle"
  /\ UNCHANGED <<zone, locals, report, faults, ghosts>>

Step == \/ Exists \/ Kind \/ ReadOptions \/ ReadList \/ ReadRecord
        \/ Create \/ CreateSign \/ SetOptions \/ WriteList \/ WriteFwd \/ WriteSoa
        \/ Sign \/ DeleteList \/ Delete

Next == Start \/ Step \/ Killed \/ Console \/ Rewrite

Spec == Init /\ [][Next]_vars

FairSpec == Spec /\ WF_vars(Start) /\ WF_vars(Step)

-----------------------------------------------------------------------------
(* Properties. *)

\* Every variable holds a value of its kind.
TypeOK ==
  /\ zone \in Zones /\ before \in Zones
  /\ req \in Requests
  /\ pc \in {"idle", "exists", "kind", "options", "fwd?", "fwd", "soa?", "soa",
             "create", "createsign", "set", "fwd!?", "fwd!", "soa!?",
             "soa!", "sign", "delete?", "delete", "done"}
  /\ new \in BOOLEAN /\ listed \in BOOLEAN
  /\ zopts \in [Options -> Values] /\ fwd \in [FwdFields -> Values]
  /\ soa \in Soas \cup {Unread}
  /\ action \in {"none", "sign", "unsign"}
  /\ result \in {"true", "false", "none"} /\ changed \in BOOLEAN
  /\ faults \in 0..MaxFaults /\ edits \in 0..MaxEdits
  /\ wrote \in BOOLEAN /\ overran \in BOOLEAN /\ raced \in BOOLEAN
  /\ faulted \in BOOLEAN /\ unheard \in BOOLEAN

\* A run of zone_managed that reports success leaves the zone's type, options,
\* SOA record and signing as asked, whatever calls failed or were misread on
\* the way.  Forwarders are excepted: a run that cannot read the FWD record
\* succeeds, with changes listed and none made.
TruthfulSuccess ==
  pc = "done" /\ result = "true" /\ req.fn = "managed" /\ ~req.test /\ ~raced
     /\ req.kind # "Forwarder"
    => Satisfies(zone, req)

\* At every step of a managed run of a zone that was there, what the pillar
\* does not name is as it was, the SOA serial included: a failed list must not
\* make the zone anew, nor a half-read record be written back.
KeepsUnmanaged ==
  (Running \/ pc = "done") /\ req.fn = "managed" /\ before.exists /\ ~raced =>
    /\ zone.exists /\ zone.kind = before.kind
    /\ \A f \in Options   : req.opts[f] = Unmanaged => zone.opts[f] = before.opts[f]
    /\ \A f \in SoaFields : req.soa[f] = Unmanaged =>
                              zone.soa.fields[f] = before.soa.fields[f]
    /\ req.pin = Unmanaged => zone.soa.serial = before.soa.serial
    /\ \A f \in FwdFields : req.fwd[f] = Unmanaged => zone.fwd[f] = before.fwd[f]
    /\ req.sign = "unset" => zone.signed = before.signed

\* Repeated runs bring the zone to what the pillar asks, once faults and
\* changes stop; so do those of a forwarder, as far as updates reach it, if it
\* has the one FWD record.
Feasible(r) ==
  /\ r.legal /\ ~r.test
  /\ r.fn = "managed" /\ zone.exists
       => zone.kind = r.kind /\ (r.kind = "Forwarder" => zone.fwds = "one")
  /\ r.kind = "Secondary" => ~SoaAsked(r)
EventuallyManaged ==
  <>[](Feasible(req) => Satisfies(zone, req) /\ FwdSatisfies(zone, req, Renamed))

\* The zone was as asked when the run began, and nothing disturbed the run.
Settled == /\ req.legal /\ ~raced /\ ~faulted
           /\ Satisfies(before, req) /\ FwdSatisfies(before, req, FwdFields)
           /\ req.kind = "Secondary" => ~SoaAsked(req)

\* The abstract promise of a state function, which these two keep -- except
\* that a zone made and then not signed is reported as not made, and that a
\* record which shows no difference is written back all the same, undoing what
\* the console changed meanwhile without listing it: of that run the contract
\* sees a change.
Contract == INSTANCE SaltState WITH
  Result  <- {"true", "false", "none"},
  phase   <- IF Running THEN "running" ELSE pc,
  dry     <- req.test,
  heard   <- ~unheard /\ ~(new /\ req.sign = "on"),
  settled <- Settled,
  touched <- wrote,
  changed <- changed \/ overran
KeepsContract == Contract!Spec
=============================================================================
