---------------------------- MODULE TdnsRecords ----------------------------
(***************************************************************************)
(* The states tdns.zonerecord_present and tdns.zonerecord_absent, run      *)
(* again and again against one zone that the console may change meanwhile. *)
(*                                                                         *)
(* One action is one API call with the Python code up to the next call.    *)
(* zonerecord() makes two calls (list the zones, get the records) and      *)
(* zonerecord_set() two more (list the zones, add or update).  Records of  *)
(* the types A, AAAA, MX and CNAME are handled alike: a record with all    *)
(* the fields asked for is there, or it is added; only what a test run     *)
(* answers when it is there tells the first two from the others.           *)
(***************************************************************************)
EXTENDS TdnsApi

CONSTANTS
  Records,    \* A, AAAA, MX and CNAME records
  Addressed,  \* those of them that are A or AAAA
  Servers,    \* name servers that NS records name
  Glues,      \* lists of glue addresses
  NoGlue,     \* the NS record has no glueRecords
  NoRecord,   \* there is no NS record for the server
  SoaFields,  \* refresh, retry, responsiblePerson, ...
  Values,     \* their values
  Unmanaged,  \* the pillar does not name the field
  SoaDefault, \* the SOA fields of a zone made by the console
  MaxSerial,  \* the largest SOA serial
  Requests,   \* what a pillar may ask for
  MaxFaults,  \* bound on lost calls, failed logins and killed jobs
  MaxEdits    \* bound on console changes and pillar rewrites

Serials == 0..MaxSerial
Zones == [exists : BOOLEAN,
          plain  : SUBSET Records,
          ns     : [Servers -> Glues \cup {NoGlue, NoRecord}],
          soa    : [SoaFields -> Values],
          serial : Serials]

EmptyZone == [exists |-> TRUE, plain |-> {}, ns |-> [s \in Servers |-> NoRecord],
              soa |-> SoaDefault, serial |-> 0]
NoZone    == [EmptyZone EXCEPT !.exists = FALSE]

\* The keyword arguments.  A request is not well formed if its type is
\* missing or unknown, or one of the fields its type needs is missing; one
\* to zonerecord_absent, if it names no zone.
Request == [fn     : {"present", "absent"},
            kind   : {"plain", "ns", "soa"},
            rec    : Records,
            server : Servers,
            glue   : Glues \cup {Unmanaged},
            want   : [SoaFields -> Values \cup {Unmanaged}],
            pin    : Serials \cup {Unmanaged},
            test   : BOOLEAN,
            formed : BOOLEAN]

ASSUME RecordsAssumption ==
  /\ Addressed \subseteq Records
  /\ Requests \subseteq Request
  /\ NoGlue \notin Glues /\ NoRecord \notin Glues /\ NoGlue # NoRecord
  /\ Unmanaged \notin Glues /\ Unmanaged \notin Values /\ Unmanaged \notin Serials
  /\ SoaDefault \in [SoaFields -> Values]
  /\ MaxSerial \in Nat /\ MaxFaults \in Nat /\ MaxEdits \in Nat

VARIABLES
  zone,      \* the zone as the server has it
  req,       \* the state's arguments, from the pillar
  pc,        \* the API call the run makes next, or "idle" or "done"
  plan,      \* the record to be written, as add or update, or "none"
  soa, serial,  \* soa_all, the SOA record to be written
  result,    \* ret['result']
  changed,   \* ret['changes'] is not {}
  faults, edits,
  \* What an observer of the run knows:
  before,    \* the zone when the run began
  wrote,     \* the run changed the zone
  raced,     \* the console changed the zone since the run began
  faulted,   \* the run met a fault
  unheard    \* a write was done whose reply was not ok, or the run aborted

server == <<zone, edits>>
locals == <<plan, soa, serial>>
report == <<result, changed>>
ghosts == <<before, wrote, raced, faulted, unheard>>
vars   == <<zone, req, pc, plan, soa, serial, result, changed, faults, edits,
            before, wrote, raced, faulted, unheard>>

Running == pc \notin {"idle", "done"}

-----------------------------------------------------------------------------
(* Pure parts of the code, and of the server. *)

\* (Mutant: any record of the type will do.)
MatchesType(z, r) ==
  CASE r.kind = "plain" -> z.plain # {}
    [] r.kind = "ns"    -> z.ns[r.server] # NoRecord
    [] r.kind = "soa"   -> TRUE

\* zonerecord() finds a record with the fields of the request.
Matches(z, r) ==
  CASE r.kind = "plain" -> r.rec \in z.plain
    [] r.kind = "ns"    -> z.ns[r.server] # NoRecord
    [] r.kind = "soa"   -> TRUE

\* (Mutant: laid over the defaults.)
SoaOverlayDefault(r, old) ==
  [f \in SoaFields |-> IF r.want[f] = Unmanaged THEN SoaDefault[f] ELSE r.want[f]]

\* (Mutant: what the pillar does not name is not filled in.)
SoaOverlayRaw(r, old) == r.want

\* The SOA fields of the request laid over those read.
SoaOverlay(r, old) ==
  [f \in SoaFields |-> IF r.want[f] = Unmanaged THEN old[f] ELSE r.want[f]]

\* (Mutant: a serial that is not asked for counts as a difference.)
SoaDiffersUnpinned(r, z, merged) == merged # z.soa \/ r.pin # z.serial

\* The record read has to be written again.
SoaDiffers(r, z, merged) == merged # z.soa \/ r.pin \notin {Unmanaged, z.serial}

\* The serial of the record to be written: the one asked for, or the one
\* read and, if any field changes, one more -- Python's integers do not wrap.
NextSerial(r, old, differs) ==
  IF r.pin # Unmanaged THEN r.pin ELSE IF differs THEN old + 1 ELSE old

\* The server counts its own changes of the zone in the serial, modulo 2^32.
Bump(s) == (s + 1) % (MaxSerial + 1)

\* What the planned write does to the zone; the zones it cannot do it to.
\* The glue of a new NS record is not sent; a list of glue addresses is
\* encoded before it is joined, and the server cannot read it.
CanWrite ==
  /\ zone.exists
  /\ CASE plan = "add" /\ req.kind = "plain" -> req.rec \notin zone.plain
       [] plan = "add" /\ req.kind = "ns"    -> zone.ns[req.server] = NoRecord
       [] plan = "update" /\ req.kind = "ns" -> zone.ns[req.server] # NoRecord
       [] plan = "update" /\ req.kind = "soa" -> serial \in Serials
       [] OTHER -> FALSE

Written ==
  IF req.kind = "soa"
    THEN [zone EXCEPT !.soa = soa, !.serial = serial]
    ELSE [zone EXCEPT
            !.plain  = IF req.kind = "plain" THEN @ \cup {req.rec} ELSE @,
            !.ns     = IF req.kind = "ns" THEN [@ EXCEPT ![req.server] = NoGlue] ELSE @,
            !.serial = Bump(@)]

\* The zone is as the request asks.
Satisfies(z, r) ==
  IF r.fn = "absent" THEN ~z.exists \/ ~Matches(z, r)
  ELSE /\ z.exists
       /\ CASE r.kind = "plain" -> r.rec \in z.plain
            [] r.kind = "ns"    -> z.ns[r.server] # NoRecord /\
                                   (r.glue # Unmanaged => z.ns[r.server] = r.glue)
            [] r.kind = "soa"   -> /\ \A f \in SoaFields :
                                        r.want[f] \in {Unmanaged, z.soa[f]}
                                   /\ r.pin \in {Unmanaged, z.serial}

-----------------------------------------------------------------------------
Init ==
  /\ zone \in {NoZone, EmptyZone}
  /\ req \in Requests
  /\ pc = "idle"
  /\ plan = "none" /\ soa = SoaDefault /\ serial = 0
  /\ result = "false" /\ changed = FALSE
  /\ faults = 0 /\ edits = 0
  /\ before = zone
  /\ wrote = FALSE /\ raced = FALSE /\ faulted = FALSE /\ unheard = FALSE

\* A call that the server can serve iff `can' has outcome o.
Call(o, can) ==
  /\ o \in Possible(can, MaxFaults - faults)
  /\ faults' = faults + FaultsOf(o, can)
  /\ faulted' = (faulted \/ o # Undisturbed(can))

\* The state function returns r with changes c.
Finish(r, c) == pc' = "done" /\ result' = r /\ changed' = c

\* An exception escapes the state function.
Abort == Finish("false", FALSE) /\ unheard' = TRUE

Goto(l) == pc' = l /\ UNCHANGED report

\* The state compiler calls the state function.
Start ==
  /\ ~Running
  /\ pc' = "check"
  /\ plan' = "none" /\ soa' = SoaDefault /\ serial' = 0
  /\ result' = "false" /\ changed' = FALSE
  /\ before' = zone
  /\ wrote' = FALSE /\ raced' = FALSE /\ faulted' = FALSE /\ unheard' = FALSE
  /\ UNCHANGED <<server, req, faults>>

\* A missing argument is an error when a record is to be present; when it is
\* to be absent, nothing is found without it.
Check ==
  /\ pc = "check"
  /\ IF req.formed THEN Goto("zone")
     ELSE Finish(IF req.fn = "absent" THEN "true" ELSE "false", FALSE)
  /\ UNCHANGED <<server, req, locals, faults, ghosts>>

\* The end of zonerecord_present: p is what is to be written.
Conclude(p) ==
  CASE req.test                -> Finish("none", p # "none")
    [] ~req.test /\ p = "none" -> Finish("true", FALSE)
    [] ~req.test /\ p # "none" -> Goto("zone2")

\* zonerecord() found nothing: the SOA cannot be absent, the rest is added.
NotFound ==
  /\ UNCHANGED <<soa, serial>>
  /\ CASE req.fn = "absent" -> Finish("true", FALSE) /\ plan' = "none"
       [] req.fn = "present" /\ req.kind = "soa" ->
            Finish("false", FALSE) /\ plan' = "none"
       [] OTHER -> plan' = "add" /\ Conclude("add")

\* The record is there; an A or AAAA record returns before test is heeded.
FoundPlain ==
  /\ plan' = "none" /\ UNCHANGED <<soa, serial>>
  /\ IF req.rec \in Addressed THEN Finish("true", FALSE) ELSE Conclude("none")

\* The glue is compared; when there was none the update does not carry it,
\* and when it differs the update cannot be read (CanWrite).
FoundNs ==
  LET old == zone.ns[req.server]
      p   == IF req.glue \in {Unmanaged, old} THEN "none"
             ELSE IF old = NoGlue THEN "update" ELSE "badglue" IN
  /\ plan' = p
  /\ Conclude(p)
  /\ UNCHANGED <<soa, serial>>

FoundSoa ==
  LET merged  == SoaOverlay(req, zone.soa)
      differs == SoaDiffers(req, zone, merged) IN
  /\ soa' = merged
  /\ serial' = NextSerial(req, zone.serial, differs)
  /\ plan' = IF differs THEN "update" ELSE "none"
  /\ Conclude(plan')

Found ==
  CASE req.fn = "absent" -> Goto("zone3") /\ UNCHANGED locals
    [] req.fn = "present" /\ req.kind = "plain" -> FoundPlain
    [] req.fn = "present" /\ req.kind = "ns"    -> FoundNs
    [] req.fn = "present" /\ req.kind = "soa"   -> FoundSoa

\* zones/list, from zone_exists: a failed call reads as absent.
\* zonerecord() asks first, zonerecord_set() asks again, and
\* zonerecord_absent runs zonerecord() once more instead of deleting.
ZoneList ==
  /\ pc \in {"zone", "zone2", "zone3"}
  /\ \E o \in Outcome :
       /\ Call(o, TRUE)
       /\ \/ o.reply = "raise" /\ Abort /\ UNCHANGED locals
          \/ /\ o.reply = "ok" /\ zone.exists
             /\ Goto(CASE pc = "zone"  -> "get"
                       [] pc = "zone2" -> "write"
                       [] pc = "zone3" -> "get3")
             /\ UNCHANGED <<locals, unheard>>
          \/ /\ o.reply = "nok" \/ (o.reply = "ok" /\ ~zone.exists)
             /\ CASE pc = "zone"  -> NotFound
                  [] pc = "zone2" -> Finish("false", FALSE) /\ UNCHANGED locals
                  [] pc = "zone3" -> Finish("true", FALSE) /\ UNCHANGED locals
             /\ UNCHANGED unheard
  /\ UNCHANGED <<server, req, before, wrote, raced>>

\* zones/records/get, from zonerecord(): a failed call is answered with an
\* undefined name, which raises.
Get ==
  /\ pc = "get"
  /\ \E o \in Outcome :
       /\ Call(o, zone.exists)
       /\ \/ o.reply # "ok" /\ Abort /\ UNCHANGED locals
          \/ /\ o.reply = "ok"
             /\ IF Matches(zone, req) THEN Found ELSE NotFound
             /\ UNCHANGED unheard
  /\ UNCHANGED <<server, req, before, wrote, raced>>

\* zonerecord_absent: what the second zonerecord() returns is a dictionary of
\* two keys, unpacked as if it were the result of a deletion.
GetAgain ==
  /\ pc = "get3"
  /\ \E o \in Outcome :
       /\ Call(o, zone.exists)
       /\ \/ o.reply # "ok" /\ Abort
          \/ o.reply = "ok" /\ Finish("true", FALSE) /\ UNCHANGED unheard
  /\ UNCHANGED <<server, req, locals, before, wrote, raced>>

\* zones/records/add or zones/records/update.
Write ==
  /\ pc = "write"
  /\ \E o \in Outcome :
       /\ Call(o, CanWrite)
       /\ zone' = IF o.applied THEN Written ELSE zone
       /\ wrote' = (wrote \/ o.applied)
       /\ \/ o.reply = "raise" /\ Abort
          \/ o.reply = "nok" /\ Finish("false", FALSE)
             /\ unheard' = (unheard \/ o.applied)
          \/ o.reply = "ok" /\ Finish("true", TRUE) /\ UNCHANGED unheard
  /\ UNCHANGED <<edits, req, locals, before, raced>>

-----------------------------------------------------------------------------
(* The rest of the world. *)

Killed ==
  /\ Running /\ faults < MaxFaults
  /\ pc' = "idle" /\ faults' = faults + 1
  /\ UNCHANGED <<server, req, locals, report, ghosts>>

\* Somebody makes or drops the zone, or changes one record of it.
Console ==
  /\ edits < MaxEdits
  /\ edits' = edits + 1
  /\ \/ zone.exists /\ zone' = NoZone
     \/ ~zone.exists /\ zone' = EmptyZone
     \/ /\ zone.exists
        /\ \/ \E r \in Records : zone' =
                [zone EXCEPT !.plain = IF r \in @ THEN @ \ {r} ELSE @ \cup {r},
                             !.serial = Bump(@)]
           \/ \E s \in Servers, g \in Glues \cup {NoGlue, NoRecord} :
                /\ g # zone.ns[s]
                /\ zone' = [zone EXCEPT !.ns[s] = g, !.serial = Bump(@)]
           \/ \E f \in SoaFields, v \in Values :
                /\ v # zone.soa[f]
                /\ zone' = [zone EXCEPT !.soa[f] = v, !.serial = Bump(@)]
  /\ raced' = TRUE
  /\ UNCHANGED <<req, pc, locals, report, faults, before, wrote, faulted, unheard>>

Rewrite ==
  /\ ~Running /\ edits < MaxEdits
  /\ req' \in Requests
  /\ edits' = edits + 1
  /\ pc' = "idle"
  /\ UNCHANGED <<zone, locals, report, faults, ghosts>>

Step == Check \/ ZoneList \/ Get \/ GetAgain \/ Write

Next == Start \/ Step \/ Killed \/ Console \/ Rewrite

Spec == Init /\ [][Next]_vars

FairSpec == Spec /\ WF_vars(Start) /\ WF_vars(Step)

-----------------------------------------------------------------------------
(* Properties. *)

\* Every variable holds a value of its kind.  The serial of soa_all may be
\* one too large.
TypeOK ==
  /\ zone \in Zones /\ before \in Zones
  /\ req \in Requests
  /\ pc \in {"idle", "check", "zone", "get", "zone2", "write", "zone3", "get3", "done"}
  /\ plan \in {"none", "add", "update", "badglue"}
  /\ soa \in [SoaFields -> Values] /\ serial \in 0..(MaxSerial + 1)
  /\ result \in {"true", "false", "none"} /\ changed \in BOOLEAN
  /\ faults \in 0..MaxFaults /\ edits \in 0..MaxEdits
  /\ wrote \in BOOLEAN /\ raced \in BOOLEAN
  /\ faulted \in BOOLEAN /\ unheard \in BOOLEAN

WantsGlue(r) == r.kind = "ns" /\ r.glue # Unmanaged

\* A run of zonerecord_present that reports success leaves the record as
\* asked, whatever calls failed or were misread on the way.  Glue is excepted: the
\* state lists it as changed but puts it into no request.
TruthfulPresent ==
  pc = "done" /\ result = "true" /\ req.fn = "present" /\ ~req.test
     /\ ~raced /\ ~WantsGlue(req)
    => Satisfies(zone, req)

\* A run leaves every record alone but the one it was asked about, keeps the
\* SOA fields the pillar does not name, and moves the serial forward by one
\* step at most, unless the pillar pins it.
KeepsOthers ==
  Running \/ pc = "done" =>
    (before.exists /\ ~raced =>
       /\ zone.exists
       /\ zone.plain \ {req.rec} = before.plain \ {req.rec}
       /\ before.plain \subseteq zone.plain
       /\ \A s \in Servers \ {req.server} : zone.ns[s] = before.ns[s]
       /\ \A f \in SoaFields :
            req.kind # "soa" \/ req.want[f] = Unmanaged => zone.soa[f] = before.soa[f]
       /\ \/ req.pin # Unmanaged
          \/ zone.serial = IF wrote THEN Bump(before.serial) ELSE before.serial)

\* Repeated runs get the record into the zone, if there is a zone, once
\* faults and changes stop -- unless the serial is at the end of its range.
Feasible(r) == r.fn = "present" /\ r.formed /\ ~r.test /\ ~WantsGlue(r)
EventuallyPresent ==
  <>[](Feasible(req) /\ zone.exists /\ zone.serial # MaxSerial
         => Satisfies(zone, req))

\* zonerecord_absent's docstring: `ensures a resource record is not present'.
AbsentMeansGone ==
  pc = "done" /\ req.fn = "absent" /\ result = "true" /\ ~raced /\ ~faulted
    => Satisfies(zone, req)

\* The abstract promise of a state function, which these two keep.
Contract == INSTANCE SaltState WITH
  Result  <- {"true", "false", "none"},
  phase   <- IF Running THEN "running" ELSE pc,
  dry     <- req.test,
  heard   <- ~unheard,
  settled <- req.formed /\ Satisfies(before, req) /\ ~raced /\ ~faulted,
  touched <- wrote
KeepsContract == Contract!Spec
=============================================================================
