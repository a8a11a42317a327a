-------------------------- MODULE TdnsZones_proofs --------------------------
(***************************************************************************)
(* Proofs about TdnsZones, for all fields, values, requests and bounds.    *)
(***************************************************************************)
EXTENDS TdnsZones, TLAPS

-----------------------------------------------------------------------------
(* Lemmas about the operators. *)

\* An outcome is a pair, and only an applied call is answered ok.
LEMMA OutcomeShape ==
  ASSUME NEW o \in Outcome
  PROVE  o.applied \in BOOLEAN /\ o.reply \in {"ok", "nok", "raise"}
         /\ (o.reply = "ok" => o.applied)
BY DEF Outcome, Reply

\* A call spends at most the faults that are left, and never acts on a
\* request that the server cannot serve.
LEMMA CallBudget ==
  ASSUME TypeOK, NEW o, NEW can \in BOOLEAN, Call(o, can)
  PROVE  /\ faults' \in 0..MaxFaults
         /\ faulted' \in BOOLEAN
         /\ o \in Outcome
         /\ o.applied => can
BY ZonesAssumption DEF TypeOK, Call, Possible, FaultsOf

\* The parts of a request.
LEMMA RequestShape ==
  ASSUME NEW r \in Requests
  PROVE  /\ r.fn \in {"managed", "absent"} /\ r.kind \in Kinds
         /\ r.opts \in [Options -> Values \cup {Unmanaged}]
         /\ r.soa \in [SoaFields -> Values \cup {Unmanaged}]
         /\ r.pin \in Serials \cup {Unmanaged}
         /\ r.fwd \in [FwdFields -> Values \cup {Unmanaged}]
         /\ r.sign \in {"unset", "on", "off"}
         /\ r.test \in BOOLEAN /\ r.legal \in BOOLEAN
BY ZonesAssumption DEF Request

\* The parts of a zone.
LEMMA ZoneShape ==
  ASSUME NEW z \in Zones
  PROVE  /\ z.exists \in BOOLEAN /\ z.kind \in Kinds /\ z.signed \in BOOLEAN
         /\ z.opts \in [Options -> Values] /\ z.fwd \in [FwdFields -> Values]
         /\ z.soa \in Soas
BY DEF Zones

\* Laying a request over fields gives fields, ...
LEMMA OverlayType ==
  ASSUME NEW F, NEW old \in [F -> Values], NEW want \in [F -> Values \cup {Unmanaged}]
  PROVE  Overlay(old, want) \in [F -> Values]
BY DEF Overlay

\* ... which are what it wants, and as before where it wants nothing.
LEMMA OverlayHolds ==
  ASSUME NEW F, NEW old \in [F -> Values], NEW want \in [F -> Values \cup {Unmanaged}]
  PROVE  /\ Agrees(Overlay(old, want), want)
         /\ \A f \in F : want[f] = Unmanaged => Overlay(old, want)[f] = old[f]
BY DEF Overlay, Agrees

LEMMA SoaOverlayType ==
  ASSUME NEW r \in Requests, NEW old \in Soas
  PROVE  /\ SoaOverlay(r, old) \in Soas
         /\ SoaOverlay(r, old).fields = Overlay(old.fields, r.soa)
         /\ SoaOverlay(r, old).serial = IF r.pin = Unmanaged THEN old.serial ELSE r.pin
<1>1. old.fields \in [SoaFields -> Values] /\ old.serial \in Serials
  BY DEF Soas
<1>2. Overlay(old.fields, r.soa) \in [SoaFields -> Values]
  BY <1>1, RequestShape, OverlayType
<1>3. (IF r.pin = Unmanaged THEN old.serial ELSE r.pin) \in Serials
  BY <1>1, RequestShape
<1>4. QED BY <1>2, <1>3 DEF SoaOverlay, Soas

LEMMA FwdOverlayType ==
  ASSUME NEW r \in Requests, NEW old \in [FwdFields -> Values]
  PROVE  /\ FwdOverlay(r, old) \in [FwdFields -> Values]
         /\ \A f \in FwdFields : r.fwd[f] = Unmanaged => FwdOverlay(r, old)[f] = old[f]
<1>1. r.fwd \in [FwdFields -> Values \cup {Unmanaged}]
  BY RequestShape
<1>2. Overlay(old, r.fwd) \in [FwdFields -> Values]
  BY <1>1, OverlayType
<1>3. \A f \in FwdFields : r.fwd[f] = Unmanaged => Overlay(old, r.fwd)[f] = old[f]
  BY <1>1, OverlayHolds
<1>4. QED BY <1>2, <1>3 DEF FwdOverlay

\* A zone just made, or not there.
LEMMA CreatedShape ==
  ASSUME NEW r \in Requests
  PROVE  /\ Created(r) \in Zones
         /\ Created(r).exists /\ Created(r).kind = r.kind /\ ~Created(r).signed
<1>1. r.fwd \in [FwdFields -> Values \cup {Unmanaged}] /\ r.kind \in Kinds
  BY RequestShape
<1>2. Overlay(DefaultFwd, r.fwd) \in [FwdFields -> Values]
  BY <1>1, OverlayType, ZonesAssumption
<1>3. [f \in FwdFields |-> IF f \in SentAtCreation
                             THEN Overlay(DefaultFwd, r.fwd)[f] ELSE DefaultFwd[f]]
        \in [FwdFields -> Values]
  BY <1>2, ZonesAssumption
<1>4. QED BY <1>1, <1>3, ZonesAssumption DEF Created, Zones, Counts

LEMMA NoZoneType ==
  ASSUME NEW k \in Kinds
  PROVE  NoZone(k) \in Zones /\ [NoZone(k) EXCEPT !.exists = TRUE] \in Zones
BY ZonesAssumption DEF NoZone, Zones, Counts

-----------------------------------------------------------------------------
(* Type correctness. *)

Labels == {"idle", "exists", "kind", "options", "fwd?", "fwd", "soa?", "soa",
           "create", "createsign", "set", "fwd!?", "fwd!", "soa!?",
           "soa!", "sign", "delete?", "delete", "done"}

\* The SOA record is written only if it was read; without this there is no
\* saying that what is written is an SOA record.
SoaRead == pc \in {"soa!?", "soa!"} => soa # Unread
TypeInv == TypeOK /\ SoaRead

\* What a step sets as it goes on or returns.
Onward == /\ pc \in Labels /\ result \in {"true", "false", "none"}
          /\ changed \in BOOLEAN /\ unheard \in BOOLEAN
          /\ SoaRead

LEMMA FinishType ==
  ASSUME TypeOK, NEW r \in {"true", "false", "none"}, NEW c \in BOOLEAN
  PROVE  /\ Finish(r, c) /\ unheard' \in BOOLEAN => Onward'
         /\ Return(r, c) => Onward'
         /\ Abort => Onward'
BY DEF TypeOK, Finish, Return, Abort, Onward, Labels, SoaRead

LEMMA GotoType ==
  ASSUME TypeOK, NEW l \in Labels, Goto(l),
         l \in {"soa!?", "soa!"} => soa' # Unread
  PROVE  Onward'
BY DEF TypeOK, Goto, report, Onward, SoaRead

LEMMA AfterSoaType == ASSUME TypeOK, listed' \in BOOLEAN, AfterSoa PROVE Onward'
BY FinishType, GotoType DEF AfterSoa, Labels

LEMMA AfterFwdType == ASSUME TypeOK, listed' \in BOOLEAN, AfterFwd PROVE Onward'
BY FinishType, GotoType, AfterSoaType DEF AfterFwd, Labels

LEMMA AfterOptionsType ==
  ASSUME TypeOK, listed' \in BOOLEAN, AfterOptions PROVE Onward'
BY GotoType, AfterFwdType DEF AfterOptions, Labels

LEMMA ConcludeType == ASSUME TypeOK, listed' \in BOOLEAN, Conclude PROVE Onward'
BY FinishType, GotoType, AfterOptionsType DEF Conclude, Labels

LEMMA MissingType ==
  ASSUME TypeOK, Missing
  PROVE  /\ Onward' /\ soa' \in Soas \cup {Unread}
         /\ UNCHANGED <<new, zopts, fwd, action, listed>>
<1>1. UNCHANGED <<new, zopts, fwd, action, listed>>
  BY DEF Missing
<1>2. listed' \in BOOLEAN
  BY <1>1 DEF TypeOK
<1>3. CASE pc \in {"fwd?", "fwd"}
  BY <1>1, <1>3, FinishType DEF Missing, TypeOK
<1>4. CASE pc \notin {"fwd?", "fwd"}
  BY <1>1, <1>2, <1>4, GotoType, ConcludeType DEF Missing, Labels
<1>5. QED BY <1>3, <1>4, <1>1

\* What a write leaves when it leaves a zone and its caller goes on.
LEMMA WriteType ==
  ASSUME TypeOK, NEW can \in BOOLEAN, NEW after \in Zones, NEW c \in BOOLEAN,
         NEW o \in Outcome, Call(o, can),
         zone' = (IF o.applied THEN after ELSE zone),
         wrote' = (wrote \/ zone' # zone),
         overran' = (overran \/ (pc \in {"fwd!", "soa!"} /\ ~listed /\ raced /\ zone' # zone)),
         UNCHANGED <<edits, req, locals, before, raced>>,
         Onward'
  PROVE  TypeInv'
<1>1. faults' \in 0..MaxFaults /\ faulted' \in BOOLEAN
  BY CallBudget
<1>2. zone' \in Zones
  BY OutcomeShape DEF TypeOK
<1>3. wrote' \in BOOLEAN /\ overran' \in BOOLEAN
  BY DEF TypeOK
<1>4. QED BY <1>1, <1>2, <1>3 DEF TypeInv, TypeOK, locals, Onward, Labels

LEMMA TypeInit == Init => TypeInv
<1> SUFFICES ASSUME Init PROVE TypeInv
  OBVIOUS
<1> DEFINE bare == [req EXCEPT !.fwd = [f \in FwdFields |-> Unmanaged]]
<1>1. req \in Requests
  BY DEF Init
<1>2. Created(bare) \in Zones
  <2>1. /\ bare.kind \in Kinds
        /\ bare.fwd \in [FwdFields -> Values \cup {Unmanaged}]
    BY <1>1, RequestShape, ZonesAssumption DEF Request
  <2> HIDE DEF bare
  <2>2. Overlay(DefaultFwd, bare.fwd) \in [FwdFields -> Values]
    BY <2>1, OverlayType, ZonesAssumption
  <2>3. QED BY <2>1, <2>2, ZonesAssumption DEF Created, Zones, Counts
<1>3. zone \in Zones /\ before \in Zones
  BY <1>1, <1>2, RequestShape, NoZoneType DEF Init
<1>4. faults \in 0..MaxFaults /\ edits \in 0..MaxEdits
  BY ZonesAssumption DEF Init
<1>5. zopts \in [Options -> Values] /\ fwd \in [FwdFields -> Values] /\ soa \in Soas \cup {Unread}
  BY ZonesAssumption DEF Init
<1>6. QED BY <1>1, <1>3, <1>4, <1>5 DEF Init, TypeOK, TypeInv, SoaRead

LEMMA TypeStart == TypeOK /\ Start => TypeInv'
<1> SUFFICES ASSUME TypeOK, Start PROVE TypeInv'
  OBVIOUS
<1>1. zopts' \in [Options -> Values] /\ fwd' \in [FwdFields -> Values]
      /\ soa' \in Soas \cup {Unread}
  BY ZonesAssumption DEF Start
<1>2. QED BY <1>1 DEF Start, TypeOK, TypeInv, SoaRead, server

\* A read leaves what it does not return alone.
LEMMA ReadType ==
  ASSUME TypeOK, NEW can \in BOOLEAN, NEW o, Call(o, can),
         UNCHANGED <<server, req, before, wrote, overran, raced>>, Onward',
         new' \in BOOLEAN, listed' \in BOOLEAN, zopts' \in [Options -> Values],
         fwd' \in [FwdFields -> Values], soa' \in Soas \cup {Unread},
         action' \in {"none", "sign", "unsign"}
  PROVE  TypeInv'
<1>1. faults' \in 0..MaxFaults /\ faulted' \in BOOLEAN
  BY CallBudget
<1>2. QED BY <1>1 DEF TypeInv, TypeOK, server, Onward, Labels

LEMMA TypeExists == TypeOK /\ Exists => TypeInv'
<1> SUFFICES ASSUME TypeOK, Exists PROVE TypeInv'
  OBVIOUS
<1>1. PICK o \in Outcome :
       /\ Call(o, TRUE)
       /\ LET there == o.reply = "ok" /\ zone.exists IN
          \/ o.reply = "raise" /\ Abort /\ UNCHANGED locals
          \/ /\ o.reply # "raise" /\ req.fn = "absent"
             /\ CASE ~there            -> Return("true", FALSE)
                  [] there /\ req.test -> Return("true", TRUE)
                  [] OTHER             -> Goto("delete?")
             /\ UNCHANGED locals
          \/ /\ o.reply # "raise" /\ req.fn = "managed"
             /\ new' = ~there
             /\ listed' = ~there
             /\ UNCHANGED <<reads, action>>
             /\ CASE there -> Goto("kind")
                  [] ~there /\ ~req.legal -> Return("false", FALSE)
                  [] OTHER -> Conclude
  BY DEF Exists
<1>2. UNCHANGED <<server, req, before, wrote, overran, raced>>
  BY DEF Exists
<1> DEFINE there == o.reply = "ok" /\ zone.exists
<1>3. there \in BOOLEAN /\ req.test \in BOOLEAN /\ req.legal \in BOOLEAN
  BY OutcomeShape, ZoneShape, RequestShape DEF TypeOK
<1>4. CASE UNCHANGED locals /\ Onward'
  BY <1>1, <1>2, <1>4, ReadType DEF locals, TypeOK
<1>5. CASE o.reply = "raise" /\ Abort /\ UNCHANGED locals
  BY <1>4, <1>5, FinishType
<1>6. CASE /\ o.reply # "raise" /\ req.fn = "absent"
           /\ CASE ~there            -> Return("true", FALSE)
                [] there /\ req.test -> Return("true", TRUE)
                [] OTHER             -> Goto("delete?")
           /\ UNCHANGED locals
  <2> HIDE DEF there
  <2>1. Return("true", FALSE) \/ Return("true", TRUE) \/ Goto("delete?")
    BY <1>3, <1>6
  <2>2. Onward'
    BY <2>1, FinishType, GotoType DEF Labels
  <2>3. QED BY <1>4, <1>6, <2>2
<1>7. CASE /\ o.reply # "raise" /\ req.fn = "managed"
           /\ new' = ~there
           /\ listed' = ~there
           /\ UNCHANGED <<reads, action>>
           /\ CASE there -> Goto("kind")
                [] ~there /\ ~req.legal -> Return("false", FALSE)
                [] OTHER -> Conclude
  <2> HIDE DEF there
  <2>1. new' \in BOOLEAN /\ listed' \in BOOLEAN
    BY <1>3, <1>7
  <2>2. Goto("kind") \/ Return("false", FALSE) \/ Conclude
    BY <1>3, <1>7
  <2>3. Onward'
    BY <2>1, <2>2, FinishType, GotoType, ConcludeType DEF Labels
  <2>4. QED BY <1>1, <1>2, <1>7, <2>1, <2>3, ReadType DEF reads, TypeOK
<1>8. QED BY <1>1, <1>5, <1>6, <1>7

LEMMA TypeKind == TypeOK /\ Kind => TypeInv'
<1> SUFFICES ASSUME TypeOK, Kind PROVE TypeInv'
  OBVIOUS
<1>1. PICK o \in Outcome :
       /\ Call(o, zone.exists)
       /\ \/ o.reply # "ok" /\ Abort
          \/ o.reply = "ok" /\ IF zone.kind = req.kind THEN Goto("options")
                                                       ELSE Return("false", FALSE)
  BY DEF Kind
<1>2. Onward'
  BY <1>1, FinishType, GotoType DEF Labels
<1>3. zone.exists \in BOOLEAN
  BY ZoneShape DEF TypeOK
<1>4. QED BY <1>1, <1>2, <1>3, ReadType DEF Kind, locals, TypeOK

LEMMA ActionType == \A r, s : DnssecAction(r, s) \in {"none", "sign", "unsign"}
BY DEF DnssecAction

LEMMA TypeReadOptions == TypeOK /\ ReadOptions => TypeInv'
<1> SUFFICES ASSUME TypeOK, ReadOptions PROVE TypeInv'
  OBVIOUS
<1>1. PICK o \in Outcome :
       /\ Call(o, zone.exists)
       /\ \/ o.reply # "ok" /\ Abort /\ UNCHANGED locals
          \/ o.reply = "ok" /\ ~req.legal /\ Return("false", FALSE) /\ UNCHANGED locals
          \/ /\ o.reply = "ok" /\ req.legal
             /\ zopts' = Overlay(zone.opts, req.opts)
             /\ action' = DnssecAction(req, zone.signed)
             /\ listed' = (zopts' # zone.opts \/ action' # "none")
             /\ UNCHANGED <<new, fwd, soa>>
             /\ CASE req.kind = "Forwarder" -> Goto("fwd?")
                  [] HasSoa(req)            -> Goto("soa?")
                  [] req.kind = "Stub"      -> Conclude
  BY DEF ReadOptions
<1>2. UNCHANGED <<server, req, before, wrote, overran, raced>>
  BY DEF ReadOptions
<1>3. zone.exists \in BOOLEAN /\ zone.opts \in [Options -> Values]
  BY ZoneShape DEF TypeOK
<1>4. CASE UNCHANGED locals /\ Onward'
  BY <1>1, <1>2, <1>3, <1>4, ReadType DEF locals, TypeOK
<1>5. CASE (Abort \/ Return("false", FALSE)) /\ UNCHANGED locals
  BY <1>4, <1>5, FinishType
<1>6. CASE /\ zopts' = Overlay(zone.opts, req.opts)
           /\ action' = DnssecAction(req, zone.signed)
           /\ listed' = (zopts' # zone.opts \/ action' # "none")
           /\ UNCHANGED <<new, fwd, soa>>
           /\ CASE req.kind = "Forwarder" -> Goto("fwd?")
                [] HasSoa(req)            -> Goto("soa?")
                [] req.kind = "Stub"      -> Conclude
  <2>1. zopts' \in [Options -> Values]
    BY <1>3, <1>6, OverlayType, RequestShape DEF TypeOK
  <2>2. action' \in {"none", "sign", "unsign"} /\ listed' \in BOOLEAN
    BY <1>6, ActionType
  <2>3. Goto("fwd?") \/ Goto("soa?") \/ Conclude
    <3>1. req.kind \in Kinds
      BY RequestShape DEF TypeOK
    <3>2. QED BY <1>6, <3>1 DEF Kinds, HasSoa
  <2>4. Onward'
    BY <2>2, <2>3, GotoType, ConcludeType DEF Labels
  <2>5. QED BY <1>1, <1>2, <1>3, <1>6, <2>1, <2>2, <2>4, ReadType DEF TypeOK
<1>7. QED BY <1>1, <1>5, <1>6

LEMMA TypeReadList == TypeOK /\ ReadList => TypeInv'
<1> SUFFICES ASSUME TypeOK, ReadList PROVE TypeInv'
  OBVIOUS
<1>1. PICK o \in Outcome :
       /\ Call(o, TRUE)
       /\ \/ o.reply = "raise" /\ Abort /\ UNCHANGED locals
          \/ /\ o.reply = "ok" /\ zone.exists
             /\ Goto(IF pc = "fwd?" THEN "fwd" ELSE "soa")
             /\ UNCHANGED locals
          \/ (o.reply = "nok" \/ (o.reply = "ok" /\ ~zone.exists)) /\ Missing
  BY DEF ReadList
<1>2. UNCHANGED <<server, req, before, wrote, overran, raced>>
  BY DEF ReadList
<1>3. CASE Missing
  BY <1>1, <1>2, <1>3, MissingType, ReadType DEF TypeOK
<1>4. CASE (Abort \/ Goto(IF pc = "fwd?" THEN "fwd" ELSE "soa")) /\ UNCHANGED locals
  <2>1. Onward'
    BY <1>4, FinishType, GotoType DEF Labels
  <2>2. QED BY <1>1, <1>2, <1>4, <2>1, ReadType DEF locals, TypeOK
<1>5. QED BY <1>1, <1>3, <1>4

LEMMA TypeReadRecord == TypeOK /\ ReadRecord => TypeInv'
<1> SUFFICES ASSUME TypeOK, ReadRecord PROVE TypeInv'
  OBVIOUS
<1>1. PICK o \in Outcome :
       /\ Call(o, zone.exists)
       /\ \/ o.reply # "ok" /\ Abort /\ UNCHANGED locals
          \/ /\ o.reply = "ok" /\ pc = "fwd"
             /\ zone.kind # "Forwarder" \/ zone.fwds # "one"
             /\ Missing
          \/ /\ o.reply = "ok" /\ pc = "fwd"
             /\ zone.kind = "Forwarder" /\ zone.fwds = "one"
             /\ fwd' = zone.fwd
             /\ listed' = (listed \/ Overlay(zone.fwd, req.fwd) # zone.fwd)
             /\ UNCHANGED <<new, zopts, soa, action>>
             /\ Conclude
          \/ /\ o.reply = "ok" /\ pc = "soa"
             /\ soa' = zone.soa
             /\ listed' = (listed \/ SoaOverlay(req, zone.soa) # zone.soa)
             /\ UNCHANGED <<new, zopts, fwd, action>>
             /\ IF new THEN Goto("set") ELSE Conclude
  BY DEF ReadRecord
<1>2. UNCHANGED <<server, req, before, wrote, overran, raced>>
  BY DEF ReadRecord
<1>3. zone.exists \in BOOLEAN /\ zone.fwd \in [FwdFields -> Values] /\ zone.soa \in Soas
  BY ZoneShape DEF TypeOK
<1>4. CASE Abort /\ UNCHANGED locals
  <2>1. Onward'
    BY <1>4, FinishType
  <2>2. QED BY <1>1, <1>2, <1>3, <1>4, <2>1, ReadType DEF locals, TypeOK
<1>5. CASE Missing
  BY <1>1, <1>2, <1>3, <1>5, MissingType, ReadType DEF TypeOK
<1>6. CASE /\ fwd' = zone.fwd
           /\ listed' = (listed \/ Overlay(zone.fwd, req.fwd) # zone.fwd)
           /\ UNCHANGED <<new, zopts, soa, action>>
           /\ Conclude
  <2>1. listed' \in BOOLEAN
    BY <1>6 DEF TypeOK
  <2>2. Onward'
    BY <1>6, <2>1, ConcludeType
  <2>3. QED BY <1>1, <1>2, <1>3, <1>6, <2>1, <2>2, ReadType DEF TypeOK
<1>7. CASE /\ soa' = zone.soa
           /\ listed' = (listed \/ SoaOverlay(req, zone.soa) # zone.soa)
           /\ UNCHANGED <<new, zopts, fwd, action>>
           /\ IF new THEN Goto("set") ELSE Conclude
  <2>1. listed' \in BOOLEAN
    BY <1>7 DEF TypeOK
  <2>2. Onward'
    BY <1>7, <2>1, GotoType, ConcludeType DEF Labels
  <2>3. QED BY <1>1, <1>2, <1>3, <1>7, <2>1, <2>2, ReadType DEF TypeOK
<1>8. QED BY <1>1, <1>4, <1>5, <1>6, <1>7

\* What a write comes to, whatever it writes.
LEMMA WriteOutcome ==
  ASSUME TypeOK, NEW can \in BOOLEAN, NEW after \in Zones, NEW c \in BOOLEAN,
         NEW go \in BOOLEAN, go => Onward', Write(can, after, c, go)
  PROVE  TypeInv'
<1>1. UNCHANGED <<edits, req, locals, before, raced>>
  BY DEF Write
<1>2. PICK o \in Outcome :
        /\ Call(o, can)
        /\ zone' = IF o.applied THEN after ELSE zone
        /\ wrote' = (wrote \/ zone' # zone)
        /\ overran' = (overran \/ (pc \in {"fwd!", "soa!"} /\ ~listed /\ raced /\ zone' # zone))
        /\ \/ o.reply = "raise" /\ Abort
           \/ o.reply = "nok" /\ Finish("false", c) /\ unheard' = (unheard \/ o.applied)
           \/ o.reply = "ok" /\ go
  BY DEF Write
<1>3. CASE o.reply = "raise" /\ Abort
  BY <1>3, FinishType, <1>1, <1>2, WriteType
<1>4. CASE o.reply = "nok" /\ Finish("false", c) /\ unheard' = (unheard \/ o.applied)
  <2>1. unheard' \in BOOLEAN
    BY <1>4, OutcomeShape DEF TypeOK
  <2>2. Onward'
    BY <1>4, <2>1, FinishType
  <2>3. QED BY <1>1, <1>2, <2>2, WriteType
<1>5. CASE o.reply = "ok" /\ go
  BY <1>1, <1>2, <1>5, WriteType
<1>6. QED BY <1>2, <1>3, <1>4, <1>5

LEMMA TypeCreate == TypeOK /\ Create => TypeInv'
<1> SUFFICES ASSUME TypeOK, Create PROVE TypeInv'
  OBVIOUS
<1> DEFINE go == IF req.sign = "on" /\ req.kind \in {"Primary", "Forwarder"}
                   THEN Goto("createsign") ELSE AfterCreate
<1>1. (~zone.exists) \in BOOLEAN /\ Created(req) \in Zones
  BY CreatedShape DEF TypeOK
<1>2. go => Onward'
  BY GotoType DEF AfterCreate, Labels
<1>3. go \in BOOLEAN
  BY DEF AfterCreate, Goto
<1>4. Write(~zone.exists, Created(req), FALSE, go)
  BY DEF Create
<1> HIDE DEF go
<1>5. QED BY <1>1, <1>2, <1>3, <1>4, WriteOutcome

LEMMA TypeCreateSign == TypeOK /\ CreateSign => TypeInv'
<1> SUFFICES ASSUME TypeOK, CreateSign PROVE TypeInv'
  OBVIOUS
<1> DEFINE after == [zone EXCEPT !.signed = TRUE]
<1>1. (CanSign(TRUE)) \in BOOLEAN /\ (FALSE) \in BOOLEAN
  BY ZoneShape DEF TypeOK, CanSign
<1>2. after \in Zones
  BY DEF TypeOK, Zones
<1>3. AfterCreate => Onward'
  BY GotoType DEF AfterCreate, Labels
<1>4. (AfterCreate) \in BOOLEAN
  BY DEF AfterCreate, Goto
<1>5. Write(CanSign(TRUE), after, FALSE, AfterCreate)
  BY DEF CreateSign
<1> HIDE DEF after
<1>6. QED BY <1>1, <1>2, <1>3, <1>4, <1>5, WriteOutcome

LEMMA TypeSetOptions == TypeOK /\ SetOptions => TypeInv'
<1> SUFFICES ASSUME TypeOK, SetOptions PROVE TypeInv'
  OBVIOUS
<1> DEFINE after == [zone EXCEPT !.opts = IF new THEN Overlay(@, req.opts) ELSE zopts]
<1>1. (zone.exists) \in BOOLEAN /\ (new) \in BOOLEAN
  BY ZoneShape DEF TypeOK, CanSign
<1>7. listed' \in BOOLEAN
  BY DEF SetOptions, Write, locals, TypeOK
<1>8. Overlay(zone.opts, req.opts) \in [Options -> Values]
  BY ZoneShape, RequestShape, OverlayType DEF TypeOK
<1>2. after \in Zones
  BY <1>8 DEF TypeOK, Zones
<1>3. AfterOptions => Onward'
  BY <1>7, AfterOptionsType
<1>4. (AfterOptions) \in BOOLEAN
  BY DEF AfterOptions, AfterFwd, AfterSoa, Goto, Return, Finish, Abort
<1>5. Write(zone.exists, after, new, AfterOptions)
  BY DEF SetOptions
<1> HIDE DEF after
<1>6. QED BY <1>1, <1>2, <1>3, <1>4, <1>5, WriteOutcome

LEMMA TypeWriteFwd == TypeOK /\ WriteFwd => TypeInv'
<1> SUFFICES ASSUME TypeOK, WriteFwd PROVE TypeInv'
  OBVIOUS
<1> DEFINE can   == /\ zone.exists /\ zone.kind = "Forwarder" /\ zone.fwds # "none"
                    /\ \A f \in Renamed : zone.fwd[f] = fwd[f]
           after == [zone EXCEPT !.fwd = FwdOverlay(req, fwd)]
<1>1. can \in BOOLEAN /\ (listed) \in BOOLEAN
  BY ZoneShape DEF TypeOK, CanSign
<1>7. listed' \in BOOLEAN
  BY DEF WriteFwd, Write, locals, TypeOK
<1>8. FwdOverlay(req, fwd) \in [FwdFields -> Values]
  BY FwdOverlayType DEF TypeOK
<1>2. after \in Zones
  BY <1>8 DEF TypeOK, Zones
<1>3. AfterFwd => Onward'
  BY <1>7, AfterFwdType
<1>4. (AfterFwd) \in BOOLEAN
  BY DEF AfterFwd, AfterSoa, Goto, Return, Finish, Abort
<1>5. Write(can, after, listed, AfterFwd)
  BY DEF WriteFwd
<1> HIDE DEF can, after
<1>6. QED BY <1>1, <1>2, <1>3, <1>4, <1>5, WriteOutcome

LEMMA TypeSign == TypeOK /\ Sign => TypeInv'
<1> SUFFICES ASSUME TypeOK, Sign PROVE TypeInv'
  OBVIOUS
<1> DEFINE after == [zone EXCEPT !.signed = (action = "sign")]
<1>1. (CanSign(action = "sign")) \in BOOLEAN /\ (listed) \in BOOLEAN
  BY ZoneShape DEF TypeOK, CanSign
<1>2. after \in Zones
  BY DEF TypeOK, Zones
<1>3. Return("true", listed) => Onward'
  BY FinishType DEF TypeOK
<1>4. (Return("true", listed)) \in BOOLEAN
  BY DEF Return, Finish
<1>5. Write(CanSign(action = "sign"), after, listed, Return("true", listed))
  BY DEF Sign
<1> HIDE DEF after
<1>6. QED BY <1>1, <1>2, <1>3, <1>4, <1>5, WriteOutcome

LEMMA TypeDelete == TypeOK /\ Delete => TypeInv'
<1> SUFFICES ASSUME TypeOK, Delete PROVE TypeInv'
  OBVIOUS
<1> DEFINE after == NoZone(zone.kind)
<1>1. (zone.exists) \in BOOLEAN /\ (TRUE) \in BOOLEAN
  BY ZoneShape DEF TypeOK, CanSign
<1>2. after \in Zones
  BY ZoneShape, NoZoneType DEF TypeOK
<1>3. Return("true", TRUE) => Onward'
  BY FinishType DEF TypeOK
<1>4. (Return("true", TRUE)) \in BOOLEAN
  BY DEF Return, Finish
<1>5. Write(zone.exists, after, TRUE, Return("true", TRUE))
  BY DEF Delete
<1> HIDE DEF after
<1>6. QED BY <1>1, <1>2, <1>3, <1>4, <1>5, WriteOutcome

LEMMA TypeWriteSoa == TypeInv /\ WriteSoa => TypeInv'
<1> SUFFICES ASSUME TypeInv, WriteSoa PROVE TypeInv'
  OBVIOUS
<1> DEFINE after == [zone EXCEPT !.soa = SoaOverlay(req, soa)]
<1>0. TypeOK
  BY DEF TypeInv
<1>1. (zone.exists /\ zone.kind = "Primary") \in BOOLEAN /\ listed \in BOOLEAN
  BY <1>0 DEF TypeOK
<1>2. soa \in Soas
  BY DEF TypeInv, TypeOK, SoaRead, WriteSoa
<1>3. after \in Zones
  <2>1. SoaOverlay(req, soa) \in Soas
    BY <1>0, <1>2, SoaOverlayType DEF TypeOK
  <2>2. QED BY <1>0, <2>1 DEF TypeOK, Zones
<1>4. listed' \in BOOLEAN
  BY <1>0 DEF WriteSoa, Write, locals, TypeOK
<1>5. AfterSoa => Onward'
  BY <1>0, <1>4, AfterSoaType
<1>6. AfterSoa \in BOOLEAN
  BY DEF AfterSoa, Goto, Return, Finish
<1>7. Write(zone.exists /\ zone.kind = "Primary", after, listed, AfterSoa)
  BY DEF WriteSoa
<1> HIDE DEF after
<1>8. QED BY <1>0, <1>1, <1>3, <1>5, <1>6, <1>7, WriteOutcome

LEMMA TypeWriteList == TypeInv /\ WriteList => TypeInv'
<1> SUFFICES ASSUME TypeInv, WriteList PROVE TypeInv'
  OBVIOUS
<1>0. TypeOK
  BY DEF TypeInv
<1>1. PICK o \in Outcome :
       /\ Call(o, TRUE)
       /\ \/ o.reply = "raise" /\ Abort
          \/ /\ o.reply = "ok" /\ zone.exists
             /\ Goto(IF pc = "fwd!?" THEN "fwd!" ELSE "soa!")
          \/ (o.reply = "nok" \/ (o.reply = "ok" /\ ~zone.exists)) /\ Return("false", listed)
  BY DEF WriteList
<1>2. UNCHANGED <<server, req, locals, before, wrote, overran, raced>>
  BY DEF WriteList
<1>3. Abort \/ Return("false", listed) => Onward'
  BY <1>0, FinishType DEF TypeOK
<1>4. Goto(IF pc = "fwd!?" THEN "fwd!" ELSE "soa!") => Onward'
  <2>1. pc # "fwd!?" => soa' # Unread
    BY <1>2 DEF TypeInv, SoaRead, WriteList, locals
  <2>2. QED BY <1>0, <2>1, GotoType DEF Labels
<1>5. Onward'
  BY <1>1, <1>3, <1>4
<1>6. QED BY <1>0, <1>1, <1>2, <1>5, ReadType DEF locals, TypeOK

LEMMA TypeDeleteList == TypeOK /\ DeleteList => TypeInv'
<1> SUFFICES ASSUME TypeOK, DeleteList PROVE TypeInv'
  OBVIOUS
<1>1. PICK o \in Outcome :
       /\ Call(o, TRUE)
       /\ \/ o.reply = "raise" /\ Abort
          \/ o.reply = "ok" /\ zone.exists /\ Goto("delete")
          \/ (o.reply = "nok" \/ (o.reply = "ok" /\ ~zone.exists)) /\ Return("true", TRUE)
  BY DEF DeleteList
<1>2. UNCHANGED <<server, req, locals, before, wrote, overran, raced>>
  BY DEF DeleteList
<1>3. Onward'
  BY <1>1, FinishType, GotoType DEF Labels
<1>4. QED BY <1>1, <1>2, <1>3, ReadType DEF locals, TypeOK

LEMMA TypeConsole == TypeInv /\ Console => TypeInv'
<1> SUFFICES ASSUME TypeInv, Console PROVE TypeInv'
  OBVIOUS
<1>1. zone \in Zones /\ zone.kind \in Kinds
  BY ZoneShape DEF TypeInv, TypeOK
<1>2. zone' \in Zones
  <2>1. CASE zone' = NoZone(zone.kind)
    BY <1>1, <2>1, NoZoneType
  <2>2. CASE \E k \in Kinds : zone' = [NoZone(k) EXCEPT !.exists = TRUE]
    BY <2>2, NoZoneType
  <2>3. CASE \E f \in Options, v \in Values : zone' = [zone EXCEPT !.opts[f] = v]
    BY <1>1, <2>3 DEF Zones
  <2>4. CASE \E f \in SoaFields, v \in Values :
                zone' = [zone EXCEPT !.soa.fields[f] = v,
                                     !.soa.serial = (@ + 1) % (MaxSerial + 1)]
    <3>1. PICK f \in SoaFields, v \in Values :
                zone' = [zone EXCEPT !.soa.fields[f] = v,
                                     !.soa.serial = (@ + 1) % (MaxSerial + 1)]
      BY <2>4
    <3>2. \A n \in Serials : (n + 1) % (MaxSerial + 1) \in Serials
      BY ZonesAssumption DEF Serials
    <3>3. zone.soa \in Soas
      BY <1>1, ZoneShape
    <3>4. [zone.soa EXCEPT !.fields[f] = v,
                           !.serial = (@ + 1) % (MaxSerial + 1)] \in Soas
      BY <3>2, <3>3 DEF Soas
    <3>5. zone' = [zone EXCEPT !.soa = [zone.soa EXCEPT !.fields[f] = v,
                                        !.serial = (@ + 1) % (MaxSerial + 1)]]
      BY <1>1, <3>1, <3>3 DEF Zones, Soas
    <3>6. QED BY <1>1, <3>4, <3>5 DEF Zones
  <2>5. CASE \E f \in FwdFields, v \in Values : zone' = [zone EXCEPT !.fwd[f] = v]
    BY <1>1, <2>5 DEF Zones
  <2>6. CASE zone' = [zone EXCEPT !.signed = ~@]
    BY <1>1, <2>6 DEF Zones
  <2>7. CASE \E n \in Counts : zone' = [zone EXCEPT !.fwds = n]
    BY <1>1, <2>7 DEF Zones
  <2>8. QED BY <2>1, <2>2, <2>3, <2>4, <2>5, <2>6, <2>7 DEF Console
<1>3. /\ edits < MaxEdits /\ edits' = edits + 1 /\ raced' = TRUE
      /\ UNCHANGED <<req, pc, locals, report, faults, before, wrote, overran,
                     faulted, unheard>>
  BY Zenon DEF Console
<1>4. edits' \in 0..MaxEdits
  BY <1>3, ZonesAssumption DEF TypeInv, TypeOK
<1>5. QED
  BY <1>2, <1>3, <1>4 DEF locals, report, TypeInv, TypeOK, SoaRead

LEMMA TypeNext == TypeInv /\ [Next]_vars => TypeInv'
<1> SUFFICES ASSUME TypeInv, [Next]_vars PROVE TypeInv'
  OBVIOUS
<1>1. TypeOK
  BY DEF TypeInv
<1>2. CASE Step
  BY <1>1, <1>2, TypeExists, TypeKind, TypeReadOptions, TypeReadList, TypeReadRecord,
     TypeCreate, TypeCreateSign, TypeSetOptions, TypeWriteList, TypeWriteFwd,
     TypeWriteSoa, TypeSign, TypeDeleteList, TypeDelete
     DEF Step
<1>3. CASE Killed
  <2>1. faults' \in 0..MaxFaults
    BY <1>1, <1>3, ZonesAssumption DEF Killed, TypeOK
  <2>2. QED
    BY <1>1, <1>3, <2>1 DEF Killed, server, locals, report, ghosts, TypeInv, TypeOK, SoaRead
<1>4. CASE Rewrite
  <2>1. edits' \in 0..MaxEdits
    BY <1>1, <1>4, ZonesAssumption DEF Rewrite, TypeOK
  <2>2. QED
    BY <1>1, <1>4, <2>1 DEF Rewrite, locals, report, ghosts, TypeInv, TypeOK, SoaRead
<1>5. CASE UNCHANGED vars
  BY <1>5 DEF vars, TypeInv, TypeOK, SoaRead
<1>6. QED BY <1>1, <1>2, <1>3, <1>4, <1>5, TypeStart, TypeConsole DEF Next

\* Every variable always holds a value of its kind.
THEOREM ZonesTypes == Spec => []TypeOK
<1>1. Init => TypeInv BY TypeInit
<1>2. TypeInv /\ [Next]_vars => TypeInv' BY TypeNext
<1>3. TypeInv => TypeOK BY DEF TypeInv
<1>4. QED BY <1>1, <1>2, <1>3, PTL DEF Spec

-----------------------------------------------------------------------------
(* The inductive invariant. *)

\* The parts of what a run of zone_managed knows of the zone: what the pillar
\* does not name is as it was when the run began, and what it names is held.
Kept(z, b, r) ==
  b.exists =>
    /\ z.exists /\ z.kind = b.kind
    /\ \A f \in Options   : r.opts[f] = Unmanaged => z.opts[f] = b.opts[f]
    /\ \A f \in SoaFields : r.soa[f] = Unmanaged => z.soa.fields[f] = b.soa.fields[f]
    /\ r.pin = Unmanaged => z.soa.serial = b.soa.serial
    /\ \A f \in FwdFields : r.fwd[f] = Unmanaged => z.fwd[f] = b.fwd[f]
    /\ r.sign = "unset" => z.signed = b.signed
OptsHeld(z, r) == Agrees(z.opts, r.opts)
SoaHeld(z, r)  == HasSoa(r) => Agrees(z.soa.fields, r.soa) /\ r.pin \in {Unmanaged, z.soa.serial}
SignHeld(z, r) == r.kind = "Primary" => r.sign \in {"unset", IF z.signed THEN "on" ELSE "off"}

\* What the run has read is what is there; what it means to do is what is asked.
SoaFresh(z, r, s)       == HasSoa(r) => s \in {Unread, z.soa}
FwdFresh(z, r, n, f)    == ~n /\ r.kind = "Forwarder" => f = z.fwd
OptsPlanned(z, r, n, o) == ~n => o = Overlay(z.opts, r.opts)
OptsListed(z, n, o, l)  == ~n /\ ~l => o = z.opts
SignPlanned(z, r, a) == /\ a = "none" => SignHeld(z, r)
                        /\ a = "sign" => r.sign = "on"
                        /\ a = "unsign" => r.sign = "off"
Planned(z, b, r, n, a) == /\ z.exists /\ z.kind = r.kind /\ (n => ~b.exists)
                          /\ Kept(z, b, r) /\ SignPlanned(z, r, a)

\* The zone at each step of the run.
AtReads == /\ pc \in {"exists", "kind", "options", "create"} =>
                zone = before /\ new = (pc = "create") /\ action = "none"
           /\ pc \in {"kind", "options"} => zone.exists
           /\ pc = "options" => zone.kind = req.kind
           /\ pc \notin {"delete?", "delete"}
AtCreateSign == pc = "createsign" =>
                  /\ new /\ ~before.exists /\ action = "none" /\ req.sign = "on"
                  /\ zone.exists /\ zone.kind = req.kind
Reading == pc \in {"fwd?", "fwd", "soa?", "soa"}
AtPlan == Reading \/ pc \in {"set", "fwd!?", "fwd!", "soa!?", "soa!", "sign"} =>
            Planned(zone, before, req, new, action)
AtRecords == /\ Reading => /\ OptsPlanned(zone, req, new, zopts)
                           /\ OptsListed(zone, new, zopts, listed)
             /\ pc \in {"fwd?", "fwd"} => ~new /\ req.kind = "Forwarder"
             /\ pc \in {"soa?", "soa"} => HasSoa(req)
AtSet == pc = "set" => /\ OptsPlanned(zone, req, new, zopts)
                       /\ SoaFresh(zone, req, soa) /\ FwdFresh(zone, req, new, fwd)
AtFwd == pc \in {"fwd!?", "fwd!"} =>
           /\ OptsHeld(zone, req) /\ SoaFresh(zone, req, soa)
           /\ ~new /\ req.kind = "Forwarder" /\ fwd = zone.fwd
AtSoa == pc \in {"soa!?", "soa!"} =>
           /\ OptsHeld(zone, req) /\ HasSoa(req) /\ soa = zone.soa
AtSign == pc = "sign" => /\ OptsHeld(zone, req) /\ SoaHeld(zone, req)
                         /\ action # "none"

\* The inductive invariant: as long as nobody else changes the zone, each step
\* of a managed run finds it as the run believes.
Ours == req.fn = "managed" /\ ~raced
Places == /\ AtReads /\ AtCreateSign /\ AtPlan /\ AtRecords /\ AtSet /\ AtFwd
          /\ AtSoa /\ AtSign
          /\ Running \/ pc = "done" => Kept(zone, before, req)
          /\ pc = "done" /\ result = "true" /\ ~req.test /\ req.kind # "Forwarder"
               => Satisfies(zone, req)
Inv == Ours => Places

LEMMA SatisfiesManaged ==
  ASSUME NEW z, NEW r, r.fn = "managed"
  PROVE  Satisfies(z, r) <=> /\ z.exists /\ z.kind = r.kind
                             /\ OptsHeld(z, r) /\ SoaHeld(z, r) /\ SignHeld(z, r)
BY DEF Satisfies, OptsHeld, SoaHeld, SignHeld

LEMMA KeptRefl == ASSUME NEW z, NEW r PROVE Kept(z, z, r)
BY DEF Kept

\* A run that ends with a zone it kept, and does not claim success, is fine.
LEMMA EndsWell ==
  ASSUME pc' = "done", Kept(zone, before, req)',
         (result = "true" /\ ~req.test /\ req.kind # "Forwarder" => Satisfies(zone, req))'
  PROVE  Places'
BY DEF Places, AtReads, AtCreateSign, AtPlan, Reading, AtRecords, AtSet, AtFwd, AtSoa,
       AtSign

LEMMA PlannedHolds ==
  ASSUME NEW z, NEW b, NEW r, NEW n, NEW a, Planned(z, b, r, n, a)
  PROVE  /\ Kept(z, b, r) /\ z.exists /\ z.kind = r.kind
         /\ (a = "none" => SignHeld(z, r)) /\ (n => ~b.exists)
         /\ (a = "sign" => r.sign = "on") /\ (a = "unsign" => r.sign = "off")
BY DEF Planned, SignPlanned

\* What comes after the SOA record: the zone is signed or the run succeeds.
LEMMA AfterSoaPlaces ==
  ASSUME req' = req, req.fn = "managed", AfterSoa,
         Planned(zone, before, req, new, action)',
         OptsHeld(zone, req)', SoaHeld(zone, req)'
  PROVE  Places'
<1>1. CASE action' # "none"
  <2>1. pc' = "sign"
    BY <1>1 DEF AfterSoa, Goto
  <2>2. QED
    BY <1>1, <2>1, PlannedHolds DEF Places, AtReads, AtCreateSign, AtPlan, Reading,
       AtRecords, AtSet, AtFwd, AtSoa, AtSign, Running
<1>2. CASE action' = "none"
  <2>1. pc' = "done"
    BY <1>2 DEF AfterSoa, Return, Finish
  <2>2. Satisfies(zone, req)'
    BY <1>2, PlannedHolds, SatisfiesManaged
  <2>3. QED BY <2>1, <2>2, PlannedHolds, EndsWell
<1>3. QED BY <1>1, <1>2

\* A record of which nothing is asked is as asked.
LEMMA NothingAsked ==
  ASSUME NEW z \in Zones, NEW r \in Requests, ~SoaAsked(r)
  PROVE  SoaHeld(z, r)
<1>1. z.soa.fields \in [SoaFields -> Values]
  BY ZoneShape DEF Soas
<1>2. QED BY <1>1 DEF SoaAsked, SoaHeld, Agrees

LEMMA AfterFwdPlaces ==
  ASSUME TypeInv', req' = req, req.fn = "managed", AfterFwd,
         Planned(zone, before, req, new, action)',
         OptsHeld(zone, req)', SoaFresh(zone, req, soa)'
  PROVE  Places'
<1>0. zone' \in Zones /\ req' \in Requests
  BY DEF TypeInv, TypeOK
<1>1. CASE HasSoa(req) /\ soa' = Unread
  <2>1. pc' = "done" /\ result' = "false"
    BY <1>1 DEF AfterFwd, Abort, Finish
  <2>2. QED BY <2>1, PlannedHolds, EndsWell
<1>2. CASE HasSoa(req) /\ soa' # Unread /\ SoaAsked(req)
  <2>1. pc' = "soa!?"
    BY <1>2 DEF AfterFwd, Goto
  <2>2. HasSoa(req)' /\ soa' = zone.soa'
    BY <1>2 DEF SoaFresh, HasSoa
  <2>3. QED
    BY <2>1, <2>2, PlannedHolds DEF Places, AtReads, AtCreateSign, AtPlan, Reading,
       AtRecords, AtSet, AtFwd, AtSoa, AtSign, Running
<1>3. CASE ~(HasSoa(req) /\ soa' = Unread) /\ ~(HasSoa(req) /\ soa' # Unread /\ SoaAsked(req))
  <2>1. AfterSoa
    BY <1>3 DEF AfterFwd
  <2>2. ~SoaAsked(req)
    BY <1>3 DEF SoaAsked
  <2>3. SoaHeld(zone', req')
    BY <1>0, <2>2, NothingAsked
  <2>4. QED BY <2>1, <2>3, AfterSoaPlaces
<1>4. QED BY <1>1, <1>2, <1>3

LEMMA AfterOptionsPlaces ==
  ASSUME TypeInv', req' = req, req.fn = "managed", AfterOptions,
         Planned(zone, before, req, new, action)',
         OptsHeld(zone, req)', SoaFresh(zone, req, soa)', FwdFresh(zone, req, new, fwd)'
  PROVE  Places'
<1>1. CASE ~new' /\ FwdAsked(req)
  <2>1. pc' = "fwd!?"
    BY <1>1 DEF AfterOptions, Goto
  <2>2. req.kind = "Forwarder" /\ fwd' = zone.fwd'
    BY <1>1 DEF FwdAsked, FwdFresh
  <2>3. QED
    BY <1>1, <2>1, <2>2, PlannedHolds DEF Places, AtReads, AtCreateSign, AtPlan, Reading,
       AtRecords, AtSet, AtFwd, AtSoa, AtSign, Running
<1>2. CASE ~(~new' /\ FwdAsked(req))
  BY <1>2, AfterFwdPlaces DEF AfterOptions
<1>3. QED BY <1>1, <1>2

\* The run has read all there was to read of a zone that was there.
LEMMA ConcludePlaces ==
  ASSUME TypeInv', req' = req, req.fn = "managed", Conclude, ~new',
         Planned(zone, before, req, new, action)',
         OptsPlanned(zone, req, new, zopts)', OptsListed(zone, new, zopts, listed)',
         SoaFresh(zone, req, soa)', FwdFresh(zone, req, new, fwd)'
  PROVE  Places'
<1>0. zone' \in Zones /\ req' \in Requests /\ listed' \in BOOLEAN /\ req.test \in BOOLEAN
  BY RequestShape DEF TypeInv, TypeOK
<1>1. CASE req.test
  <2>1. pc' = "done" /\ result' = "none"
    BY <1>1 DEF Conclude, Return, Finish
  <2>2. QED BY <2>1, PlannedHolds, EndsWell
<1>2. CASE ~req.test /\ listed'
  <2>1. pc' = "set"
    BY <1>2 DEF Conclude, Goto
  <2>2. QED
    BY <2>1, PlannedHolds DEF Places, AtReads, AtCreateSign, AtPlan, Reading,
       AtRecords, AtSet, AtFwd, AtSoa, AtSign, Running
<1>3. CASE ~req.test /\ ~listed'
  <2>1. AfterOptions
    BY <1>3 DEF Conclude
  <2>2. zopts' = zone.opts' /\ zopts' = Overlay(zone.opts', req'.opts)
    BY <1>3 DEF OptsPlanned, OptsListed
  <2>3. Agrees(Overlay(zone.opts', req'.opts), req'.opts)
    BY <1>0, ZoneShape, RequestShape, OverlayHolds
  <2>4. OptsHeld(zone', req')
    BY <2>2, <2>3 DEF OptsHeld
  <2>5. QED BY <2>1, <2>4, AfterOptionsPlaces
<1>4. QED BY <1>0, <1>1, <1>2, <1>3

LEMMA InvInit == Init => Inv
BY DEF Init, Inv, Places, AtReads, AtCreateSign, AtPlan, Reading, AtRecords, AtSet,
       AtFwd, AtSoa, AtSign, Running

LEMMA InvStart == TypeInv /\ Start => Inv'
<1> SUFFICES ASSUME TypeInv, Start PROVE Inv'
  OBVIOUS
<1>1. pc' = "exists" /\ zone' = before' /\ new' = FALSE /\ action' = "none"
  BY DEF Start, server
<1>2. Kept(zone', before', req')
  BY <1>1, KeptRefl
<1>3. QED
  BY <1>1, <1>2 DEF Inv, Places, AtReads, AtCreateSign, AtPlan, Reading, AtRecords,
     AtSet, AtFwd, AtSoa, AtSign, Running

LEMMA InvOutside == Inv /\ (Killed \/ Console \/ Rewrite \/ UNCHANGED vars) => Inv'
<1> SUFFICES ASSUME Inv, Killed \/ Console \/ Rewrite \/ UNCHANGED vars PROVE Inv'
  OBVIOUS
<1>1. CASE Console
  <2>1. raced' = TRUE
    BY <1>1 DEF Console
  <2>2. QED BY <2>1 DEF Inv, Ours
<1>2. CASE Killed \/ Rewrite
  <2>1. pc' = "idle"
    BY <1>2 DEF Killed, Rewrite
  <2>2. QED
    BY <2>1 DEF Inv, Places, AtReads, AtCreateSign, AtPlan, Reading, AtRecords,
       AtSet, AtFwd, AtSoa, AtSign, Running
<1>3. CASE UNCHANGED vars
  BY <1>3 DEF vars, Inv, Ours, Places, AtReads, AtCreateSign, AtPlan, Reading, AtRecords,
     AtSet, AtFwd, AtSoa, AtSign, Running
<1>4. QED BY <1>1, <1>2, <1>3

\* A step that only reads leaves the zone and the request; if it ends the run
\* without success, nothing more is to be shown.
LEMMA ReadEnds ==
  ASSUME Inv, Running, UNCHANGED <<server, req, before, wrote, overran, raced>>,
         pc' = "done", result' # "true" \/ req.fn = "absent"
  PROVE  Inv'
<1> SUFFICES ASSUME Ours' PROVE Places'
  BY DEF Inv
<1>1. UNCHANGED <<zone, req, before, raced>> /\ Ours
  BY DEF server, Ours
<1>2. Kept(zone', before', req')
  BY <1>1 DEF Inv, Places
<1>3. result' # "true"
  BY <1>1 DEF Ours
<1>4. QED BY <1>2, <1>3, EndsWell

LEMMA InvExists == TypeInv /\ TypeInv' /\ Inv /\ Exists => Inv'
<1> SUFFICES ASSUME TypeInv, TypeInv', Inv, Exists, Ours' PROVE Places'
  BY DEF Inv
<1>1. PICK o \in Outcome :
       /\ Call(o, TRUE)
       /\ LET there == o.reply = "ok" /\ zone.exists IN
          \/ o.reply = "raise" /\ Abort /\ UNCHANGED locals
          \/ /\ o.reply # "raise" /\ req.fn = "absent"
             /\ CASE ~there            -> Return("true", FALSE)
                  [] there /\ req.test -> Return("true", TRUE)
                  [] OTHER             -> Goto("delete?")
             /\ UNCHANGED locals
          \/ /\ o.reply # "raise" /\ req.fn = "managed"
             /\ new' = ~there
             /\ listed' = ~there
             /\ UNCHANGED <<reads, action>>
             /\ CASE there -> Goto("kind")
                  [] ~there /\ ~req.legal -> Return("false", FALSE)
                  [] OTHER -> Conclude
  BY DEF Exists
<1> DEFINE there == o.reply = "ok" /\ zone.exists
<1>2. UNCHANGED <<zone, req, before, raced>> /\ pc = "exists" /\ Running
  BY DEF Exists, server, Running
<1>3. req.fn = "managed" /\ Places
  BY <1>2 DEF Inv, Ours
<1>4. zone = before /\ action = "none" /\ Kept(zone', before', req')
  BY <1>2, <1>3 DEF Places, AtReads
<1>5. there \in BOOLEAN /\ req.test \in BOOLEAN /\ req.legal \in BOOLEAN /\ listed' \in BOOLEAN
  BY OutcomeShape, ZoneShape, RequestShape DEF TypeInv, TypeOK
<1>6. CASE o.reply = "raise" /\ Abort
  <2>1. pc' = "done" /\ result' = "false"
    BY <1>6 DEF Abort, Finish
  <2>2. QED BY <1>4, <2>1, EndsWell
<1>7. CASE /\ new' = ~there
           /\ listed' = ~there
           /\ UNCHANGED <<reads, action>>
           /\ CASE there -> Goto("kind")
                [] ~there /\ ~req.legal -> Return("false", FALSE)
                [] OTHER -> Conclude
  <2>0. there => zone.exists
    OBVIOUS
  <2> HIDE DEF there
  <2>1. CASE there
    <3>1. pc' = "kind" /\ new' = FALSE /\ action' = "none" /\ zone'.exists
      BY <1>2, <1>4, <1>5, <1>7, <2>0, <2>1 DEF Goto
    <3>2. QED
      BY <1>2, <1>4, <3>1 DEF Places, AtReads, AtCreateSign, AtPlan, Reading, AtRecords,
         AtSet, AtFwd, AtSoa, AtSign
  <2>2. CASE ~there /\ ~req.legal
    <3>1. pc' = "done" /\ result' = "false"
      BY <1>5, <1>7, <2>2 DEF Return, Finish
    <3>2. QED BY <1>4, <3>1, EndsWell
  <2>3. CASE ~there /\ req.legal
    <3>1. Conclude /\ new' /\ action' = "none"
      BY <1>4, <1>5, <1>7, <2>3
    <3>2. CASE req.test
      <4>1. pc' = "done" /\ result' = "none"
        BY <3>1, <3>2 DEF Conclude, Return, Finish
      <4>2. QED BY <1>4, <4>1, EndsWell
    <3>3. CASE ~req.test
      <4>1. pc' = "create"
        BY <3>1, <3>3 DEF Conclude, Goto
      <4>2. new' = TRUE
        BY <3>1 DEF TypeInv, TypeOK
      <4>3. QED
        BY <1>2, <1>4, <3>1, <4>1, <4>2 DEF Places, AtReads, AtCreateSign, AtPlan, Reading,
           AtRecords, AtSet, AtFwd, AtSoa, AtSign
    <3>4. QED BY <1>5, <3>2, <3>3
  <2>4. QED BY <1>5, <2>1, <2>2, <2>3
<1>8. QED BY <1>1, <1>3, <1>6, <1>7

LEMMA InvKind == TypeInv /\ Inv /\ Kind => Inv'
<1> SUFFICES ASSUME TypeInv, Inv, Kind, Ours' PROVE Places'
  BY DEF Inv
<1>1. PICK o \in Outcome :
       /\ Call(o, zone.exists)
       /\ \/ o.reply # "ok" /\ Abort
          \/ o.reply = "ok" /\ IF zone.kind = req.kind THEN Goto("options")
                                                       ELSE Return("false", FALSE)
  BY DEF Kind
<1>2. UNCHANGED <<zone, req, before, raced, new, action>> /\ pc = "kind" /\ Running
  BY DEF Kind, server, locals, Running
<1>3. zone = before /\ new = FALSE /\ action = "none" /\ zone.exists /\ Kept(zone', before', req')
  BY <1>2 DEF Inv, Ours, Places, AtReads
<1>4. CASE Abort \/ Return("false", FALSE)
  <2>1. pc' = "done" /\ result' = "false"
    BY <1>4 DEF Abort, Return, Finish
  <2>2. QED BY <1>3, <2>1, EndsWell
<1>5. CASE zone.kind = req.kind /\ Goto("options")
  <2>1. pc' = "options"
    BY <1>5 DEF Goto
  <2>2. QED
    BY <1>2, <1>3, <1>5, <2>1 DEF Places, AtReads, AtCreateSign, AtPlan, Reading, AtRecords,
       AtSet, AtFwd, AtSoa, AtSign
<1>6. QED BY <1>1, <1>4, <1>5

\* The signing that is planned is the one that is asked for.
LEMMA ActionPlanned ==
  ASSUME NEW z \in Zones, NEW r \in Requests
  PROVE  SignPlanned(z, r, DnssecAction(r, z.signed))
<1>1. z.signed \in BOOLEAN /\ r.sign \in {"unset", "on", "off"}
  BY ZoneShape, RequestShape
<1>2. QED BY <1>1 DEF SignPlanned, SignHeld, DnssecAction

LEMMA InvReadOptions == TypeInv /\ TypeInv' /\ Inv /\ ReadOptions => Inv'
<1> SUFFICES ASSUME TypeInv, TypeInv', Inv, ReadOptions, Ours' PROVE Places'
  BY DEF Inv
<1>1. PICK o \in Outcome :
       /\ Call(o, zone.exists)
       /\ \/ o.reply # "ok" /\ Abort /\ UNCHANGED locals
          \/ o.reply = "ok" /\ ~req.legal /\ Return("false", FALSE) /\ UNCHANGED locals
          \/ /\ o.reply = "ok" /\ req.legal
             /\ zopts' = Overlay(zone.opts, req.opts)
             /\ action' = DnssecAction(req, zone.signed)
             /\ listed' = (zopts' # zone.opts \/ action' # "none")
             /\ UNCHANGED <<new, fwd, soa>>
             /\ CASE req.kind = "Forwarder" -> Goto("fwd?")
                  [] HasSoa(req)            -> Goto("soa?")
                  [] req.kind = "Stub"      -> Conclude
  BY DEF ReadOptions
<1>2. UNCHANGED <<zone, req, before, raced>> /\ pc = "options" /\ Running
      /\ zone \in Zones /\ req \in Requests
  BY DEF ReadOptions, server, Running, TypeInv, TypeOK
<1>3. /\ zone = before /\ new = FALSE /\ zone.exists /\ zone.kind = req.kind
      /\ Kept(zone, before, req) /\ req.fn = "managed"
  BY <1>2 DEF Inv, Ours, Places, AtReads
<1>4. CASE Abort \/ Return("false", FALSE)
  <2>1. pc' = "done" /\ result' = "false"
    BY <1>4 DEF Abort, Return, Finish
  <2>2. QED BY <1>2, <1>3, <2>1, EndsWell
<1>5. CASE /\ zopts' = Overlay(zone.opts, req.opts)
           /\ action' = DnssecAction(req, zone.signed)
           /\ listed' = (zopts' # zone.opts \/ action' # "none")
           /\ UNCHANGED <<new, fwd, soa>>
           /\ CASE req.kind = "Forwarder" -> Goto("fwd?")
                [] HasSoa(req)            -> Goto("soa?")
                [] req.kind = "Stub"      -> Conclude
  <2>1. Planned(zone', before', req', new', action')
    <3>1. SignPlanned(zone, req, action')
      BY <1>2, <1>5, ActionPlanned
    <3>2. QED BY <1>2, <1>3, <1>5, <3>1 DEF Planned
  <2>2. /\ OptsPlanned(zone', req', new', zopts')
        /\ OptsListed(zone', new', zopts', listed')
    BY <1>2, <1>5 DEF OptsPlanned, OptsListed
  <2>3. ~new'
    BY <1>3, <1>5
  <2>4. CASE req.kind = "Forwarder"
    <3>1. pc' = "fwd?"
      BY <1>5, <2>4 DEF HasSoa, Goto
    <3>2. QED
      BY <1>2, <2>1, <2>2, <2>3, <2>4, <3>1, PlannedHolds DEF Places, AtReads, AtCreateSign,
         AtPlan, Reading, AtRecords, AtSet, AtFwd, AtSoa, AtSign
  <2>5. CASE HasSoa(req)
    <3>1. pc' = "soa?" /\ HasSoa(req')
      BY <1>2, <1>5, <2>5 DEF HasSoa, Goto
    <3>2. QED
      BY <1>2, <2>1, <2>2, <2>3, <2>5, <3>1, PlannedHolds DEF Places, AtReads, AtCreateSign,
         AtPlan, Reading, AtRecords, AtSet, AtFwd, AtSoa, AtSign
  <2>6. CASE req.kind = "Stub"
    <3>1. Conclude
      BY <1>5, <2>6 DEF HasSoa
    <3>2. SoaFresh(zone', req', soa') /\ FwdFresh(zone', req', new', fwd')
      BY <1>2, <2>6 DEF SoaFresh, FwdFresh, HasSoa
    <3>3. QED BY <1>2, <1>3, <2>1, <2>2, <2>3, <3>1, <3>2, ConcludePlaces
  <2>7. req.kind \in Kinds
    BY <1>2, RequestShape
  <2>8. QED BY <2>4, <2>5, <2>6, <2>7 DEF Kinds, HasSoa
<1>6. QED BY <1>1, <1>4, <1>5

\* A record that could not be read.
LEMMA MissingPlaces ==
  ASSUME TypeInv, TypeInv', Places, Reading, req.fn = "managed", Missing,
         UNCHANGED <<zone, req, before>>
  PROVE  Places'
<1>1. /\ Planned(zone, before, req, new, action) /\ OptsPlanned(zone, req, new, zopts)
      /\ OptsListed(zone, new, zopts, listed)
  BY DEF Places, AtPlan, AtRecords
<1>2. UNCHANGED <<zone, req, before, new, zopts, fwd, action, listed>>
  BY DEF Missing
<1>3. CASE pc \in {"fwd?", "fwd"}
  <2>1. pc' = "done" /\ req.kind = "Forwarder"
    BY <1>3 DEF Missing, Return, Finish, Places, AtRecords
  <2>2. QED BY <1>1, <1>2, <2>1, PlannedHolds, EndsWell
<1>4. CASE pc \in {"soa?", "soa"}
  <2>1. HasSoa(req) /\ soa' = Unread
    BY <1>4 DEF Missing, Places, AtRecords
  <2>2. SoaFresh(zone', req', soa') /\ FwdFresh(zone', req', new', fwd')
    BY <1>2, <2>1 DEF SoaFresh, FwdFresh, HasSoa
  <2>3. CASE new
    <3>1. pc' = "set"
      BY <1>4, <2>3 DEF Missing, Goto
    <3>2. QED
      BY <1>1, <1>2, <2>2, <3>1, PlannedHolds DEF Places, AtReads, AtCreateSign, AtPlan,
         Reading, AtRecords, AtSet, AtFwd, AtSoa, AtSign
  <2>4. CASE ~new
    <3>1. Conclude /\ ~new'
      BY <1>2, <1>4, <2>4 DEF Missing
    <3>2. QED BY <1>1, <1>2, <2>2, <3>1, ConcludePlaces
  <2>5. QED BY <2>3, <2>4
<1>5. QED BY <1>3, <1>4 DEF Reading

LEMMA InvReadList == TypeInv /\ TypeInv' /\ Inv /\ ReadList => Inv'
<1> SUFFICES ASSUME TypeInv, TypeInv', Inv, ReadList, Ours' PROVE Places'
  BY DEF Inv
<1>1. PICK o \in Outcome :
       /\ Call(o, TRUE)
       /\ \/ o.reply = "raise" /\ Abort /\ UNCHANGED locals
          \/ /\ o.reply = "ok" /\ zone.exists
             /\ Goto(IF pc = "fwd?" THEN "fwd" ELSE "soa")
             /\ UNCHANGED locals
          \/ (o.reply = "nok" \/ (o.reply = "ok" /\ ~zone.exists)) /\ Missing
  BY DEF ReadList
<1>2. UNCHANGED <<zone, req, before, raced>> /\ pc \in {"fwd?", "soa?"} /\ Running /\ Reading
  BY DEF ReadList, server, Running, Reading
<1>3. Places /\ req.fn = "managed" /\ Kept(zone', before', req')
  BY <1>2 DEF Inv, Ours, Places
<1>4. CASE Abort
  <2>1. pc' = "done" /\ result' = "false"
    BY <1>4 DEF Abort, Finish
  <2>2. QED BY <1>3, <2>1, EndsWell
<1>5. CASE Goto(IF pc = "fwd?" THEN "fwd" ELSE "soa") /\ UNCHANGED locals
  <2>1. pc' = IF pc = "fwd?" THEN "fwd" ELSE "soa"
    BY <1>5 DEF Goto
  <2>2. UNCHANGED <<zone, req, before, new, zopts, action, listed>>
    BY <1>2, <1>5 DEF locals
  <2>3. QED
    BY <1>2, <1>3, <2>1, <2>2 DEF Places, AtReads, AtCreateSign, AtPlan, Reading, AtRecords,
       AtSet, AtFwd, AtSoa, AtSign
<1>6. CASE Missing
  BY <1>2, <1>3, <1>6, MissingPlaces
<1>7. QED BY <1>1, <1>4, <1>5, <1>6

LEMMA InvReadRecord == TypeInv /\ TypeInv' /\ Inv /\ ReadRecord => Inv'
<1> SUFFICES ASSUME TypeInv, TypeInv', Inv, ReadRecord, Ours' PROVE Places'
  BY DEF Inv
<1>1. PICK o \in Outcome :
       /\ Call(o, zone.exists)
       /\ \/ o.reply # "ok" /\ Abort /\ UNCHANGED locals
          \/ /\ o.reply = "ok" /\ pc = "fwd"
             /\ zone.kind # "Forwarder" \/ zone.fwds # "one"
             /\ Missing
          \/ /\ o.reply = "ok" /\ pc = "fwd"
             /\ zone.kind = "Forwarder" /\ zone.fwds = "one"
             /\ fwd' = zone.fwd
             /\ listed' = (listed \/ Overlay(zone.fwd, req.fwd) # zone.fwd)
             /\ UNCHANGED <<new, zopts, soa, action>>
             /\ Conclude
          \/ /\ o.reply = "ok" /\ pc = "soa"
             /\ soa' = zone.soa
             /\ listed' = (listed \/ SoaOverlay(req, zone.soa) # zone.soa)
             /\ UNCHANGED <<new, zopts, fwd, action>>
             /\ IF new THEN Goto("set") ELSE Conclude
  BY DEF ReadRecord
<1>2. UNCHANGED <<zone, req, before, raced>> /\ pc \in {"fwd", "soa"} /\ Running /\ Reading
  BY DEF ReadRecord, server, Running, Reading
<1>3. Places /\ req.fn = "managed" /\ Kept(zone', before', req')
  BY <1>2 DEF Inv, Ours, Places
<1>4. /\ Planned(zone, before, req, new, action) /\ OptsPlanned(zone, req, new, zopts)
      /\ OptsListed(zone, new, zopts, listed)
      /\ pc = "fwd" => ~new /\ req.kind = "Forwarder"
      /\ pc = "soa" => HasSoa(req)
  BY <1>2, <1>3 DEF Places, AtPlan, AtRecords
<1>5. CASE Abort
  <2>1. pc' = "done" /\ result' = "false"
    BY <1>5 DEF Abort, Finish
  <2>2. QED BY <1>3, <2>1, EndsWell
<1>6. CASE Missing
  BY <1>2, <1>3, <1>6, MissingPlaces
<1>7. CASE /\ pc = "fwd"
           /\ fwd' = zone.fwd
           /\ listed' = (listed \/ Overlay(zone.fwd, req.fwd) # zone.fwd)
           /\ UNCHANGED <<new, zopts, soa, action>>
           /\ Conclude
  <2>1. OptsListed(zone', new', zopts', listed')
    BY <1>2, <1>4, <1>7 DEF OptsListed
  <2>2. SoaFresh(zone', req', soa') /\ FwdFresh(zone', req', new', fwd')
    BY <1>2, <1>4, <1>7 DEF SoaFresh, FwdFresh, HasSoa
  <2>3. QED BY <1>2, <1>3, <1>4, <1>7, <2>1, <2>2, ConcludePlaces
<1>8. CASE /\ pc = "soa"
           /\ soa' = zone.soa
           /\ listed' = (listed \/ SoaOverlay(req, zone.soa) # zone.soa)
           /\ UNCHANGED <<new, zopts, fwd, action>>
           /\ IF new THEN Goto("set") ELSE Conclude
  <2>1. OptsListed(zone', new', zopts', listed')
    BY <1>2, <1>4, <1>8 DEF OptsListed
  <2>2. SoaFresh(zone', req', soa') /\ FwdFresh(zone', req', new', fwd')
    BY <1>2, <1>4, <1>8 DEF SoaFresh, FwdFresh, HasSoa
  <2>3. CASE new
    <3>1. pc' = "set"
      BY <1>8, <2>3 DEF Goto
    <3>2. QED
      BY <1>2, <1>4, <1>8, <2>2, <3>1, PlannedHolds DEF Places, AtReads, AtCreateSign,
         AtPlan, Reading, AtRecords, AtSet, AtFwd, AtSoa, AtSign
  <2>4. CASE ~new
    BY <1>2, <1>3, <1>4, <1>8, <2>1, <2>2, <2>4, ConcludePlaces
  <2>5. QED BY <2>3, <2>4
<1>9. QED BY <1>1, <1>5, <1>6, <1>7, <1>8

\* A write keeps the zone, done or not; only one that is done goes on.
LEMMA WritePlaces ==
  ASSUME TypeInv, Places, Running, NEW can \in BOOLEAN, NEW after, NEW c,
         NEW go \in BOOLEAN, Write(can, after, c, go),
         can => Kept(after, before, req),
         can /\ zone' = after /\ go => Places'
  PROVE  Places'
<1>1. UNCHANGED <<req, before>>
  BY DEF Write
<1>2. PICK o \in Outcome :
        /\ Call(o, can)
        /\ zone' = IF o.applied THEN after ELSE zone
        /\ \/ o.reply = "raise" /\ Abort
           \/ o.reply = "nok" /\ Finish("false", c) /\ unheard' = (unheard \/ o.applied)
           \/ o.reply = "ok" /\ go
  BY DEF Write
<1>3. o.applied => can
  BY <1>2, CallBudget DEF TypeInv
<1>4. Kept(zone', before', req')
  BY <1>1, <1>2, <1>3, OutcomeShape DEF Places
<1>5. CASE o.reply = "ok" /\ go
  BY <1>2, <1>3, <1>5, OutcomeShape
<1>6. CASE Abort \/ Finish("false", c)
  <2>1. pc' = "done" /\ result' = "false"
    BY <1>6 DEF Abort, Finish
  <2>2. QED BY <1>4, <2>1, EndsWell
<1>7. QED BY <1>2, <1>5, <1>6

LEMMA InvCreate == TypeInv /\ TypeInv' /\ Inv /\ Create => Inv'
<1> SUFFICES ASSUME TypeInv, TypeInv', Inv, Create, Ours' PROVE Places'
  BY DEF Inv
<1> DEFINE go == IF req.sign = "on" /\ req.kind \in {"Primary", "Forwarder"}
                   THEN Goto("createsign") ELSE AfterCreate
<1>1. UNCHANGED <<req, before, raced, new, action>> /\ pc = "create" /\ Running
      /\ zone \in Zones /\ req \in Requests
  BY DEF Create, Write, locals, Running, TypeInv, TypeOK
<1>2. Places /\ zone = before /\ new = TRUE /\ action = "none" /\ req.fn = "managed"
  BY <1>1 DEF Inv, Ours, Places, AtReads
<1>3. (~zone.exists) \in BOOLEAN
  BY <1>1, ZoneShape
<1>4. go \in BOOLEAN
  BY DEF AfterCreate, Goto
<1>5. Write(~zone.exists, Created(req), FALSE, go)
  BY DEF Create
<1>6. ~zone.exists => Kept(Created(req), before, req)
  BY <1>2 DEF Kept
<1>7. ASSUME ~zone.exists, zone' = Created(req), go PROVE Places'
  <2>1. ~before'.exists /\ zone'.exists /\ zone'.kind = req.kind /\ ~zone'.signed
    BY <1>1, <1>2, <1>7, CreatedShape
  <2>2. Kept(zone', before', req')
    BY <2>1 DEF Kept
  <2>3. CASE req.sign = "on" /\ req.kind \in {"Primary", "Forwarder"}
    <3>1. pc' = "createsign"
      BY <1>7, <2>3 DEF Goto
    <3>2. QED
      BY <1>1, <1>2, <2>1, <2>2, <2>3, <3>1 DEF Places, AtReads, AtCreateSign, AtPlan,
         Reading, AtRecords, AtSet, AtFwd, AtSoa, AtSign
  <2>4. CASE ~(req.sign = "on" /\ req.kind \in {"Primary", "Forwarder"})
    <3>1. SignPlanned(zone', req', action')
      BY <1>1, <1>2, <2>1, <2>4, RequestShape DEF SignPlanned, SignHeld
    <3>2. Planned(zone', before', req', new', action')
      BY <1>1, <2>1, <2>2, <3>1 DEF Planned
    <3>3. AfterCreate
      BY <1>7, <2>4
    <3>4. /\ OptsPlanned(zone', req', new', zopts')
          /\ OptsListed(zone', new', zopts', listed') /\ FwdFresh(zone', req', new', fwd')
      BY <1>1, <1>2 DEF OptsPlanned, OptsListed, FwdFresh
    <3>5. CASE HasSoa(req)
      <4>1. pc' = "soa?" /\ HasSoa(req')
        BY <1>1, <3>3, <3>5 DEF AfterCreate, Goto
      <4>2. QED
        BY <3>2, <3>4, <4>1, PlannedHolds DEF Places, AtReads, AtCreateSign,
           AtPlan, Reading, AtRecords, AtSet, AtFwd, AtSoa, AtSign
    <3>6. CASE ~HasSoa(req)
      <4>1. pc' = "set"
        BY <3>3, <3>6 DEF AfterCreate, Goto
      <4>2. SoaFresh(zone', req', soa')
        BY <1>1, <3>6 DEF SoaFresh, HasSoa
      <4>3. QED
        BY <3>2, <3>4, <4>1, <4>2, PlannedHolds DEF Places, AtReads, AtCreateSign,
           AtPlan, Reading, AtRecords, AtSet, AtFwd, AtSoa, AtSign
    <3>7. QED BY <3>5, <3>6
  <2>5. QED BY <2>3, <2>4
<1> HIDE DEF go
<1>8. QED
  BY <1>1, <1>2, <1>3, <1>4, <1>5, <1>6, <1>7, WritePlaces

LEMMA InvCreateSign == TypeInv /\ TypeInv' /\ Inv /\ CreateSign => Inv'
<1> SUFFICES ASSUME TypeInv, TypeInv', Inv, CreateSign, Ours' PROVE Places'
  BY DEF Inv
<1> DEFINE after == [zone EXCEPT !.signed = TRUE]
<1>1. UNCHANGED <<req, before, raced, new, action>> /\ pc = "createsign" /\ Running
      /\ zone \in Zones /\ req \in Requests
  BY DEF CreateSign, Write, locals, Running, TypeInv, TypeOK
<1>2. /\ Places /\ new = TRUE /\ ~before.exists /\ action = "none" /\ req.sign = "on"
      /\ zone.exists /\ zone.kind = req.kind /\ req.fn = "managed"
  BY <1>1 DEF Inv, Ours, Places, AtCreateSign, TypeInv, TypeOK
<1>3. CanSign(TRUE) \in BOOLEAN /\ AfterCreate \in BOOLEAN
  BY <1>1, ZoneShape DEF CanSign, AfterCreate, Goto
<1>4. Write(CanSign(TRUE), after, FALSE, AfterCreate)
  BY DEF CreateSign
<1>5. Kept(after, before, req)
  BY <1>2 DEF Kept
<1>6. ASSUME zone' = after, AfterCreate PROVE Places'
  <2>1. zone'.exists /\ zone'.kind = req'.kind /\ zone'.signed = TRUE
    BY <1>1, <1>2, <1>6 DEF Zones
  <2>2. Planned(zone', before', req', new', action')
    BY <1>1, <1>2, <1>5, <1>6, <2>1 DEF Planned, SignPlanned, SignHeld
  <2>3. /\ OptsPlanned(zone', req', new', zopts')
        /\ OptsListed(zone', new', zopts', listed') /\ FwdFresh(zone', req', new', fwd')
    BY <1>1, <1>2 DEF OptsPlanned, OptsListed, FwdFresh
  <2>4. CASE HasSoa(req)
    <3>1. pc' = "soa?" /\ HasSoa(req')
      BY <1>1, <1>6, <2>4 DEF AfterCreate, Goto
    <3>2. QED
      BY <2>2, <2>3, <3>1, PlannedHolds DEF Places, AtReads, AtCreateSign,
         AtPlan, Reading, AtRecords, AtSet, AtFwd, AtSoa, AtSign
  <2>5. CASE ~HasSoa(req)
    <3>1. pc' = "set"
      BY <1>6, <2>5 DEF AfterCreate, Goto
    <3>2. SoaFresh(zone', req', soa')
      BY <1>1, <2>5 DEF SoaFresh, HasSoa
    <3>3. QED
      BY <2>2, <2>3, <3>1, <3>2, PlannedHolds DEF Places, AtReads, AtCreateSign,
         AtPlan, Reading, AtRecords, AtSet, AtFwd, AtSoa, AtSign
  <2>6. QED BY <2>4, <2>5
<1> HIDE DEF after
<1>7. QED BY <1>1, <1>2, <1>3, <1>4, <1>5, <1>6, WritePlaces

LEMMA InvSetOptions == TypeInv /\ TypeInv' /\ Inv /\ SetOptions => Inv'
<1> SUFFICES ASSUME TypeInv, TypeInv', Inv, SetOptions, Ours' PROVE Places'
  BY DEF Inv
<1> DEFINE after == [zone EXCEPT !.opts = IF new THEN Overlay(@, req.opts) ELSE zopts]
<1>1. UNCHANGED <<req, before, raced, new, action, soa, fwd>> /\ pc = "set" /\ Running
      /\ zone \in Zones /\ req \in Requests
  BY DEF SetOptions, Write, locals, Running, TypeInv, TypeOK
<1>2. /\ Places /\ Planned(zone, before, req, new, action) /\ req.fn = "managed"
      /\ OptsPlanned(zone, req, new, zopts)
      /\ SoaFresh(zone, req, soa) /\ FwdFresh(zone, req, new, fwd)
  BY <1>1 DEF Inv, Ours, Places, AtPlan, AtSet
<1>3. zone.exists \in BOOLEAN /\ AfterOptions \in BOOLEAN
  BY <1>1, ZoneShape DEF AfterOptions, AfterFwd, AfterSoa, Goto, Return, Finish, Abort
<1>4. Write(zone.exists, after, new, AfterOptions)
  BY DEF SetOptions
<1> DEFINE laid == Overlay(zone.opts, req.opts)
<1>5. /\ after.opts = laid /\ after.exists = zone.exists /\ after.kind = zone.kind
      /\ after.soa = zone.soa /\ after.fwd = zone.fwd /\ after.signed = zone.signed
  <2> HIDE DEF laid
  <2>1. (IF new THEN laid ELSE zopts) = laid
    BY <1>2 DEF OptsPlanned, laid
  <2>2. after = [zone EXCEPT !.opts = laid]
    BY <1>1, <2>1 DEF laid, Zones
  <2> HIDE DEF after
  <2>3. QED BY <1>1, <2>2 DEF Zones
<1> HIDE DEF after
<1>6. /\ Agrees(laid, req.opts)
      /\ \A f \in Options : req.opts[f] = Unmanaged => laid[f] = zone.opts[f]
  BY <1>1, ZoneShape, RequestShape, OverlayHolds
<1> HIDE DEF laid
<1>7. Kept(after, before, req)
  BY <1>2, <1>5, <1>6, PlannedHolds DEF Kept
<1>8. ASSUME zone' = after, AfterOptions PROVE Places'
  <2>1. Planned(zone', before', req', new', action')
    BY <1>1, <1>2, <1>5, <1>7, <1>8 DEF Planned, SignPlanned, SignHeld
  <2>2. OptsHeld(zone', req')
    BY <1>1, <1>5, <1>6, <1>8 DEF OptsHeld
  <2>3. SoaFresh(zone', req', soa') /\ FwdFresh(zone', req', new', fwd')
    BY <1>1, <1>2, <1>5, <1>8 DEF SoaFresh, FwdFresh
  <2>4. QED BY <1>1, <1>2, <1>8, <2>1, <2>2, <2>3, AfterOptionsPlaces
<1>9. QED BY <1>1, <1>2, <1>3, <1>4, <1>7, <1>8, WritePlaces

LEMMA InvWriteList == TypeInv /\ Inv /\ WriteList => Inv'
<1> SUFFICES ASSUME TypeInv, Inv, WriteList, Ours' PROVE Places'
  BY DEF Inv
<1>1. PICK o \in Outcome :
       /\ Call(o, TRUE)
       /\ \/ o.reply = "raise" /\ Abort
          \/ /\ o.reply = "ok" /\ zone.exists
             /\ Goto(IF pc = "fwd!?" THEN "fwd!" ELSE "soa!")
          \/ (o.reply = "nok" \/ (o.reply = "ok" /\ ~zone.exists)) /\ Return("false", listed)
  BY DEF WriteList
<1>2. UNCHANGED <<zone, req, before, raced, new, action, soa, fwd>> /\ pc \in {"fwd!?", "soa!?"}
      /\ Running
  BY DEF WriteList, server, locals, Running
<1>3. Places /\ Kept(zone', before', req')
  BY <1>2 DEF Inv, Ours, Places
<1>4. CASE Abort \/ Return("false", listed)
  <2>1. pc' = "done" /\ result' = "false"
    BY <1>4 DEF Abort, Return, Finish
  <2>2. QED BY <1>3, <2>1, EndsWell
<1>5. CASE Goto(IF pc = "fwd!?" THEN "fwd!" ELSE "soa!")
  <2>1. pc' = IF pc = "fwd!?" THEN "fwd!" ELSE "soa!"
    BY <1>5 DEF Goto
  <2>2. QED
    BY <1>2, <1>3, <2>1 DEF Places, AtReads, AtCreateSign, AtPlan, Reading, AtRecords,
       AtSet, AtFwd, AtSoa, AtSign
<1>6. QED BY <1>1, <1>4, <1>5

LEMMA InvWriteFwd == TypeInv /\ TypeInv' /\ Inv /\ WriteFwd => Inv'
<1> SUFFICES ASSUME TypeInv, TypeInv', Inv, WriteFwd, Ours' PROVE Places'
  BY DEF Inv
<1> DEFINE can   == /\ zone.exists /\ zone.kind = "Forwarder" /\ zone.fwds # "none"
                    /\ \A f \in Renamed : zone.fwd[f] = fwd[f]
           laid  == FwdOverlay(req, fwd)
           after == [zone EXCEPT !.fwd = laid]
<1>1. UNCHANGED <<req, before, raced, new, action, soa>> /\ pc = "fwd!" /\ Running
      /\ zone \in Zones /\ req \in Requests /\ fwd \in [FwdFields -> Values]
  BY DEF WriteFwd, Write, locals, Running, TypeInv, TypeOK
<1>2. /\ Places /\ Planned(zone, before, req, new, action) /\ req.fn = "managed"
      /\ OptsHeld(zone, req) /\ SoaFresh(zone, req, soa) /\ fwd = zone.fwd
  BY <1>1 DEF Inv, Ours, Places, AtPlan, AtFwd
<1>3. can \in BOOLEAN /\ AfterFwd \in BOOLEAN
  BY <1>1, ZoneShape DEF AfterFwd, AfterSoa, Goto, Return, Finish, Abort
<1>4. Write(can, after, listed, AfterFwd)
  BY DEF WriteFwd
<1>5. \A f \in FwdFields : req.fwd[f] = Unmanaged => laid[f] = zone.fwd[f]
  BY <1>1, <1>2, FwdOverlayType
<1> HIDE DEF can, laid
<1>6. /\ after.fwd = laid /\ after.exists = zone.exists /\ after.kind = zone.kind
      /\ after.soa = zone.soa /\ after.opts = zone.opts /\ after.signed = zone.signed
  BY <1>1 DEF Zones
<1> HIDE DEF after
<1>7. Kept(after, before, req)
  BY <1>2, <1>5, <1>6, PlannedHolds DEF Kept
<1>8. ASSUME zone' = after, AfterFwd PROVE Places'
  <2>1. Planned(zone', before', req', new', action')
    BY <1>1, <1>2, <1>6, <1>7, <1>8 DEF Planned, SignPlanned, SignHeld
  <2>2. OptsHeld(zone', req') /\ SoaFresh(zone', req', soa')
    BY <1>1, <1>2, <1>6, <1>8 DEF OptsHeld, SoaFresh
  <2>3. QED BY <1>1, <1>2, <1>8, <2>1, <2>2, AfterFwdPlaces
<1>9. QED BY <1>1, <1>2, <1>3, <1>4, <1>7, <1>8, WritePlaces

LEMMA InvWriteSoa == TypeInv /\ TypeInv' /\ Inv /\ WriteSoa => Inv'
<1> SUFFICES ASSUME TypeInv, TypeInv', Inv, WriteSoa, Ours' PROVE Places'
  BY DEF Inv
<1> DEFINE can   == zone.exists /\ zone.kind = "Primary"
           laid  == SoaOverlay(req, soa)
           after == [zone EXCEPT !.soa = laid]
<1>1. UNCHANGED <<req, before, raced, new, action>> /\ pc = "soa!" /\ Running
      /\ zone \in Zones /\ req \in Requests
  BY DEF WriteSoa, Write, locals, Running, TypeInv, TypeOK
<1>2. /\ Places /\ Planned(zone, before, req, new, action) /\ req.fn = "managed"
      /\ OptsHeld(zone, req) /\ soa = zone.soa
  BY <1>1 DEF Inv, Ours, Places, AtPlan, AtSoa
<1>3. can \in BOOLEAN /\ AfterSoa \in BOOLEAN
  BY <1>1, ZoneShape DEF AfterSoa, Goto, Return, Finish
<1>4. Write(can, after, listed, AfterSoa)
  BY DEF WriteSoa
<1>5. /\ Agrees(laid.fields, req.soa) /\ req.pin \in {Unmanaged, laid.serial}
      /\ \A f \in SoaFields : req.soa[f] = Unmanaged => laid.fields[f] = zone.soa.fields[f]
      /\ req.pin = Unmanaged => laid.serial = zone.soa.serial
  <2>1. zone.soa \in Soas /\ zone.soa.fields \in [SoaFields -> Values]
    BY <1>1, ZoneShape DEF Soas
  <2>2. /\ laid.fields = Overlay(zone.soa.fields, req.soa)
        /\ laid.serial = IF req.pin = Unmanaged THEN zone.soa.serial ELSE req.pin
    BY <1>1, <1>2, <2>1, SoaOverlayType
  <2> HIDE DEF laid
  <2>3. req.soa \in [SoaFields -> Values \cup {Unmanaged}]
    BY <1>1, RequestShape
  <2>4. QED BY <2>1, <2>2, <2>3, OverlayHolds
<1> HIDE DEF can, laid
<1>6. /\ after.soa = laid /\ after.exists = zone.exists /\ after.kind = zone.kind
      /\ after.fwd = zone.fwd /\ after.opts = zone.opts /\ after.signed = zone.signed
  BY <1>1 DEF Zones
<1> HIDE DEF after
<1>7. Kept(after, before, req)
  BY <1>2, <1>5, <1>6, PlannedHolds DEF Kept
<1>8. ASSUME zone' = after, AfterSoa PROVE Places'
  <2>1. Planned(zone', before', req', new', action')
    BY <1>1, <1>2, <1>6, <1>7, <1>8 DEF Planned, SignPlanned, SignHeld
  <2>2. OptsHeld(zone', req') /\ SoaHeld(zone', req')
    BY <1>1, <1>2, <1>5, <1>6, <1>8 DEF OptsHeld, SoaHeld
  <2>3. QED BY <1>1, <1>2, <1>8, <2>1, <2>2, AfterSoaPlaces
<1>9. QED BY <1>1, <1>2, <1>3, <1>4, <1>7, <1>8, WritePlaces

LEMMA InvSign == TypeInv /\ TypeInv' /\ Inv /\ Sign => Inv'
<1> SUFFICES ASSUME TypeInv, TypeInv', Inv, Sign, Ours' PROVE Places'
  BY DEF Inv
<1> DEFINE can   == CanSign(action = "sign")
           after == [zone EXCEPT !.signed = (action = "sign")]
<1>1. UNCHANGED <<req, before, raced>> /\ pc = "sign" /\ Running
      /\ zone \in Zones /\ req \in Requests /\ action \in {"none", "sign", "unsign"}
  BY DEF Sign, Write, locals, Running, TypeInv, TypeOK
<1>2. /\ Places /\ Planned(zone, before, req, new, action) /\ req.fn = "managed"
      /\ OptsHeld(zone, req) /\ SoaHeld(zone, req) /\ action # "none"
  BY <1>1 DEF Inv, Ours, Places, AtPlan, AtSign
<1>3. can \in BOOLEAN /\ Return("true", listed) \in BOOLEAN
  BY <1>1, ZoneShape DEF CanSign, Return, Finish
<1>4. Write(can, after, listed, Return("true", listed))
  BY DEF Sign
<1> HIDE DEF can
<1>5. /\ after.soa = zone.soa /\ after.exists = zone.exists /\ after.kind = zone.kind
      /\ after.fwd = zone.fwd /\ after.opts = zone.opts
      /\ after.signed = (action = "sign")
  BY <1>1 DEF Zones
<1> HIDE DEF after
<1>6. req.sign = IF action = "sign" THEN "on" ELSE "off"
  BY <1>1, <1>2, PlannedHolds
<1>7. Kept(after, before, req)
  BY <1>2, <1>5, <1>6, PlannedHolds DEF Kept
<1>8. ASSUME zone' = after, Return("true", listed) PROVE Places'
  <2>1. pc' = "done"
    BY <1>8 DEF Return, Finish
  <2>2. SignHeld(after, req)
    BY <1>5, <1>6 DEF SignHeld
  <2>3. OptsHeld(after, req) /\ SoaHeld(after, req) /\ after.exists /\ after.kind = req.kind
    BY <1>2, <1>5, PlannedHolds DEF OptsHeld, SoaHeld
  <2>4. Satisfies(zone', req')
    BY <1>1, <1>2, <1>8, <2>2, <2>3, SatisfiesManaged
  <2>5. QED BY <1>1, <1>7, <1>8, <2>1, <2>4, EndsWell
<1>9. QED BY <1>1, <1>2, <1>3, <1>4, <1>7, <1>8, WritePlaces

\* Only a run of zone_absent deletes.
LEMMA InvDelete == Inv /\ (DeleteList \/ Delete) => Inv'
<1> SUFFICES ASSUME Inv, DeleteList \/ Delete, Ours' PROVE FALSE
  BY DEF Inv
<1>1. UNCHANGED <<req, raced>> /\ pc \in {"delete?", "delete"}
  BY DEF DeleteList, Delete, Write
<1>2. QED BY <1>1 DEF Inv, Ours, Places, AtReads

LEMMA InvNext == TypeInv /\ TypeInv' /\ Inv /\ [Next]_vars => Inv'
BY InvStart, InvOutside, InvExists, InvKind, InvReadOptions, InvReadList, InvReadRecord,
   InvCreate, InvCreateSign, InvSetOptions, InvWriteList, InvWriteFwd, InvWriteSoa,
   InvSign, InvDelete
   DEF Next, Step

LEMMA ZonesInv == Spec => [](TypeInv /\ Inv)
<1>1. Init => TypeInv /\ Inv BY TypeInit, InvInit
<1>2. TypeInv /\ Inv /\ [Next]_vars => (TypeInv /\ Inv)' BY TypeNext, InvNext
<1>3. QED BY <1>1, <1>2, PTL DEF Spec

\* A run of zone_managed that reports success leaves a zone that is no
\* forwarder as the pillar asks, whatever the faults.
THEOREM ZonesTruthful == Spec => []TruthfulSuccess
<1>1. Inv => TruthfulSuccess BY DEF Inv, Ours, Places, TruthfulSuccess
<1>2. QED BY <1>1, ZonesInv, PTL

\* At no step does a managed run of a zone that was there lose what the
\* pillar does not name.
THEOREM ZonesKeep == Spec => []KeepsUnmanaged
<1>1. Inv => KeepsUnmanaged BY DEF Inv, Ours, Places, Kept, KeepsUnmanaged
<1>2. QED BY <1>1, ZonesInv, PTL

-----------------------------------------------------------------------------
(* The contract of a Salt state function. *)

\* What a run tells, and whether it may: the calls that write, and those
\* before which it has written nothing.
Writes == {"create", "createsign", "set", "fwd!?", "fwd!", "soa!?", "soa!", "sign",
           "delete?", "delete"}
Early  == {"exists", "kind", "options", "create", "delete?", "delete"}
SoaListed(r, s, l)    == ~l /\ HasSoa(r) /\ s # Unread => SoaOverlay(r, s) = s
FwdListed(r, n, f, l) == ~l /\ ~n /\ r.kind = "Forwarder" => Overlay(f, r.fwd) = f

Tells == Running =>
  /\ pc \in Writes => ~req.test
  /\ pc \in Early => ~wrote
  /\ pc \in {"exists", "kind", "options", "fwd?", "fwd", "fwd!?", "fwd!"} => ~new
  /\ pc = "exists" => action = "none"
  /\ pc \in {"create", "createsign"} => new
  /\ pc = "createsign" => req.sign = "on"
  /\ ~new /\ (Reading \/ pc = "set") => ~wrote
  /\ new => ~req.test
  /\ pc \in {"fwd?", "fwd"} => req.kind = "Forwarder"
  /\ pc \in {"soa?", "soa"} => HasSoa(req)
  /\ pc # "exists" /\ (new \/ action # "none") => listed
  /\ pc \in {"set", "sign"} => listed
  /\ pc \in {"fwd!?", "fwd!", "soa!?", "soa!"} => (wrote => listed)
  /\ pc \in {"fwd!?", "fwd!"} => FwdListed(req, new, fwd, listed) /\ req.kind = "Forwarder"
  /\ pc \in {"fwd!?", "fwd!", "soa!?", "soa!", "set"} => SoaListed(req, soa, listed)
  /\ pc \in {"soa!?", "soa!"} => HasSoa(req) /\ soa # Unread /\ SoaAsked(req)
  /\ pc # "exists" => (req.fn = "absent" <=> pc \in {"delete?", "delete"})

\* A settled zone is left as it is, and nothing is planned for it.
Calm == Settled => /\ ~wrote /\ zone = before /\ ~listed /\ ~new /\ action = "none"
Rests == Running =>
  /\ Calm
  /\ Settled => pc \in {"exists", "kind", "options", "fwd?", "fwd", "soa?", "soa",
                        "fwd!?", "fwd!", "soa!?", "soa!"}

\* What the contract asks of a run that returns.
Heard == ~unheard /\ ~(new /\ req.sign = "on")
Promise == pc = "done" =>
  /\ wrote /\ (Heard \/ result = "true") => changed \/ overran
  /\ result = "none" => req.test
  /\ Settled => ~wrote /\ ~changed /\ (req.test \/ result = "true")
Report == Tells /\ Rests /\ Promise

\* What every step of a run keeps: an unheard write stays unheard, and only
\* the last step reports.
Reports == /\ unheard => unheard'
           /\ pc' # "done" => UNCHANGED report
           /\ pc' # "idle"

\* A finished run has nothing more to show than its promise.
LEMMA DoneReport ==
  ASSUME pc' = "done", Promise'
  PROVE  Report'
BY DEF Report, Tells, Rests, Running

LEMMA AbortReport ==
  ASSUME Abort, ~Settled'
  PROVE  Report' /\ Reports
<1>1. pc' = "done" /\ result' = "false" /\ unheard' = TRUE
  BY DEF Abort, Finish
<1>2. Promise'
  BY <1>1 DEF Promise, Heard
<1>3. QED BY <1>1, <1>2, DoneReport DEF Reports

LEMMA AfterSoaReport ==
  ASSUME TypeInv', req' = req, req.fn = "managed", ~req.test, AfterSoa, Calm',
         (wrote => listed)', (new \/ action # "none" => listed)'
  PROVE  Report' /\ Reports
<1>1. CASE action' # "none"
  <2>1. pc' = "sign" /\ UNCHANGED <<report, unheard>>
    BY <1>1 DEF AfterSoa, Goto
  <2>2. ~Settled'
    BY <1>1 DEF Calm
  <2>3. QED
    BY <1>1, <2>1, <2>2 DEF Report, Reports, Tells, Rests, Promise, Running, Writes, Early,
       Reading
<1>2. CASE action' = "none"
  <2>1. pc' = "done" /\ result' = "true" /\ changed' = listed' /\ UNCHANGED unheard
    BY <1>2 DEF AfterSoa, Return, Finish
  <2>2. Promise'
    BY <2>1 DEF Promise, Calm
  <2>3. QED BY <2>1, <2>2, DoneReport DEF Reports
<1>3. QED BY <1>1, <1>2

LEMMA AfterFwdReport ==
  ASSUME TypeInv', req' = req, req.fn = "managed", ~req.test, AfterFwd, Calm',
         (wrote => listed)', (new \/ action # "none" => listed)',
         SoaListed(req, soa, listed)', (Settled /\ HasSoa(req) => soa # Unread)'
  PROVE  Report' /\ Reports
<1>0. HasSoa(req') <=> HasSoa(req)
  BY DEF HasSoa
<1>1. CASE HasSoa(req) /\ soa' = Unread
  BY <1>0, <1>1, AbortReport DEF AfterFwd
<1>2. CASE HasSoa(req) /\ soa' # Unread /\ SoaAsked(req)
  <2>1. pc' = "soa!?" /\ UNCHANGED <<report, unheard>>
    BY <1>2 DEF AfterFwd, Goto
  <2>2. QED
    BY <1>0, <1>2, <2>1 DEF Report, Reports, Tells, Rests, Promise, Running, Writes, Early,
       Reading
<1>3. CASE ~(HasSoa(req) /\ soa' = Unread) /\ ~(HasSoa(req) /\ soa' # Unread /\ SoaAsked(req))
  BY <1>3, AfterSoaReport DEF AfterFwd
<1>4. QED BY <1>1, <1>2, <1>3

LEMMA AfterOptionsReport ==
  ASSUME TypeInv', req' = req, req.fn = "managed", ~req.test, AfterOptions, Calm',
         (wrote => listed)', (new \/ action # "none" => listed)',
         FwdListed(req, new, fwd, listed)',
         SoaListed(req, soa, listed)', (Settled /\ HasSoa(req) => soa # Unread)'
  PROVE  Report' /\ Reports
<1>1. CASE ~new' /\ FwdAsked(req)
  <2>1. pc' = "fwd!?" /\ UNCHANGED <<report, unheard>>
    BY <1>1 DEF AfterOptions, Goto
  <2>2. req'.kind = "Forwarder"
    BY <1>1 DEF FwdAsked
  <2>3. QED
    BY <1>1, <2>1, <2>2 DEF Report, Reports, Tells, Rests, Promise, Running, Writes, Early,
       Reading
<1>2. CASE ~(~new' /\ FwdAsked(req))
  BY <1>2, AfterFwdReport DEF AfterOptions
<1>3. QED BY <1>1, <1>2

LEMMA ConcludeReport ==
  ASSUME TypeInv', req' = req, req.fn = "managed", Conclude, Calm',
         ~wrote', (new \/ action # "none" => listed)',
         FwdListed(req, new, fwd, listed)',
         SoaListed(req, soa, listed)', (Settled /\ HasSoa(req) => soa # Unread)'
  PROVE  Report' /\ Reports
<1>0. req.test \in BOOLEAN /\ new' \in BOOLEAN /\ listed' \in BOOLEAN
  BY RequestShape DEF TypeInv, TypeOK
<1>1. CASE req.test
  <2>1. pc' = "done" /\ result' = "none" /\ changed' = listed' /\ UNCHANGED unheard
    BY <1>1 DEF Conclude, Return, Finish
  <2>2. Promise'
    BY <1>1, <2>1 DEF Promise, Calm
  <2>3. QED BY <2>1, <2>2, DoneReport DEF Reports
<1>2. CASE ~req.test /\ (new' \/ listed')
  <2>1. pc' = (IF new' THEN "create" ELSE "set") /\ UNCHANGED <<report, unheard>>
    BY <1>0, <1>2 DEF Conclude, Goto
  <2>2. ~Settled' /\ listed'
    BY <1>2 DEF Calm
  <2>3. QED
    BY <1>2, <2>1, <2>2 DEF Report, Reports, Tells, Rests, Promise, Running, Writes, Early,
       Reading
<1>3. CASE ~req.test /\ ~new' /\ ~listed'
  <2>1. AfterOptions
    BY <1>3 DEF Conclude
  <2>2. QED BY <1>3, <2>1, AfterOptionsReport
<1>4. QED BY <1>0, <1>1, <1>2, <1>3

\* A run that begins has nothing to tell; between runs nobody asks.
LEMMA ReportInit == Init => Report
BY DEF Init, Report, Tells, Rests, Promise, Running

LEMMA ReportStart == TypeInv /\ Start => Report'
<1> SUFFICES ASSUME TypeInv, Start PROVE Report'
  OBVIOUS
<1>1. /\ pc' = "exists" /\ zone' = before' /\ new' = FALSE /\ action' = "none"
      /\ listed' = FALSE /\ wrote' = FALSE
  BY DEF Start, server
<1>2. QED
  BY <1>1 DEF Report, Tells, Rests, Calm, Promise, Running, Writes, Early, Reading

LEMMA ReportOutside == Report /\ (Killed \/ Console \/ Rewrite \/ UNCHANGED vars) => Report'
<1> SUFFICES ASSUME Report, Killed \/ Console \/ Rewrite \/ UNCHANGED vars PROVE Report'
  OBVIOUS
<1>1. CASE Console
  <2>1. /\ raced' = TRUE
        /\ UNCHANGED <<req, pc, locals, report, faults, before, wrote, overran,
                     faulted, unheard>>
    BY <1>1, Zenon DEF Console
  <2>2. ~Settled'
    BY <2>1 DEF Settled
  <2>3. UNCHANGED <<req, pc, new, zopts, fwd, soa, action, listed, result, changed, wrote,
                     overran, unheard>>
    BY <2>1 DEF locals, report
  <2>4. QED
    BY <2>2, <2>3 DEF Report, Tells, Rests, Calm, Promise, Heard, Running, Writes, Early, Reading
<1>2. CASE Killed \/ Rewrite
  <2>1. pc' = "idle"
    BY <1>2 DEF Killed, Rewrite
  <2>2. QED
    BY <2>1 DEF Report, Tells, Rests, Promise, Running
<1>3. CASE UNCHANGED vars
  <2>1. Settled' = Settled
    BY <1>3 DEF vars, Settled
  <2>2. QED
    BY <1>3, <2>1 DEF vars, Report, Tells, Rests, Calm, Promise, Heard, Running, Writes, Early,
       Reading
<1>4. QED BY <1>1, <1>2, <1>3

\* What disturbs a call unsettles the run.
LEMMA CallSettled ==
  ASSUME NEW o, NEW can, Call(o, can), UNCHANGED <<req, before, raced>>
  PROVE  Settled' => Settled /\ o = Undisturbed(can)
BY DEF Call, Settled

\* Nothing is asked of a settled zone that it is not.
LEMMA SettledHolds ==
  ASSUME TypeInv, Settled, req.fn = "managed"
  PROVE  /\ before.exists /\ before.kind = req.kind /\ req.legal
         /\ Overlay(before.opts, req.opts) = before.opts
         /\ DnssecAction(req, before.signed) = "none"
         /\ HasSoa(req) => SoaOverlay(req, before.soa) = before.soa
         /\ req.kind = "Forwarder" => /\ Overlay(before.fwd, req.fwd) = before.fwd
                                      /\ before.fwds = "one"
         /\ HasSoa(req) /\ SoaAsked(req) => req.kind = "Primary"
<1>1. before \in Zones /\ req \in Requests
  BY DEF TypeInv, TypeOK
<1>2. /\ before.exists /\ before.kind = req.kind /\ req.legal
      /\ OptsHeld(before, req) /\ SoaHeld(before, req) /\ SignHeld(before, req)
      /\ FwdSatisfies(before, req, FwdFields)
      /\ req.kind = "Secondary" => ~SoaAsked(req)
  BY SatisfiesManaged DEF Settled
<1>3. Overlay(before.opts, req.opts) = before.opts
  <2>1. before.opts \in [Options -> Values] /\ req.opts \in [Options -> Values \cup {Unmanaged}]
    BY <1>1, ZoneShape, RequestShape
  <2>2. QED BY <1>2, <2>1 DEF OptsHeld, Agrees, Overlay
<1>4. DnssecAction(req, before.signed) = "none"
  <2>1. before.signed \in BOOLEAN
    BY <1>1, ZoneShape
  <2>2. QED BY <1>2, <2>1 DEF SignHeld, DnssecAction
<1>5. HasSoa(req) => SoaOverlay(req, before.soa) = before.soa
  <2>1. before.soa \in Soas
    BY <1>1, ZoneShape
  <2>2. before.soa.fields \in [SoaFields -> Values] /\ before.soa.serial \in Serials
        /\ req.soa \in [SoaFields -> Values \cup {Unmanaged}]
    BY <1>1, <2>1, RequestShape DEF Soas
  <2>3. HasSoa(req) => Overlay(before.soa.fields, req.soa) = before.soa.fields
    BY <1>2, <2>2 DEF SoaHeld, Agrees, Overlay
  <2>4. HasSoa(req) => (IF req.pin = Unmanaged THEN before.soa.serial ELSE req.pin) = before.soa.serial
    BY <1>2 DEF SoaHeld
  <2>5. QED BY <2>1, <2>3, <2>4 DEF SoaOverlay, Soas
<1>6. req.kind = "Forwarder" => /\ Overlay(before.fwd, req.fwd) = before.fwd
                                 /\ before.fwds = "one"
  <2>1. before.fwd \in [FwdFields -> Values] /\ req.fwd \in [FwdFields -> Values \cup {Unmanaged}]
    BY <1>1, ZoneShape, RequestShape
  <2>2. QED BY <1>2, <2>1 DEF FwdSatisfies, Overlay
<1>7. HasSoa(req) /\ SoaAsked(req) => req.kind = "Primary"
  BY <1>2 DEF HasSoa
<1>8. QED BY <1>2, <1>3, <1>4, <1>5, <1>6, <1>7

\* Nothing disturbs the call of a settled run: the server does what it can.
LEMMA UndisturbedReply ==
  /\ Undisturbed(TRUE).reply = "ok" /\ Undisturbed(TRUE).applied
  /\ Undisturbed(FALSE).reply = "nok"
BY DEF Undisturbed

LEMMA ReportExists == TypeInv /\ TypeInv' /\ Report /\ Exists => Report' /\ Reports
<1> SUFFICES ASSUME TypeInv, TypeInv', Report, Exists PROVE Report' /\ Reports
  OBVIOUS
<1>1. PICK o \in Outcome :
       /\ Call(o, TRUE)
       /\ LET there == o.reply = "ok" /\ zone.exists IN
          \/ o.reply = "raise" /\ Abort /\ UNCHANGED locals
          \/ /\ o.reply # "raise" /\ req.fn = "absent"
             /\ CASE ~there            -> Return("true", FALSE)
                  [] there /\ req.test -> Return("true", TRUE)
                  [] OTHER             -> Goto("delete?")
             /\ UNCHANGED locals
          \/ /\ o.reply # "raise" /\ req.fn = "managed"
             /\ new' = ~there
             /\ listed' = ~there
             /\ UNCHANGED <<reads, action>>
             /\ CASE there -> Goto("kind")
                  [] ~there /\ ~req.legal -> Return("false", FALSE)
                  [] OTHER -> Conclude
  BY DEF Exists
<1> DEFINE there == o.reply = "ok" /\ zone.exists
<1>2. UNCHANGED <<zone, req, before, raced, wrote>> /\ pc = "exists" /\ Running
  BY DEF Exists, server, Running
<1>3. /\ wrote = FALSE /\ new = FALSE /\ action = "none"
      /\ Settled => zone = before
  BY <1>2 DEF Report, Tells, Rests, Calm, Early, TypeInv, TypeOK
<1>4. there \in BOOLEAN /\ req.test \in BOOLEAN /\ req.legal \in BOOLEAN /\ listed' \in BOOLEAN
  BY OutcomeShape, ZoneShape, RequestShape DEF TypeInv, TypeOK
<1>5. Settled' => Settled /\ o.reply = "ok"
  BY <1>1, <1>2, CallSettled, UndisturbedReply
<1>6. CASE o.reply = "raise" /\ Abort
  BY <1>5, <1>6, AbortReport
<1>7. CASE /\ req.fn = "absent"
           /\ CASE ~there            -> Return("true", FALSE)
                [] there /\ req.test -> Return("true", TRUE)
                [] OTHER             -> Goto("delete?")
           /\ UNCHANGED locals
  <2>1. Settled' => ~there
    BY <1>3, <1>5, <1>7 DEF Settled, Satisfies
  <2> HIDE DEF there
  <2>2. CASE ~there
    <3>1. pc' = "done" /\ result' = "true" /\ changed' = FALSE /\ UNCHANGED unheard
      BY <1>4, <1>7, <2>2 DEF Return, Finish
    <3>2. Promise'
      BY <1>2, <1>3, <3>1 DEF Promise
    <3>3. QED BY <3>1, <3>2, DoneReport DEF Reports
  <2>3. CASE there /\ req.test
    <3>1. pc' = "done" /\ result' = "true" /\ changed' = TRUE /\ UNCHANGED unheard
      BY <1>4, <1>7, <2>3 DEF Return, Finish
    <3>2. Promise'
      BY <2>1, <2>3, <3>1 DEF Promise
    <3>3. QED BY <3>1, <3>2, DoneReport DEF Reports
  <2>4. CASE there /\ ~req.test
    <3>1. pc' = "delete?" /\ UNCHANGED <<report, unheard>>
      BY <1>4, <1>7, <2>4 DEF Goto
    <3>2. ~Settled' /\ UNCHANGED <<new, action, listed>>
      BY <1>7, <2>1, <2>4 DEF locals
    <3>3. QED
      BY <1>2, <1>3, <1>7, <2>4, <3>1, <3>2 DEF Report, Reports, Tells, Rests, Calm, Promise,
         Running, Writes, Early, Reading
  <2>5. QED BY <1>4, <2>2, <2>3, <2>4
<1>8. CASE /\ req.fn = "managed"
           /\ new' = ~there
           /\ listed' = ~there
           /\ UNCHANGED <<reads, action>>
           /\ CASE there -> Goto("kind")
                [] ~there /\ ~req.legal -> Return("false", FALSE)
                [] OTHER -> Conclude
  <2>1. Settled' => there
    BY <1>3, <1>5, <1>8, SettledHolds
  <2> HIDE DEF there
  <2>2. Calm'
    BY <1>2, <1>3, <1>5, <1>8, <2>1 DEF Calm
  <2>3. CASE there
    <3>1. pc' = "kind" /\ UNCHANGED <<report, unheard>> /\ new' = FALSE /\ listed' = FALSE
      BY <1>4, <1>8, <2>3 DEF Goto
    <3>2. QED
      BY <1>2, <1>3, <1>8, <2>2, <3>1 DEF Report, Reports, Tells, Rests, Promise,
         Running, Writes, Early, Reading
  <2>4. CASE ~there /\ ~req.legal
    <3>1. pc' = "done" /\ result' = "false" /\ changed' = FALSE /\ UNCHANGED unheard
      BY <1>4, <1>8, <2>4 DEF Return, Finish
    <3>2. Promise'
      BY <1>2, <1>3, <2>1, <2>4, <3>1 DEF Promise
    <3>3. QED BY <3>1, <3>2, DoneReport DEF Reports
  <2>5. CASE ~there /\ req.legal
    <3>1. Conclude /\ listed' /\ ~Settled'
      BY <1>4, <1>8, <2>1, <2>5
    <3>2. /\ FwdListed(req', new', fwd', listed') /\ SoaListed(req', soa', listed')
      BY <3>1 DEF FwdListed, SoaListed
    <3>3. QED BY <1>2, <1>3, <1>8, <2>2, <3>1, <3>2, ConcludeReport
  <2>6. QED BY <1>4, <2>3, <2>4, <2>5
<1>9. QED BY <1>1, <1>6, <1>7, <1>8

LEMMA ReportKind == TypeInv /\ TypeInv' /\ Report /\ Kind => Report' /\ Reports
<1> SUFFICES ASSUME TypeInv, TypeInv', Report, Kind PROVE Report' /\ Reports
  OBVIOUS
<1>1. PICK o \in Outcome :
       /\ Call(o, zone.exists)
       /\ \/ o.reply # "ok" /\ Abort
          \/ o.reply = "ok" /\ IF zone.kind = req.kind THEN Goto("options")
                                                       ELSE Return("false", FALSE)
  BY DEF Kind
<1>2. UNCHANGED <<zone, req, before, raced, wrote, new, action, listed>> /\ pc = "kind"
      /\ Running /\ req.fn \in {"managed", "absent"} /\ zone.exists \in BOOLEAN
  BY ZoneShape, RequestShape DEF Kind, server, locals, Running, TypeInv, TypeOK
<1>3. /\ wrote = FALSE /\ ~new /\ Calm /\ req.fn = "managed"
      /\ action # "none" => listed
  BY <1>2 DEF Report, Tells, Rests, Early, TypeInv, TypeOK
<1>4. Settled' => Settled /\ o.reply = "ok" /\ zone.kind = req.kind
  <2>1. Settled' => Settled /\ o = Undisturbed(zone.exists)
    BY <1>1, <1>2, CallSettled
  <2>2. Settled => zone.exists = TRUE /\ zone.kind = req.kind
    BY <1>2, <1>3, SettledHolds DEF Calm
  <2>3. QED BY <2>1, <2>2, UndisturbedReply
<1>5. CASE o.reply # "ok" /\ Abort
  BY <1>4, <1>5, AbortReport
<1>6. CASE zone.kind # req.kind /\ Return("false", FALSE)
  <2>1. pc' = "done" /\ result' = "false" /\ changed' = FALSE /\ UNCHANGED unheard
    BY <1>6 DEF Return, Finish
  <2>2. Promise'
    BY <1>2, <1>3, <1>4, <1>6, <2>1 DEF Promise
  <2>3. QED BY <2>1, <2>2, DoneReport DEF Reports
<1>7. CASE Goto("options")
  <2>1. pc' = "options" /\ UNCHANGED <<report, unheard>>
    BY <1>7 DEF Goto
  <2>2. Calm'
    BY <1>2, <1>3, <1>4 DEF Calm
  <2>3. QED
    BY <1>2, <1>3, <2>1, <2>2 DEF Report, Reports, Tells, Rests, Promise,
       Running, Writes, Early, Reading
<1>8. QED BY <1>1, <1>5, <1>6, <1>7

LEMMA ReportReadOptions ==
  TypeInv /\ TypeInv' /\ Report /\ ReadOptions => Report' /\ Reports
<1> SUFFICES ASSUME TypeInv, TypeInv', Report, ReadOptions PROVE Report' /\ Reports
  OBVIOUS
<1>1. PICK o \in Outcome :
       /\ Call(o, zone.exists)
       /\ \/ o.reply # "ok" /\ Abort /\ UNCHANGED locals
          \/ o.reply = "ok" /\ ~req.legal /\ Return("false", FALSE) /\ UNCHANGED locals
          \/ /\ o.reply = "ok" /\ req.legal
             /\ zopts' = Overlay(zone.opts, req.opts)
             /\ action' = DnssecAction(req, zone.signed)
             /\ listed' = (zopts' # zone.opts \/ action' # "none")
             /\ UNCHANGED <<new, fwd, soa>>
             /\ CASE req.kind = "Forwarder" -> Goto("fwd?")
                  [] HasSoa(req)            -> Goto("soa?")
                  [] req.kind = "Stub"      -> Conclude
  BY DEF ReadOptions
<1>2. UNCHANGED <<zone, req, before, raced, wrote>> /\ pc = "options"
      /\ Running /\ req.fn \in {"managed", "absent"} /\ zone.exists \in BOOLEAN
  BY ZoneShape, RequestShape DEF ReadOptions, server, Running, TypeInv, TypeOK
<1>3. wrote = FALSE /\ new = FALSE /\ Calm /\ req.fn = "managed"
  BY <1>2 DEF Report, Tells, Rests, Early, TypeInv, TypeOK
<1>4. Settled' => /\ Settled /\ o.reply = "ok" /\ zone = before /\ req.legal
                  /\ Overlay(zone.opts, req.opts) = zone.opts
                  /\ DnssecAction(req, zone.signed) = "none"
  <2>1. Settled' => Settled /\ o = Undisturbed(zone.exists)
    BY <1>1, <1>2, CallSettled
  <2>2. Settled => zone = before /\ zone.exists = TRUE
    BY <1>2, <1>3, SettledHolds DEF Calm
  <2>3. QED BY <1>3, <2>1, <2>2, UndisturbedReply, SettledHolds
<1>5. CASE o.reply # "ok" /\ Abort
  BY <1>4, <1>5, AbortReport
<1>6. CASE ~req.legal /\ Return("false", FALSE)
  <2>1. pc' = "done" /\ result' = "false" /\ changed' = FALSE /\ UNCHANGED unheard
    BY <1>6 DEF Return, Finish
  <2>2. Promise'
    BY <1>2, <1>3, <1>4, <1>6, <2>1 DEF Promise
  <2>3. QED BY <2>1, <2>2, DoneReport DEF Reports
<1>7. CASE /\ zopts' = Overlay(zone.opts, req.opts)
           /\ action' = DnssecAction(req, zone.signed)
           /\ listed' = (zopts' # zone.opts \/ action' # "none")
           /\ UNCHANGED <<new, fwd, soa>>
           /\ CASE req.kind = "Forwarder" -> Goto("fwd?")
                [] HasSoa(req)            -> Goto("soa?")
                [] req.kind = "Stub"      -> Conclude
  <2>1. Calm'
    BY <1>2, <1>3, <1>4, <1>7 DEF Calm
  <2>2. ~new' /\ (action' # "none" => listed') /\ ~wrote'
    BY <1>2, <1>3, <1>7
  <2>3. CASE (req.kind = "Forwarder" /\ Goto("fwd?")) \/ (HasSoa(req) /\ Goto("soa?"))
    <3>1. /\ pc' \in {"fwd?", "soa?"} /\ UNCHANGED <<report, unheard>>
          /\ pc' = "fwd?" => req'.kind = "Forwarder"
          /\ pc' = "soa?" => HasSoa(req')
      BY <1>2, <2>3 DEF Goto, HasSoa
    <3>2. QED
      BY <1>2, <1>3, <2>1, <2>2, <3>1 DEF Report, Reports, Tells, Rests, Promise,
         Running, Writes, Early, Reading
  <2>4. CASE req.kind = "Stub" /\ Conclude
    <3>1. /\ FwdListed(req', new', fwd', listed') /\ SoaListed(req', soa', listed')
          /\ ~HasSoa(req')
      BY <1>2, <2>4 DEF FwdListed, SoaListed, HasSoa
    <3>2. QED BY <1>2, <1>3, <2>1, <2>2, <2>4, <3>1, ConcludeReport
  <2>5. req.kind \in Kinds
    BY RequestShape DEF TypeInv, TypeOK
  <2>6. QED BY <1>7, <2>3, <2>4, <2>5 DEF Kinds, HasSoa
<1>8. QED BY <1>1, <1>5, <1>6, <1>7

\* What a run that reads has told so far.
LEMMA ReadingTells ==
  ASSUME TypeInv, Report, Reading
  PROVE  /\ req.fn = "managed" /\ Calm /\ (~new => ~wrote)
         /\ new \/ action # "none" => listed
         /\ pc \in {"fwd?", "fwd"} => ~new /\ req.kind = "Forwarder"
         /\ pc \in {"soa?", "soa"} => HasSoa(req)
         /\ new => ~req.test
<1>1. req.fn \in {"managed", "absent"}
  BY RequestShape DEF TypeInv, TypeOK
<1>2. QED BY <1>1 DEF Report, Tells, Rests, Running, Reading

LEMMA MissingReport ==
  ASSUME TypeInv, TypeInv', Report, Reading, Missing, ~Settled',
         UNCHANGED <<zone, req, before, wrote>>
  PROVE  Report' /\ Reports
<1>1. UNCHANGED <<zone, req, before, new, zopts, fwd, action, listed>>
  BY DEF Missing
<1>2. CASE pc \in {"fwd?", "fwd"}
  <2>1. pc' = "done" /\ result' = "true" /\ changed' = listed /\ UNCHANGED unheard
    BY <1>2 DEF Missing, Return, Finish
  <2>2. ~wrote'
    BY <1>2, ReadingTells
  <2>3. Promise'
    BY <2>1, <2>2 DEF Promise
  <2>4. QED BY <2>1, <2>3, DoneReport DEF Reports
<1>3. CASE pc \in {"soa?", "soa"}
  <2>1. soa' = Unread /\ HasSoa(req)
    BY <1>3, ReadingTells DEF Missing
  <2>2. FwdListed(req', new', fwd', listed') /\ SoaListed(req', soa', listed')
    BY <1>1, <2>1 DEF FwdListed, SoaListed, HasSoa
  <2>3. CASE new
    <3>1. pc' = "set" /\ UNCHANGED <<report, unheard>>
      BY <1>3, <2>3 DEF Missing, Goto
    <3>2. QED
      BY <1>1, <2>2, <2>3, <3>1, ReadingTells DEF Report, Reports, Tells, Rests, Calm, Promise,
         Running, Writes, Early, Reading
  <2>4. CASE ~new
    <3>1. Conclude
      BY <1>3, <2>4 DEF Missing
    <3>2. Calm'
      BY DEF Calm
    <3>3. QED BY <1>1, <2>2, <2>4, <3>1, <3>2, ReadingTells, ConcludeReport
  <2>5. QED BY <2>3, <2>4
<1>4. QED BY <1>2, <1>3 DEF Reading

LEMMA ReportReadList ==
  TypeInv /\ TypeInv' /\ Report /\ ReadList => Report' /\ Reports
<1> SUFFICES ASSUME TypeInv, TypeInv', Report, ReadList PROVE Report' /\ Reports
  OBVIOUS
<1>1. PICK o \in Outcome :
       /\ Call(o, TRUE)
       /\ \/ o.reply = "raise" /\ Abort /\ UNCHANGED locals
          \/ /\ o.reply = "ok" /\ zone.exists
             /\ Goto(IF pc = "fwd?" THEN "fwd" ELSE "soa")
             /\ UNCHANGED locals
          \/ (o.reply = "nok" \/ (o.reply = "ok" /\ ~zone.exists)) /\ Missing
  BY DEF ReadList
<1>2. UNCHANGED <<zone, req, before, raced, wrote>> /\ pc \in {"fwd?", "soa?"}
      /\ Running /\ Reading
  BY DEF ReadList, server, Running, Reading
<1>3. Settled' => Settled /\ o.reply = "ok" /\ zone.exists
  <2>1. Settled' => Settled /\ o.reply = "ok"
    BY <1>1, <1>2, CallSettled, UndisturbedReply
  <2>2. Settled => zone.exists
    BY <1>2, ReadingTells, SettledHolds DEF Calm
  <2>3. QED BY <2>1, <2>2
<1>4. CASE o.reply = "raise" /\ Abort
  BY <1>3, <1>4, AbortReport
<1>5. CASE Goto(IF pc = "fwd?" THEN "fwd" ELSE "soa") /\ UNCHANGED locals
  <2>1. pc' = (IF pc = "fwd?" THEN "fwd" ELSE "soa") /\ UNCHANGED <<report, unheard>>
    BY <1>5 DEF Goto
  <2>2. UNCHANGED <<zone, req, before, wrote, new, zopts, action, listed>>
    BY <1>2, <1>5 DEF locals
  <2>3. Calm'
    BY <1>2, <1>3, <2>2, ReadingTells DEF Calm
  <2>4. QED
    BY <1>2, <2>1, <2>2, <2>3, ReadingTells DEF Report, Reports, Tells, Rests, Promise,
       Running, Writes, Early, Reading, HasSoa
<1>6. CASE (o.reply = "nok" \/ (o.reply = "ok" /\ ~zone.exists)) /\ Missing
  BY <1>2, <1>3, <1>6, MissingReport
<1>7. QED BY <1>1, <1>4, <1>5, <1>6

LEMMA ReportReadRecord ==
  TypeInv /\ TypeInv' /\ Report /\ ReadRecord => Report' /\ Reports
<1> SUFFICES ASSUME TypeInv, TypeInv', Report, ReadRecord PROVE Report' /\ Reports
  OBVIOUS
<1>1. PICK o \in Outcome :
       /\ Call(o, zone.exists)
       /\ \/ o.reply # "ok" /\ Abort /\ UNCHANGED locals
          \/ /\ o.reply = "ok" /\ pc = "fwd"
             /\ zone.kind # "Forwarder" \/ zone.fwds # "one"
             /\ Missing
          \/ /\ o.reply = "ok" /\ pc = "fwd"
             /\ zone.kind = "Forwarder" /\ zone.fwds = "one"
             /\ fwd' = zone.fwd
             /\ listed' = (listed \/ Overlay(zone.fwd, req.fwd) # zone.fwd)
             /\ UNCHANGED <<new, zopts, soa, action>>
             /\ Conclude
          \/ /\ o.reply = "ok" /\ pc = "soa"
             /\ soa' = zone.soa
             /\ listed' = (listed \/ SoaOverlay(req, zone.soa) # zone.soa)
             /\ UNCHANGED <<new, zopts, fwd, action>>
             /\ IF new THEN Goto("set") ELSE Conclude
  BY DEF ReadRecord
<1>2. UNCHANGED <<zone, req, before, raced, wrote>> /\ pc \in {"fwd", "soa"}
      /\ Running /\ Reading /\ zone.exists \in BOOLEAN /\ zone.soa \in Soas
  BY ZoneShape DEF ReadRecord, server, Running, Reading, TypeInv, TypeOK
<1>3. /\ req.fn = "managed" /\ Calm /\ (~new => ~wrote)
      /\ new \/ action # "none" => listed
      /\ new => ~req.test
      /\ pc = "fwd" => ~new /\ req.kind = "Forwarder"
      /\ pc = "soa" => HasSoa(req)
  BY <1>2, ReadingTells
<1>4. Settled' => Settled /\ o.reply = "ok"
  <2>1. Settled' => Settled /\ o = Undisturbed(zone.exists)
    BY <1>1, <1>2, CallSettled
  <2>2. Settled => zone.exists = TRUE
    BY <1>2, <1>3, SettledHolds DEF Calm
  <2>3. QED BY <2>1, <2>2, UndisturbedReply
<1>5. Settled => /\ zone = before /\ zone.kind = req.kind
                 /\ HasSoa(req) => SoaOverlay(req, zone.soa) = zone.soa
                 /\ req.kind = "Forwarder" => /\ Overlay(zone.fwd, req.fwd) = zone.fwd
                                              /\ zone.fwds = "one"
  BY <1>3, SettledHolds DEF Calm
<1>6. CASE o.reply # "ok" /\ Abort
  BY <1>4, <1>6, AbortReport
<1>7. CASE /\ pc = "fwd" /\ Missing
           /\ zone.kind # "Forwarder" \/ zone.fwds # "one"
  BY <1>2, <1>3, <1>4, <1>5, <1>7, MissingReport
<1>8. CASE /\ pc = "fwd"
           /\ fwd' = zone.fwd
           /\ listed' = (listed \/ Overlay(zone.fwd, req.fwd) # zone.fwd)
           /\ UNCHANGED <<new, zopts, soa, action>>
           /\ Conclude
  <2>1. FwdListed(req', new', fwd', listed') /\ SoaListed(req', soa', listed') /\ ~HasSoa(req')
    BY <1>2, <1>3, <1>8 DEF FwdListed, SoaListed, HasSoa
  <2>2. Calm'
    BY <1>2, <1>3, <1>4, <1>5, <1>8 DEF Calm
  <2>3. (new \/ action # "none" => listed)' /\ ~wrote'
    BY <1>2, <1>3, <1>8
  <2>4. QED BY <1>2, <1>3, <1>8, <2>1, <2>2, <2>3, ConcludeReport
<1>9. CASE /\ pc = "soa"
           /\ soa' = zone.soa
           /\ listed' = (listed \/ SoaOverlay(req, zone.soa) # zone.soa)
           /\ UNCHANGED <<new, zopts, fwd, action>>
           /\ IF new THEN Goto("set") ELSE Conclude
  <2>1. /\ FwdListed(req', new', fwd', listed') /\ SoaListed(req', soa', listed')
        /\ soa' # Unread
    BY <1>2, <1>3, <1>9, ZonesAssumption DEF FwdListed, SoaListed, HasSoa
  <2>2. Calm'
    BY <1>2, <1>3, <1>4, <1>5, <1>9 DEF Calm
  <2>3. (new \/ action # "none" => listed)'
    BY <1>2, <1>3, <1>9
  <2>4. CASE new
    <3>1. pc' = "set" /\ UNCHANGED <<report, unheard>>
      BY <1>9, <2>4 DEF Goto
    <3>2. ~Settled'
      BY <1>9, <2>2, <2>4 DEF Calm
    <3>3. QED
      BY <1>2, <1>3, <1>9, <2>1, <2>2, <2>3, <2>4, <3>1, <3>2 DEF Report, Reports, Tells, Rests,
         Promise, Running, Writes, Early, Reading
  <2>5. CASE ~new
    BY <1>2, <1>3, <1>9, <2>1, <2>2, <2>3, <2>5, ConcludeReport
  <2>6. QED BY <2>4, <2>5
<1>10. QED BY <1>1, <1>6, <1>7, <1>8, <1>9

\* A write whose reply is not ok: what was written before it and heard is in
\* the report, and the run was disturbed.
LEMMA WriteReport ==
  ASSUME TypeInv, NEW can \in BOOLEAN, NEW after, NEW c \in BOOLEAN,
         NEW go \in BOOLEAN, Write(can, after, c, go),
         wrote /\ Heard => c, Settled => can,
         (can /\ zone' = after /\ wrote' = (wrote \/ after # zone)
            /\ overran' = (overran \/ (pc \in {"fwd!", "soa!"} /\ ~listed /\ raced
                                        /\ after # zone))
            /\ (Settled' => Settled) /\ go)
           => Report' /\ Reports
  PROVE  Report' /\ Reports
<1>1. UNCHANGED <<edits, req, locals, before, raced>> /\ new' = new
  BY DEF Write, locals
<1>2. PICK o \in Outcome :
        /\ Call(o, can)
        /\ zone' = IF o.applied THEN after ELSE zone
        /\ wrote' = (wrote \/ zone' # zone)
        /\ overran' = (overran \/ (pc \in {"fwd!", "soa!"} /\ ~listed /\ raced /\ zone' # zone))
        /\ \/ o.reply = "raise" /\ Abort
           \/ o.reply = "nok" /\ Finish("false", c) /\ unheard' = (unheard \/ o.applied)
           \/ o.reply = "ok" /\ go
  BY DEF Write
<1>3. (o.applied => can) /\ o.applied \in BOOLEAN /\ (o.reply = "ok" => o.applied)
  BY <1>2, CallBudget, OutcomeShape DEF TypeInv
<1>4. Settled' => Settled /\ o.reply = "ok"
  <2>1. Settled' => Settled /\ o = Undisturbed(can)
    BY <1>1, <1>2, CallSettled
  <2>2. Settled => can = TRUE
    OBVIOUS
  <2>3. QED BY <2>1, <2>2, UndisturbedReply
<1>5. CASE o.reply = "raise" /\ Abort
  BY <1>4, <1>5, AbortReport
<1>6. CASE o.reply = "nok" /\ Finish("false", c) /\ unheard' = (unheard \/ o.applied)
  <2>1. pc' = "done" /\ result' = "false" /\ changed' = c
    BY <1>6 DEF Finish
  <2>2. Heard' /\ wrote' => Heard /\ wrote
    BY <1>1, <1>2, <1>3, <1>6 DEF Heard
  <2>3. Promise'
    BY <1>4, <1>6, <2>1, <2>2 DEF Promise
  <2>4. unheard => unheard'
    BY <1>6
  <2>5. QED BY <2>1, <2>3, <2>4, DoneReport DEF Reports
<1>7. CASE o.reply = "ok" /\ go
  BY <1>2, <1>3, <1>4, <1>7
<1>8. QED BY <1>2, <1>5, <1>6, <1>7

LEMMA ReportCreate == TypeInv /\ TypeInv' /\ Report /\ Create => Report' /\ Reports
<1> SUFFICES ASSUME TypeInv, TypeInv', Report, Create PROVE Report' /\ Reports
  OBVIOUS
<1> DEFINE go == IF req.sign = "on" /\ req.kind \in {"Primary", "Forwarder"}
                   THEN Goto("createsign") ELSE AfterCreate
<1>1. UNCHANGED <<req, before, raced, new, action, listed>> /\ pc = "create" /\ Running
      /\ req.fn \in {"managed", "absent"}
  BY RequestShape DEF Create, Write, locals, Running, TypeInv, TypeOK
<1>2. /\ wrote = FALSE /\ new /\ listed /\ ~req.test /\ ~Settled /\ req.fn = "managed"
  BY <1>1 DEF Report, Tells, Rests, Writes, Early, TypeInv, TypeOK
<1>3. (~zone.exists) \in BOOLEAN
  BY ZoneShape DEF TypeInv, TypeOK
<1>4. go \in BOOLEAN
  BY DEF AfterCreate, Goto
<1>5. Write(~zone.exists, Created(req), FALSE, go)
  BY DEF Create
<1>6. (Settled' => Settled) /\ go => Report' /\ Reports
  <2> SUFFICES ASSUME Settled' => Settled, go PROVE Report' /\ Reports
    OBVIOUS
  <2>1. /\ pc' \in {"createsign", "soa?", "set"} /\ UNCHANGED <<report, unheard>>
        /\ pc' = "createsign" => req'.sign = "on"
        /\ pc' = "soa?" => HasSoa(req')
    BY <1>1 DEF AfterCreate, Goto, HasSoa
  <2>2. SoaListed(req', soa', listed')
    BY <1>1, <1>2 DEF SoaListed
  <2> HIDE DEF go
  <2>3. QED
    BY <1>1, <1>2, <2>1, <2>2 DEF Report, Reports, Tells, Rests, Calm, Promise, Running,
       Writes, Early, Reading
<1> HIDE DEF go
<1>7. ~(wrote /\ Heard) /\ ~Settled /\ FALSE \in BOOLEAN
  BY <1>2
<1>8. QED BY <1>3, <1>4, <1>5, <1>6, <1>7, WriteReport

LEMMA ReportCreateSign ==
  TypeInv /\ TypeInv' /\ Report /\ CreateSign => Report' /\ Reports
<1> SUFFICES ASSUME TypeInv, TypeInv', Report, CreateSign PROVE Report' /\ Reports
  OBVIOUS
<1> DEFINE after == [zone EXCEPT !.signed = TRUE]
<1>1. UNCHANGED <<req, before, raced, new, action, listed>> /\ pc = "createsign" /\ Running
      /\ req.fn \in {"managed", "absent"}
  BY RequestShape DEF CreateSign, Write, locals, Running, TypeInv, TypeOK
<1>2. new /\ listed /\ ~req.test /\ ~Settled /\ ~Heard /\ req.fn = "managed"
  BY <1>1 DEF Report, Tells, Rests, Writes, Heard
<1>3. CanSign(TRUE) \in BOOLEAN /\ AfterCreate \in BOOLEAN
  BY ZoneShape DEF CanSign, AfterCreate, Goto, TypeInv, TypeOK
<1>4. Write(CanSign(TRUE), after, FALSE, AfterCreate)
  BY DEF CreateSign
<1>5. (Settled' => Settled) /\ AfterCreate => Report' /\ Reports
  <2> SUFFICES ASSUME Settled' => Settled, AfterCreate PROVE Report' /\ Reports
    OBVIOUS
  <2>1. /\ pc' \in {"soa?", "set"} /\ UNCHANGED <<report, unheard>>
        /\ pc' = "soa?" => HasSoa(req')
    BY <1>1 DEF AfterCreate, Goto, HasSoa
  <2>2. SoaListed(req', soa', listed')
    BY <1>1, <1>2 DEF SoaListed
  <2>3. QED
    BY <1>1, <1>2, <2>1, <2>2 DEF Report, Reports, Tells, Rests, Calm, Promise, Running,
       Writes, Early, Reading
<1> HIDE DEF after
<1>6. ~(wrote /\ Heard) /\ ~Settled /\ FALSE \in BOOLEAN
  BY <1>2
<1>7. QED BY <1>3, <1>4, <1>5, <1>6, WriteReport

LEMMA ReportSetOptions ==
  TypeInv /\ TypeInv' /\ Report /\ SetOptions => Report' /\ Reports
<1> SUFFICES ASSUME TypeInv, TypeInv', Report, SetOptions PROVE Report' /\ Reports
  OBVIOUS
<1> DEFINE after == [zone EXCEPT !.opts = IF new THEN Overlay(@, req.opts) ELSE zopts]
<1>1. UNCHANGED <<req, before, raced, new, action, listed>> /\ pc = "set" /\ Running
      /\ req.fn \in {"managed", "absent"} /\ new \in BOOLEAN
  BY RequestShape DEF SetOptions, Write, locals, Running, TypeInv, TypeOK
<1>2. (~new => ~wrote) /\ listed /\ ~req.test /\ ~Settled /\ req.fn = "managed"
  BY <1>1 DEF Report, Tells, Rests, Writes
<1>3. zone.exists \in BOOLEAN /\ AfterOptions \in BOOLEAN
  BY ZoneShape DEF AfterOptions, AfterFwd, AfterSoa, Goto, Return, Finish, Abort, TypeInv, TypeOK
<1>4. Write(zone.exists, after, new, AfterOptions)
  BY DEF SetOptions
<1>5. (Settled' => Settled) /\ AfterOptions => Report' /\ Reports
  <2> SUFFICES ASSUME Settled' => Settled, AfterOptions PROVE Report' /\ Reports
    OBVIOUS
  <2>1. FwdListed(req', new', fwd', listed') /\ SoaListed(req', soa', listed') /\ listed'
    BY <1>1, <1>2 DEF FwdListed, SoaListed
  <2>2. Calm' /\ ~Settled'
    BY <1>2 DEF Calm
  <2>3. QED BY <1>1, <1>2, <2>1, <2>2, AfterOptionsReport
<1> HIDE DEF after
<1>6. (wrote /\ Heard => new) /\ ~Settled
  BY <1>2
<1>7. QED BY <1>1, <1>3, <1>4, <1>5, <1>6, WriteReport

LEMMA ReportWriteList ==
  TypeInv /\ TypeInv' /\ Report /\ WriteList => Report' /\ Reports
<1> SUFFICES ASSUME TypeInv, TypeInv', Report, WriteList PROVE Report' /\ Reports
  OBVIOUS
<1>1. PICK o \in Outcome :
       /\ Call(o, TRUE)
       /\ \/ o.reply = "raise" /\ Abort
          \/ /\ o.reply = "ok" /\ zone.exists
             /\ Goto(IF pc = "fwd!?" THEN "fwd!" ELSE "soa!")
          \/ (o.reply = "nok" \/ (o.reply = "ok" /\ ~zone.exists)) /\ Return("false", listed)
  BY DEF WriteList
<1>2. UNCHANGED <<zone, req, before, raced, wrote, new, action, soa, fwd, listed>>
      /\ pc \in {"fwd!?", "soa!?"} /\ Running /\ req.fn \in {"managed", "absent"}
  BY RequestShape DEF WriteList, server, locals, Running, TypeInv, TypeOK
<1>3. Calm /\ (wrote => listed) /\ req.fn = "managed"
  BY <1>2 DEF Report, Tells, Rests
<1>4. Settled' => Settled /\ o.reply = "ok" /\ zone.exists
  <2>1. Settled' => Settled /\ o.reply = "ok"
    BY <1>1, <1>2, CallSettled, UndisturbedReply
  <2>2. Settled => zone.exists
    BY <1>3, SettledHolds DEF Calm
  <2>3. QED BY <2>1, <2>2
<1>5. CASE o.reply = "raise" /\ Abort
  BY <1>4, <1>5, AbortReport
<1>6. CASE (o.reply = "nok" \/ (o.reply = "ok" /\ ~zone.exists)) /\ Return("false", listed)
  <2>1. pc' = "done" /\ result' = "false" /\ changed' = listed /\ UNCHANGED unheard
    BY <1>6 DEF Return, Finish
  <2>2. Promise'
    BY <1>2, <1>3, <1>4, <1>6, <2>1 DEF Promise
  <2>3. QED BY <2>1, <2>2, DoneReport DEF Reports
<1>7. CASE Goto(IF pc = "fwd!?" THEN "fwd!" ELSE "soa!")
  <2>1. pc' = (IF pc = "fwd!?" THEN "fwd!" ELSE "soa!") /\ UNCHANGED <<report, unheard>>
    BY <1>7 DEF Goto
  <2>2. Calm'
    BY <1>2, <1>3, <1>4 DEF Calm
  <2>3. QED
    BY <1>2, <1>3, <2>1, <2>2 DEF Report, Reports, Tells, Rests, Promise, Running,
       Writes, Early, Reading
<1>8. QED BY <1>1, <1>5, <1>6, <1>7

LEMMA ReportWriteFwd ==
  TypeInv /\ TypeInv' /\ Inv /\ Report /\ WriteFwd => Report' /\ Reports
<1> SUFFICES ASSUME TypeInv, TypeInv', Inv, Report, WriteFwd PROVE Report' /\ Reports
  OBVIOUS
<1> DEFINE can   == /\ zone.exists /\ zone.kind = "Forwarder" /\ zone.fwds # "none"
                    /\ \A f \in Renamed : zone.fwd[f] = fwd[f]
           laid  == FwdOverlay(req, fwd)
           after == [zone EXCEPT !.fwd = laid]
<1>1. UNCHANGED <<req, before, raced, new, action, listed, soa>> /\ pc = "fwd!" /\ Running
      /\ zone \in Zones /\ req \in Requests /\ fwd \in [FwdFields -> Values]
      /\ req.fn \in {"managed", "absent"} /\ listed \in BOOLEAN
  BY RequestShape DEF WriteFwd, Write, locals, Running, TypeInv, TypeOK
<1>2. /\ Calm /\ (wrote => listed) /\ (action # "none" => listed)
      /\ ~new /\ ~req.test /\ req.fn = "managed"
      /\ req.kind = "Forwarder" /\ FwdListed(req, new, fwd, listed)
      /\ SoaListed(req, soa, listed)
  BY <1>1 DEF Report, Tells, Rests, Writes
<1>3. ~raced => fwd = zone.fwd
  BY <1>1, <1>2 DEF Inv, Ours, Places, AtFwd
<1>4. ~raced /\ ~listed => after = zone
  <2>1. ~listed => Overlay(fwd, req.fwd) = fwd
    BY <1>2 DEF FwdListed
  <2>2. ~listed => laid = fwd
    BY <1>1, <2>1 DEF FwdOverlay
  <2> HIDE DEF laid
  <2>3. QED BY <1>1, <1>3, <2>2 DEF Zones
<1>5. Settled => can /\ ~listed /\ ~raced
  <2>1. Settled => /\ zone = before /\ ~raced /\ ~listed /\ before.exists
                   /\ before.kind = "Forwarder" /\ before.fwds = "one"
    BY <1>2, SettledHolds DEF Calm, Settled
  <2>2. QED BY <1>3, <2>1
<1>6. can \in BOOLEAN /\ AfterFwd \in BOOLEAN
  BY <1>1, ZoneShape DEF AfterFwd, AfterSoa, Goto, Return, Finish, Abort
<1>7. Write(can, after, listed, AfterFwd)
  BY DEF WriteFwd
<1> HIDE DEF can, laid, after
<1>8. ASSUME zone' = after, wrote' = (wrote \/ after # zone),
             overran' = (overran \/ (pc \in {"fwd!", "soa!"} /\ ~listed /\ raced
                                      /\ after # zone)),
             Settled' => Settled, AfterFwd
      PROVE  Report' /\ Reports
  <2>0. CASE raced /\ ~listed
    <3>1. AfterSoa /\ action' = "none"
      BY <1>1, <1>2, <1>8, <2>0 DEF AfterFwd, HasSoa
    <3>2. pc' = "done" /\ result' = "true" /\ UNCHANGED unheard
      BY <3>1 DEF AfterSoa, Return, Finish
    <3>3. wrote' => overran'
      BY <1>1, <1>2, <1>8, <2>0
    <3>4. ~Settled'
      BY <1>5, <1>8, <2>0
    <3>5. Promise'
      BY <3>2, <3>3, <3>4 DEF Promise
    <3>6. QED BY <3>2, <3>5, DoneReport DEF Reports
  <2>1. CASE ~(raced /\ ~listed)
    <3>1. (wrote' => listed') /\ (new' \/ action' # "none" => listed')
      BY <1>1, <1>2, <1>4, <1>8, <2>1
    <3>2. Calm'
      BY <1>1, <1>2, <1>4, <1>5, <1>8 DEF Calm
    <3>3. SoaListed(req', soa', listed') /\ ~HasSoa(req')
      BY <1>1, <1>2 DEF HasSoa
    <3>4. QED BY <1>1, <1>2, <1>8, <3>1, <3>2, <3>3, AfterFwdReport
  <2>2. QED BY <2>0, <2>1
<1>9. QED BY <1>1, <1>2, <1>5, <1>6, <1>7, <1>8, WriteReport

LEMMA ReportWriteSoa ==
  TypeInv /\ TypeInv' /\ Inv /\ Report /\ WriteSoa => Report' /\ Reports
<1> SUFFICES ASSUME TypeInv, TypeInv', Inv, Report, WriteSoa PROVE Report' /\ Reports
  OBVIOUS
<1> DEFINE can   == zone.exists /\ zone.kind = "Primary"
           laid  == SoaOverlay(req, soa)
           after == [zone EXCEPT !.soa = laid]
<1>1. UNCHANGED <<req, before, raced, new, action, listed, soa>> /\ pc = "soa!" /\ Running
      /\ zone \in Zones /\ req \in Requests
      /\ req.fn \in {"managed", "absent"} /\ listed \in BOOLEAN
  BY RequestShape DEF WriteSoa, Write, locals, Running, TypeInv, TypeOK
<1>2. /\ Calm /\ (wrote => listed) /\ (action # "none" => listed) /\ (new => listed)
      /\ ~req.test /\ req.fn = "managed" /\ HasSoa(req) /\ soa # Unread
      /\ SoaListed(req, soa, listed) /\ SoaAsked(req)
  BY <1>1 DEF Report, Tells, Rests, Writes
<1>3. ~raced => soa = zone.soa
  BY <1>1, <1>2 DEF Inv, Ours, Places, AtSoa
<1>4. ~raced /\ ~listed => after = zone
  <2>1. ~listed => laid = soa
    BY <1>2 DEF SoaListed
  <2> HIDE DEF laid
  <2>2. QED BY <1>1, <1>3, <2>1 DEF Zones
<1>5. Settled => ~listed /\ ~raced
  BY <1>2 DEF Calm, Settled
<1>6. can \in BOOLEAN /\ AfterSoa \in BOOLEAN
  BY <1>1, ZoneShape DEF AfterSoa, Goto, Return, Finish
<1>7. Write(can, after, listed, AfterSoa)
  BY DEF WriteSoa
<1> HIDE DEF can, laid, after
<1>8. ASSUME zone' = after, wrote' = (wrote \/ after # zone),
             overran' = (overran \/ (pc \in {"fwd!", "soa!"} /\ ~listed /\ raced
                                      /\ after # zone)),
             Settled' => Settled, AfterSoa
      PROVE  Report' /\ Reports
  <2>0. CASE raced /\ ~listed
    <3>1. AfterSoa /\ action' = "none"
      BY <1>1, <1>2, <1>8, <2>0
    <3>2. pc' = "done" /\ result' = "true" /\ UNCHANGED unheard
      BY <3>1 DEF AfterSoa, Return, Finish
    <3>3. wrote' => overran'
      BY <1>1, <1>2, <1>8, <2>0
    <3>4. ~Settled'
      BY <1>5, <1>8, <2>0
    <3>5. Promise'
      BY <3>2, <3>3, <3>4 DEF Promise
    <3>6. QED BY <3>2, <3>5, DoneReport DEF Reports
  <2>1. CASE ~(raced /\ ~listed)
    <3>1. (wrote' => listed') /\ (new' \/ action' # "none" => listed')
      BY <1>1, <1>2, <1>4, <1>8, <2>1
    <3>2. Calm'
      BY <1>1, <1>2, <1>4, <1>5, <1>8 DEF Calm
    <3>3. QED BY <1>1, <1>2, <1>8, <3>1, <3>2, AfterSoaReport
  <2>2. QED BY <2>0, <2>1
<1>9. Settled => can
  <2>1. HasSoa(req) /\ SoaAsked(req) /\ (Settled => zone = before)
    BY <1>2 DEF Calm
  <2>2. Settled => req.kind # "Secondary" /\ before.exists /\ before.kind = req.kind
    BY <1>2, SettledHolds DEF Settled
  <2>3. QED BY <2>1, <2>2 DEF can, HasSoa
<1>10. QED BY <1>1, <1>2, <1>6, <1>7, <1>8, <1>9, WriteReport

LEMMA ReportSign == TypeInv /\ TypeInv' /\ Report /\ Sign => Report' /\ Reports
<1> SUFFICES ASSUME TypeInv, TypeInv', Report, Sign PROVE Report' /\ Reports
  OBVIOUS
<1> DEFINE can   == CanSign(action = "sign")
           after == [zone EXCEPT !.signed = (action = "sign")]
<1>1. UNCHANGED <<req, before, raced>> /\ pc = "sign" /\ Running /\ listed \in BOOLEAN
  BY DEF Sign, Write, locals, Running, TypeInv, TypeOK
<1>2. listed /\ ~Settled
  BY <1>1 DEF Report, Tells, Rests
<1>3. can \in BOOLEAN /\ Return("true", listed) \in BOOLEAN
  BY ZoneShape DEF CanSign, Return, Finish, TypeInv, TypeOK
<1>4. Write(can, after, listed, Return("true", listed))
  BY DEF Sign
<1> HIDE DEF can, after
<1>5. ASSUME Settled' => Settled, Return("true", listed) PROVE Report' /\ Reports
  <2>1. pc' = "done" /\ result' = "true" /\ changed' = listed /\ UNCHANGED unheard
    BY <1>5 DEF Return, Finish
  <2>2. Promise'
    BY <1>2, <1>5, <2>1 DEF Promise
  <2>3. QED BY <2>1, <2>2, DoneReport DEF Reports
<1>6. QED BY <1>1, <1>2, <1>3, <1>4, <1>5, WriteReport

LEMMA ReportDeleteList ==
  TypeInv /\ Report /\ DeleteList => Report' /\ Reports
<1> SUFFICES ASSUME TypeInv, Report, DeleteList PROVE Report' /\ Reports
  OBVIOUS
<1>1. PICK o \in Outcome :
       /\ Call(o, TRUE)
       /\ \/ o.reply = "raise" /\ Abort
          \/ o.reply = "ok" /\ zone.exists /\ Goto("delete")
          \/ (o.reply = "nok" \/ (o.reply = "ok" /\ ~zone.exists)) /\ Return("true", TRUE)
  BY DEF DeleteList
<1>2. UNCHANGED <<zone, req, before, raced, wrote, new, action, soa, fwd, listed>>
      /\ pc = "delete?" /\ Running
  BY DEF DeleteList, server, locals, Running
<1>3. /\ ~Settled' /\ ~wrote /\ ~req.test /\ req.fn = "absent"
      /\ new \/ action # "none" => listed
  <2>1. ~Settled
    BY <1>2 DEF Report, Rests
  <2>2. QED BY <1>1, <1>2, <2>1, CallSettled DEF Report, Tells, Writes, Early
<1>4. CASE Abort
  BY <1>3, <1>4, AbortReport
<1>5. CASE Goto("delete")
  <2>1. pc' = "delete" /\ UNCHANGED <<report, unheard>>
    BY <1>5 DEF Goto
  <2>2. QED
    BY <1>2, <1>3, <2>1 DEF Report, Reports, Tells, Rests, Calm, Promise, Running,
       Writes, Early, Reading
<1>6. CASE Return("true", TRUE)
  <2>1. pc' = "done" /\ result' = "true" /\ changed' = TRUE /\ UNCHANGED unheard
    BY <1>6 DEF Return, Finish
  <2>2. Promise'
    BY <1>3, <2>1 DEF Promise
  <2>3. QED BY <2>1, <2>2, DoneReport DEF Reports
<1>7. QED BY <1>1, <1>4, <1>5, <1>6

LEMMA ReportDelete == TypeInv /\ Report /\ Delete => Report' /\ Reports
<1> SUFFICES ASSUME TypeInv, Report, Delete PROVE Report' /\ Reports
  OBVIOUS
<1> DEFINE after == NoZone(zone.kind)
<1>1. pc = "delete" /\ Running /\ zone.exists \in BOOLEAN
  BY ZoneShape DEF Delete, Running, TypeInv, TypeOK
<1>2. ~Settled
  BY <1>1 DEF Report, Rests
<1>3. Write(zone.exists, after, TRUE, Return("true", TRUE))
  BY DEF Delete
<1>4. Return("true", TRUE) \in BOOLEAN
  BY DEF Return, Finish
<1> HIDE DEF after
<1>5. ASSUME Settled' => Settled, Return("true", TRUE) PROVE Report' /\ Reports
  <2>1. pc' = "done" /\ result' = "true" /\ changed' = TRUE /\ UNCHANGED unheard
    BY <1>5 DEF Return, Finish
  <2>2. Promise'
    BY <1>2, <1>5, <2>1 DEF Promise
  <2>3. QED BY <2>1, <2>2, DoneReport DEF Reports
<1>6. QED BY <1>1, <1>2, <1>3, <1>4, <1>5, WriteReport


\* Every step keeps what the contract needs.
LEMMA ReportNext ==
  TypeInv /\ TypeInv' /\ Inv /\ Report /\ [Next]_vars => Report' /\ (Step => Reports)
<1> SUFFICES ASSUME TypeInv, TypeInv', Inv, Report, [Next]_vars
             PROVE  Report' /\ (Step => Reports)
  OBVIOUS
<1>1. CASE Step
  BY <1>1, ReportExists, ReportKind, ReportReadOptions, ReportReadList, ReportReadRecord,
     ReportCreate, ReportCreateSign, ReportSetOptions, ReportWriteList, ReportWriteFwd,
     ReportWriteSoa, ReportSign, ReportDeleteList, ReportDelete
     DEF Step
<1>2. CASE ~Step
  BY <1>2, ReportStart, ReportOutside DEF Next
<1>3. QED BY <1>1, <1>2

LEMMA ZonesReport == Spec => [](TypeInv /\ Inv /\ Report)
<1>1. Init => Report BY ReportInit
<1>2. TypeInv /\ TypeInv' /\ Inv /\ Report /\ [Next]_vars => Report' BY ReportNext
<1>3. QED BY <1>1, <1>2, ZonesInv, PTL DEF Spec

\* What every step of a run leaves alone, and which steps may write.
Keeps == /\ UNCHANGED <<req, before, raced>> /\ Running
         /\ (faulted => faulted') /\ (wrote => wrote')
         /\ pc \notin Writes => wrote' = wrote
         /\ pc = "exists" \/ new' = new

\* A read disturbs neither the run's arguments nor what was written.
LEMMA ReadKeeps ==
  ASSUME NEW o, NEW can, Call(o, can), Running, pc = "exists" \/ new' = new,
         UNCHANGED <<req, before, wrote, overran, raced>>
  PROVE  Keeps
BY DEF Call, Keeps

\* Every step of a run has these marks.
LEMMA StepKeeps == Step => Keeps
<1>1. Exists => Keeps
  BY ReadKeeps DEF Exists, Running
<1>2. Kind => Keeps
  BY ReadKeeps DEF Kind, Running, locals
<1>3. ReadOptions => Keeps
  BY ReadKeeps DEF ReadOptions, Running, locals
<1>4. ReadList => Keeps
  BY ReadKeeps DEF ReadList, Missing, Running, locals
<1>5. ReadRecord => Keeps
  BY ReadKeeps DEF ReadRecord, Missing, Running, locals
<1>6. WriteList => Keeps
  BY ReadKeeps DEF WriteList, Running, locals
<1>7. DeleteList => Keeps
  BY ReadKeeps DEF DeleteList, Running, locals
<1>8. Create => Keeps
  BY DEF Create, Write, Call, Keeps, locals, Running, Writes
<1>9. CreateSign => Keeps
  BY DEF CreateSign, Write, Call, Keeps, locals, Running, Writes
<1>10. SetOptions => Keeps
  BY DEF SetOptions, Write, Call, Keeps, locals, Running, Writes
<1>11. WriteFwd => Keeps
  BY DEF WriteFwd, Write, Call, Keeps, locals, Running, Writes
<1>12. WriteSoa => Keeps
  BY DEF WriteSoa, Write, Call, Keeps, locals, Running, Writes
<1>13. Sign => Keeps
  BY DEF Sign, Write, Call, Keeps, locals, Running, Writes
<1>14. Delete => Keeps
  BY DEF Delete, Write, Call, Keeps, locals, Running, Writes
<1>15. QED
  BY <1>1, <1>2, <1>3, <1>4, <1>5, <1>6, <1>7, <1>8, <1>9, <1>10, <1>11, <1>12,
     <1>13, <1>14 DEF Step

\* Only a raced run writes over a change it does not list, and that is its last
\* write: nothing else is left to do.
Overrun == overran => raced
LEMMA OverrunNext == Overrun /\ [Next]_vars => Overrun'
<1> SUFFICES ASSUME Overrun, [Next]_vars PROVE Overrun'
  OBVIOUS
<1>1. CASE Step
  BY <1>1 DEF Step, Overrun, Exists, Kind, ReadOptions, ReadList, ReadRecord, Create,
     CreateSign, SetOptions, WriteList, WriteFwd, WriteSoa, Sign, DeleteList, Delete, Write
<1>2. CASE Start
  BY <1>2 DEF Start, Overrun
<1>3. CASE Console
  <2>1. raced' = TRUE
    BY <1>3, Zenon DEF Console
  <2>2. QED BY <2>1 DEF Overrun
<1>4. CASE Killed \/ Rewrite \/ UNCHANGED vars
  BY <1>4 DEF Killed, Rewrite, vars, ghosts, Overrun
<1>5. QED BY <1>1, <1>2, <1>3, <1>4 DEF Next

LEMMA OverrunLast ==
  ASSUME TypeInv, Report, Step, pc' # "done"
  PROVE  overran' = overran
<1>1. CASE pc \notin {"fwd!", "soa!"}
  BY <1>1 DEF Step, Exists, Kind, ReadOptions, ReadList, ReadRecord, Create, CreateSign,
     SetOptions, WriteList, WriteFwd, WriteSoa, Sign, DeleteList, Delete, Write, TypeInv, TypeOK
<1>2. CASE pc = "fwd!" /\ WriteFwd
  <2>1. req.kind = "Forwarder" /\ (~listed => action = "none")
    BY <1>2 DEF Report, Tells, Running
  <2>2. UNCHANGED <<req, listed, action>>
    BY <1>2 DEF WriteFwd, Write, locals
  <2>3. AfterFwd /\ ~listed => pc' = "done"
    BY <2>1, <2>2 DEF AfterFwd, HasSoa, AfterSoa, Return, Finish
  <2>4. listed
    BY <1>2, <2>3 DEF WriteFwd, Write, Abort, Finish, Outcome, Reply
  <2>5. QED BY <1>2, <2>4 DEF WriteFwd, Write, TypeInv, TypeOK
<1>3. CASE pc = "soa!" /\ WriteSoa
  <2>1. ~listed => action = "none"
    BY <1>3 DEF Report, Tells, Running
  <2>2. UNCHANGED <<req, listed, action>>
    BY <1>3 DEF WriteSoa, Write, locals
  <2>3. AfterSoa /\ ~listed => pc' = "done"
    BY <2>1, <2>2 DEF AfterSoa, Return, Finish
  <2>4. listed
    BY <1>3, <2>3 DEF WriteSoa, Write, Abort, Finish, Outcome, Reply
  <2>5. QED BY <1>3, <2>4 DEF WriteSoa, Write, TypeInv, TypeOK
<1>4. QED
  BY <1>1, <1>2, <1>3 DEF Step, Exists, Kind, ReadOptions, ReadList, ReadRecord, Create,
     CreateSign, SetOptions, WriteList, WriteFwd, WriteSoa, Sign, DeleteList, Delete

\* A step of a run is a step of the contract: the run returns, changes the
\* zone on its way, or does what the contract does not see.
LEMMA StepImplements ==
  ASSUME TypeInv, TypeInv', Report, Report', Reports, Overrun', Step
  PROVE  Contract!Next
<1> USE DEF Contract!Next
<1>1. Keeps
  BY StepKeeps
<1>2. /\ req' = req /\ Running /\ wrote \in BOOLEAN /\ wrote' \in BOOLEAN
      /\ new \in BOOLEAN /\ new' \in BOOLEAN /\ result' \in {"true", "false", "none"}
      /\ changed' \in BOOLEAN /\ unheard \in BOOLEAN /\ unheard' \in BOOLEAN
  BY <1>1 DEF Keeps, TypeInv, TypeOK
<1>3. Settled' => Settled
  BY <1>1 DEF Keeps, Settled
<1>4. Heard' => Heard
  <2>1. new => new'
    BY <1>1 DEF Keeps, Report, Tells
  <2>2. QED BY <1>2, <2>1 DEF Heard, Reports
<1>5. Contract!Fade
  BY <1>3, <1>4 DEF Contract!Fade, Heard
<1>6. wrote' \in {wrote, TRUE} /\ (req.test => wrote' = wrote)
  BY <1>1, <1>2 DEF Keeps, Report, Tells
<1>7. CASE pc' = "done"
  <2>1. /\ wrote' /\ (Heard' \/ result' = "true") => changed' \/ overran'
        /\ result' = "none" => req.test
        /\ Settled' => ~wrote' /\ ~changed' /\ (req.test \/ result' = "true")
    BY <1>2, <1>7 DEF Report, Promise
  <2>2. (Settled' => ~overran') /\ overran' \in BOOLEAN
    BY DEF Overrun, Settled, TypeInv, TypeOK
  <2>3. Contract!Return
    BY <1>2, <1>5, <1>6, <1>7, <2>1, <2>2 DEF Contract!Return, Heard, Running
  <2>4. QED BY <2>3
<1>8. CASE pc' # "done"
  <2>1. Running' /\ UNCHANGED report /\ overran' = overran
    BY <1>8, OverrunLast DEF Reports, Running
  <2>2. CASE wrote' = wrote
    BY <1>2, <1>5, <2>1, <2>2 DEF Contract!Disturb, report
  <2>3. CASE wrote' # wrote
    <3>1. ~Settled' /\ ~req.test /\ wrote' = TRUE
      BY <1>2, <1>6, <2>1, <2>3 DEF Report, Rests, Calm
    <3>2. QED BY <1>2, <1>5, <2>1, <3>1 DEF Contract!Touch, report
  <2>4. QED BY <2>2, <2>3
<1>9. QED BY <1>7, <1>8

\* Both functions keep the promise of a Salt state function, for all faults
\* and console changes.
THEOREM ZonesImplement == Spec => KeepsContract
<1>1. Init => Contract!Init
  <2> SUFFICES ASSUME Init PROVE Contract!Init
    OBVIOUS
  <2>1. req.test \in BOOLEAN /\ Settled \in BOOLEAN
    BY RequestShape DEF Init, Settled
  <2>2. QED BY <2>1 DEF Init, Contract!Init, Running
<1>2. TypeInv /\ TypeInv' /\ Inv /\ Report /\ Report' /\ Overrun' /\ [Next]_vars
        => [Contract!Next]_(Contract!vars)
  <2> SUFFICES ASSUME TypeInv, TypeInv', Inv, Report, Report', Overrun', [Next]_vars
               PROVE  [Contract!Next]_(Contract!vars)
    OBVIOUS
  <2> USE DEF Contract!Next
  <2>1. CASE Start
    <3>1. Settled' \in BOOLEAN
      BY DEF Settled
    <3>2. Contract!Begin
      BY <2>1, <3>1 DEF Start, Contract!Begin, Running
    <3>3. QED BY <3>2
  <2>2. CASE Killed
    <3>1. UNCHANGED <<req, before, raced, faulted, unheard, new, wrote, overran, result, changed>>
          /\ Running /\ pc' = "idle"
      BY <2>2 DEF Killed, locals, report, ghosts
    <3>2. Settled' => Settled
      BY <3>1 DEF Settled
    <3>3. Contract!Killed
      BY <3>1, <3>2 DEF Contract!Killed, Contract!Fade, Running
    <3>4. QED BY <3>3
  <2>3. CASE Console
    <3>1. UNCHANGED <<req, pc, new, result, changed, before, wrote, overran, faulted, unheard>>
          /\ raced'
      BY <2>3, Zenon DEF Console, locals, report
    <3>2. ~Settled'
      BY <3>1 DEF Settled
    <3>3. Contract!Disturb
      BY <3>1, <3>2 DEF Contract!Disturb, Contract!Fade, Running
    <3>4. QED BY <3>3
  <2>4. CASE Rewrite
    <3>1. UNCHANGED <<wrote, overran, result, changed>> /\ ~Running /\ pc' = "idle"
          /\ req' \in Requests
      BY <2>4 DEF Rewrite, report, ghosts
    <3>2. req'.test \in BOOLEAN /\ Settled' \in BOOLEAN
      BY <3>1, RequestShape DEF Settled
    <3>3. Contract!Rewrite
      BY <3>1, <3>2 DEF Contract!Rewrite, Running
    <3>4. QED BY <3>3
  <2>5. CASE Step
    BY <2>5, ReportNext, StepImplements
  <2>6. CASE UNCHANGED vars
    <3>1. UNCHANGED <<req, pc, new, result, changed, before, wrote, overran, raced, faulted,
                     unheard>>
      BY <2>6 DEF vars
    <3>2. Settled' <=> Settled
      BY <3>1 DEF Settled
    <3>3. Contract!Disturb
      BY <3>1, <3>2 DEF Contract!Disturb, Contract!Fade, Running
    <3>4. QED BY <3>3
  <2>7. QED BY <2>1, <2>2, <2>3, <2>4, <2>5, <2>6 DEF Next
<1>3. Init => Overrun
  BY DEF Init, Overrun
<1>4. QED
  BY <1>1, <1>2, <1>3, OverrunNext, ZonesReport, PTL DEF Spec, KeepsContract, Contract!Spec
=============================================================================
