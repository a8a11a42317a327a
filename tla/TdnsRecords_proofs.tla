------------------------- MODULE TdnsRecords_proofs -------------------------
(***************************************************************************)
(* Proofs about TdnsRecords, for all records, servers, fields, values,     *)
(* requests and bounds.                                                    *)
(***************************************************************************)
EXTENDS TdnsRecords, TLAPS

-----------------------------------------------------------------------------
(* Lemmas about the operators. *)

\* An outcome is a pair, and only an applied call is answered ok.
LEMMA OutcomeShape ==
  ASSUME NEW o \in Outcome
  PROVE  o.applied \in BOOLEAN /\ o.reply \in {"ok", "nok", "raise"}
         /\ (o.reply = "ok" => o.applied)
BY DEF Outcome, Reply

\* A call spends at most the faults that are left, and never acts on a
\* request that the server cannot serve.
LEMMA CallBudget ==
  ASSUME TypeOK, NEW o, NEW can \in BOOLEAN, Call(o, can)
  PROVE  /\ faults' \in 0..MaxFaults
         /\ faulted' \in BOOLEAN
         /\ o \in Outcome
         /\ o.applied => can
BY RecordsAssumption DEF TypeOK, Call, Possible, FaultsOf

\* The parts of a request.
LEMMA RequestShape ==
  ASSUME NEW r \in Requests
  PROVE  /\ r.fn \in {"present", "absent"} /\ r.kind \in {"plain", "ns", "soa"}
         /\ r.rec \in Records /\ r.server \in Servers
         /\ r.glue \in Glues \cup {Unmanaged}
         /\ r.want \in [SoaFields -> Values \cup {Unmanaged}]
         /\ r.pin \in Serials \cup {Unmanaged}
         /\ r.test \in BOOLEAN /\ r.formed \in BOOLEAN
BY RecordsAssumption DEF Request

\* The parts of a zone.
LEMMA ZoneShape ==
  ASSUME NEW z \in Zones
  PROVE  /\ z.exists \in BOOLEAN /\ z.plain \in SUBSET Records
         /\ z.ns \in [Servers -> Glues \cup {NoGlue, NoRecord}]
         /\ z.soa \in [SoaFields -> Values] /\ z.serial \in Serials
BY DEF Zones

\* The serial moves forward by one, and wraps around at the end.
LEMMA BumpSerial ==
  ASSUME NEW s \in Serials
  PROVE  Bump(s) \in Serials /\ (s + 1 \in Serials => Bump(s) = s + 1)
<1>1. (s + 1) % (MaxSerial + 1) \in 0..MaxSerial
  BY RecordsAssumption DEF Serials
<1>2. ASSUME s + 1 \in Serials PROVE (s + 1) % (MaxSerial + 1) = s + 1
  <2> DEFINE a == s + 1
             b == MaxSerial + 1
  <2>1. a \in Nat /\ b \in Nat /\ a < b
    BY <1>2, RecordsAssumption DEF Serials
  <2> HIDE DEF a, b
  <2>2. a % b = a
    BY <2>1
  <2>3. QED BY <2>2 DEF a, b
<1>3. QED BY <1>1, <1>2 DEF Serials, Bump

\* A zone without records is a zone.
LEMMA EmptyZoneType == EmptyZone \in Zones /\ NoZone \in Zones
<1>1. 0 \in Serials
  BY RecordsAssumption DEF Serials
<1>2. EmptyZone \in Zones
  BY <1>1, RecordsAssumption DEF EmptyZone, Zones
<1>3. QED BY <1>2 DEF NoZone, Zones

\* Laying a request over SOA fields gives SOA fields, ...
LEMMA SoaOverlayType ==
  ASSUME NEW r \in Requests, NEW old \in [SoaFields -> Values]
  PROVE  SoaOverlay(r, old) \in [SoaFields -> Values]
BY RequestShape DEF SoaOverlay

\* ... and the serial to be written may be one too large.
LEMMA NextSerialType ==
  ASSUME NEW r \in Requests, NEW old \in Serials, NEW differs \in BOOLEAN
  PROVE  NextSerial(r, old, differs) \in 0..(MaxSerial + 1)
BY RequestShape, RecordsAssumption DEF NextSerial, Serials

\* What is written is a zone, when the server can write it.
LEMMA WrittenType ==
  ASSUME TypeOK, CanWrite
  PROVE  Written \in Zones
<1>1. zone \in Zones /\ req \in Requests /\ soa \in [SoaFields -> Values]
  BY DEF TypeOK
<1>2. CASE req.kind = "soa"
  <2>1. serial \in Serials
    BY <1>2 DEF CanWrite
  <2>2. QED BY <1>1, <1>2, <2>1 DEF Written, Zones
<1>3. CASE req.kind # "soa"
  <2> DEFINE plain == IF req.kind = "plain" THEN zone.plain \cup {req.rec} ELSE zone.plain
             ns    == IF req.kind = "ns" THEN [zone.ns EXCEPT ![req.server] = NoGlue] ELSE zone.ns
             next  == Bump(zone.serial)
  <2>1. plain \in SUBSET Records /\ ns \in [Servers -> Glues \cup {NoGlue, NoRecord}]
    BY <1>1, RequestShape, ZoneShape
  <2>2. next \in Serials
    BY <1>1, ZoneShape, BumpSerial
  <2>3. Written = [zone EXCEPT !.plain = plain, !.ns = ns, !.serial = next]
    BY <1>3 DEF Written
  <2> HIDE DEF plain, ns, next
  <2>4. QED BY <1>1, <2>1, <2>2, <2>3 DEF Zones
<1>4. QED BY <1>2, <1>3

\* Whether the server can write is a question with an answer.
LEMMA CanWriteBoolean == ASSUME TypeOK PROVE CanWrite \in BOOLEAN
BY ZoneShape DEF TypeOK, CanWrite

-----------------------------------------------------------------------------
(* Types. *)

Labels == {"idle", "check", "zone", "get", "zone2", "write", "zone3", "get3", "done"}
Plans  == {"none", "add", "update", "badglue"}

\* What the tail of a step leaves: a label, a plan and a report.
Onward == /\ pc \in Labels /\ plan \in Plans
          /\ soa \in [SoaFields -> Values] /\ serial \in 0..(MaxSerial + 1)
          /\ result \in {"true", "false", "none"} /\ changed \in BOOLEAN

LEMMA GotoOnward ==
  ASSUME TypeOK, NEW l \in Labels, Goto(l), UNCHANGED locals
  PROVE  Onward'
BY DEF TypeOK, Onward, Goto, locals, report, Labels, Plans

LEMMA FinishOnward ==
  ASSUME TypeOK, NEW r \in {"true", "false", "none"}, NEW c \in BOOLEAN, Finish(r, c),
         UNCHANGED locals
  PROVE  Onward'
BY DEF TypeOK, Onward, Finish, locals, Labels, Plans

LEMMA ConcludeOnward ==
  ASSUME TypeOK, NEW p \in Plans, Conclude(p), plan' \in Plans,
         soa' \in [SoaFields -> Values], serial' \in 0..(MaxSerial + 1)
  PROVE  Onward'
BY RequestShape DEF TypeOK, Onward, Conclude, Finish, Goto, report, Labels

LEMMA NotFoundOnward == ASSUME TypeOK, NotFound PROVE Onward'
<1>1. UNCHANGED <<soa, serial>>
  BY DEF NotFound
<1>2. CASE req.fn = "absent" \/ req.kind = "soa"
  BY <1>1, <1>2, RequestShape DEF NotFound, Finish, TypeOK, Onward, Labels, Plans
<1>3. CASE ~(req.fn = "absent" \/ req.kind = "soa")
  <2>1. plan' = "add" /\ Conclude("add")
    BY <1>3 DEF NotFound
  <2>2. QED BY <1>1, <2>1, ConcludeOnward DEF TypeOK, Plans
<1>4. QED BY <1>2, <1>3

LEMMA FoundOnward == ASSUME TypeOK, Found PROVE Onward'
<1>1. req.fn \in {"present", "absent"} /\ req.kind \in {"plain", "ns", "soa"}
  BY RequestShape DEF TypeOK
<1>2. CASE req.fn = "absent"
  BY <1>2, GotoOnward DEF Found, Labels
<1>3. CASE req.fn = "present" /\ req.kind = "plain"
  <2>1. plan' = "none" /\ UNCHANGED <<soa, serial>>
        /\ (Finish("true", FALSE) \/ Conclude("none"))
    BY <1>3 DEF Found, FoundPlain
  <2>2. CASE Finish("true", FALSE)
    BY <2>1, <2>2 DEF Finish, TypeOK, Onward, Labels, Plans
  <2>3. CASE Conclude("none")
    BY <2>1, <2>3, ConcludeOnward DEF TypeOK, Plans
  <2>4. QED BY <2>1, <2>2, <2>3
<1>4. CASE req.fn = "present" /\ req.kind = "ns"
  <2>1. \E p \in Plans : plan' = p /\ Conclude(p) /\ UNCHANGED <<soa, serial>>
    BY <1>4 DEF Found, FoundNs, Plans
  <2>2. QED BY <2>1, ConcludeOnward DEF TypeOK
<1>5. CASE req.fn = "present" /\ req.kind = "soa"
  <2> DEFINE merged  == SoaOverlay(req, zone.soa)
             differs == SoaDiffers(req, zone, merged)
  <2>1. /\ soa' = merged /\ serial' = NextSerial(req, zone.serial, differs)
        /\ plan' = (IF differs THEN "update" ELSE "none") /\ Conclude(plan')
    BY <1>5 DEF Found, FoundSoa
  <2>2. merged \in [SoaFields -> Values]
    BY SoaOverlayType, ZoneShape DEF TypeOK
  <2>3. differs \in BOOLEAN
    BY DEF SoaDiffers
  <2> HIDE DEF merged, differs
  <2>4. serial' \in 0..(MaxSerial + 1)
    BY <2>1, <2>3, NextSerialType, ZoneShape DEF TypeOK
  <2>5. PICK p \in Plans : plan' = p
    BY <2>1 DEF Plans
  <2>6. Conclude(p)
    BY <2>1, <2>5
  <2>7. QED BY <2>1, <2>2, <2>4, <2>5, <2>6, ConcludeOnward DEF TypeOK
<1>6. QED BY <1>1, <1>2, <1>3, <1>4, <1>5

LEMMA AbortOnward == ASSUME TypeOK, Abort, UNCHANGED locals PROVE Onward' /\ unheard' = TRUE
BY FinishOnward DEF Abort

LEMMA TypeInit == Init => TypeOK
<1> SUFFICES ASSUME Init PROVE TypeOK
  OBVIOUS
<1>1. zone \in Zones /\ before \in Zones
  BY EmptyZoneType DEF Init
<1>2. faults \in 0..MaxFaults /\ edits \in 0..MaxEdits /\ serial \in 0..(MaxSerial + 1)
  BY RecordsAssumption DEF Init
<1>3. QED BY <1>1, <1>2, RecordsAssumption DEF Init, TypeOK

LEMMA TypeStep == TypeOK /\ Step => TypeOK'
<1> SUFFICES ASSUME TypeOK, Step PROVE TypeOK'
  OBVIOUS
<1> USE DEF Labels, Plans
<1>1. CASE Check
  <2>1. UNCHANGED <<zone, edits, req, locals, faults, before, wrote, raced, faulted, unheard>>
        /\ (Goto("zone") \/ Finish("true", FALSE) \/ Finish("false", FALSE))
    BY <1>1 DEF Check, server, ghosts
  <2>2. Onward'
    BY <2>1, GotoOnward, FinishOnward
  <2>3. QED BY <2>1, <2>2 DEF Onward, TypeOK
<1>2. CASE ZoneList
  <2>1. UNCHANGED <<zone, edits, req, before, wrote, raced>>
        /\ pc \in {"zone", "zone2", "zone3"}
    BY <1>2 DEF ZoneList, server
  <2>2. PICK o \in Outcome :
       /\ Call(o, TRUE)
       /\ \/ o.reply = "raise" /\ Abort /\ UNCHANGED locals
          \/ /\ o.reply = "ok" /\ zone.exists
             /\ Goto(CASE pc = "zone"  -> "get"
                       [] pc = "zone2" -> "write"
                       [] pc = "zone3" -> "get3")
             /\ UNCHANGED <<locals, unheard>>
          \/ /\ o.reply = "nok" \/ (o.reply = "ok" /\ ~zone.exists)
             /\ CASE pc = "zone"  -> NotFound
                  [] pc = "zone2" -> Finish("false", FALSE) /\ UNCHANGED locals
                  [] pc = "zone3" -> Finish("true", FALSE) /\ UNCHANGED locals
             /\ UNCHANGED unheard
    BY <1>2 DEF ZoneList
  <2>3. faults' \in 0..MaxFaults /\ faulted' \in BOOLEAN
    BY <2>2, CallBudget
  <2>4. \/ Abort /\ UNCHANGED locals
        \/ (\E l \in Labels : Goto(l)) /\ UNCHANGED <<locals, unheard>>
        \/ NotFound /\ UNCHANGED unheard
        \/ (Finish("false", FALSE) \/ Finish("true", FALSE)) /\ UNCHANGED <<locals, unheard>>
    BY <2>1, <2>2
  <2>5. Onward' /\ unheard' \in BOOLEAN
    BY <2>4, AbortOnward, GotoOnward, NotFoundOnward, FinishOnward DEF TypeOK
  <2>6. QED BY <2>1, <2>3, <2>5 DEF Onward, TypeOK
<1>3. CASE Get
  <2>1. UNCHANGED <<zone, edits, req, before, wrote, raced>>
    BY <1>3 DEF Get, server
  <2>2. PICK o \in Outcome :
       /\ Call(o, zone.exists)
       /\ \/ o.reply # "ok" /\ Abort /\ UNCHANGED locals
          \/ /\ o.reply = "ok"
             /\ IF Matches(zone, req) THEN Found ELSE NotFound
             /\ UNCHANGED unheard
    BY <1>3 DEF Get
  <2>3. faults' \in 0..MaxFaults /\ faulted' \in BOOLEAN
    BY <2>2, CallBudget, ZoneShape DEF TypeOK
  <2>4. Onward' /\ unheard' \in BOOLEAN
    BY <2>2, AbortOnward, FoundOnward, NotFoundOnward DEF TypeOK
  <2>5. QED BY <2>1, <2>3, <2>4 DEF Onward, TypeOK
<1>4. CASE GetAgain
  <2>1. UNCHANGED <<zone, edits, req, locals, before, wrote, raced>>
    BY <1>4 DEF GetAgain, server
  <2>2. PICK o \in Outcome :
       /\ Call(o, zone.exists)
       /\ \/ o.reply # "ok" /\ Abort
          \/ o.reply = "ok" /\ Finish("true", FALSE) /\ UNCHANGED unheard
    BY <1>4 DEF GetAgain
  <2>3. faults' \in 0..MaxFaults /\ faulted' \in BOOLEAN
    BY <2>2, CallBudget, ZoneShape DEF TypeOK
  <2>4. Onward' /\ unheard' \in BOOLEAN
    BY <2>1, <2>2, AbortOnward, FinishOnward DEF TypeOK
  <2>5. QED BY <2>1, <2>3, <2>4 DEF Onward, TypeOK
<1>5. CASE Write
  <2>1. UNCHANGED <<edits, req, locals, before, raced>>
    BY <1>5 DEF Write
  <2>2. PICK o \in Outcome :
       /\ Call(o, CanWrite)
       /\ zone' = IF o.applied THEN Written ELSE zone
       /\ wrote' = (wrote \/ o.applied)
       /\ \/ o.reply = "raise" /\ Abort
          \/ o.reply = "nok" /\ Finish("false", FALSE)
             /\ unheard' = (unheard \/ o.applied)
          \/ o.reply = "ok" /\ Finish("true", TRUE) /\ UNCHANGED unheard
    BY <1>5 DEF Write
  <2>3. faults' \in 0..MaxFaults /\ faulted' \in BOOLEAN /\ (o.applied => CanWrite)
    BY <2>2, CallBudget, CanWriteBoolean
  <2>4. zone' \in Zones
    BY <2>2, <2>3, WrittenType DEF TypeOK
  <2>5. Onward' /\ unheard' \in BOOLEAN /\ wrote' \in BOOLEAN
    BY <2>1, <2>2, AbortOnward, FinishOnward DEF TypeOK
  <2>6. QED BY <2>1, <2>3, <2>4, <2>5 DEF Onward, TypeOK
<1>6. QED BY <1>1, <1>2, <1>3, <1>4, <1>5 DEF Step

LEMMA TypeConsole == TypeOK /\ Console => TypeOK'
<1> SUFFICES ASSUME TypeOK, Console PROVE TypeOK'
  OBVIOUS
<1> DEFINE next == Bump(zone.serial)
<1>1. zone \in Zones /\ next \in Serials
  BY ZoneShape, BumpSerial DEF TypeOK
<1>2. zone' \in Zones
  <2> HIDE DEF next
  <2>1. CASE zone' \in {NoZone, EmptyZone}
    BY <2>1, EmptyZoneType
  <2>2. CASE \E r \in Records : zone' =
               [zone EXCEPT !.plain = IF r \in @ THEN @ \ {r} ELSE @ \cup {r}, !.serial = next]
    <3>1. PICK r \in Records : zone' =
               [zone EXCEPT !.plain = IF r \in @ THEN @ \ {r} ELSE @ \cup {r}, !.serial = next]
      BY <2>2
    <3> DEFINE flipped == IF r \in zone.plain THEN zone.plain \ {r} ELSE zone.plain \cup {r}
    <3>2. flipped \in SUBSET Records
      BY <1>1, ZoneShape
    <3>3. zone' = [zone EXCEPT !.plain = flipped, !.serial = next]
      BY <3>1
    <3> HIDE DEF flipped
    <3>4. QED BY <1>1, <3>2, <3>3 DEF Zones
  <2>3. CASE \E s \in Servers, g \in Glues \cup {NoGlue, NoRecord} :
               zone' = [zone EXCEPT !.ns[s] = g, !.serial = next]
    BY <1>1, <2>3 DEF Zones
  <2>4. CASE \E f \in SoaFields, v \in Values :
               zone' = [zone EXCEPT !.soa[f] = v, !.serial = next]
    BY <1>1, <2>4 DEF Zones
  <2>5. QED BY <2>1, <2>2, <2>3, <2>4 DEF Console, next
<1>3. /\ edits < MaxEdits /\ edits' = edits + 1 /\ raced' = TRUE
      /\ UNCHANGED <<req, pc, locals, report, faults, before, wrote, faulted, unheard>>
  BY Zenon DEF Console
<1>4. edits' \in 0..MaxEdits
  BY <1>3, RecordsAssumption DEF TypeOK
<1>5. QED BY <1>2, <1>3, <1>4 DEF locals, report, TypeOK

LEMMA TypeNext == TypeOK /\ [Next]_vars => TypeOK'
<1> SUFFICES ASSUME TypeOK, [Next]_vars PROVE TypeOK'
  OBVIOUS
<1>1. CASE Start
  <2>1. soa' \in [SoaFields -> Values] /\ serial' \in 0..(MaxSerial + 1)
    BY <1>1, RecordsAssumption DEF Start
  <2>2. QED BY <1>1, <2>1 DEF Start, server, TypeOK
<1>2. CASE Killed
  <2>1. faults' \in 0..MaxFaults
    BY <1>2, RecordsAssumption DEF Killed, TypeOK
  <2>2. QED BY <1>2, <2>1 DEF Killed, server, locals, report, ghosts, TypeOK
<1>3. CASE Rewrite
  <2>1. edits' \in 0..MaxEdits
    BY <1>3, RecordsAssumption DEF Rewrite, TypeOK
  <2>2. QED BY <1>3, <2>1 DEF Rewrite, locals, report, ghosts, TypeOK
<1>4. CASE UNCHANGED vars
  BY <1>4 DEF vars, TypeOK
<1>5. QED BY <1>1, <1>2, <1>3, <1>4, TypeStep, TypeConsole DEF Next

\* Every variable always holds a value of its kind; in particular the SOA
\* record to be written is complete, its serial at most one too large.
THEOREM RecordsTypes == Spec => []TypeOK
<1>1. Init => TypeOK BY TypeInit
<1>2. TypeOK /\ [Next]_vars => TypeOK' BY TypeNext
<1>3. QED BY <1>1, <1>2, PTL DEF Spec

-----------------------------------------------------------------------------
(* The inductive invariant. *)

\* The zone was as asked when the run began, and nothing disturbed the run.
Settled == req.formed /\ Satisfies(before, req) /\ ~raced /\ ~faulted

\* Until its one write, which ends it, a run has changed nothing.
Fresh == Running => ~wrote /\ (~raced => zone = before)

\* A settled zone that was looked for by its name has been found.
AtGet == pc = "get" => (Settled => zone.exists)

\* What is to be written is something that the zone lacks, of a request for
\* presence; an SOA record is the one read with what is asked laid over it.
AtWrite == pc \in {"zone2", "write"} =>
  /\ req.fn = "present" /\ ~req.test /\ ~Settled
  /\ \/ plan = "add" /\ req.kind \in {"plain", "ns"}
     \/ plan \in {"update", "badglue"} /\ WantsGlue(req)
     \/ /\ plan = "update" /\ req.kind = "soa"
        /\ ~raced => /\ soa = SoaOverlay(req, zone.soa)
                     /\ serial = NextSerial(req, zone.serial, TRUE)

\* Only what is to be gone and is not is looked for again.
AtAgain == pc \in {"zone3", "get3"} => req.fn = "absent" /\ ~Settled

\* A run that returns has listed what it knows it wrote; it answers None only
\* in a test; over a settled zone it did nothing, said so, and succeeded.
Ends == pc = "done" =>
  /\ wrote /\ (~unheard \/ result = "true") => changed
  /\ result = "none" => req.test
  /\ Settled => ~wrote /\ ~changed /\ (req.test \/ result = "true")

Places == Fresh /\ AtGet /\ AtWrite /\ AtAgain /\ Ends
Inv    == Places /\ TruthfulPresent /\ KeepsOthers

\* Nothing is asked of a settled record that it is not.
LEMMA SettledHolds ==
  ASSUME TypeOK, Settled, req.fn = "present"
  PROVE  /\ before.exists /\ Matches(before, req)
         /\ req.kind = "ns" => req.glue \in {Unmanaged, before.ns[req.server]}
         /\ req.kind = "soa" => ~SoaDiffers(req, before, SoaOverlay(req, before.soa))
<1>1. before \in Zones /\ req \in Requests /\ req.kind \in {"plain", "ns", "soa"}
  BY RequestShape DEF TypeOK
<1>2. before.exists /\ Matches(before, req)
      /\ (req.kind = "ns" => req.glue \in {Unmanaged, before.ns[req.server]})
  BY <1>1 DEF Settled, Satisfies, Matches
<1>3. ASSUME req.kind = "soa"
      PROVE  ~SoaDiffers(req, before, SoaOverlay(req, before.soa))
  <2>1. /\ \A f \in SoaFields : req.want[f] \in {Unmanaged, before.soa[f]}
        /\ req.pin \in {Unmanaged, before.serial}
    BY <1>3 DEF Settled, Satisfies
  <2>2. SoaOverlay(req, before.soa) = before.soa
    BY <1>1, <2>1, ZoneShape DEF SoaOverlay
  <2>3. QED BY <2>1, <2>2 DEF SoaDiffers
<1>4. QED BY <1>2, <1>3

\* Nothing disturbs the call of a settled run: the server does what it can.
LEMMA CallSettled ==
  ASSUME TypeOK, NEW o, NEW can \in BOOLEAN, Call(o, can), UNCHANGED <<req, before, raced>>
  PROVE  /\ Settled' => Settled /\ o.reply = (IF can THEN "ok" ELSE "nok")
         /\ faulted => faulted'
<1>1. Settled' => Settled /\ o = Undisturbed(can)
  BY DEF Call, Settled
<1>2. o = Undisturbed(can) => o.reply = (IF can THEN "ok" ELSE "nok")
  BY DEF Undisturbed
<1>3. QED BY <1>1, <1>2 DEF Call

\* What a step without a write leaves alone.
Quiet == Running /\ UNCHANGED <<zone, req, before, wrote, raced>>

LEMMA QuietKeeps == ASSUME Fresh, Quiet PROVE KeepsOthers' /\ Fresh'
<1>1. ~wrote' /\ (~raced' => zone' = before')
  BY DEF Fresh, Quiet
<1>2. KeepsOthers'
  BY <1>1 DEF KeepsOthers
<1>3. QED BY <1>1, <1>2 DEF Fresh

\* A quiet step may end the run if what it reports is so.
LEMMA QuietEnd ==
  ASSUME Inv, Quiet, NEW r, NEW c, Finish(r, c),
         r = "none" => req.test,
         Settled' => ~c /\ (req.test \/ r = "true"),
         r = "true" /\ req.fn = "present" /\ ~req.test /\ ~raced /\ ~WantsGlue(req)
           => Satisfies(zone, req)
  PROVE  Inv'
<1>1. pc' = "done" /\ result' = r /\ changed' = c
  BY DEF Finish
<1>2. KeepsOthers' /\ ~wrote
  BY QuietKeeps DEF Inv, Places, Fresh, Quiet
<1>3. Ends'
  BY <1>1, <1>2 DEF Ends, Quiet
<1>4. TruthfulPresent'
  BY <1>1 DEF TruthfulPresent, Quiet, WantsGlue, Satisfies, Matches
<1>5. QED
  BY <1>1, <1>2, <1>3, <1>4 DEF Inv, Places, Fresh, AtGet, AtWrite, AtAgain, Running

LEMMA QuietAbort ==
  ASSUME Inv, Quiet, Abort, ~Settled' PROVE Inv'
BY QuietEnd DEF Abort

\* The end of zonerecord_present, once it knows what is to be written.
LEMMA ConcludeInv ==
  ASSUME TypeOK, Inv, Quiet, req.fn = "present", NEW p \in Plans, Conclude(p), plan' = p,
         p = "none" /\ ~raced /\ ~WantsGlue(req) => Satisfies(zone, req),
         p # "none" => ~Settled',
         \/ p = "none"
         \/ p = "add" /\ req.kind \in {"plain", "ns"}
         \/ p \in {"update", "badglue"} /\ WantsGlue(req)
         \/ /\ p = "update" /\ req.kind = "soa"
            /\ soa' = SoaOverlay(req, zone.soa) /\ serial' = NextSerial(req, zone.serial, TRUE)
  PROVE  Inv'
<1>1. req.test \in BOOLEAN
  BY RequestShape DEF TypeOK
<1>2. CASE req.test
  BY <1>2, QuietEnd DEF Conclude
<1>3. CASE ~req.test /\ p = "none"
  BY <1>3, QuietEnd DEF Conclude
<1>4. CASE ~req.test /\ p # "none"
  <2>1. pc' = "zone2"
    BY <1>4 DEF Conclude, Goto
  <2>2. KeepsOthers' /\ Fresh'
    BY QuietKeeps DEF Inv, Places
  <2>3. AtWrite'
    BY <1>4 DEF AtWrite, Quiet, WantsGlue, SoaOverlay, NextSerial
  <2>4. QED
    BY <2>1, <2>2, <2>3 DEF Inv, Places, AtGet, AtAgain, Ends, TruthfulPresent
<1>5. QED BY <1>1, <1>2, <1>3, <1>4

\* What was not found is added, unless it is an SOA record.
LEMMA NotFoundInv ==
  ASSUME TypeOK, Inv, Quiet, NotFound, req.fn = "present" => ~Settled'
  PROVE  Inv'
<1>1. req.fn \in {"present", "absent"} /\ req.kind \in {"plain", "ns", "soa"}
  BY RequestShape DEF TypeOK
<1>2. CASE req.fn = "absent"
  BY <1>2, QuietEnd DEF NotFound
<1>3. CASE req.fn = "present" /\ req.kind = "soa"
  BY <1>3, QuietEnd DEF NotFound
<1>4. CASE req.fn = "present" /\ req.kind # "soa"
  BY <1>1, <1>4, ConcludeInv DEF NotFound, Plans
<1>5. QED BY <1>1, <1>2, <1>3, <1>4

\* What was found is compared, if more is asked of it than to be there.
LEMMA FoundInv ==
  ASSUME TypeOK, Inv, Quiet, Found, Matches(zone, req), zone.exists,
         req.fn = "absent" => ~Settled', Settled' => Settled
  PROVE  Inv'
<1>1. req \in Requests /\ req.fn \in {"present", "absent"}
      /\ req.kind \in {"plain", "ns", "soa"} /\ zone \in Zones
  BY RequestShape DEF TypeOK
<1>2. Settled' /\ req.fn = "present" => zone = before /\ Settled
  BY DEF Inv, Places, Fresh, Quiet, Settled
<1>3. CASE req.fn = "absent"
  <2>1. pc' = "zone3" /\ UNCHANGED locals
    BY <1>3 DEF Found, Goto
  <2>2. KeepsOthers' /\ Fresh'
    BY QuietKeeps DEF Inv, Places
  <2>3. QED
    BY <1>3, <2>1, <2>2 DEF Inv, Places, AtGet, AtWrite, AtAgain, Ends, TruthfulPresent, Quiet
<1>4. CASE req.fn = "present" /\ req.kind = "plain"
  <2>1. Satisfies(zone, req)
    BY <1>4 DEF Satisfies, Matches
  <2>2. CASE Finish("true", FALSE)
    BY <2>1, <2>2, QuietEnd
  <2>3. CASE Conclude("none") /\ plan' = "none"
    BY <1>4, <2>1, <2>3, ConcludeInv DEF Plans
  <2>4. QED BY <1>4, <2>2, <2>3 DEF Found, FoundPlain
<1>5. CASE req.fn = "present" /\ req.kind = "ns"
  <2> DEFINE old == zone.ns[req.server]
             p   == IF req.glue \in {Unmanaged, old} THEN "none"
                    ELSE IF old = NoGlue THEN "update" ELSE "badglue"
  <2>1. plan' = p /\ Conclude(p)
    BY <1>5 DEF Found, FoundNs
  <2>2. p \in Plans /\ (p # "none" => p \in {"update", "badglue"} /\ WantsGlue(req))
    BY <1>5 DEF Plans, WantsGlue
  <2>3. p = "none" => Satisfies(zone, req)
    BY <1>5 DEF Satisfies, Matches
  <2>4. p # "none" => ~Settled'
    BY <1>2, <1>5, SettledHolds
  <2> HIDE DEF p, old
  <2>5. QED BY <1>5, <2>1, <2>2, <2>3, <2>4, ConcludeInv
<1>6. CASE req.fn = "present" /\ req.kind = "soa"
  <2> DEFINE merged  == SoaOverlay(req, zone.soa)
             differs == SoaDiffers(req, zone, merged)
             p       == IF differs THEN "update" ELSE "none"
  <2>1. /\ soa' = merged /\ serial' = NextSerial(req, zone.serial, differs)
        /\ plan' = p /\ Conclude(p)
    <3>1. plan' = p /\ Conclude(plan')
      BY <1>6 DEF Found, FoundSoa
    <3>2. Conclude(p)
      BY <3>1
    <3>3. QED BY <1>6, <3>1, <3>2 DEF Found, FoundSoa
  <2>2. differs \in BOOLEAN
    BY DEF SoaDiffers
  <2>3. p = "none" => Satisfies(zone, req)
    <3>1. ASSUME ~differs PROVE Satisfies(zone, req)
      <4>1. merged = zone.soa /\ req.pin \in {Unmanaged, zone.serial}
        BY <3>1 DEF SoaDiffers
      <4>2. \A f \in SoaFields : req.want[f] \in {Unmanaged, zone.soa[f]}
        BY <4>1 DEF SoaOverlay
      <4>3. QED BY <1>6, <4>1, <4>2 DEF Satisfies
    <3>2. QED BY <3>1
  <2>4. p # "none" => ~Settled'
    BY <1>2, <1>6, SettledHolds
  <2>5. p # "none" => soa' = SoaOverlay(req, zone.soa)
                      /\ serial' = NextSerial(req, zone.serial, TRUE) /\ p = "update"
    BY <2>1, <2>2 DEF NextSerial
  <2>6. p \in Plans
    BY DEF Plans
  <2> HIDE DEF p, differs, merged
  <2>7. QED BY <1>6, <2>1, <2>3, <2>4, <2>5, <2>6, ConcludeInv
<1>7. QED BY <1>1, <1>3, <1>4, <1>5, <1>6

LEMMA InvInit == Init => Inv
BY DEF Init, Inv, Places, Fresh, AtGet, AtWrite, AtAgain, Ends, TruthfulPresent,
   KeepsOthers, Running

LEMMA InvStart == TypeOK /\ Start => Inv'
BY DEF Start, server, Inv, Places, Fresh, AtGet, AtWrite, AtAgain, Ends, TruthfulPresent,
   KeepsOthers, Running

\* The world outside the run either marks it as raced or leaves it idle.
LEMMA InvOutside == Inv /\ (Killed \/ Console \/ Rewrite \/ UNCHANGED vars) => Inv'
<1> SUFFICES ASSUME Inv, Killed \/ Console \/ Rewrite \/ UNCHANGED vars PROVE Inv'
  OBVIOUS
<1>1. CASE Killed \/ Rewrite
  <2>1. pc' = "idle"
    BY <1>1 DEF Killed, Rewrite
  <2>2. QED
    BY <2>1 DEF Inv, Places, Fresh, AtGet, AtWrite, AtAgain, Ends, TruthfulPresent,
       KeepsOthers, Running
<1>2. CASE Console
  <2>1. raced' = TRUE
        /\ UNCHANGED <<req, pc, locals, report, faults, before, wrote, faulted, unheard>>
    BY <1>2, Zenon DEF Console
  <2>2. UNCHANGED <<req, pc, plan, result, changed, before, wrote, unheard>> /\ ~Settled'
    BY <2>1 DEF locals, report, Settled
  <2>3. Fresh' /\ TruthfulPresent' /\ KeepsOthers'
    BY <2>1, <2>2 DEF Inv, Places, Fresh, TruthfulPresent, KeepsOthers, Running
  <2>4. AtGet' /\ AtAgain' /\ Ends'
    BY <2>2 DEF Inv, Places, AtGet, AtAgain, Ends
  <2>5. AtWrite'
    BY <2>1, <2>2 DEF Inv, Places, AtWrite, WantsGlue
  <2>6. QED BY <2>3, <2>4, <2>5 DEF Inv, Places
<1>3. CASE UNCHANGED vars
  <2>1. UNCHANGED <<zone, req, pc, plan, soa, serial, result, changed, before, wrote, raced,
                    faulted, unheard>>
    BY <1>3 DEF vars
  <2>2. Settled' <=> Settled
    BY <2>1 DEF Settled
  <2>3. QED
    BY <2>1, <2>2 DEF Inv, Places, Fresh, AtGet, AtWrite, AtAgain, Ends, TruthfulPresent,
       KeepsOthers, Running, WantsGlue, Satisfies, Matches, SoaOverlay, NextSerial
<1>4. QED BY <1>1, <1>2, <1>3

LEMMA InvCheck == TypeOK /\ Inv /\ Check => Inv'
<1> SUFFICES ASSUME TypeOK, Inv, Check PROVE Inv'
  OBVIOUS
<1>1. Quiet /\ UNCHANGED <<locals, faulted, unheard>>
  BY DEF Check, Quiet, Running, server, ghosts
<1>2. CASE req.formed
  <2>1. pc' = "zone"
    BY <1>2 DEF Check, Goto
  <2>2. KeepsOthers' /\ Fresh'
    BY <1>1, QuietKeeps DEF Inv, Places
  <2>3. QED
    BY <2>1, <2>2 DEF Inv, Places, AtGet, AtWrite, AtAgain, Ends, TruthfulPresent
<1>3. CASE ~req.formed
  <2>1. ~Settled'
    BY <1>1, <1>3 DEF Settled, Quiet
  <2>2. Finish(IF req.fn = "absent" THEN "true" ELSE "false", FALSE)
    BY <1>3 DEF Check
  <2>3. QED BY <1>1, <2>1, <2>2, QuietEnd
<1>4. QED BY <1>2, <1>3

LEMMA InvZoneList == TypeOK /\ Inv /\ ZoneList => Inv'
<1> SUFFICES ASSUME TypeOK, Inv, ZoneList PROVE Inv'
  OBVIOUS
<1>1. PICK o \in Outcome :
       /\ Call(o, TRUE)
       /\ \/ o.reply = "raise" /\ Abort /\ UNCHANGED locals
          \/ /\ o.reply = "ok" /\ zone.exists
             /\ Goto(CASE pc = "zone"  -> "get"
                       [] pc = "zone2" -> "write"
                       [] pc = "zone3" -> "get3")
             /\ UNCHANGED <<locals, unheard>>
          \/ /\ o.reply = "nok" \/ (o.reply = "ok" /\ ~zone.exists)
             /\ CASE pc = "zone"  -> NotFound
                  [] pc = "zone2" -> Finish("false", FALSE) /\ UNCHANGED locals
                  [] pc = "zone3" -> Finish("true", FALSE) /\ UNCHANGED locals
             /\ UNCHANGED unheard
  BY DEF ZoneList
<1>2. Quiet /\ pc \in {"zone", "zone2", "zone3"}
  BY DEF ZoneList, Quiet, Running, server
<1>3. Settled' => Settled /\ o.reply = "ok"
  BY <1>1, <1>2, CallSettled DEF Quiet
<1>4. CASE o.reply = "raise" /\ Abort
  BY <1>2, <1>3, <1>4, QuietAbort
<1>5. CASE /\ o.reply = "ok" /\ zone.exists /\ UNCHANGED locals
           /\ Goto(CASE pc = "zone"  -> "get"
                     [] pc = "zone2" -> "write"
                     [] pc = "zone3" -> "get3")
  <2>1. pc' = CASE pc = "zone"  -> "get"
                [] pc = "zone2" -> "write"
                [] pc = "zone3" -> "get3"
    BY <1>5 DEF Goto
  <2>2. KeepsOthers' /\ Fresh'
    BY <1>2, QuietKeeps DEF Inv, Places
  <2>3. AtGet'
    BY <1>2, <1>5 DEF AtGet, Quiet
  <2>4. AtWrite' /\ AtAgain'
    BY <1>2, <1>3, <1>5, <2>1
       DEF Inv, Places, AtWrite, AtAgain, Quiet, locals, WantsGlue, SoaOverlay, NextSerial
  <2>5. pc' # "done"
    BY <1>2, <2>1
  <2>6. QED BY <2>2, <2>3, <2>4, <2>5 DEF Inv, Places, Ends, TruthfulPresent
<1>6. CASE /\ o.reply = "nok" \/ (o.reply = "ok" /\ ~zone.exists)
           /\ CASE pc = "zone"  -> NotFound
                [] pc = "zone2" -> Finish("false", FALSE) /\ UNCHANGED locals
                [] pc = "zone3" -> Finish("true", FALSE) /\ UNCHANGED locals
  <2>1. CASE pc = "zone"
    <3>1. req.fn = "present" => ~Settled'
      BY <1>2, <1>3, <1>6, SettledHolds DEF Inv, Places, Fresh, Quiet, Settled
    <3>2. NotFound
      BY <1>6, <2>1
    <3>3. QED BY <1>2, <3>1, <3>2, NotFoundInv
  <2>2. CASE pc = "zone2"
    <3>1. Finish("false", FALSE) /\ ~Settled'
      BY <1>3, <1>6, <2>2 DEF Inv, Places, AtWrite
    <3>2. QED BY <1>2, <3>1, QuietEnd
  <2>3. CASE pc = "zone3"
    <3>1. Finish("true", FALSE) /\ ~Settled' /\ req.fn = "absent"
      BY <1>3, <1>6, <2>3 DEF Inv, Places, AtAgain
    <3>2. QED BY <1>2, <3>1, QuietEnd
  <2>4. QED BY <1>2, <2>1, <2>2, <2>3
<1>7. QED BY <1>1, <1>4, <1>5, <1>6

LEMMA InvGet == TypeOK /\ Inv /\ Get => Inv'
<1> SUFFICES ASSUME TypeOK, Inv, Get PROVE Inv'
  OBVIOUS
<1>1. PICK o \in Outcome :
       /\ Call(o, zone.exists)
       /\ \/ o.reply # "ok" /\ Abort /\ UNCHANGED locals
          \/ /\ o.reply = "ok"
             /\ IF Matches(zone, req) THEN Found ELSE NotFound
             /\ UNCHANGED unheard
  BY DEF Get
<1>2. Quiet /\ pc = "get" /\ zone.exists \in BOOLEAN
  BY ZoneShape DEF Get, Quiet, Running, server, TypeOK
<1>3. Settled' => Settled /\ o.reply = (IF zone.exists THEN "ok" ELSE "nok")
  BY <1>1, <1>2, CallSettled DEF Quiet
<1>4. Settled => zone.exists /\ zone = before
  BY <1>2 DEF Inv, Places, AtGet, Fresh, Quiet, Settled
<1>5. CASE o.reply # "ok" /\ Abort
  BY <1>2, <1>3, <1>4, <1>5, QuietAbort
<1>6. CASE o.reply = "ok" /\ Matches(zone, req) /\ Found
  <2>1. zone.exists
    BY <1>1, <1>2, <1>6, CallBudget, OutcomeShape
  <2>2. req.fn = "absent" => ~Settled'
    BY <1>3, <1>4, <1>6 DEF Settled, Satisfies
  <2>3. QED BY <1>2, <1>3, <1>6, <2>1, <2>2, FoundInv
<1>7. CASE o.reply = "ok" /\ ~Matches(zone, req) /\ NotFound
  <2>1. req.fn = "present" => ~Settled'
    BY <1>3, <1>4, <1>7, SettledHolds
  <2>2. QED BY <1>2, <1>7, <2>1, NotFoundInv
<1>8. QED BY <1>1, <1>5, <1>6, <1>7

LEMMA InvGetAgain == TypeOK /\ Inv /\ GetAgain => Inv'
<1> SUFFICES ASSUME TypeOK, Inv, GetAgain PROVE Inv'
  OBVIOUS
<1>1. PICK o \in Outcome :
       /\ Call(o, zone.exists)
       /\ \/ o.reply # "ok" /\ Abort
          \/ o.reply = "ok" /\ Finish("true", FALSE) /\ UNCHANGED unheard
  BY DEF GetAgain
<1>2. Quiet /\ pc = "get3" /\ zone.exists \in BOOLEAN
  BY ZoneShape DEF GetAgain, Quiet, Running, server, TypeOK
<1>3. ~Settled' /\ req.fn = "absent"
  BY <1>1, <1>2, CallSettled DEF Quiet, Inv, Places, AtAgain
<1>4. QED BY <1>1, <1>2, <1>3, QuietEnd, QuietAbort

\* What is written leaves the record as asked and the others as they were.
LEMMA WrittenKeeps ==
  ASSUME TypeOK, Inv, pc = "write", CanWrite, ~raced
  PROVE  /\ Written.exists
         /\ ~WantsGlue(req) => Satisfies(Written, req)
         /\ Written.plain \ {req.rec} = zone.plain \ {req.rec}
         /\ zone.plain \subseteq Written.plain
         /\ \A s \in Servers \ {req.server} : Written.ns[s] = zone.ns[s]
         /\ \A f \in SoaFields :
              req.kind # "soa" \/ req.want[f] = Unmanaged => Written.soa[f] = zone.soa[f]
         /\ req.pin # Unmanaged \/ Written.serial = Bump(zone.serial)
<1>1. zone \in Zones /\ req \in Requests /\ req.kind \in {"plain", "ns", "soa"}
      /\ zone.exists /\ req.fn = "present"
  BY RequestShape DEF TypeOK, CanWrite, Inv, Places, AtWrite
<1>2. CASE req.kind = "soa"
  <2>1. /\ soa = SoaOverlay(req, zone.soa) /\ serial = NextSerial(req, zone.serial, TRUE)
        /\ serial \in Serials
    BY <1>2 DEF CanWrite, Inv, Places, AtWrite, WantsGlue
  <2>2. /\ Written.exists = zone.exists /\ Written.plain = zone.plain
        /\ Written.ns = zone.ns /\ Written.soa = soa /\ Written.serial = serial
    BY <1>1, <1>2 DEF Written, Zones
  <2>3. \A f \in SoaFields : soa[f] = IF req.want[f] = Unmanaged THEN zone.soa[f] ELSE req.want[f]
    BY <2>1 DEF SoaOverlay
  <2>4. serial = IF req.pin # Unmanaged THEN req.pin ELSE zone.serial + 1
    BY <2>1 DEF NextSerial
  <2>5. req.pin # Unmanaged \/ serial = Bump(zone.serial)
    BY <1>1, <2>1, <2>4, ZoneShape, BumpSerial
  <2>6. Satisfies(Written, req)
    BY <1>1, <1>2, <2>2, <2>3, <2>4 DEF Satisfies
  <2>7. QED BY <1>1, <1>2, <2>2, <2>3, <2>5, <2>6
<1>3. CASE req.kind # "soa"
  <2> DEFINE plain == IF req.kind = "plain" THEN zone.plain \cup {req.rec} ELSE zone.plain
             ns    == IF req.kind = "ns" THEN [zone.ns EXCEPT ![req.server] = NoGlue] ELSE zone.ns
  <2>1. Written = [zone EXCEPT !.plain = plain, !.ns = ns, !.serial = Bump(zone.serial)]
    BY <1>3 DEF Written
  <2>2. /\ plain \ {req.rec} = zone.plain \ {req.rec} /\ zone.plain \subseteq plain
        /\ req.kind = "plain" => req.rec \in plain
    OBVIOUS
  <2>3. /\ \A s \in Servers \ {req.server} : ns[s] = zone.ns[s]
        /\ req.kind = "ns" => ns[req.server] = NoGlue
    BY <1>1, ZoneShape, RequestShape
  <2> HIDE DEF plain, ns
  <2>4. /\ Written.exists = zone.exists /\ Written.plain = plain /\ Written.ns = ns
        /\ Written.soa = zone.soa /\ Written.serial = Bump(zone.serial)
    BY <1>1, <2>1 DEF Zones
  <2>5. ~WantsGlue(req) => Satisfies(Written, req)
    BY <1>1, <1>3, <2>2, <2>3, <2>4, RecordsAssumption DEF Satisfies, WantsGlue
  <2>6. QED BY <1>1, <1>3, <2>2, <2>3, <2>4, <2>5
<1>4. QED BY <1>2, <1>3

LEMMA InvWrite == TypeOK /\ Inv /\ Write => Inv'
<1> SUFFICES ASSUME TypeOK, Inv, Write PROVE Inv'
  OBVIOUS
<1>1. PICK o \in Outcome :
       /\ Call(o, CanWrite)
       /\ zone' = IF o.applied THEN Written ELSE zone
       /\ wrote' = (wrote \/ o.applied)
       /\ \/ o.reply = "raise" /\ Abort
          \/ o.reply = "nok" /\ Finish("false", FALSE)
             /\ unheard' = (unheard \/ o.applied)
          \/ o.reply = "ok" /\ Finish("true", TRUE) /\ UNCHANGED unheard
  BY DEF Write
<1>2. pc = "write" /\ UNCHANGED <<edits, req, locals, before, raced>>
  BY DEF Write
<1>3. /\ o.applied \in BOOLEAN /\ (o.applied => CanWrite) /\ (o.reply = "ok" => o.applied)
  BY <1>1, CallBudget, CanWriteBoolean, OutcomeShape
<1>4. ~wrote /\ (~raced => zone = before) /\ ~Settled' /\ req.fn = "present"
  BY <1>1, <1>2, CanWriteBoolean, CallSettled DEF Inv, Places, Fresh, AtWrite, Running
<1>5. pc' = "done"
  BY <1>1 DEF Abort, Finish
<1>6. wrote' = o.applied /\ (o.applied => zone' = Written) /\ (~o.applied => zone' = zone)
  BY <1>1, <1>3, <1>4
<1>7. KeepsOthers'
  <2>1. CASE o.applied
    <3> HIDE DEF Written
    <3>1. QED BY <1>2, <1>3, <1>4, <1>6, <2>1, WrittenKeeps DEF KeepsOthers
  <2>2. CASE ~o.applied
    BY <1>2, <1>4, <1>6, <2>2 DEF KeepsOthers
  <2>3. QED BY <1>3, <2>1, <2>2
<1>8. TruthfulPresent'
  <2>1. result' = "true" => o.applied
    BY <1>1, <1>3 DEF Abort, Finish
  <2>2. ~raced' /\ ~WantsGlue(req)' /\ o.applied => Satisfies(Written, req)
    BY <1>2, <1>3, WrittenKeeps DEF WantsGlue
  <2>3. QED BY <1>2, <1>6, <2>1, <2>2 DEF TruthfulPresent, Satisfies
<1>9. Ends'
  BY <1>1, <1>3, <1>4, <1>6 DEF Ends, Abort, Finish
<1>10. QED
  BY <1>5, <1>7, <1>8, <1>9 DEF Inv, Places, Fresh, AtGet, AtWrite, AtAgain, Running

LEMMA InvNext == TypeOK /\ Inv /\ [Next]_vars => Inv'
BY InvStart, InvOutside, InvCheck, InvZoneList, InvGet, InvGetAgain, InvWrite
   DEF Next, Step

LEMMA RecordsInv == Spec => [](TypeOK /\ Inv)
<1>1. Init => TypeOK /\ Inv BY TypeInit, InvInit
<1>2. TypeOK /\ Inv /\ [Next]_vars => (TypeOK /\ Inv)' BY TypeNext, InvNext
<1>3. QED BY <1>1, <1>2, PTL DEF Spec

\* A run of zonerecord_present that reports success leaves the record as
\* asked, its glue excepted, whatever the faults.
THEOREM RecordsTruthful == Spec => []TruthfulPresent
<1>1. Inv => TruthfulPresent BY DEF Inv
<1>2. QED BY <1>1, RecordsInv, PTL

\* A run leaves every other record alone, the SOA fields that the pillar does
\* not name as well, and moves the serial forward by one step at most.
THEOREM RecordsKeep == Spec => []KeepsOthers
<1>1. Inv => KeepsOthers BY DEF Inv
<1>2. QED BY <1>1, RecordsInv, PTL

-----------------------------------------------------------------------------
(* The contract of a Salt state function. *)

\* What every step of a run does: it leaves the request alone, forgets no
\* fault, and reports and writes only if it is the last.
Advances == /\ Running /\ UNCHANGED <<req, before, raced>>
            /\ (faulted => faulted') /\ (unheard => unheard')
            /\ pc' # "idle"
            /\ pc' # "done" => UNCHANGED <<wrote, result, changed>>
            /\ pc # "write" => wrote' = wrote

LEMMA QuietAdvances ==
  ASSUME Quiet, faulted => faulted',
         \/ Abort
         \/ (\E r, c : Finish(r, c)) /\ UNCHANGED unheard
         \/ (\E l \in {"zone", "get", "zone2", "write", "zone3", "get3"} : Goto(l))
              /\ UNCHANGED unheard
  PROVE  Advances
BY DEF Quiet, Advances, Abort, Finish, Goto, report

LEMMA ConcludeAdvances ==
  ASSUME NEW p, Conclude(p), req.test \in BOOLEAN
  PROVE  (\E r, c : Finish(r, c)) \/ (\E l \in {"zone", "get", "zone2", "write", "zone3", "get3"} : Goto(l))
BY DEF Conclude

LEMMA FoundAdvances ==
  ASSUME TypeOK, Found \/ NotFound
  PROVE  (\E r, c : Finish(r, c)) \/ (\E l \in {"zone", "get", "zone2", "write", "zone3", "get3"} : Goto(l))
<1>1. /\ req.test \in BOOLEAN /\ req.fn \in {"present", "absent"}
      /\ req.kind \in {"plain", "ns", "soa"}
  BY RequestShape DEF TypeOK
<1>2. CASE NotFound
  BY <1>1, <1>2, ConcludeAdvances DEF NotFound
<1>3. CASE Found
  BY <1>1, <1>3, ConcludeAdvances DEF Found, FoundPlain, FoundNs, FoundSoa
<1>4. QED BY <1>2, <1>3

LEMMA StepAdvances == TypeOK /\ Step => Advances
<1> SUFFICES ASSUME TypeOK, Step PROVE Advances
  OBVIOUS
<1>1. CASE Check
  <2>1. Quiet /\ UNCHANGED <<faulted, unheard>>
    BY <1>1 DEF Check, Quiet, Running, server, ghosts
  <2>2. Goto("zone") \/ Finish("true", FALSE) \/ Finish("false", FALSE)
    BY <1>1 DEF Check
  <2>3. QED BY <2>1, <2>2, QuietAdvances
<1>2. CASE ZoneList
  <2>1. Quiet /\ pc \in {"zone", "zone2", "zone3"}
    BY <1>2 DEF ZoneList, Quiet, Running, server
  <2>2. PICK o \in Outcome :
       /\ Call(o, TRUE)
       /\ \/ o.reply = "raise" /\ Abort /\ UNCHANGED locals
          \/ /\ o.reply = "ok" /\ zone.exists
             /\ Goto(CASE pc = "zone"  -> "get"
                       [] pc = "zone2" -> "write"
                       [] pc = "zone3" -> "get3")
             /\ UNCHANGED <<locals, unheard>>
          \/ /\ o.reply = "nok" \/ (o.reply = "ok" /\ ~zone.exists)
             /\ CASE pc = "zone"  -> NotFound
                  [] pc = "zone2" -> Finish("false", FALSE) /\ UNCHANGED locals
                  [] pc = "zone3" -> Finish("true", FALSE) /\ UNCHANGED locals
             /\ UNCHANGED unheard
    BY <1>2 DEF ZoneList
  <2>3. faulted => faulted'
    BY <2>1, <2>2, CallSettled DEF Quiet
  <2>4. \/ Abort
        \/ (Goto("get") \/ Goto("write") \/ Goto("get3")) /\ UNCHANGED unheard
        \/ (NotFound \/ Finish("false", FALSE) \/ Finish("true", FALSE)) /\ UNCHANGED unheard
    BY <2>1, <2>2
  <2>5. QED BY <2>1, <2>3, <2>4, QuietAdvances, FoundAdvances
<1>3. CASE Get
  <2>1. Quiet /\ zone.exists \in BOOLEAN
    BY <1>3, ZoneShape DEF Get, Quiet, Running, server, TypeOK
  <2>2. PICK o \in Outcome :
       /\ Call(o, zone.exists)
       /\ \/ o.reply # "ok" /\ Abort /\ UNCHANGED locals
          \/ /\ o.reply = "ok"
             /\ IF Matches(zone, req) THEN Found ELSE NotFound
             /\ UNCHANGED unheard
    BY <1>3 DEF Get
  <2>3. faulted => faulted'
    BY <2>1, <2>2, CallSettled DEF Quiet
  <2>4. QED BY <2>1, <2>2, <2>3, QuietAdvances, FoundAdvances
<1>4. CASE GetAgain
  <2>1. Quiet /\ zone.exists \in BOOLEAN
    BY <1>4, ZoneShape DEF GetAgain, Quiet, Running, server, TypeOK
  <2>2. PICK o \in Outcome :
       /\ Call(o, zone.exists)
       /\ \/ o.reply # "ok" /\ Abort
          \/ o.reply = "ok" /\ Finish("true", FALSE) /\ UNCHANGED unheard
    BY <1>4 DEF GetAgain
  <2>3. faulted => faulted'
    BY <2>1, <2>2, CallSettled DEF Quiet
  <2>4. QED BY <2>1, <2>2, <2>3, QuietAdvances
<1>5. CASE Write
  <2>1. pc = "write" /\ UNCHANGED <<req, before, raced>> /\ Running
    BY <1>5 DEF Write, Running
  <2>2. PICK o \in Outcome :
       /\ Call(o, CanWrite)
       /\ zone' = IF o.applied THEN Written ELSE zone
       /\ wrote' = (wrote \/ o.applied)
       /\ \/ o.reply = "raise" /\ Abort
          \/ o.reply = "nok" /\ Finish("false", FALSE)
             /\ unheard' = (unheard \/ o.applied)
          \/ o.reply = "ok" /\ Finish("true", TRUE) /\ UNCHANGED unheard
    BY <1>5 DEF Write
  <2>3. faulted => faulted'
    BY <2>1, <2>2, CanWriteBoolean, CallSettled
  <2>4. \/ Abort
        \/ Finish("false", FALSE) /\ unheard' = (unheard \/ o.applied)
        \/ Finish("true", TRUE) /\ unheard' = unheard
    BY <2>2
  <2>5. pc' = "done"
    BY <2>4 DEF Abort, Finish
  <2>6. unheard => unheard'
    BY <2>4 DEF Abort, TypeOK
  <2>7. QED BY <2>1, <2>3, <2>5, <2>6 DEF Advances
<1>6. QED BY <1>1, <1>2, <1>3, <1>4, <1>5 DEF Step

\* A step of a run is a step of the contract: it returns, its write included,
\* or does what the contract does not see.
LEMMA StepImplements ==
  ASSUME TypeOK, TypeOK', Inv, Inv', Step
  PROVE  Contract!Next
<1> USE DEF Contract!Next
<1>1. Advances
  BY StepAdvances
<1>2. /\ req' = req /\ Running /\ wrote \in BOOLEAN /\ wrote' \in BOOLEAN
      /\ result' \in {"true", "false", "none"} /\ changed' \in BOOLEAN
      /\ unheard \in BOOLEAN /\ unheard' \in BOOLEAN
  BY <1>1 DEF Advances, TypeOK
<1>3. Contract!Fade
  <2>1. Settled' => Settled
    BY <1>1 DEF Advances, Settled
  <2>2. QED BY <1>1, <2>1 DEF Contract!Fade, Advances, Settled
<1>4. wrote' \in {wrote, TRUE} /\ (req.test => wrote' = wrote)
  BY <1>1, <1>2 DEF Advances, Inv, Places, AtWrite, Fresh
<1>5. CASE pc' = "done"
  <2>1. /\ wrote' /\ (~unheard' \/ result' = "true") => changed'
        /\ result' = "none" => req.test
        /\ Settled' => ~wrote' /\ ~changed' /\ (req.test \/ result' = "true")
    BY <1>2, <1>5 DEF Inv, Places, Ends
  <2>2. Contract!Return
    BY <1>2, <1>3, <1>4, <1>5, <2>1 DEF Contract!Return, Running, Settled
  <2>3. QED BY <2>2
<1>6. CASE pc' # "done"
  <2>1. Running' /\ UNCHANGED <<wrote, result, changed>>
    BY <1>1, <1>6 DEF Advances, Running
  <2>2. Contract!Disturb
    BY <1>2, <1>3, <2>1 DEF Contract!Disturb
  <2>3. QED BY <2>2
<1>7. QED BY <1>5, <1>6

\* Both functions keep the promise of a Salt state function, for all faults
\* and console changes.
THEOREM RecordsImplement == Spec => KeepsContract
<1>1. Init => Contract!Init
  <2> SUFFICES ASSUME Init PROVE Contract!Init
    OBVIOUS
  <2>1. req.test \in BOOLEAN
    BY RequestShape DEF Init
  <2>2. QED BY <2>1 DEF Init, Contract!Init, Running
<1>2. TypeOK /\ TypeOK' /\ Inv /\ Inv' /\ [Next]_vars => [Contract!Next]_(Contract!vars)
  <2> SUFFICES ASSUME TypeOK, TypeOK', Inv, Inv', [Next]_vars
               PROVE  [Contract!Next]_(Contract!vars)
    OBVIOUS
  <2> USE DEF Contract!Next
  <2>1. CASE Start
    <3>1. Contract!Begin
      BY <2>1 DEF Start, Contract!Begin, Running
    <3>2. QED BY <3>1
  <2>2. CASE Killed
    <3>1. UNCHANGED <<req, before, raced, faulted, unheard, wrote, result, changed>>
          /\ Running /\ pc' = "idle"
      BY <2>2 DEF Killed, report, ghosts
    <3>2. Settled' => Settled
      BY <3>1 DEF Settled
    <3>3. Contract!Killed
      BY <3>1, <3>2 DEF Contract!Killed, Contract!Fade, Running, Settled
    <3>4. QED BY <3>3
  <2>3. CASE Console
    <3>1. UNCHANGED <<req, pc, locals, report, faults, before, wrote, faulted, unheard>>
          /\ raced' = TRUE
      BY <2>3, Zenon DEF Console
    <3>2. Contract!Disturb
      BY <3>1 DEF Contract!Disturb, Contract!Fade, Running, report
    <3>3. QED BY <3>2
  <2>4. CASE Rewrite
    <3>1. UNCHANGED <<wrote, result, changed>> /\ ~Running /\ pc' = "idle"
          /\ req' \in Requests /\ unheard' \in BOOLEAN
      BY <2>4 DEF Rewrite, report, ghosts, TypeOK
    <3>2. req'.test \in BOOLEAN
      BY <3>1, RequestShape
    <3>3. Contract!Rewrite
      BY <3>1, <3>2 DEF Contract!Rewrite, Running
    <3>4. QED BY <3>3
  <2>5. CASE Step
    BY <2>5, StepImplements
  <2>6. CASE UNCHANGED vars
    <3>1. UNCHANGED <<req, pc, result, changed, before, wrote, raced, faulted, unheard>>
      BY <2>6 DEF vars
    <3>2. Settled' => Settled
      BY <3>1 DEF Settled
    <3>3. Contract!Disturb
      BY <3>1, <3>2 DEF Contract!Disturb, Contract!Fade, Running, Settled
    <3>4. QED BY <3>3
  <2>7. QED BY <2>1, <2>2, <2>3, <2>4, <2>5, <2>6 DEF Next
<1>3. QED
  BY <1>1, <1>2, RecordsInv, PTL DEF Spec, KeepsContract, Contract!Spec
=============================================================================
