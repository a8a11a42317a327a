------------------------ MODULE NmConnection_proofs ------------------------
(***************************************************************************)
(* Proofs about NmConnection, for all options, values, requests, foreign   *)
(* connections and bounds, and however nmcli shows its values.             *)
(***************************************************************************)
EXTENDS NmConnection, TLAPS

\* A connection with its fields, there or not.
Record == [exists : BOOLEAN, id : Names, opts : Options, link : Links]

LEMMA NoConnIs == NoConn \in Record /\ NoConn \in Conns /\ ~NoConn.exists
<1>1. [f \in Fields |-> Null] \in Options BY DEF Options
<1>2. QED BY <1>1 DEF NoConn, Conns, Record, Names, Links

LEMMA ConnIs ==
  ASSUME NEW c \in Conns
  PROVE  c \in Record /\ (~c.exists => c = NoConn)
<1>1. CASE c = NoConn BY <1>1, NoConnIs
<1>2. CASE c \in [exists : {TRUE}, id : Names, opts : Options, link : Links]
  BY <1>2 DEF Record
<1>3. QED BY <1>1, <1>2 DEF Conns

LEMMA RecordIs ==
  ASSUME NEW c \in Record, c.exists
  PROVE  c \in Conns
BY DEF Record, Conns

LEMMA ReqIs ==
  ASSUME TypeOK
  PROVE  req \in Request /\ req.want \in [Fields -> Values \cup {Null, Unmanaged}]
BY NmAssumption DEF TypeOK, Request

\* What is asked for is what the options say, but of connection.autoconnect.
LEMMA AskedIs ==
  ASSUME TypeOK
  PROVE  /\ Asked \in [Fields -> Values \cup {Null, Unmanaged}]
         /\ Asked[AutoConnect] \notin {Unmanaged, Null}
         /\ \A f \in Fields \ {AutoConnect} : Asked[f] = req.want[f]
<1>1. /\ req.want \in [Fields -> Values \cup {Null, Unmanaged}]
      /\ req.auto \in {Yes, No, Unmanaged}
  BY ReqIs DEF Request
<1> DEFINE a == IF req.auto = Unmanaged THEN Yes ELSE req.auto
<1>2. Asked = [req.want EXCEPT ![AutoConnect] = a] BY DEF Asked
<1>3. a \in {Yes, No} BY <1>1
<1>4. {Yes, No} \subseteq Values /\ Null \notin Values /\ Unmanaged \notin Values
      /\ AutoConnect \in Fields
  BY NmAssumption
<1> HIDE DEF a
<1>5. QED BY <1>1, <1>2, <1>3, <1>4

\* Setting the options keeps what is not set, and leaves the rest as asked.
LEMMA SetIs ==
  ASSUME TypeOK, NEW c \in Record
  PROVE  /\ SetOptions(c) \in Record
         /\ SetOptions(c).exists = c.exists
         /\ SetOptions(c).id = "ifname"
         /\ SetOptions(c).link = c.link
         /\ \A f \in Fields :
              /\ Asked[f] \in {Unmanaged, Null} => SetOptions(c).opts[f] = c.opts[f]
              /\ Asked[f] \notin {Unmanaged, Null} =>
                   SetOptions(c).opts[f] = Asked[f]
<1>1. Asked \in [Fields -> Values \cup {Null, Unmanaged}] BY AskedIs
<1>2. c.opts \in Options BY DEF Record
<1> DEFINE o == [f \in Fields |-> IF f \in Wanted /\ Asked[f] # Null
                                    THEN Asked[f] ELSE c.opts[f]]
<1>3. SetOptions(c) = [c EXCEPT !.id = "ifname", !.opts = o] BY DEF SetOptions
<1>4. o \in Options BY <1>1, <1>2 DEF Options, Wanted
<1>5. \A f \in Fields :
        /\ Asked[f] \in {Unmanaged, Null} => o[f] = c.opts[f]
        /\ Asked[f] \notin {Unmanaged, Null} => o[f] = Asked[f]
  BY DEF Wanted
<1> HIDE DEF o
<1>6. QED BY <1>3, <1>4, <1>5 DEF Record, Names

\* What nmcli adds is such a connection.
LEMMA AddedIs ==
  ASSUME TypeOK, NEW l \in Links
  PROVE  Added(l) \in Conns /\ (req.fn = "present" => Satisfies(Added(l)))
<1> DEFINE c == [NoConn EXCEPT !.exists = TRUE, !.link = l]
<1>1. c \in Record /\ c.exists = TRUE BY NoConnIs DEF Record
<1>2. Added(l) = SetOptions(c) BY DEF Added
<1> HIDE DEF c
<1>3. /\ SetOptions(c) \in Record
      /\ SetOptions(c).exists = TRUE /\ SetOptions(c).id = "ifname"
      /\ \A f \in Fields : Asked[f] \notin {Unmanaged, Null} =>
                             SetOptions(c).opts[f] = Asked[f]
  BY <1>1, SetIs
<1>4. Added(l) \in Conns BY <1>2, <1>3, RecordIs
<1>5. \A f \in Fields : Asked[f] \notin {Unmanaged, Null} =>
                          Added(l).opts[f] = Asked[f]
  BY <1>2, <1>3
<1>6. QED BY <1>2, <1>3, <1>4, <1>5, AskedIs, NmAssumption DEF Satisfies

LEMMA BareIs == BareHotspot \in Conns
<1>1. BareHotspot \in Record /\ BareHotspot.exists
  BY NoConnIs DEF BareHotspot, Record, Names, Links
<1>2. QED BY <1>1, RecordIs

LEMMA LinkIs ==
  ASSUME NEW c \in Record, NEW l \in Links
  PROVE  /\ [c EXCEPT !.link = l] \in Record
         /\ [c EXCEPT !.link = l].exists = c.exists
         /\ [c EXCEPT !.link = l].link = l
BY DEF Record
-----------------------------------------------------------------------------
LEMMA TypeInit == Init => TypeOK
<1> SUFFICES ASSUME Init PROVE TypeOK
  OBVIOUS
<1>1. conn \in Conns BY NmAssumption, NoConnIs DEF Init
<1>2. faults \in 0..MaxFaults /\ edits \in 0..MaxEdits BY NmAssumption DEF Init
<1>3. QED BY <1>1, <1>2, NoConnIs DEF Init, TypeOK, Labels

\* nmcli: what it did can be done, and it did what it says it did.
LEMMA CallIs ==
  ASSUME TypeOK, NEW applied \in BOOLEAN, NEW ok \in BOOLEAN, NEW can \in BOOLEAN,
         Call(applied, ok, can)
  PROVE  /\ ok => applied
         /\ applied => can
         /\ faults' \in 0..MaxFaults
BY NmAssumption DEF TypeOK, Call

\* How an action may end.
LEMMA EndIs ==
  ASSUME TypeOK,
         \/ \E r \in {"true", "false", "none"}, c \in BOOLEAN : Finish(r, c)
         \/ \E l \in Labels : Goto(l)
  PROVE  pc' \in Labels /\ result' \in {"true", "false", "none"} /\ changed' \in BOOLEAN
BY DEF TypeOK, Finish, Goto, report, Labels

\* The nmcli calls that write: the connection before and after, whether it was
\* applied, and how the action ends.
LEMMA AddIs ==
  ASSUME TypeOK, Add
  PROVE  /\ pc = "add" /\ UNCHANGED <<nic, edits, req, seen, before, raced>>
         /\ faults' \in 0..MaxFaults
         /\ \/ Finish("true", TRUE) /\ \E l \in Links : conn' = Added(l)
            \/ Abort /\ (conn' = conn \/ \E l \in Links : conn' = Added(l))
<1>1. PICK applied \in BOOLEAN, ok \in BOOLEAN :
        /\ Call(applied, ok, CanAdd)
        /\ conn' \in (IF applied THEN {Added(l) : l \in Links} ELSE {conn})
        /\ IF ok THEN Finish("true", TRUE) ELSE Abort
  BY DEF Add, Write
<1>2. (ok => applied) /\ faults' \in 0..MaxFaults
  <2>1. CanAdd \in BOOLEAN BY ReqIs DEF CanAdd, Request, TypeOK, Passable
  <2>2. QED BY <1>1, <2>1, CallIs
<1>3. QED BY <1>1, <1>2 DEF Add, Write

LEMMA HotspotIs ==
  ASSUME TypeOK, Hotspot
  PROVE  /\ pc = "hotspot" /\ UNCHANGED <<nic, edits, req, seen, before, raced>>
         /\ faults' \in 0..MaxFaults
         /\ \/ Goto("tune") /\ conn' = BareHotspot
            \/ Finish("false", FALSE) /\ conn' \in {conn, BareHotspot}
<1>1. PICK applied \in BOOLEAN, ok \in BOOLEAN :
        /\ Call(applied, ok, nic)
        /\ conn' \in (IF applied THEN {BareHotspot} ELSE {conn})
        /\ IF ok THEN Goto("tune") ELSE Finish("false", FALSE)
  BY DEF Hotspot, Write
<1>2. (ok => applied) /\ faults' \in 0..MaxFaults
  <2>1. nic \in BOOLEAN BY DEF TypeOK
  <2>2. QED BY <1>1, <2>1, CallIs
<1>3. QED BY <1>1, <1>2 DEF Hotspot, Write

LEMMA TuneIs ==
  ASSUME TypeOK, Tune
  PROVE  /\ pc = "tune" /\ UNCHANGED <<nic, edits, req, seen, before, raced>>
         /\ faults' \in 0..MaxFaults
         /\ \/ Finish("true", TRUE) /\ conn.exists /\ conn' = SetOptions(conn)
            \/ /\ Finish("false", FALSE)
               /\ conn' = conn \/ (conn.exists /\ conn' = SetOptions(conn))
<1> DEFINE can == conn.exists /\ conn.id = "ap_name" /\ Passable
<1>1. PICK applied \in BOOLEAN, ok \in BOOLEAN :
        /\ Call(applied, ok, can)
        /\ conn' \in (IF applied THEN {SetOptions(conn)} ELSE {conn})
        /\ IF ok THEN Finish("true", TRUE) ELSE Finish("false", FALSE)
  BY DEF Tune, Write
<1>2. can \in BOOLEAN BY ConnIs DEF TypeOK, Record, Passable
<1>3. can => conn.exists OBVIOUS
<1> HIDE DEF can
<1>4. (ok => applied) /\ (applied => can) /\ faults' \in 0..MaxFaults
  BY <1>1, <1>2, CallIs
<1>5. QED BY <1>1, <1>3, <1>4 DEF Tune, Write

LEMMA ModifyIs ==
  ASSUME TypeOK, Modify
  PROVE  /\ pc = "modify" /\ UNCHANGED <<nic, edits, req, seen, before, raced>>
         /\ faults' \in 0..MaxFaults
         /\ \/ Goto("reread") /\ conn.exists /\ conn' = SetOptions(conn)
            \/ /\ Finish("false", FALSE)
               /\ conn' = conn \/ (conn.exists /\ conn' = SetOptions(conn))
<1> DEFINE can == conn.exists /\ conn.id = seen.id
<1>1. PICK applied \in BOOLEAN, ok \in BOOLEAN :
        /\ Call(applied, ok, can)
        /\ conn' \in (IF applied THEN {SetOptions(conn)} ELSE {conn})
        /\ IF ok THEN Goto("reread") ELSE Finish("false", FALSE)
  BY DEF Modify, Write
<1>2. can \in BOOLEAN BY ConnIs DEF TypeOK, Record
<1>3. can => conn.exists OBVIOUS
<1> HIDE DEF can
<1>4. (ok => applied) /\ (applied => can) /\ faults' \in 0..MaxFaults
  BY <1>1, <1>2, CallIs
<1>5. QED BY <1>1, <1>3, <1>4 DEF Modify, Write

LEMMA DeleteIs ==
  ASSUME TypeOK, Delete
  PROVE  /\ pc = "delete" /\ UNCHANGED <<nic, edits, req, seen, before, raced>>
         /\ faults' \in 0..MaxFaults
         /\ Abort /\ conn' \in {conn, NoConn}
<1> DEFINE can == conn.exists /\ conn.id = req.name
<1>1. PICK applied \in BOOLEAN, ok \in BOOLEAN :
        /\ Call(applied, ok, can)
        /\ conn' \in (IF applied THEN {NoConn} ELSE {conn})
        /\ Abort
  BY DEF Delete, Write
<1>2. can \in BOOLEAN BY ConnIs DEF TypeOK, Record
<1> HIDE DEF can
<1>3. faults' \in 0..MaxFaults BY <1>1, <1>2, CallIs
<1>4. QED BY <1>1, <1>3 DEF Delete, Write

LEMMA UpIs ==
  ASSUME TypeOK, Up
  PROVE  /\ pc = "up" /\ UNCHANGED <<nic, edits, req, seen, before, raced>>
         /\ faults' \in 0..MaxFaults
         /\ \/ Finish("true", TRUE) /\ conn.exists /\ conn' = [conn EXCEPT !.link = "up"]
            \/ /\ Finish("false", FALSE)
               /\ \/ conn' = conn
                  \/ conn.exists /\ conn' = [conn EXCEPT !.link = "up"]
<1> DEFINE can == nic /\ conn.exists /\ conn.id = seen.id
           c   == [conn EXCEPT !.link = "up"]
<1>1. PICK applied \in BOOLEAN, ok \in BOOLEAN :
        /\ Call(applied, ok, can)
        /\ conn' \in (IF applied THEN {c} ELSE {conn})
        /\ Finish(IF ok THEN "true" ELSE "false", ok)
  BY DEF Up, Write
<1>2. can \in BOOLEAN BY ConnIs DEF TypeOK, Record
<1>3. can => conn.exists OBVIOUS
<1> HIDE DEF can, c
<1>4. (ok => applied) /\ (applied => can) /\ faults' \in 0..MaxFaults
  BY <1>1, <1>2, CallIs
<1>5. /\ \/ Finish("true", TRUE) /\ conn.exists /\ conn' = c
         \/ /\ Finish("false", FALSE)
            /\ conn' = conn \/ (conn.exists /\ conn' = c)
  BY <1>1, <1>3, <1>4
<1>6. QED BY <1>4, <1>5 DEF Up, Write, c

LEMMA DownIs ==
  ASSUME TypeOK, Down
  PROVE  /\ pc = "down" /\ UNCHANGED <<nic, edits, req, seen, before, raced>>
         /\ faults' \in 0..MaxFaults
         /\ \/ Finish("true", TRUE) /\ conn.exists /\ conn' = [conn EXCEPT !.link = "down"]
            \/ /\ Finish("false", FALSE)
               /\ \/ conn' = conn
                  \/ conn.exists /\ conn' = [conn EXCEPT !.link = "down"]
<1> DEFINE can == conn.exists /\ conn.id = seen.id /\ conn.link # "down"
           c   == [conn EXCEPT !.link = "down"]
<1>1. PICK applied \in BOOLEAN, ok \in BOOLEAN :
        /\ Call(applied, ok, can)
        /\ conn' \in (IF applied THEN {c} ELSE {conn})
        /\ Finish(IF ok THEN "true" ELSE "false", ok)
  BY DEF Down, Write
<1>2. can \in BOOLEAN BY ConnIs DEF TypeOK, Record
<1>3. can => conn.exists OBVIOUS
<1> HIDE DEF can, c
<1>4. (ok => applied) /\ (applied => can) /\ faults' \in 0..MaxFaults
  BY <1>1, <1>2, CallIs
<1>5. /\ \/ Finish("true", TRUE) /\ conn.exists /\ conn' = c
         \/ /\ Finish("false", FALSE)
            /\ conn' = conn \/ (conn.exists /\ conn' = c)
  BY <1>1, <1>3, <1>4
<1>6. QED BY <1>4, <1>5 DEF Down, Write, c
\* The calls that only read, and what they leave alone.
LEMMA ReadIs ==
  ASSUME TypeOK, Dispatch \/ Device \/ Find \/ Reread
  PROVE  /\ UNCHANGED <<nic, conn, edits, req, before, raced>>
         /\ faults' \in 0..MaxFaults
         /\ seen' \in {seen, conn, NoConn}
         /\ pc' \in Labels /\ result' \in {"true", "false", "none"}
         /\ changed' \in BOOLEAN
<1>1. CASE Dispatch
  <2>1. \/ \E r \in {"true", "false", "none"}, c \in BOOLEAN : Finish(r, c)
        \/ \E l \in Labels : Goto(l)
    BY <1>1 DEF Dispatch, Abort, Labels
  <2>2. UNCHANGED <<nic, conn, edits, req, before, raced, seen, faults>>
    BY <1>1 DEF Dispatch, world
  <2>3. QED BY <2>1, <2>2, EndIs DEF TypeOK
<1>2. CASE Device
  <2>1. \/ \E r \in {"true", "false", "none"}, c \in BOOLEAN : Finish(r, c)
        \/ \E l \in Labels : Goto(l)
    BY <1>2 DEF Device, Abort, Labels
  <2>2. faults' \in 0..MaxFaults BY <1>2, CallIs DEF Device
  <2>3. UNCHANGED <<nic, conn, edits, req, before, raced, seen>>
    BY <1>2 DEF Device, world
  <2>4. QED BY <2>1, <2>2, <2>3, EndIs DEF TypeOK
<1>3. CASE Find
  <2>1. \/ \E r \in {"true", "false", "none"}, c \in BOOLEAN : Finish(r, c)
        \/ \E l \in Labels : Goto(l)
    BY <1>3 DEF Find, PresentFound, AbsentFound, LinkFound, Abort, Labels
  <2>2. faults' \in 0..MaxFaults BY <1>3, CallIs DEF Find
  <2>3. /\ UNCHANGED <<nic, conn, edits, req, before, raced>>
        /\ seen' \in {seen, conn, NoConn}
    BY <1>3 DEF Find, world
  <2>4. QED BY <2>1, <2>2, <2>3, EndIs DEF TypeOK
<1>4. CASE Reread
  <2>1. Differs(seen, conn) \in BOOLEAN BY DEF Differs
  <2>2. \/ \E r \in {"true", "false", "none"}, c \in BOOLEAN : Finish(r, c)
        \/ \E l \in Labels : Goto(l)
    BY <1>4, <2>1 DEF Reread, Modified, Abort, Labels
  <2>3. faults' \in 0..MaxFaults BY <1>4, CallIs DEF Reread
  <2>4. UNCHANGED <<nic, conn, edits, req, before, raced, seen>>
    BY <1>4 DEF Reread, world
  <2>5. QED BY <2>2, <2>3, <2>4, EndIs DEF TypeOK
<1>5. QED BY <1>1, <1>2, <1>3, <1>4

\* The calls that write leave a connection of its kind.
LEMMA WriteType ==
  ASSUME TypeOK, Add \/ Hotspot \/ Tune \/ Modify \/ Delete \/ Up \/ Down
  PROVE  TypeOK'
<1> SUFFICES /\ conn' \in Conns /\ faults' \in 0..MaxFaults
             /\ UNCHANGED <<nic, edits, req, seen, before, raced>>
             /\ pc' \in Labels /\ result' \in {"true", "false", "none"}
             /\ changed' \in BOOLEAN
  BY DEF TypeOK
<1>1. conn \in Conns /\ conn \in Record BY ConnIs DEF TypeOK
<1>2. conn.exists => SetOptions(conn) \in Conns BY <1>1, SetIs, RecordIs
<1>3. ASSUME NEW l \in Links, conn.exists
      PROVE  [conn EXCEPT !.link = l] \in Conns
  BY <1>1, <1>3, LinkIs, RecordIs
<1>4. "up" \in Links /\ "down" \in Links BY DEF Links
<1>5. "tune" \in Labels /\ "reread" \in Labels BY DEF Labels
<1>6. CASE Add BY <1>1, <1>6, AddIs, AddedIs, EndIs DEF Abort
<1>7. CASE Hotspot BY <1>1, <1>5, <1>7, HotspotIs, BareIs, EndIs
<1>8. CASE Tune BY <1>1, <1>2, <1>8, TuneIs, EndIs
<1>9. CASE Modify BY <1>1, <1>2, <1>5, <1>9, ModifyIs, EndIs
<1>10. CASE Delete BY <1>1, <1>10, DeleteIs, NoConnIs, EndIs DEF Abort
<1>11. CASE Up BY <1>1, <1>3, <1>4, <1>11, UpIs, EndIs
<1>12. CASE Down BY <1>1, <1>3, <1>4, <1>12, DownIs, EndIs
<1>13. QED BY <1>6, <1>7, <1>8, <1>9, <1>10, <1>11, <1>12

LEMMA ConsoleType == TypeOK /\ Console => conn' \in Conns
<1> SUFFICES ASSUME TypeOK, Console PROVE conn' \in Conns
  OBVIOUS
<1>1. conn \in Conns /\ conn \in Record BY ConnIs DEF TypeOK
<1>2. CASE conn' \in {NoConn} \cup Foreign BY <1>2, NmAssumption, NoConnIs
<1>3. ASSUME conn.exists, NEW l \in Links, conn' = [conn EXCEPT !.link = l]
      PROVE  conn' \in Conns
  BY <1>1, <1>3, LinkIs, RecordIs
<1>4. ASSUME ~conn.exists, conn' = [conn EXCEPT !.link = "down"]
      PROVE  conn' \in Conns
  <2>1. conn.link = "down" BY <1>1, <1>4, ConnIs DEF NoConn
  <2>2. conn' = conn BY <1>1, <1>4, <2>1 DEF Record
  <2>3. QED BY <1>1, <2>2
<1>5. QED BY <1>2, <1>3, <1>4 DEF Console

LEMMA TypeNext == TypeOK /\ [Next]_vars => TypeOK'
<1> SUFFICES ASSUME TypeOK, [Next]_vars PROVE TypeOK'
  OBVIOUS
<1>1. CASE Start BY <1>1, NoConnIs DEF Start, TypeOK, Labels, world
<1>2. CASE Dispatch \/ Device \/ Find \/ Reread
  BY <1>2, ReadIs, NoConnIs DEF TypeOK
<1>3. CASE Add \/ Hotspot \/ Tune \/ Modify \/ Delete \/ Up \/ Down
  BY <1>3, WriteType
<1>4. CASE Killed
  <2>1. faults' \in 0..MaxFaults BY <1>4, NmAssumption DEF Killed, TypeOK
  <2>2. QED BY <1>4, <2>1 DEF Killed, TypeOK, Labels, world, report
<1>5. CASE Console
  <2>1. edits' \in 0..MaxEdits BY <1>5, NmAssumption DEF Console, TypeOK
  <2>2. conn' \in Conns BY <1>5, ConsoleType
  <2>3. QED BY <1>5, <2>1, <2>2 DEF Console, TypeOK, report
<1>6. CASE Rewrite
  <2>1. edits' \in 0..MaxEdits BY <1>6, NmAssumption DEF Rewrite, TypeOK
  <2>2. QED BY <1>6, <2>1 DEF Rewrite, TypeOK, Labels, report
<1>7. CASE UNCHANGED vars BY <1>7 DEF vars, TypeOK
<1>8. QED BY <1>1, <1>2, <1>3, <1>4, <1>5, <1>6, <1>7 DEF Next, Step

\* Every variable always holds a value of its kind.
THEOREM NmTypes == Spec => []TypeOK
BY TypeInit, TypeNext, PTL DEF Spec
-----------------------------------------------------------------------------
\* The inductive invariant.  Each call belongs to its state function; and a
\* run that nobody disturbs knows what it has to do with: until it writes, the
\* connection is as it was before; what is made was not there; and between a
\* modification and the list of its changes the connection is the one that was
\* read, with the options set.
OwnCall ==
  /\ pc \in {"add", "hotspot", "tune", "modify", "reread"} => req.fn = "present"
  /\ pc = "delete" => req.fn = "absent"
  /\ pc = "up" => req.fn = "active"
  /\ pc = "down" => req.fn = "inactive"

Undisturbed ==
  ~raced =>
    /\ pc \in {"start", "device", "find", "add", "hotspot", "modify", "delete",
               "up", "down"} => conn = before
    /\ pc \in {"add", "hotspot", "tune"} => ~before.exists
    /\ pc \in {"modify", "reread"} => seen = before
    /\ pc = "reread" => before.exists /\ conn = SetOptions(before)

Promises == TruthfulSuccess /\ HonestSuccess /\ KeepsUnmanaged

NmInv == OwnCall /\ Undisturbed /\ Promises

LEMMA NmInit == Init => NmInv
BY DEF Init, NmInv, OwnCall, Undisturbed, Promises, TruthfulSuccess,
       HonestSuccess, KeepsUnmanaged, Running

\* Setting the options leaves what present was asked for.
LEMMA SetSatisfies ==
  ASSUME TypeOK, NEW c \in Record, c.exists, req.fn = "present"
  PROVE  Satisfies(SetOptions(c))
<1>1. /\ SetOptions(c).exists = c.exists /\ SetOptions(c).id = "ifname"
      /\ \A f \in Fields : Asked[f] \notin {Unmanaged, Null} =>
                             SetOptions(c).opts[f] = Asked[f]
  BY SetIs
<1>2. QED BY <1>1, AskedIs, NmAssumption DEF Satisfies

\* So does a connection that is shown as it is wanted, where it can be read.
LEMMA EqualSatisfies ==
  ASSUME TypeOK, conn.exists, req.fn = "present", Equal(conn), Legible
  PROVE  Satisfies(conn)
<1>1. conn.opts \in [Fields -> Values \cup {Null}]
  BY ConnIs DEF TypeOK, Record, Options
<1>2. ASSUME NEW f \in Wanted PROVE conn.opts[f] = Asked[f]
  <2>1. f \in Fields /\ f \notin Aliases /\ conn.opts[f] \in Values \cup {Null}
    BY <1>1 DEF Wanted, Legible
  <2>2. Shown[f][conn.opts[f]] = Asked[f] BY <2>1 DEF Equal, ShownAs
  <2>3. QED BY <2>1, <2>2 DEF Legible
<1>3. \A f \in Fields : Asked[f] # Unmanaged => conn.opts[f] = Asked[f]
  BY <1>2 DEF Wanted
<1>4. conn.id = "ifname" BY DEF Equal
<1>5. QED BY <1>3, <1>4, AskedIs, NmAssumption DEF Satisfies

\* A modification whose changes cannot be seen made none.
LEMMA DiffersSeen ==
  ASSUME TypeOK, NEW c \in Record, ~Differs(c, SetOptions(c)), Legible
  PROVE  c = SetOptions(c)
<1>1. /\ SetOptions(c) \in Record
      /\ SetOptions(c).exists = c.exists /\ SetOptions(c).link = c.link
      /\ \A f \in Fields :
           /\ Asked[f] \in {Unmanaged, Null} => SetOptions(c).opts[f] = c.opts[f]
           /\ Asked[f] \notin {Unmanaged, Null} =>
                SetOptions(c).opts[f] = Asked[f]
  BY SetIs
<1>2. c.id = SetOptions(c).id BY DEF Differs
<1>3. c.opts \in Options /\ SetOptions(c).opts \in Options BY <1>1 DEF Record
<1>4. ASSUME NEW f \in Fields PROVE SetOptions(c).opts[f] = c.opts[f]
  <2>1. CASE Asked[f] \in {Unmanaged, Null} BY <1>1, <2>1
  <2>2. CASE Asked[f] \notin {Unmanaged, Null}
    <3>1. f \in Wanted /\ f \notin Aliases BY <2>2 DEF Wanted, Legible
    <3>2. Shown[f][c.opts[f]] = Shown[f][SetOptions(c).opts[f]]
      BY <3>1 DEF Differs, ShownAs
    <3>3. SetOptions(c).opts[f] = Asked[f] BY <1>1, <2>2
    <3>4. c.opts[f] \in Values \cup {Null}
          /\ SetOptions(c).opts[f] \in Values \cup {Null}
      BY <1>3 DEF Options
    <3>5. QED BY <3>1, <3>2, <3>3, <3>4 DEF Legible
  <2>3. QED BY <2>1, <2>2
<1>5. c.opts = SetOptions(c).opts BY <1>3, <1>4 DEF Options
<1>6. QED BY <1>1, <1>2, <1>5 DEF Record

\* A run that left the connection as it was keeps the promises, if a success
\* means that it was as asked.
LEMMA Untouched ==
  ASSUME TypeOK', ~raced' => conn' = before',
         pc' = "done" /\ result' = "true" /\ ~raced' /\ Legible' => Satisfies(conn)'
  PROVE  Promises'
BY DEF Promises, TruthfulSuccess, HonestSuccess, KeepsUnmanaged

\* Nor does one that fails after it wrote, if it kept what it had to.
LEMMA Failed ==
  ASSUME KeepsUnmanaged', pc' # "done" \/ result' = "false"
  PROVE  Promises'
BY DEF Promises, TruthfulSuccess, HonestSuccess
\* Reading changes nothing, and a success found what was asked.
LEMMA ReadKeeps ==
  ASSUME TypeOK, TypeOK', NmInv, Dispatch \/ Device \/ Find
  PROVE  NmInv'
<1> USE DEF NmInv
<1>1. pc \in {"start", "device", "find"}
  BY DEF Dispatch, Device, Find
<1>2. UNCHANGED <<nic, conn, edits, req, before, raced>> BY ReadIs
<1>3. ~raced => conn = before BY <1>1 DEF Undisturbed
<1>4. CASE Dispatch
  <2>1. \/ pc' = "done" /\ result' # "true"
        \/ pc' \in {"device", "find"}
    BY <1>4 DEF Dispatch, Abort, Finish, Goto
  <2>2. Promises' BY <1>2, <1>3, <2>1, Untouched
  <2>3. QED BY <1>2, <1>3, <2>1, <2>2 DEF OwnCall, Undisturbed
<1>5. CASE Device
  <2>1. (pc' = "done" /\ result' # "true") \/ pc' = "find"
    BY <1>5 DEF Device, Abort, Finish, Goto
  <2>2. Promises' BY <1>2, <1>3, <2>1, Untouched
  <2>3. QED BY <1>2, <1>3, <2>1, <2>2 DEF OwnCall, Undisturbed
<1>6. CASE Find
  <2>1. PICK ok \in BOOLEAN :
          \/ ~ok /\ ~ByName /\ Abort /\ UNCHANGED seen
          \/ /\ ok \/ ByName
             /\ seen' = (IF ok /\ Found THEN conn ELSE NoConn)
             /\ \/ req.fn = "present" /\ PresentFound(ok /\ Found)
                \/ req.fn = "absent" /\ AbsentFound(ok /\ Found)
                \/ req.fn \in {"active", "inactive"} /\ LinkFound(ok /\ Found)
    BY <1>6 DEF Find
  <2>2. CASE ~ok /\ ~ByName /\ Abort /\ UNCHANGED seen
    <3>1. pc' = "done" /\ result' = "false" BY <2>2 DEF Abort, Finish
    <3>2. Promises' BY <1>2, <1>3, <3>1, Untouched
    <3>3. QED BY <1>2, <1>3, <3>1, <3>2 DEF OwnCall, Undisturbed
  <2>3. CASE /\ ok \/ ByName
             /\ seen' = (IF ok /\ Found THEN conn ELSE NoConn)
             /\ req.fn = "present" /\ PresentFound(ok /\ Found)
    <3>1. ok /\ (Found <=> conn.exists) BY <2>3 DEF ByName, Found
    <3>2. \/ pc' = "done" /\ result' = "false"
          \/ pc' = "done" /\ result' = "true" /\ conn.exists /\ Equal(conn)
          \/ pc' \in {"add", "hotspot"} /\ ~conn.exists
          \/ pc' = "modify" /\ conn.exists /\ seen' = conn
      BY <2>3, <3>1 DEF PresentFound, Finish, Goto
    <3>3. pc' = "done" /\ result' = "true" /\ Legible => Satisfies(conn)
      BY <2>3, <3>2, EqualSatisfies
    <3>4. Legible' = Legible /\ Satisfies(conn)' = Satisfies(conn)
      BY <1>2 DEF Legible, Wanted, Satisfies, Asked
    <3>5. Promises' BY <1>2, <1>3, <3>3, <3>4, Untouched
    <3>6. OwnCall' BY <1>2, <2>3, <3>2 DEF OwnCall
    <3>7. Undisturbed' BY <1>2, <1>3, <3>2 DEF Undisturbed
    <3>8. QED BY <3>5, <3>6, <3>7
  <2>4. CASE /\ req.fn = "absent" /\ AbsentFound(ok /\ Found)
    <3>1. (pc' = "done" /\ result' = "false") \/ pc' = "delete"
      BY <2>4 DEF AbsentFound, Abort, Finish, Goto
    <3>2. Promises' BY <1>2, <1>3, <3>1, Untouched
    <3>3. QED BY <1>2, <1>3, <2>4, <3>1, <3>2 DEF OwnCall, Undisturbed
  <2>5. CASE req.fn \in {"active", "inactive"} /\ LinkFound(ok /\ Found)
    <3>1. \/ pc' = "done" /\ result' = "false"
          \/ /\ pc' = "done" /\ conn.exists
             /\ conn.link = IF req.fn = "active" THEN "up" ELSE "down"
          \/ pc' = "up" /\ req.fn = "active"
          \/ pc' = "down" /\ req.fn = "inactive"
      BY <2>5 DEF LinkFound, Found, Finish, Goto
    <3>2. pc' = "done" /\ result' = "true" => Satisfies(conn)
      BY <2>5, <3>1 DEF Satisfies
    <3>3. Satisfies(conn)' = Satisfies(conn) BY <1>2 DEF Satisfies, Asked
    <3>4. Promises' BY <1>2, <1>3, <3>2, <3>3, Untouched
    <3>5. QED BY <1>2, <1>3, <3>1, <3>4 DEF OwnCall, Undisturbed
  <2>6. QED BY <2>1, <2>2, <2>3, <2>4, <2>5
<1>7. QED BY <1>4, <1>5, <1>6

\* The list of the changes.
LEMMA RereadKeeps ==
  ASSUME TypeOK, TypeOK', NmInv, Reread
  PROVE  NmInv'
<1> USE DEF NmInv
<1>1. pc = "reread" /\ pc' = "done" BY DEF Reread, Modified, Abort, Finish
<1>2. UNCHANGED <<nic, conn, edits, req, before, raced>> BY ReadIs
<1>3. req.fn = "present" BY <1>1 DEF OwnCall
<1>4. OwnCall' /\ Undisturbed' BY <1>1 DEF OwnCall, Undisturbed
<1>5. CASE raced
  BY <1>2, <1>4, <1>5 DEF Promises, TruthfulSuccess, HonestSuccess, KeepsUnmanaged
<1>6. CASE ~raced
  <2>1. seen = before /\ before.exists /\ conn = SetOptions(before)
    BY <1>1, <1>6 DEF Undisturbed
  <2>2. before \in Record BY ConnIs DEF TypeOK
  <2>3. KeepsUnmanaged'
    <3>1. KeepsUnmanaged BY DEF Promises
    <3>2. Running BY <1>1 DEF Running
    <3>3. Asked' = Asked BY <1>2 DEF Asked
    <3>4. QED BY <1>2, <3>1, <3>2, <3>3 DEF KeepsUnmanaged
  <2>4. \/ result' = "false"
        \/ result' = "true" /\ changed' = Differs(seen, conn)
    BY DEF Reread, Modified, Abort, Finish
  <2>5. CASE result' = "false" BY <1>4, <2>3, <2>5, Failed
  <2>6. CASE result' = "true" /\ changed' = Differs(seen, conn)
    <3>1. Satisfies(conn) BY <1>3, <2>1, <2>2, SetSatisfies
    <3>2. Satisfies(conn)' = Satisfies(conn) BY <1>2 DEF Satisfies, Asked
    <3>3. TruthfulSuccess' BY <3>1, <3>2 DEF TruthfulSuccess
    <3>4. Legible' = Legible BY <1>2 DEF Legible, Wanted, Asked
    <3>5. before # conn => Differs(seen, conn) \/ ~Legible
      BY <2>1, <2>2, DiffersSeen
    <3>6. HonestSuccess' BY <1>2, <2>6, <3>4, <3>5 DEF HonestSuccess
    <3>7. QED BY <1>4, <2>3, <3>3, <3>6 DEF Promises
  <2>7. QED BY <2>4, <2>5, <2>6
<1>7. QED BY <1>2, <1>5, <1>6 DEF TypeOK
\* What is made was not there, and is as asked when the run says so.
LEMMA MakeKeeps ==
  ASSUME TypeOK, TypeOK', NmInv, Add \/ Hotspot \/ Tune
  PROVE  NmInv'
<1> USE DEF NmInv
<1>1. pc \in {"add", "hotspot", "tune"} /\ UNCHANGED <<req, before, raced>>
  BY AddIs, HotspotIs, TuneIs
<1>2. req.fn = "present" BY <1>1 DEF OwnCall
<1>3. ~raced => ~before.exists BY <1>1 DEF Undisturbed
<1>4. KeepsUnmanaged' BY <1>1, <1>3 DEF KeepsUnmanaged
<1>5. pc' \in {"tune", "done"}
  BY AddIs, HotspotIs, TuneIs DEF Goto, Abort, Finish
<1>6. OwnCall' /\ Undisturbed' BY <1>1, <1>2, <1>3, <1>5 DEF OwnCall, Undisturbed
<1>7. \/ pc' # "done" \/ result' = "false"
      \/ result' = "true" /\ changed' = TRUE /\ Satisfies(conn')
  <2>1. CASE Add
    <3>1. \A l \in Links : Satisfies(Added(l)) BY <1>2, AddedIs
    <3>2. QED BY <2>1, <3>1, AddIs DEF Abort, Finish
  <2>2. CASE Hotspot BY <2>2, HotspotIs DEF Goto, Finish
  <2>3. CASE Tune
    <3>1. conn \in Record BY ConnIs DEF TypeOK
    <3>2. conn.exists => Satisfies(SetOptions(conn)) BY <1>2, <3>1, SetSatisfies
    <3>3. QED BY <2>3, <3>2, TuneIs DEF Finish
  <2>4. QED BY <2>1, <2>2, <2>3
<1>8. CASE pc' # "done" \/ result' = "false" BY <1>4, <1>6, <1>8, Failed
<1>9. CASE result' = "true" /\ changed' = TRUE /\ Satisfies(conn')
  <2>1. Satisfies(conn') => Satisfies(conn)' BY <1>1 DEF Satisfies, Asked
  <2>2. QED BY <1>4, <1>6, <1>9, <2>1 DEF Promises, TruthfulSuccess, HonestSuccess
<1>10. QED BY <1>7, <1>8, <1>9

\* A modification keeps what the pillar leaves alone, even if it is then said
\* to have failed.
LEMMA ModifyKeeps ==
  ASSUME TypeOK, TypeOK', NmInv, Modify
  PROVE  NmInv'
<1> USE DEF NmInv
<1>1. pc = "modify" /\ UNCHANGED <<req, seen, before, raced>> BY ModifyIs
<1>2. \/ pc' = "reread" /\ conn.exists /\ conn' = SetOptions(conn)
      \/ pc' = "done" /\ result' = "false" /\ conn' \in {conn, SetOptions(conn)}
  BY ModifyIs DEF Goto, Finish
<1>3. req.fn = "present" BY <1>1 DEF OwnCall
<1>4. ~raced => conn = before /\ seen = before BY <1>1 DEF Undisturbed
<1>5. SetOptions(before)' = SetOptions(before)
  BY <1>1 DEF SetOptions, Wanted, Asked
<1>6. OwnCall' /\ Undisturbed'
  BY <1>1, <1>2, <1>3, <1>4, <1>5 DEF OwnCall, Undisturbed
<1>7. KeepsUnmanaged'
  <2>1. before \in Record BY ConnIs DEF TypeOK
  <2>2. /\ SetOptions(before).exists = before.exists
        /\ SetOptions(before).link = before.link
        /\ \A f \in Fields : Asked[f] \in {Unmanaged, Null} =>
                               SetOptions(before).opts[f] = before.opts[f]
    BY <2>1, SetIs
  <2>3. ~raced => conn' \in {before, SetOptions(before)} BY <1>2, <1>4
  <2>4. /\ SetOptions(before).opts[AutoConnect] = Asked[AutoConnect]
        /\ \A f \in Fields \ {AutoConnect} : req.want[f] \in {Unmanaged, Null} =>
             SetOptions(before).opts[f] = before.opts[f]
    BY <2>1, SetIs, AskedIs, NmAssumption
  <2>5. Asked' = Asked BY <1>1 DEF Asked
  <2>6. QED BY <1>1, <2>2, <2>3, <2>4, <2>5 DEF KeepsUnmanaged
<1>8. QED BY <1>2, <1>6, <1>7, Failed

\* absent never succeeds; active and inactive succeed after nmcli did.
LEMMA LinkKeeps ==
  ASSUME TypeOK, TypeOK', NmInv, Delete \/ Up \/ Down
  PROVE  NmInv'
<1> USE DEF NmInv
<1>1. pc \in {"delete", "up", "down"} /\ UNCHANGED <<req, before, raced>>
  BY DeleteIs, UpIs, DownIs
<1>2. req.fn # "present" BY <1>1 DEF OwnCall
<1>3. pc' = "done" BY DeleteIs, UpIs, DownIs DEF Abort, Finish
<1>4. OwnCall' /\ Undisturbed' BY <1>3 DEF OwnCall, Undisturbed
<1>5. KeepsUnmanaged' BY <1>1, <1>2 DEF KeepsUnmanaged
<1>6. conn \in Record BY ConnIs DEF TypeOK
<1>7. \/ result' = "false"
      \/ /\ result' = "true" /\ changed' = TRUE /\ conn'.exists
         /\ conn'.link = IF req.fn = "active" THEN "up" ELSE "down"
         /\ req.fn \in {"active", "inactive"}
  <2>1. CASE Delete BY <2>1, DeleteIs DEF Abort, Finish
  <2>2. CASE Up
    <3>1. req.fn = "active" BY <2>2, UpIs DEF OwnCall
    <3>2. "up" \in Links BY DEF Links
    <3>3. QED BY <1>6, <2>2, <3>1, <3>2, UpIs, LinkIs DEF Finish
  <2>3. CASE Down
    <3>1. req.fn = "inactive" BY <2>3, DownIs DEF OwnCall
    <3>2. "down" \in Links BY DEF Links
    <3>3. QED BY <1>6, <2>3, <3>1, <3>2, DownIs, LinkIs DEF Finish
  <2>4. QED BY <2>1, <2>2, <2>3
<1>8. CASE result' = "false" BY <1>4, <1>5, <1>8, Failed
<1>9. CASE /\ result' = "true" /\ changed' = TRUE /\ conn'.exists
           /\ conn'.link = IF req.fn = "active" THEN "up" ELSE "down"
           /\ req.fn \in {"active", "inactive"}
  <2>1. Satisfies(conn)' BY <1>1, <1>9 DEF Satisfies
  <2>2. QED BY <1>4, <1>5, <1>9, <2>1 DEF Promises, TruthfulSuccess, HonestSuccess
<1>10. QED BY <1>7, <1>8, <1>9

\* What is not a call of the run.
LEMMA OthersKeep ==
  ASSUME TypeOK, TypeOK', NmInv,
         Start \/ Killed \/ Console \/ Rewrite \/ UNCHANGED vars
  PROVE  NmInv'
<1> USE DEF NmInv, OwnCall, Undisturbed
<1>1. CASE Start
  <2>1. pc' = "start" /\ conn' = before' BY <1>1 DEF Start, world
  <2>2. Promises' BY <2>1, Untouched
  <2>3. QED BY <2>1, <2>2
<1>2. CASE Killed \/ Rewrite
  <2>1. pc' = "idle" BY <1>2 DEF Killed, Rewrite
  <2>2. Promises'
    BY <2>1 DEF Promises, TruthfulSuccess, HonestSuccess, KeepsUnmanaged, Running
  <2>3. QED BY <2>1, <2>2
<1>3. CASE Console
  <2>1. raced' /\ UNCHANGED <<req, pc>> BY <1>3 DEF Console
  <2>2. Promises' BY <2>1 DEF Promises, TruthfulSuccess, HonestSuccess, KeepsUnmanaged
  <2>3. QED BY <2>1, <2>2
<1>4. CASE UNCHANGED vars
  <2>1. UNCHANGED <<conn, req, pc, seen, result, changed, before, raced>>
    BY <1>4 DEF vars
  <2>2. Asked' = Asked BY <2>1 DEF Asked
  <2>3. Legible' = Legible BY <2>2 DEF Legible, Wanted
  <2>4. Satisfies(conn)' = Satisfies(conn) BY <2>1, <2>2 DEF Satisfies
  <2>5. SetOptions(before)' = SetOptions(before)
    BY <2>1, <2>2 DEF SetOptions, Wanted
  <2>6. TruthfulSuccess' /\ HonestSuccess'
    BY <2>1, <2>3, <2>4 DEF Promises, TruthfulSuccess, HonestSuccess
  <2>7. KeepsUnmanaged' BY <2>1, <2>2 DEF Promises, KeepsUnmanaged, Running
  <2>8. OwnCall' /\ Undisturbed' BY <2>1, <2>5
  <2>9. QED BY <2>6, <2>7, <2>8 DEF Promises
<1>5. QED BY <1>1, <1>2, <1>3, <1>4

LEMMA NmNext == TypeOK /\ NmInv /\ [Next]_vars => NmInv'
<1> SUFFICES ASSUME TypeOK, NmInv, [Next]_vars PROVE NmInv'
  OBVIOUS
<1>1. TypeOK' BY TypeNext
<1>2. CASE Step
  BY <1>1, <1>2, ReadKeeps, RereadKeeps, MakeKeeps, ModifyKeeps, LinkKeeps DEF Step
<1>3. CASE Start \/ Killed \/ Console \/ Rewrite \/ UNCHANGED vars
  BY <1>1, <1>3, OthersKeep
<1>4. QED BY <1>2, <1>3 DEF Next

LEMMA NmAlways == Spec => [](TypeOK /\ NmInv)
<1>1. Init => TypeOK /\ NmInv BY TypeInit, NmInit
<1>2. (TypeOK /\ NmInv) /\ [Next]_vars => (TypeOK /\ NmInv)'
  BY TypeNext, NmNext
<1>3. QED BY <1>1, <1>2, PTL DEF Spec

\* A run that succeeds without disturbance leaves the connection as asked,
\* where nmcli shows what is compared; connection.autoconnect is then as the
\* keyword says, or on, whatever the options say.
THEOREM NmTruthful == Spec => []TruthfulSuccess
<1>1. NmInv => TruthfulSuccess BY DEF NmInv, Promises
<1>2. QED BY <1>1, NmAlways, PTL

\* A run that succeeds without disturbance tells of every visible difference it
\* made, and a test makes none, unless it is one of absent.
THEOREM NmHonest == Spec => []HonestSuccess
<1>1. NmInv => HonestSuccess BY DEF NmInv, Promises
<1>2. QED BY <1>1, NmAlways, PTL

\* present never disturbs an option that the pillar leaves alone, nor takes the
\* link down, at any moment of a run; connection.autoconnect, which the code
\* sets without being asked, is left as it was or set as _check_options has it.
THEOREM NmKeeps == Spec => []KeepsUnmanaged
<1>1. NmInv => KeepsUnmanaged BY DEF NmInv, Promises
<1>2. QED BY <1>1, NmAlways, PTL
=============================================================================
