---------------------------- MODULE NmConnection ----------------------------
(***************************************************************************)
(* The states nmconnection.present, absent, active and inactive, run again *)
(* and again for one network device, whose connection other hands may      *)
(* change between any two calls of nmcli.                                  *)
(*                                                                         *)
(* One action is one round of nmcli calls that reads, or one nmcli call    *)
(* that writes, with the Python code up to the next one.  nmcli shows some *)
(* fields otherwise than they were set, and does not show others.          *)
(***************************************************************************)
EXTENDS Integers

CONSTANTS
  Fields,     \* connection options a pillar may set
  Aliases,    \* those that nmcli does not show under this name
  AutoConnect, \* connection.autoconnect, which the state sets itself
  Values,     \* their values, as set and as shown
  Yes, No,    \* those of connection.autoconnect
  Null,       \* None: the option is named without a value
  Unmanaged,  \* the pillar does not name the option
  Shown,      \* how nmcli shows a value of a field
  Foreign,    \* the connections that somebody else makes
  Requests,   \* what a pillar may ask for
  MaxFaults,  \* bound on failed nmcli calls and killed jobs
  MaxEdits    \* bound on changes made by others and pillar rewrites

Names   == {"ifname", "ap_name"}
Links   == {"down", "activating", "up"}
Options == [Fields -> Values \cup {Null}]
NoConn  == [exists |-> FALSE, id |-> "ifname", opts |-> [f \in Fields |-> Null],
            link |-> "down"]
Conns   == {NoConn} \cup
           [exists : {TRUE}, id : Names, opts : Options, link : Links]

Request == [fn     : {"present", "absent", "active", "inactive"},
            name   : Names,                 \* absent, active, inactive
            hwaddr : BOOLEAN,               \* the device is named by its address
            type   : {"ethernet", "wifi", "hotspot", "hostpot"},
            want   : [Fields -> Values \cup {Null, Unmanaged}],   \* options
            auto   : {Yes, No, Unmanaged},  \* the keyword autoconnect
            ap     : BOOLEAN,               \* ap_name and ap_psk are given
            ssid   : BOOLEAN,               \* options name the Wi-Fi network
            test   : BOOLEAN]

ASSUME NmAssumption ==
  /\ Aliases \subseteq Fields
  /\ AutoConnect \in Fields /\ {Yes, No} \subseteq Values
  /\ Null \notin Values /\ Unmanaged \notin Values \cup {Null}
  /\ Shown \in [Fields -> [Values \cup {Null} -> Values \cup {Null}]]
  /\ Foreign \subseteq Conns
  /\ Requests \subseteq Request
  /\ MaxFaults \in Nat /\ MaxEdits \in Nat

VARIABLES
  nic,       \* the device is there
  conn,      \* the connection bound to it
  req,       \* the state's arguments
  pc,        \* the nmcli call the run makes next, or "idle" or "done"
  seen,      \* conn, as the run read it
  result,    \* ret['result'], as Salt has it
  changed,   \* ret['changes'] is not {}
  faults, edits,
  \* What an observer of the run knows:
  before,    \* the connection when the run began
  raced      \* somebody else changed something since the run began

world  == <<nic, conn, edits>>
report == <<result, changed>>
vars   == <<nic, conn, req, pc, seen, result, changed, faults, edits,
            before, raced>>

Running == pc \notin {"idle", "done"}

-----------------------------------------------------------------------------
(* Pure parts of the code, and what nmcli does. *)

\* _check_options: connection.autoconnect is what the keyword says, and without
\* it on, whatever the options say.  It also names the device as the
\* connection's interface, which is how the connection was found, and as its
\* name (see SetOptions): what the options say of these two is never used.
Asked ==
  [req.want EXCEPT ![AutoConnect] = IF req.auto = Unmanaged THEN Yes ELSE req.auto]

Wanted == {f \in Fields : Asked[f] # Unmanaged}

\* Two views of a field through nmcli's list of the connection.
ShownAs(c, f) == Shown[f][c.opts[f]]

\* (Mutant: the name is not among the options compared.)
EqualOptions(c) == \A f \in Wanted \ Aliases : ShownAs(c, f) = Asked[f]
\* An option that the connection does not show is not compared; its name is.
Equal(c) == /\ c.id = "ifname"
            /\ \A f \in Wanted \ Aliases : ShownAs(c, f) = Asked[f]

\* (Mutants: options that the pillar leaves alone are reset; everything is
\* set; the name is not.)
SetOrReset(c) ==
  [c EXCEPT !.id = "ifname",
            !.opts = [f \in Fields |->
              IF f \in Wanted THEN Asked[f] ELSE Null]]
SetEvery(c) == [c EXCEPT !.id = "ifname", !.opts = Asked]
SetUnnamed(c) ==
  [c EXCEPT !.opts = [f \in Fields |->
              IF f \in Wanted /\ Asked[f] # Null THEN Asked[f]
                                                    ELSE c.opts[f]]]
\* nmcli.connection.modify; _check_options names the connection after the
\* device, and _clean_options drops the options without a value.
SetOptions(c) ==
  [c EXCEPT !.id = "ifname",
            !.opts = [f \in Fields |->
              IF f \in Wanted /\ Asked[f] # Null THEN Asked[f]
                                                    ELSE c.opts[f]]]

\* Only _ethernet and the modifications clean the options; without, an option
\* that is None makes the call fail.
Passable == \A f \in Fields : Asked[f] # Null

\* (Mutant: only what the pillar names is looked at, not the connection's name.)
DiffersOptions(c, d) == \E f \in Wanted \ Aliases : ShownAs(c, f) # ShownAs(d, f)
\* _changes: what is shown otherwise than before, among the options.
Differs(c, d) == \/ c.id # d.id
                 \/ \E f \in Wanted \ Aliases : ShownAs(c, f) # ShownAs(d, f)

\* nmcli.connection.add and nmcli.device.wifi_hotspot make a connection; the
\* first is brought up by NetworkManager when it can.
Added(link)  == SetOptions([NoConn EXCEPT !.exists = TRUE, !.link = link])
BareHotspot  == [NoConn EXCEPT !.exists = TRUE, !.id = "ap_name", !.link = "up"]

\* A Wi-Fi connection cannot be added without the name of the network, which
\* _check_options would add in a case that never matches ('wifi|hotpspot').
CanAdd == nic /\ (req.type = "wifi" => req.ssid /\ Passable)

-----------------------------------------------------------------------------
Init ==
  /\ nic \in BOOLEAN
  /\ conn \in {NoConn} \cup Foreign
  /\ ~nic => conn.link = "down"
  /\ req \in Requests
  /\ pc = "idle" /\ seen = NoConn
  /\ result = "false" /\ changed = FALSE
  /\ faults = 0 /\ edits = 0
  /\ before = conn /\ raced = FALSE

\* nmcli does (or not) what it can, and exits with ok (or an exception).
Call(applied, ok, can) ==
  /\ ok => applied
  /\ applied => can
  /\ \/ applied = can /\ ok = can /\ UNCHANGED faults
     \/ /\ ~(applied = can /\ ok = can)
        /\ faults < MaxFaults
        /\ faults' = faults + 1

Finish(r, c) == pc' = "done" /\ result' = r /\ changed' = c

\* An exception, or a return value that Salt refuses ('changes' is a set, or
\* missing), is a failed state without changes.
Abort == Finish("false", FALSE)

Goto(l) == pc' = l /\ UNCHANGED report

\* The compiler calls the state function.
Start ==
  /\ ~Running
  /\ pc' = "start"
  /\ seen' = NoConn
  /\ result' = "false" /\ changed' = FALSE
  /\ before' = conn /\ raced' = FALSE
  /\ UNCHANGED <<world, req, faults>>

\* absent takes no notice of test; a type that present does not know ends in
\* KeyError: nmconnections.sls writes "hostpot".
Dispatch ==
  /\ pc = "start"
  /\ \/ req.test /\ req.fn # "absent" /\ Finish("none", FALSE)
     \/ /\ ~(req.test /\ req.fn # "absent")
        /\ \/ req.fn = "present" /\ req.type = "hostpot" /\ Abort
           \/ req.fn = "present" /\ req.type # "hostpot" /\ Goto("device")
           \/ req.fn \in {"active", "inactive"} /\ req.hwaddr /\ Goto("device")
           \/ req.fn = "absent" /\ Goto("find")
           \/ req.fn \in {"active", "inactive"} /\ ~req.hwaddr /\ Goto("find")
  /\ UNCHANGED <<world, req, seen, faults, before, raced>>

\* _pick_device: nmcli.device(), and device.show of each for its address.
\* active and inactive ask a missing device for its name.
Device ==
  /\ pc = "device"
  /\ \E ok \in BOOLEAN :
       /\ Call(ok, ok, TRUE)
       /\ \/ ~ok /\ Abort
          \/ ok /\ ~nic /\ Finish("false", FALSE)
          \/ ok /\ nic /\ Goto("find")
  /\ UNCHANGED <<world, req, seen, before, raced>>

\* The connection is looked up by name, where a failure reads as its absence,
\* or by device.
ByName == req.fn = "absent" \/ (req.fn # "present" /\ ~req.hwaddr)
Found  == conn.exists /\ (ByName => conn.id = req.name)

PresentFound(found) ==
  \/ /\ ~found /\ req.type = "ethernet" /\ Goto("add")
  \/ /\ ~found /\ req.type # "ethernet" /\ ~req.ap /\ Finish("false", FALSE)
  \/ /\ ~found /\ req.type = "wifi" /\ req.ap /\ Goto("add")
  \/ /\ ~found /\ req.type = "hotspot" /\ req.ap /\ Goto("hotspot")
  \/ /\ found /\ Equal(conn) /\ Finish("true", FALSE)
  \/ /\ found /\ ~Equal(conn) /\ Goto("modify")

\* absent names an undefined null when there is nothing to remove.
AbsentFound(found) == IF found THEN Goto("delete") ELSE Abort

LinkFound(found) ==
  \/ ~found /\ Finish("false", FALSE)
  \/ found /\ req.fn = "active" /\ conn.link = "up" /\ Finish("true", FALSE)
  \/ found /\ req.fn = "active" /\ conn.link # "up" /\ Goto("up")
  \/ found /\ req.fn = "inactive" /\ conn.link = "down" /\ Finish("true", FALSE)
  \/ found /\ req.fn = "inactive" /\ conn.link # "down" /\ Goto("down")

\* _pick_connection and _pick_connection_by_name.
Find ==
  /\ pc = "find"
  /\ \E ok \in BOOLEAN :
       /\ Call(ok, ok, TRUE)
       /\ \/ ~ok /\ ~ByName /\ Abort /\ UNCHANGED seen
          \/ /\ ok \/ ByName
             /\ seen' = (IF ok /\ Found THEN conn ELSE NoConn)
             /\ \/ req.fn = "present" /\ PresentFound(ok /\ Found)
                \/ req.fn = "absent" /\ AbsentFound(ok /\ Found)
                \/ req.fn \in {"active", "inactive"} /\ LinkFound(ok /\ Found)
  /\ UNCHANGED <<world, req, before, raced>>

\* A call that turns the connection into one of cs, if nmcli can do it.
Write(cs, can, Then(_)) ==
  /\ \E applied, ok \in BOOLEAN :
       /\ Call(applied, ok, can)
       /\ conn' \in (IF applied THEN cs ELSE {conn})
       /\ Then(ok)
  /\ UNCHANGED <<nic, edits, req, seen, before, raced>>

\* nmcli.connection.add; _ethernet's handler names an undefined exception.
Add ==
  /\ pc = "add"
  /\ Write({Added(l) : l \in Links}, CanAdd,
           LAMBDA ok : IF ok THEN Finish("true", TRUE) ELSE Abort)

\* nmcli.device.wifi_hotspot makes the connection and brings it up.
Hotspot ==
  /\ pc = "hotspot"
  /\ Write({BareHotspot}, nic,
           LAMBDA ok : IF ok THEN Goto("tune") ELSE Finish("false", FALSE))

\* nmcli.connection.modify of the new hotspot: when it fails the connection
\* stands, and the state says that it could not be created.
Tune ==
  /\ pc = "tune"
  /\ Write({SetOptions(conn)},
           conn.exists /\ conn.id = "ap_name" /\ Passable,
           LAMBDA ok : IF ok THEN Finish("true", TRUE) ELSE Finish("false", FALSE))

\* nmcli.connection.modify, by the name that was read.
Modify ==
  /\ pc = "modify"
  /\ Write({SetOptions(conn)}, conn.exists /\ conn.id = seen.id,
           LAMBDA ok : IF ok THEN Goto("reread") ELSE Finish("false", FALSE))

\* What is made of the changes c: _ethernet returns them; _wifi and _hotspot
\* fail on an undefined name if there are some, and return nothing, which
\* present cannot index, if there are none.
Modified(c) ==
  \/ req.type = "ethernet" /\ Finish("true", c)
  \/ req.type # "ethernet" /\ c /\ Finish("false", FALSE)
  \/ req.type # "ethernet" /\ ~c /\ Abort

\* _changes reads the connection again and compares.
Reread ==
  /\ pc = "reread"
  /\ \E ok \in BOOLEAN :
       /\ Call(ok, ok, TRUE)
       /\ \/ ~(ok /\ conn.exists) /\ Finish("false", FALSE)
          \/ ok /\ conn.exists /\ Modified(Differs(seen, conn))
  /\ UNCHANGED <<world, req, seen, before, raced>>

\* nmcli.connection.delete; the changes are a set, the error has none.
Delete ==
  /\ pc = "delete"
  /\ Write({NoConn}, conn.exists /\ conn.id = req.name, LAMBDA ok : Abort)

\* nmcli.connection.up and down, by the name that was read.
Up ==
  /\ pc = "up"
  /\ Write({[conn EXCEPT !.link = "up"]}, nic /\ conn.exists /\ conn.id = seen.id,
           LAMBDA ok : Finish(IF ok THEN "true" ELSE "false", ok))

Down ==
  /\ pc = "down"
  /\ Write({[conn EXCEPT !.link = "down"]},
           conn.exists /\ conn.id = seen.id /\ conn.link # "down",
           LAMBDA ok : Finish(IF ok THEN "true" ELSE "false", ok))

-----------------------------------------------------------------------------
(* The rest of the world. *)

\* The job is killed: the states restart the minion.
Killed ==
  /\ Running /\ faults < MaxFaults
  /\ pc' = "idle" /\ faults' = faults + 1
  /\ UNCHANGED <<world, req, seen, report, before, raced>>

\* Somebody else, or NetworkManager, changes the connection or its link, or
\* the device comes and goes.
Console ==
  /\ edits < MaxEdits
  /\ edits' = edits + 1
  /\ nic' \in BOOLEAN
  /\ conn' \in {NoConn} \cup Foreign
              \cup {[conn EXCEPT !.link = l] : l \in IF conn.exists THEN Links ELSE {"down"}}
  /\ ~nic' => conn'.link = "down"
  /\ <<nic', conn'>> # <<nic, conn>>
  /\ raced' = TRUE
  /\ UNCHANGED <<req, pc, seen, report, faults, before>>

\* The pillar is rewritten between two runs.
Rewrite ==
  /\ ~Running /\ edits < MaxEdits
  /\ req' \in Requests
  /\ edits' = edits + 1 /\ pc' = "idle"
  /\ UNCHANGED <<nic, conn, seen, report, faults, before, raced>>

Step == \/ Dispatch \/ Device \/ Find \/ Add \/ Hotspot \/ Tune \/ Modify
        \/ Reread \/ Delete \/ Up \/ Down

Next == Start \/ Step \/ Killed \/ Console \/ Rewrite

Spec == Init /\ [][Next]_vars

\* The states are applied time and again, and Python runs what it started.
FairSpec == Spec /\ WF_vars(Start) /\ WF_vars(Step)

-----------------------------------------------------------------------------
(* Properties. *)

Labels == {"idle", "start", "device", "find", "add", "hotspot", "tune",
           "modify", "reread", "delete", "up", "down", "done"}

\* Every variable holds a value of its kind.
TypeOK ==
  /\ nic \in BOOLEAN
  /\ conn \in Conns /\ seen \in Conns /\ before \in Conns
  /\ req \in Requests /\ pc \in Labels
  /\ result \in {"true", "false", "none"} /\ changed \in BOOLEAN
  /\ faults \in 0..MaxFaults /\ edits \in 0..MaxEdits
  /\ raced \in BOOLEAN

\* The connection is as asked: every option as the pillar's options have it,
\* except that connection.autoconnect is as the keyword says, or on, also where
\* the options say that it is to be off.  An option without a value asks for
\* nothing.
Satisfies(c) ==
  CASE req.fn = "present" ->
         /\ c.exists /\ c.id = "ifname"
         /\ c.opts[AutoConnect] = Asked[AutoConnect]
         /\ \A f \in Fields \ {AutoConnect} :
              req.want[f] \in {Unmanaged, Null, c.opts[f]}
    [] req.fn = "absent"   -> ~(c.exists /\ c.id = req.name)
    [] req.fn = "active"   -> c.exists /\ c.link = "up"
    [] req.fn = "inactive" -> c.exists /\ c.link = "down"

\* What is asked for can be read off the connection: each is shown as
\* it was set, and nothing else is shown so.
Legible ==
  \A f \in Wanted :
    /\ f \notin Aliases
    /\ \A v \in Values \cup {Null} : Shown[f][v] = Asked[f] <=> v = Asked[f]

\* A run that succeeds without disturbance leaves the connection as asked --
\* where nmcli shows what is compared.
TruthfulSuccess ==
  pc = "done" /\ result = "true" /\ ~raced /\ Legible => Satisfies(conn)

\* A run that succeeds without disturbance, changes or not, has told of every
\* visible difference it made; and one that was asked for a test made none,
\* unless the function is absent.
HonestSuccess ==
  pc = "done" /\ ~raced =>
    /\ result = "true" /\ before # conn => changed \/ ~Legible
    /\ result = "none" => before = conn

\* present never disturbs an option that the pillar leaves alone (or names
\* without a value), nor takes the link down, at any moment, even if it fails
\* or dies half-way.  The one exception is connection.autoconnect, which is
\* left as it was or becomes what the keyword says, or on.
KeepsUnmanaged ==
  (Running \/ pc = "done") /\ req.fn = "present" /\ before.exists /\ ~raced =>
    /\ conn.exists /\ conn.link = before.link
    /\ conn.opts[AutoConnect] \in {before.opts[AutoConnect], Asked[AutoConnect]}
    /\ \A f \in Fields \ {AutoConnect} :
         req.want[f] \in {Unmanaged, Null} => conn.opts[f] = before.opts[f]

\* The request can be carried out on this device as it is.
Feasible ==
  CASE req.fn = "present" ->
         /\ nic /\ ~req.test /\ req.type # "hostpot" /\ Passable /\ Legible
         /\ conn.exists \/ req.type = "ethernet"
            \/ (req.ap /\ (req.type = "wifi" => req.ssid))
    [] req.fn = "absent"   -> TRUE
    [] req.fn = "active"   -> nic /\ ~req.test /\ conn.exists
                              /\ (req.hwaddr \/ conn.id = req.name)
    [] req.fn = "inactive" -> nic /\ ~req.test /\ conn.exists
                              /\ (req.hwaddr \/ conn.id = req.name)

\* Once faults and outside changes stop, repeated runs settle: the connection
\* is as asked and every run that ends says so, without changes -- whatever
\* half-made hotspot, or change reported as a failure, an earlier run left.
\* Of absent it can only be said that the connection is gone: each of its runs
\* ends in an exception, before or after it removed something.
Settles ==
  <>[](Feasible =>
         /\ Satisfies(conn)
         /\ pc = "done" /\ req.fn # "absent" => result = "true" /\ ~changed)
=============================================================================
