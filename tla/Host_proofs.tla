---------------------------- MODULE Host_proofs ----------------------------
(***************************************************************************)
(* Proofs about one host: about HostInit, for all settings of the map and  *)
(* every number of faults and interventions, and, at the end, about        *)
(* OneShotFlags, for all setups and every number of failed commands and    *)
(* killed highstates.  The two have no variable in common.                 *)
(*                                                                         *)
(* The script of an orchestration is a sequence that is put together from  *)
(* pieces; the first section shows, of every script, that after a step     *)
(* that restarts the host there comes the one that waits for it (Link).    *)
(* The invariant then relates the host to the step that comes next: Told   *)
(* is what the orchestration remembers, Calm what holds as long as nothing *)
(* disturbs it, Clean what holds as long as nothing has failed.            *)
(***************************************************************************)
EXTENDS HostInit, OneShotFlags, SequenceTheorems, TLAPS

-----------------------------------------------------------------------------
(* The script. *)

\* The steps after which the host restarts, and the step that comes then.
Restarters == {"redefine", "essentials", "nmconnections", "environment", "cis"}
Heir(name) == CASE name = "redefine"      -> "wait interfaces"
                [] name = "essentials"    -> "wait essentials"
                [] name = "nmconnections" -> "wait nmconnections"
                [] name = "environment"   -> "sleep"
                [] name = "cis"           -> "wait cis"
Waits      == {"wait interfaces", "wait essentials", "wait nmconnections", "wait cis"}
Plain      == {"usb", "snapshot", "redefine", "state"}

NetworkStates == {"proxy", "os_specific", "essentials", "network manager", "drivers",
                  "nmconnections"}
HighStates    == {"environment", "basic_services", "services", "roles", "apps", "pkgs", "cis"}

TaskKinds == Plain \cup {"create", "wait", "sleep"}

\* What a step is, from its name.
WellFormed(t) ==
  /\ t.kind \in TaskKinds
  /\ t.kind = "state"    <=> t.name \in NetworkStates \cup HighStates
  /\ t.kind = "redefine" <=> t.name = "redefine"
  /\ t.kind = "create"   <=> t.name = "create"
  /\ t.kind = "sleep"    <=> t.name = "sleep"
  /\ t.kind = "wait"     <=> t.name \in Waits
  /\ t.require \in SUBSET Awaited
  /\ t.onchanges = IF t.name = "wait cis" THEN {"cis"} ELSE {}

\* After a step that restarts the host comes the one that waits; no other
\* step is followed by one, nor by the making of the host.
Link(a, b) == IF a.name \in Restarters THEN b.name = Heir(a.name) ELSE b.kind \in Plain

TaskNames == NetworkStates \cup HighStates \cup Waits
               \cup {"create", "attach usb", "redefine", "sleep", "pre-config",
                     "pre-highstate", "pre-cis"}
Tasks == {t \in [name : TaskNames, kind : TaskKinds, require : SUBSET Awaited,
                 onchanges : SUBSET Awaited] : WellFormed(t)}

\* A piece of the script does not end before a wait, nor begin with one.
Piece(q) ==
  /\ q \in Seq(Tasks)
  /\ \A i \in DOMAIN q : i + 1 \in DOMAIN q => Link(q[i], q[i + 1])
  /\ q # <<>> => q[Len(q)].name \notin Restarters
Begins(q) == q # <<>> => q[1].kind \in Plain
Names(q)  == {q[i].name : i \in DOMAIN q}

LEMMA TaskIs ==
  ASSUME NEW n \in TaskNames, NEW k \in TaskKinds, NEW r \in SUBSET Awaited,
         NEW c \in SUBSET Awaited,
         WellFormed([name |-> n, kind |-> k, require |-> r, onchanges |-> c])
  PROVE  [name |-> n, kind |-> k, require |-> r, onchanges |-> c] \in Tasks
BY DEF Tasks

LEMMA ApplyTask ==
  ASSUME NEW n \in NetworkStates \cup HighStates
  PROVE  Apply(n) \in Tasks /\ Apply(n).name = n /\ Apply(n).kind = "state"
<1> DEFINE t == [name |-> n, kind |-> "state", require |-> {}, onchanges |-> {}]
<1>1. Apply(n) = t BY DEF Apply, Task
<1>3. WellFormed(t)
  BY DEF WellFormed, TaskKinds, NetworkStates, HighStates, Waits, Plain
<1>4. t.name \in TaskNames /\ t.kind \in TaskKinds
  BY DEF TaskNames, TaskKinds, NetworkStates, HighStates, Waits, Plain
<1>5. t \in Tasks
  BY <1>3, <1>4, TaskIs
<1>6. QED BY <1>1, <1>5

\* A task that was given what it requires, or what it waits to change.
TaskType == [name : TaskNames, kind : TaskKinds, require : SUBSET Awaited,
             onchanges : SUBSET Awaited]
LEMMA Given ==
  ASSUME NEW t \in TaskType, NEW r \in SUBSET Awaited
  PROVE  /\ [t EXCEPT !.require = r] \in TaskType
         /\ [t EXCEPT !.require = r].name = t.name
         /\ [t EXCEPT !.require = r].kind = t.kind
         /\ [t EXCEPT !.require = r].require = r
         /\ [t EXCEPT !.require = r].onchanges = t.onchanges
         /\ [t EXCEPT !.onchanges = r] \in TaskType
         /\ [t EXCEPT !.onchanges = r].name = t.name
         /\ [t EXCEPT !.onchanges = r].kind = t.kind
         /\ [t EXCEPT !.onchanges = r].require = t.require
         /\ [t EXCEPT !.onchanges = r].onchanges = r
BY DEF TaskType

LEMMA AfterTask ==
  /\ After("nmconnections", "network manager") \in Tasks
  /\ After("nmconnections", "network manager").name = "nmconnections"
  /\ After("nmconnections", "network manager").kind = "state"
<1> DEFINE t == Apply("nmconnections")
           u == [t EXCEPT !.require = {"network manager"}]
<1>1. {"network manager"} \in SUBSET Awaited BY DEF Awaited
<1>2. /\ t \in TaskType /\ t.name = "nmconnections" /\ t.kind = "state"
      /\ t.require = {} /\ t.onchanges = {}
  BY DEF Apply, Task, TaskType, TaskNames, TaskKinds, NetworkStates, Plain
<1>3. After("nmconnections", "network manager") = u BY DEF After
<1> HIDE DEF t
<1>4. /\ u \in TaskType /\ u.name = "nmconnections" /\ u.kind = "state"
      /\ u.require = {"network manager"} /\ u.onchanges = {}
  BY <1>1, <1>2, Given
<1> HIDE DEF u
<1>5. WellFormed(u)
  BY <1>1, <1>4 DEF WellFormed, TaskKinds, NetworkStates, HighStates, Waits, Plain
<1>6. u \in Tasks BY <1>4, <1>5 DEF Tasks, TaskType
<1>7. QED BY <1>3, <1>4, <1>6

LEMMA WaitTask ==
  ASSUME NEW n \in Waits \ {"wait cis"}, NEW m \in Awaited
  PROVE  Wait(n, m) \in Tasks /\ Wait(n, m).name = n /\ Wait(n, m).kind = "wait"
<1> DEFINE t == Task(n, "wait")
           u == [t EXCEPT !.require = {m}]
<1>1. {m} \in SUBSET Awaited BY DEF Awaited
<1>2. /\ t \in TaskType /\ t.name = n /\ t.kind = "wait"
      /\ t.require = {} /\ t.onchanges = {}
  BY DEF Task, TaskType, TaskNames, TaskKinds, Waits
<1>3. Wait(n, m) = u BY DEF Wait
<1> HIDE DEF t
<1>4. /\ u \in TaskType /\ u.name = n /\ u.kind = "wait"
      /\ u.require = {m} /\ u.onchanges = {}
  BY <1>1, <1>2, Given
<1> HIDE DEF u
<1>5. WellFormed(u)
  BY <1>1, <1>4 DEF WellFormed, TaskKinds, NetworkStates, HighStates, Waits, Plain
<1>6. u \in Tasks BY <1>4, <1>5 DEF Tasks, TaskType
<1>7. QED BY <1>3, <1>4, <1>6

WaitCis == [Task("wait cis", "wait") EXCEPT !.onchanges = {"cis"}]
LEMMA WaitCisTask ==
  WaitCis \in Tasks /\ WaitCis.name = "wait cis" /\ WaitCis.kind = "wait"
<1> DEFINE t == Task("wait cis", "wait")
           u == [t EXCEPT !.onchanges = {"cis"}]
<1>1. {"cis"} \in SUBSET Awaited BY DEF Awaited
<1>2. /\ t \in TaskType /\ t.name = "wait cis" /\ t.kind = "wait"
      /\ t.require = {} /\ t.onchanges = {}
  BY DEF Task, TaskType, TaskNames, TaskKinds, Waits
<1>3. WaitCis = u BY DEF WaitCis
<1> HIDE DEF t
<1>4. /\ u \in TaskType /\ u.name = "wait cis" /\ u.kind = "wait"
      /\ u.require = {} /\ u.onchanges = {"cis"}
  BY <1>1, <1>2, Given
<1> HIDE DEF u
<1>5. WellFormed(u)
  BY <1>1, <1>4 DEF WellFormed, TaskKinds, NetworkStates, HighStates, Waits, Plain
<1>6. u \in Tasks BY <1>4, <1>5 DEF Tasks, TaskType
<1>7. QED BY <1>3, <1>4, <1>6

LEMMA CreateName == Task("create", "create").name = "create"
BY DEF Task

LEMMA OtherTask ==
  ASSUME NEW n, NEW k,
         \/ n = "create" /\ k = "create"
         \/ n = "attach usb" /\ k = "usb"
         \/ n = "redefine" /\ k = "redefine"
         \/ n = "sleep" /\ k = "sleep"
         \/ n \in {"pre-config", "pre-highstate", "pre-cis"} /\ k = "snapshot"
  PROVE  Task(n, k) \in Tasks /\ Task(n, k).name = n /\ Task(n, k).kind = k
<1> DEFINE t == [name |-> n, kind |-> k, require |-> {}, onchanges |-> {}]
<1>1. Task(n, k) = t BY DEF Task
<1>3. WellFormed(t)
  BY DEF WellFormed, TaskKinds, NetworkStates, HighStates, Waits, Plain
<1>4. t.name \in TaskNames /\ t.kind \in TaskKinds
  BY DEF TaskNames, TaskKinds, NetworkStates, HighStates, Waits, Plain
<1>5. t \in Tasks
  BY <1>3, <1>4, TaskIs
<1>6. t.name = n /\ t.kind = k OBVIOUS
<1> HIDE DEF t
<1>7. QED BY <1>1, <1>5, <1>6

-----------------------------------------------------------------------------
\* Pieces make pieces.
LEMMA Join ==
  ASSUME NEW p, NEW q, Piece(p), Piece(q), Begins(q)
  PROVE  /\ Piece(p \o q)
         /\ Begins(p) => Begins(p \o q)
         /\ p # <<>> => p \o q # <<>> /\ (p \o q)[1] = p[1]
         /\ q # <<>> => p \o q # <<>> /\ (p \o q)[Len(p \o q)] = q[Len(q)]
         /\ Len(p \o q) = Len(p) + Len(q)
<1> DEFINE r == p \o q
<1>1. /\ p \in Seq(Tasks) /\ q \in Seq(Tasks) /\ r \in Seq(Tasks)
      /\ Len(p) \in Nat /\ Len(q) \in Nat /\ Len(r) = Len(p) + Len(q)
      /\ DOMAIN p = 1..Len(p) /\ DOMAIN q = 1..Len(q) /\ DOMAIN r = 1..Len(r)
  BY DEF Piece
<1>2. \A i \in 1..Len(p) : r[i] = p[i] BY <1>1
<1>3. \A i \in 1..Len(q) : r[Len(p) + i] = q[i]
  <2> SUFFICES ASSUME NEW i \in 1..Len(q) PROVE r[Len(p) + i] = q[i]
    OBVIOUS
  <2>1. Len(p) + i \in 1..(Len(p) + Len(q)) /\ ~(Len(p) + i <= Len(p)) /\ (Len(p) + i) - Len(p) = i
    BY <1>1
  <2>2. QED BY <1>1, <2>1
<1>4. (p # <<>> => Len(p) > 0) /\ (q # <<>> => Len(q) > 0) /\ (p = <<>> => Len(p) = 0)
      /\ (q = <<>> => Len(q) = 0)
  BY <1>1
<1> HIDE DEF r
<1>5. q # <<>> => r # <<>> /\ r[Len(r)] = q[Len(q)]
  BY <1>1, <1>3, <1>4
<1>6. p # <<>> => r # <<>> /\ r[1] = p[1] BY <1>1, <1>2, <1>4
<1>7. p = <<>> => (q # <<>> => r[1] = q[1]) BY <1>1, <1>3, <1>4
<1>8. ASSUME NEW i \in DOMAIN r, i + 1 \in DOMAIN r PROVE Link(r[i], r[i + 1])
  <2>1. CASE i < Len(p)
    <3>1. i \in DOMAIN p /\ i + 1 \in DOMAIN p BY <1>1, <1>8, <2>1
    <3>2. r[i] = p[i] /\ r[i + 1] = p[i + 1] BY <1>1, <1>2, <3>1
    <3>3. QED BY <3>1, <3>2 DEF Piece
  <2>2. CASE i = Len(p)
    <3>1. p # <<>> /\ q # <<>> /\ Len(p) \in 1..Len(p) /\ 1 \in 1..Len(q)
      BY <1>1, <1>4, <1>8, <2>2
    <3>2. r[i] = p[Len(p)] /\ r[i + 1] = q[1] BY <1>2, <1>3, <2>2, <3>1
    <3>3. QED BY <3>1, <3>2 DEF Piece, Begins, Link
  <2>3. CASE i > Len(p)
    <3>1. PICK j \in 1..Len(q) : i = Len(p) + j
      <4>1. i - Len(p) \in 1..Len(q) /\ i = Len(p) + (i - Len(p)) BY <1>1, <1>8, <2>3
      <4>2. QED BY <4>1
    <3>2. j + 1 \in 1..Len(q) /\ i + 1 = Len(p) + (j + 1) BY <1>1, <1>8, <3>1
    <3>3. r[i] = q[j] /\ r[i + 1] = q[j + 1] BY <1>3, <3>1, <3>2
    <3>4. QED BY <1>1, <3>1, <3>2, <3>3 DEF Piece
  <2>4. QED BY <1>1, <1>8, <2>1, <2>2, <2>3
<1>9. r # <<>> => r[Len(r)].name \notin Restarters
  <2>1. CASE q # <<>> BY <1>5, <2>1 DEF Piece
  <2>2. CASE q = <<>>
    <3>1. r = p BY <1>1, <2>2 DEF r
    <3>2. QED BY <3>1 DEF Piece
  <2>3. QED BY <2>1, <2>2
<1>10. Piece(r) BY <1>1, <1>8, <1>9 DEF Piece
<1>11. Begins(p) => Begins(r)
  <2>1. CASE p # <<>> BY <1>6, <2>1 DEF Begins
  <2>2. CASE p = <<>>
    <3>1. r = q BY <1>1, <2>2 DEF r
    <3>2. QED BY <3>1
  <2>3. QED BY <2>1, <2>2
<1>12. QED BY <1>1, <1>5, <1>6, <1>10, <1>11 DEF r

\* What is in the whole is in one of the pieces.
LEMMA JoinNames ==
  ASSUME NEW p \in Seq(Tasks), NEW q \in Seq(Tasks)
  PROVE  /\ Names(p \o q) = Names(p) \cup Names(q)
         /\ StatesOf(p \o q) = StatesOf(p) \cup StatesOf(q)
<1> DEFINE r == p \o q
<1>1. /\ Len(p) \in Nat /\ Len(q) \in Nat /\ Len(r) = Len(p) + Len(q)
      /\ DOMAIN p = 1..Len(p) /\ DOMAIN q = 1..Len(q) /\ DOMAIN r = 1..Len(r)
  OBVIOUS
<1>2. \A i \in 1..Len(p) : r[i] = p[i] BY <1>1
<1>3. \A i \in 1..Len(q) : r[Len(p) + i] = q[i]
  <2> SUFFICES ASSUME NEW i \in 1..Len(q) PROVE r[Len(p) + i] = q[i]
    OBVIOUS
  <2>1. Len(p) + i \in 1..(Len(p) + Len(q)) /\ ~(Len(p) + i <= Len(p)) /\ (Len(p) + i) - Len(p) = i
    BY <1>1
  <2>2. QED BY <1>1, <2>1
<1> HIDE DEF r
<1>4. \A i \in DOMAIN r : (\E j \in DOMAIN p : r[i] = p[j]) \/ (\E j \in DOMAIN q : r[i] = q[j])
  <2> SUFFICES ASSUME NEW i \in DOMAIN r
               PROVE  (\E j \in DOMAIN p : r[i] = p[j]) \/ (\E j \in DOMAIN q : r[i] = q[j])
    OBVIOUS
  <2>1. CASE i <= Len(p) BY <1>1, <1>2, <2>1
  <2>2. CASE i > Len(p)
    <3>1. PICK j \in 1..Len(q) : i = Len(p) + j
      <4>1. i - Len(p) \in 1..Len(q) /\ i = Len(p) + (i - Len(p)) BY <1>1, <2>2
      <4>2. QED BY <4>1
    <3>2. QED BY <1>1, <1>3, <3>1
  <2>3. QED BY <1>1, <2>1, <2>2
<1>5. \A j \in DOMAIN p : \E i \in DOMAIN r : r[i] = p[j] BY <1>1, <1>2
<1>6. \A j \in DOMAIN q : \E i \in DOMAIN r : r[i] = q[j]
  <2> SUFFICES ASSUME NEW j \in DOMAIN q PROVE \E i \in DOMAIN r : r[i] = q[j]
    OBVIOUS
  <2>1. Len(p) + j \in DOMAIN r BY <1>1
  <2>2. QED BY <1>1, <1>3, <2>1
<1>7. Names(r) = Names(p) \cup Names(q) BY <1>4, <1>5, <1>6 DEF Names
<1>8. StatesOf(r) = StatesOf(p) \cup StatesOf(q) 
  <2>1. \A x \in StatesOf(r) : x \in StatesOf(p) \cup StatesOf(q) BY <1>4 DEF StatesOf
  <2>2. \A x \in StatesOf(p) : x \in StatesOf(r) BY <1>5 DEF StatesOf
  <2>3. \A x \in StatesOf(q) : x \in StatesOf(r) BY <1>6 DEF StatesOf
  <2>4. QED BY <2>1, <2>2, <2>3
<1>9. QED BY <1>7, <1>8 DEF r

-----------------------------------------------------------------------------
\* The pieces of the script.
Making    == << Task("create", "create"), Task("attach usb", "usb") >>
Redefined == << Task("redefine", "redefine"), Wait("wait interfaces", "redefine") >>
Enforced  == << Apply("cis"), WaitCis >>
Highest   == << Apply("environment"), Task("sleep", "sleep"), Apply("basic_services"),
                Apply("services"), Apply("roles"), Apply("apps"), Apply("pkgs") >>

LEMMA Empty ==
  Piece(<<>>) /\ Begins(<<>>) /\ Names(<<>>) = {} /\ StatesOf(<<>>) = {}
BY DEF Piece, Begins, Names, StatesOf

LEMMA Pair ==
  ASSUME NEW a \in Tasks, NEW b \in Tasks, Link(a, b), b.name \notin Restarters
  PROVE  /\ Piece(<<a, b>>)
         /\ a.kind \in Plain => Begins(<<a, b>>)
         /\ Names(<<a, b>>) = {a.name, b.name}
         /\ StatesOf(<<a, b>>) = {t.name : t \in {u \in {a, b} : u.kind = "state"}}
<1> DEFINE q == <<a, b>>
<1>1. q \in Seq(Tasks) /\ Len(q) = 2 /\ DOMAIN q = 1..2 /\ q[1] = a /\ q[2] = b
  OBVIOUS
<1> HIDE DEF q
<1>2. \A i \in DOMAIN q : i + 1 \in DOMAIN q => i = 1 BY <1>1
<1>3. \A i \in DOMAIN q : i = 1 \/ i = 2 BY <1>1
<1>4. 1 \in DOMAIN q /\ 2 \in DOMAIN q /\ q # <<>> BY <1>1
<1>5. Piece(q) BY <1>1, <1>2 DEF Piece
<1>6. a.kind \in Plain => Begins(q) BY <1>1 DEF Begins
<1>7. Names(q) = {a.name, b.name} BY <1>1, <1>3, <1>4 DEF Names
<1>8. StatesOf(q) = {t.name : t \in {u \in {a, b} : u.kind = "state"}}
  BY <1>1, <1>3, <1>4 DEF StatesOf
<1>9. QED BY <1>5, <1>6, <1>7, <1>8 DEF q

LEMMA SnapshotPiece ==
  ASSUME NEW n \in {"pre-config", "pre-highstate", "pre-cis"}
  PROVE  /\ Piece(<< Snapshot(n) >>) /\ Begins(<< Snapshot(n) >>)
         /\ Names(<< Snapshot(n) >>) = {n}
         /\ StatesOf(<< Snapshot(n) >>) = {}
<1> DEFINE a == Snapshot(n)
           q == << a >>
<1>1. a \in Tasks /\ a.name = n /\ a.kind = "snapshot" BY OtherTask DEF Snapshot
<1> HIDE DEF a
<1>2. q \in Seq(Tasks) /\ Len(q) = 1 /\ DOMAIN q = 1..1 /\ q[1] = a BY <1>1
<1> HIDE DEF q
<1>3. \A i \in DOMAIN q : i = 1 BY <1>2
<1>4. Piece(q) /\ Begins(q) BY <1>1, <1>2, <1>3 DEF Piece, Begins, Restarters, Plain
<1>5. Names(q) = {n} BY <1>1, <1>2, <1>3 DEF Names
<1>6. StatesOf(q) = {} BY <1>1, <1>2, <1>3 DEF StatesOf
<1>7. QED BY <1>4, <1>5, <1>6 DEF q, a

LEMMA MakingPiece ==
  /\ Piece(Making) /\ Making # <<>> /\ Making[1] = Task("create", "create") /\ Len(Making) = 2
  /\ Names(Making) = {"create", "attach usb"} /\ StatesOf(Making) = {}
<1> DEFINE a == Task("create", "create")
           b == Task("attach usb", "usb")
<1>1. /\ a \in Tasks /\ a.name = "create" /\ a.kind = "create"
      /\ b \in Tasks /\ b.name = "attach usb" /\ b.kind = "usb"
  BY OtherTask
<1>2. Making = <<a, b>> BY DEF Making
<1> HIDE DEF a, b
<1>3. Link(a, b) /\ b.name \notin Restarters BY <1>1 DEF Link, Restarters, Plain
<1>4. /\ Piece(<<a, b>>) /\ Names(<<a, b>>) = {a.name, b.name}
      /\ StatesOf(<<a, b>>) = {t.name : t \in {u \in {a, b} : u.kind = "state"}}
  BY <1>1, <1>3, Pair
<1>5. StatesOf(<<a, b>>) = {} BY <1>1, <1>4
<1>6. Making # <<>> /\ Making[1] = a /\ Len(Making) = 2 BY <1>2
<1>7. QED BY <1>1, <1>2, <1>4, <1>5, <1>6 DEF a

LEMMA RedefinedPiece ==
  /\ Piece(Redefined) /\ Begins(Redefined)
  /\ Names(Redefined) = {"redefine", "wait interfaces"} /\ StatesOf(Redefined) = {}
<1> DEFINE a == Task("redefine", "redefine")
           b == Wait("wait interfaces", "redefine")
<1>1. a \in Tasks /\ a.name = "redefine" /\ a.kind = "redefine" BY OtherTask
<1>2. b \in Tasks /\ b.name = "wait interfaces" /\ b.kind = "wait"
  BY WaitTask DEF Waits, Awaited
<1>3. Redefined = <<a, b>> BY DEF Redefined
<1> HIDE DEF a, b
<1>4. Link(a, b) /\ b.name \notin Restarters /\ a.kind \in Plain
  BY <1>1, <1>2 DEF Link, Heir, Restarters, Plain
<1>5. /\ Piece(<<a, b>>) /\ Names(<<a, b>>) = {a.name, b.name} /\ Begins(<<a, b>>)
      /\ StatesOf(<<a, b>>) = {t.name : t \in {u \in {a, b} : u.kind = "state"}}
  BY <1>1, <1>2, <1>4, Pair
<1>6. StatesOf(<<a, b>>) = {} BY <1>1, <1>2, <1>5
<1>7. QED BY <1>1, <1>2, <1>3, <1>5, <1>6

LEMMA EnforcedPiece ==
  /\ Piece(Enforced) /\ Begins(Enforced) /\ Enforced # <<>>
  /\ Enforced[Len(Enforced)] = WaitCis
  /\ Names(Enforced) = {"cis", "wait cis"} /\ StatesOf(Enforced) = {"cis"}
<1> DEFINE a == Apply("cis")
           b == WaitCis
<1>1. a \in Tasks /\ a.name = "cis" /\ a.kind = "state" BY ApplyTask DEF HighStates
<1>2. b \in Tasks /\ b.name = "wait cis" /\ b.kind = "wait" BY WaitCisTask
<1>3. Enforced = <<a, b>> BY DEF Enforced
<1> HIDE DEF a, b
<1>4. Link(a, b) /\ b.name \notin Restarters /\ a.kind \in Plain
  BY <1>1, <1>2 DEF Link, Heir, Restarters, Plain
<1>5. /\ Piece(<<a, b>>) /\ Names(<<a, b>>) = {a.name, b.name} /\ Begins(<<a, b>>)
      /\ StatesOf(<<a, b>>) = {t.name : t \in {u \in {a, b} : u.kind = "state"}}
  BY <1>1, <1>2, <1>4, Pair
<1>6. StatesOf(<<a, b>>) = {"cis"} BY <1>1, <1>2, <1>5
<1>7. Enforced # <<>> /\ Enforced[Len(Enforced)] = b BY <1>3
<1>8. QED BY <1>1, <1>2, <1>3, <1>5, <1>6, <1>7 DEF b

LEMMA NetworkPiece ==
  ASSUME NEW s
  PROVE  /\ Piece(Network(s)) /\ Begins(Network(s))
         /\ "wait essentials" \in Names(Network(s))
         /\ "environment" \notin Names(Network(s))
         /\ StatesOf(Network(s)) = NetworkStates
<1> DEFINE t1 == Apply("proxy")
           t2 == Apply("os_specific")
           t3 == Apply("essentials")
           t4 == Wait("wait essentials", "essentials")
           t5 == Apply("network manager")
           t6 == Apply("drivers")
           t7 == After("nmconnections", "network manager")
           t8 == Wait("wait nmconnections", "nmconnections")
           q  == Network(s)
<1>1. /\ t1 \in Tasks /\ t1.name = "proxy" /\ t1.kind = "state"
      /\ t2 \in Tasks /\ t2.name = "os_specific" /\ t2.kind = "state"
      /\ t3 \in Tasks /\ t3.name = "essentials" /\ t3.kind = "state"
      /\ t5 \in Tasks /\ t5.name = "network manager" /\ t5.kind = "state"
      /\ t6 \in Tasks /\ t6.name = "drivers" /\ t6.kind = "state"
  BY ApplyTask DEF NetworkStates
<1>2. /\ t4 \in Tasks /\ t4.name = "wait essentials" /\ t4.kind = "wait"
      /\ t8 \in Tasks /\ t8.name = "wait nmconnections" /\ t8.kind = "wait"
  BY WaitTask DEF Waits, Awaited
<1>3. t7 \in Tasks /\ t7.name = "nmconnections" /\ t7.kind = "state" BY AfterTask
<1>4. q = <<t1, t2, t3, t4, t5, t6, t7, t8>> BY DEF Network
<1> HIDE DEF t1, t2, t3, t4, t5, t6, t7, t8, q
<1>5. /\ q \in Seq(Tasks) /\ Len(q) = 8 /\ DOMAIN q = 1..8
      /\ q[1] = t1 /\ q[2] = t2 /\ q[3] = t3 /\ q[4] = t4
      /\ q[5] = t5 /\ q[6] = t6 /\ q[7] = t7 /\ q[8] = t8
  <2>1. Len(q) = 8 /\ DOMAIN q = 1..8 BY <1>4
  <2>2. /\ q[1] = t1 /\ q[2] = t2 /\ q[3] = t3 /\ q[4] = t4
        /\ q[5] = t5 /\ q[6] = t6 /\ q[7] = t7 /\ q[8] = t8
    BY <1>4
  <2>3. q \in Seq(Tasks)
    <3>1. /\ t1 \in Tasks /\ t2 \in Tasks /\ t3 \in Tasks /\ t4 \in Tasks
          /\ t5 \in Tasks /\ t6 \in Tasks /\ t7 \in Tasks /\ t8 \in Tasks
      BY <1>1, <1>2, <1>3
    <3>2. QED BY <1>4, <3>1
  <2>4. QED BY <2>1, <2>2, <2>3
<1>6. /\ Link(t1, t2) /\ Link(t2, t3) /\ Link(t3, t4) /\ Link(t4, t5)
      /\ Link(t5, t6) /\ Link(t6, t7) /\ Link(t7, t8)
  BY <1>1, <1>2, <1>3 DEF Link, Heir, Restarters, Plain
<1>7. ASSUME NEW i \in DOMAIN q, i + 1 \in DOMAIN q PROVE Link(q[i], q[i + 1])
  <2>1. i = 1 \/ i = 2 \/ i = 3 \/ i = 4 \/ i = 5 \/ i = 6 \/ i = 7 BY <1>5, <1>7
  <2>2. /\ Link(q[1], q[1 + 1]) /\ Link(q[2], q[2 + 1]) /\ Link(q[3], q[3 + 1])
        /\ Link(q[4], q[4 + 1]) /\ Link(q[5], q[5 + 1]) /\ Link(q[6], q[6 + 1])
        /\ Link(q[7], q[7 + 1])
    BY <1>5, <1>6
  <2>3. QED BY <2>1, <2>2
<1>8. Piece(q) /\ Begins(q)
  BY <1>1, <1>2, <1>5, <1>7 DEF Piece, Begins, Restarters, Plain
<1>9. \A i \in DOMAIN q : i = 1 \/ i = 2 \/ i = 3 \/ i = 4 \/ i = 5 \/ i = 6 \/ i = 7 \/ i = 8
  BY <1>5
<1>10. /\ 1 \in DOMAIN q /\ 2 \in DOMAIN q /\ 3 \in DOMAIN q /\ 4 \in DOMAIN q
       /\ 5 \in DOMAIN q /\ 6 \in DOMAIN q /\ 7 \in DOMAIN q
  BY <1>5
<1>11. "wait essentials" \in Names(q) BY <1>2, <1>5, <1>10 DEF Names
<1>12. "environment" \notin Names(q)
  BY <1>1, <1>2, <1>3, <1>5, <1>9 DEF Names
<1>13. \A x \in StatesOf(q) : x \in NetworkStates
  <2>1. \A i \in DOMAIN q : q[i].kind = "state" => q[i].name \in NetworkStates
    BY <1>1, <1>2, <1>3, <1>5, <1>9 DEF NetworkStates
  <2>2. QED BY <2>1 DEF StatesOf
<1>14. \A x \in NetworkStates : x \in StatesOf(q)
  <2>1. \A i \in DOMAIN q : q[i].kind = "state" => q[i].name \in StatesOf(q)
    BY DEF StatesOf
  <2>2. QED BY <1>1, <1>3, <1>5, <1>10, <2>1 DEF NetworkStates
<1>15. QED BY <1>8, <1>11, <1>12, <1>13, <1>14 DEF q

LEMMA HighestPiece ==
  /\ Piece(Highest) /\ Begins(Highest) /\ "environment" \in Names(Highest)
  /\ StatesOf(Highest) = HighStates \ {"cis"}
<1> DEFINE t1 == Apply("environment")
           t2 == Task("sleep", "sleep")
           t3 == Apply("basic_services")
           t4 == Apply("services")
           t5 == Apply("roles")
           t6 == Apply("apps")
           t7 == Apply("pkgs")
           q  == Highest
<1>1. /\ t1 \in Tasks /\ t1.name = "environment" /\ t1.kind = "state"
      /\ t3 \in Tasks /\ t3.name = "basic_services" /\ t3.kind = "state"
      /\ t4 \in Tasks /\ t4.name = "services" /\ t4.kind = "state"
      /\ t5 \in Tasks /\ t5.name = "roles" /\ t5.kind = "state"
      /\ t6 \in Tasks /\ t6.name = "apps" /\ t6.kind = "state"
      /\ t7 \in Tasks /\ t7.name = "pkgs" /\ t7.kind = "state"
  BY ApplyTask DEF HighStates
<1>2. t2 \in Tasks /\ t2.name = "sleep" /\ t2.kind = "sleep" BY OtherTask
<1>3. q = <<t1, t2, t3, t4, t5, t6, t7>> BY DEF Highest
<1> HIDE DEF t1, t2, t3, t4, t5, t6, t7, q
<1>4. /\ q \in Seq(Tasks) /\ Len(q) = 7 /\ DOMAIN q = 1..7
      /\ q[1] = t1 /\ q[2] = t2 /\ q[3] = t3 /\ q[4] = t4
      /\ q[5] = t5 /\ q[6] = t6 /\ q[7] = t7
  BY <1>1, <1>2, <1>3
<1>5. /\ Link(t1, t2) /\ Link(t2, t3) /\ Link(t3, t4) /\ Link(t4, t5)
      /\ Link(t5, t6) /\ Link(t6, t7)
  BY <1>1, <1>2 DEF Link, Heir, Restarters, Plain
<1>6. ASSUME NEW i \in DOMAIN q, i + 1 \in DOMAIN q PROVE Link(q[i], q[i + 1])
  <2>1. i = 1 \/ i = 2 \/ i = 3 \/ i = 4 \/ i = 5 \/ i = 6 BY <1>4, <1>6
  <2>2. /\ Link(q[1], q[1 + 1]) /\ Link(q[2], q[2 + 1]) /\ Link(q[3], q[3 + 1])
        /\ Link(q[4], q[4 + 1]) /\ Link(q[5], q[5 + 1]) /\ Link(q[6], q[6 + 1])
    BY <1>4, <1>5
  <2>3. QED BY <2>1, <2>2
<1>7. Piece(q) /\ Begins(q)
  BY <1>1, <1>4, <1>6 DEF Piece, Begins, Restarters, Plain
<1>8. \A i \in DOMAIN q : i = 1 \/ i = 2 \/ i = 3 \/ i = 4 \/ i = 5 \/ i = 6 \/ i = 7
  BY <1>4
<1>9. /\ 1 \in DOMAIN q /\ 3 \in DOMAIN q /\ 4 \in DOMAIN q
      /\ 5 \in DOMAIN q /\ 6 \in DOMAIN q /\ 7 \in DOMAIN q
  BY <1>4
<1>10. "environment" \in Names(q) BY <1>1, <1>4, <1>9 DEF Names
<1>11. \A x \in StatesOf(q) : x \in HighStates \ {"cis"}
  BY <1>1, <1>2, <1>4, <1>8 DEF StatesOf, HighStates
<1>12. \A x \in HighStates \ {"cis"} : x \in StatesOf(q)
  <2>1. \A i \in DOMAIN q : q[i].kind = "state" => q[i].name \in StatesOf(q)
    BY DEF StatesOf
  <2>2. QED BY <1>1, <1>4, <1>9, <2>1 DEF HighStates
<1>13. QED BY <1>7, <1>10, <1>11, <1>12 DEF q

LEMMA PieceSeq ==
  ASSUME NEW q, Piece(q)
  PROVE  q \in Seq(Tasks) /\ Len(q) \in Nat
BY DEF Piece

LEMMA WhenPiece ==
  ASSUME NEW c \in BOOLEAN, NEW p, Piece(p), Begins(p)
  PROVE  /\ Piece(When(c, p)) /\ Begins(When(c, p))
         /\ Names(When(c, p)) = IF c THEN Names(p) ELSE {}
         /\ StatesOf(When(c, p)) = IF c THEN StatesOf(p) ELSE {}
         /\ When(c, p) = IF c THEN p ELSE <<>>
<1>1. CASE c BY <1>1 DEF When
<1>2. CASE ~c BY <1>2, Empty DEF When
<1>3. QED BY <1>1, <1>2

LEMMA HighstatePiece ==
  ASSUME NEW s \in Setting
  PROVE  /\ Piece(Highstate(s)) /\ Begins(Highstate(s)) /\ Highstate(s) # <<>>
         /\ Highstate(s)[Len(Highstate(s))].name = "wait cis"
         /\ StatesOf(Highstate(s)) = HighStates
<1> DEFINE a == When(s.snapshots, << Snapshot("pre-highstate") >>)
           b == When(s.snapshots, << Snapshot("pre-cis") >>)
           p == a \o Highest
           q == p \o b
<1>1. /\ Piece(a) /\ Begins(a) /\ StatesOf(a) = {}
      /\ Piece(b) /\ Begins(b) /\ StatesOf(b) = {}
  <2>1. s.snapshots \in BOOLEAN BY DEF Setting
  <2>2. QED BY <2>1, SnapshotPiece, WhenPiece
<1>2. Highstate(s) = q \o Enforced BY DEF Highstate, Highest, Enforced, WaitCis
<1> HIDE DEF a, b
<1>3. Piece(p) /\ Begins(p) /\ StatesOf(p) = HighStates \ {"cis"}
  <2>1. Piece(p) /\ Begins(p) BY <1>1, HighestPiece, Join
  <2>2. StatesOf(p) = StatesOf(a) \cup StatesOf(Highest)
    BY <1>1, HighestPiece, JoinNames DEF Piece
  <2>3. QED BY <1>1, <2>1, <2>2, HighestPiece
<1> HIDE DEF p
<1>4. Piece(q) /\ Begins(q) /\ StatesOf(q) = HighStates \ {"cis"}
  <2>1. Piece(q) /\ Begins(q) BY <1>1, <1>3, Join
  <2>2. StatesOf(q) = StatesOf(p) \cup StatesOf(b) BY <1>1, <1>3, JoinNames DEF Piece
  <2>3. QED BY <1>1, <1>3, <2>1, <2>2
<1> HIDE DEF q
<1> DEFINE r == q \o Enforced
<1>5. Piece(r) /\ Begins(r) /\ r # <<>> /\ r[Len(r)] = Enforced[Len(Enforced)]
  BY <1>4, EnforcedPiece, Join
<1>6. StatesOf(r) = StatesOf(q) \cup StatesOf(Enforced)
  BY <1>4, EnforcedPiece, JoinNames DEF Piece
<1>7. StatesOf(r) = HighStates BY <1>4, <1>6, EnforcedPiece DEF HighStates
<1>8. r[Len(r)].name = "wait cis" BY <1>5, EnforcedPiece, WaitCisTask
<1>9. QED BY <1>2, <1>5, <1>7, <1>8

\* What the script of a host is like: the host is made first, what restarts it
\* is followed by what waits, and the firewall comes with the highstate, which
\* ends with the wait for cis.
Shape(q, s) ==
  /\ Piece(q) /\ Len(q) >= 2 /\ q[1].name = "create"
  /\ StatesOf(q) \subseteq NetworkStates \cup HighStates
  /\ s.config => "wait essentials" \in Names(q)
  /\ "environment" \in Names(q) =>
       s.config /\ s.highstate /\ q[Len(q)].name = "wait cis"

\* The part that configures the host, if there is one.
Config(s) == When(s.config, Network(s) \o When(s.highstate, Highstate(s)))

LEMMA ConfigPiece ==
  ASSUME NEW s \in Setting
  PROVE  /\ Piece(Config(s)) /\ Begins(Config(s))
         /\ StatesOf(Config(s)) = IF s.config
                                  THEN NetworkStates \cup (IF s.highstate THEN HighStates ELSE {})
                                  ELSE {}
         /\ s.config => "wait essentials" \in Names(Config(s))
         /\ "environment" \in Names(Config(s)) =>
              s.config /\ s.highstate /\ Config(s) # <<>>
              /\ Config(s)[Len(Config(s))].name = "wait cis"
<1> DEFINE h == When(s.highstate, Highstate(s))
           n == Network(s)
           c == n \o h
<1>1. s.config \in BOOLEAN /\ s.highstate \in BOOLEAN BY DEF Setting
<1>2. /\ Piece(h) /\ Begins(h)
      /\ StatesOf(h) = IF s.highstate THEN HighStates ELSE {}
      /\ Names(h) = IF s.highstate THEN Names(Highstate(s)) ELSE {}
      /\ s.highstate => h # <<>> /\ h[Len(h)].name = "wait cis"
  BY <1>1, HighstatePiece, WhenPiece
<1>3. /\ Piece(n) /\ Begins(n) /\ "wait essentials" \in Names(n)
      /\ "environment" \notin Names(n) /\ StatesOf(n) = NetworkStates
  BY NetworkPiece
<1>4. Config(s) = When(s.config, c) BY DEF Config
<1> HIDE DEF h, n
<1>5. Piece(c) /\ Begins(c) /\ (h # <<>> => c # <<>> /\ c[Len(c)] = h[Len(h)])
  BY <1>2, <1>3, Join
<1>6. Names(c) = Names(n) \cup Names(h) /\ StatesOf(c) = StatesOf(n) \cup StatesOf(h)
  BY <1>2, <1>3, JoinNames DEF Piece
<1> HIDE DEF c
<1>7. /\ Piece(Config(s)) /\ Begins(Config(s))
      /\ Names(Config(s)) = IF s.config THEN Names(c) ELSE {}
      /\ StatesOf(Config(s)) = IF s.config THEN StatesOf(c) ELSE {}
      /\ Config(s) = IF s.config THEN c ELSE <<>>
  <2> DEFINE w == When(s.config, c)
  <2>1. /\ Piece(w) /\ Begins(w)
        /\ Names(w) = IF s.config THEN Names(c) ELSE {}
        /\ StatesOf(w) = IF s.config THEN StatesOf(c) ELSE {}
        /\ w = IF s.config THEN c ELSE <<>>
    BY <1>1, <1>5, WhenPiece
  <2>2. Config(s) = w BY <1>4
  <2> HIDE DEF w
  <2>3. QED BY <2>1, <2>2
<1>8. QED BY <1>1, <1>2, <1>3, <1>5, <1>6, <1>7

LEMMA ScriptShape ==
  ASSUME NEW s \in Setting
  PROVE  /\ Shape(Steps(s), s)
         /\ StatesOf(Steps(s)) = StatesOf(Config(s))
<1> DEFINE a == When(s.redefine, Redefined)
           b == When(s.snapshots, << Snapshot("pre-config") >>)
           p == Making \o a
           q == p \o b
           c == Config(s)
           r == q \o c
<1>1. s.redefine \in BOOLEAN /\ s.snapshots \in BOOLEAN BY DEF Setting
<1>2. /\ Piece(a) /\ Begins(a) /\ StatesOf(a) = {} /\ "environment" \notin Names(a)
  <2>1. /\ Piece(a) /\ Begins(a)
        /\ Names(a) = IF s.redefine THEN Names(Redefined) ELSE {}
        /\ StatesOf(a) = IF s.redefine THEN StatesOf(Redefined) ELSE {}
    BY <1>1, RedefinedPiece, WhenPiece
  <2> HIDE DEF a
  <2>2. StatesOf(Redefined) = {} /\ "environment" \notin Names(Redefined)
    BY RedefinedPiece
  <2>3. StatesOf(a) = {} /\ "environment" \notin Names(a) BY <2>1, <2>2
  <2>4. QED BY <2>1, <2>3
<1>3. /\ Piece(b) /\ Begins(b) /\ StatesOf(b) = {} /\ "environment" \notin Names(b)
  BY <1>1, SnapshotPiece, WhenPiece
<1>4. Steps(s) = r BY DEF Steps, Making, Redefined, Config
<1>5. /\ Piece(c) /\ Begins(c)
      /\ s.config => "wait essentials" \in Names(c)
      /\ "environment" \in Names(c) =>
           s.config /\ s.highstate /\ c # <<>> /\ c[Len(c)].name = "wait cis"
      /\ StatesOf(c) \subseteq NetworkStates \cup HighStates
  BY ConfigPiece
<1> HIDE DEF a, b, c
<1>6. /\ Piece(p) /\ p # <<>> /\ p[1] = Task("create", "create") /\ Len(p) >= 2
      /\ StatesOf(p) = {} /\ "environment" \notin Names(p)
  <2>1. /\ Piece(p) /\ p # <<>> /\ p[1] = Making[1] /\ Len(p) = Len(Making) + Len(a)
    BY <1>2, MakingPiece, Join
  <2>2. Names(p) = Names(Making) \cup Names(a) /\ StatesOf(p) = StatesOf(Making) \cup StatesOf(a)
    BY <1>2, MakingPiece, JoinNames DEF Piece
  <2>3. Len(a) \in Nat BY <1>2, PieceSeq
  <2> HIDE DEF p
  <2>4. Len(p) >= 2
    <3>1. Len(Making) = 2 BY MakingPiece
    <3>2. QED BY <2>1, <2>3, <3>1
  <2>5. QED BY <1>2, <2>1, <2>2, <2>4, MakingPiece
<1> HIDE DEF p
<1>7. /\ Piece(q) /\ q # <<>> /\ q[1] = Task("create", "create") /\ Len(q) >= 2
      /\ StatesOf(q) = {} /\ "environment" \notin Names(q)
  <2>1. /\ Piece(q) /\ q # <<>> /\ q[1] = p[1] /\ Len(q) = Len(p) + Len(b)
    BY <1>3, <1>6, Join
  <2>2. Names(q) = Names(p) \cup Names(b) /\ StatesOf(q) = StatesOf(p) \cup StatesOf(b)
    BY <1>3, <1>6, JoinNames DEF Piece
  <2>3. Len(b) \in Nat /\ Len(p) \in Nat BY <1>3, <1>6, PieceSeq
  <2> HIDE DEF q
  <2>4. Len(q) >= 2 BY <1>6, <2>1, <2>3
  <2>5. QED BY <1>3, <1>6, <2>1, <2>2, <2>4
<1> HIDE DEF q
<1>8. /\ Piece(r) /\ r # <<>> /\ r[1] = Task("create", "create") /\ Len(r) >= 2
      /\ (c # <<>> => r[Len(r)] = c[Len(c)])
  <2>1. /\ Piece(r) /\ r # <<>> /\ r[1] = q[1] /\ Len(r) = Len(q) + Len(c)
        /\ (c # <<>> => r[Len(r)] = c[Len(c)])
    BY <1>5, <1>7, Join
  <2>2. Len(q) \in Nat /\ Len(c) \in Nat BY <1>5, <1>7, PieceSeq
  <2> HIDE DEF r
  <2>3. Len(r) >= 2 BY <1>7, <2>1, <2>2
  <2>4. QED BY <1>7, <2>1, <2>3
<1>9. Names(r) = Names(q) \cup Names(c) /\ StatesOf(r) = StatesOf(q) \cup StatesOf(c)
  BY <1>5, <1>7, JoinNames DEF Piece
<1> HIDE DEF r
<1>10. r[1].name = "create"
  <2>1. r[1] = Task("create", "create") BY <1>8
  <2>2. QED BY <2>1, CreateName
<1>11. Shape(r, s) BY <1>5, <1>7, <1>8, <1>9, <1>10 DEF Shape
<1>12. StatesOf(r) = StatesOf(c) BY <1>7, <1>9
<1>13. QED BY <1>4, <1>11, <1>12 DEF c

\* The states of all scripts are those of the longest.
LEMMA AllStatesAre == AllStates = NetworkStates \cup HighStates
<1>1. Full \in Setting /\ Full.config /\ Full.highstate BY DEF Full, Setting
<1>2. StatesOf(Steps(Full)) = NetworkStates \cup HighStates
  BY <1>1, ScriptShape, ConfigPiece
<1>3. QED BY <1>2 DEF AllStates

-----------------------------------------------------------------------------
(* The step that is run. *)

LEMMA ShapeNow ==
  ASSUME setting \in Settings
  PROVE  /\ Shape(Script[setting], setting)
         /\ Script[setting] \in Seq(Tasks)
         /\ Len(Script[setting]) \in Nat /\ Len(Script[setting]) >= 2
         /\ DOMAIN Script[setting] = 1..Len(Script[setting])
         /\ States[setting] = StatesOf(Script[setting])
         /\ StatesOf(Script[setting]) \subseteq AllStates
<1>1. setting \in Setting BY HostAssumption
<1>2. Script[setting] = Steps(setting) BY DEF Script
<1>3. Shape(Script[setting], setting) BY <1>1, <1>2, ScriptShape
<1>4. Script[setting] \in Seq(Tasks) /\ Len(Script[setting]) \in Nat
  BY <1>3, PieceSeq DEF Shape
<1>5. Len(Script[setting]) >= 2 BY <1>3 DEF Shape
<1>6. States[setting] = StatesOf(Script[setting]) BY DEF States
<1>7. StatesOf(Script[setting]) \subseteq AllStates BY <1>3, AllStatesAre DEF Shape
<1>8. QED BY <1>3, <1>4, <1>5, <1>6, <1>7

LEMMA TaskFacts ==
  ASSUME NEW t \in Tasks
  PROVE  WellFormed(t) /\ t.require \in SUBSET Awaited /\ t.onchanges \in SUBSET Awaited
BY DEF Tasks

LEMMA StepFacts ==
  ASSUME setting \in Settings, Running
  PROVE  /\ pc \in Nat /\ 1 <= pc /\ pc <= Len(Script[setting])
         /\ WellFormed(Step)
         /\ Step.require \in SUBSET Awaited /\ Step.onchanges \in SUBSET Awaited
         /\ Step.kind = "create" <=> pc = 1
         /\ Step.kind = "state" => Step.name \in AllStates
<1> DEFINE q == Script[setting]
<1>1. Shape(q, setting) /\ q \in Seq(Tasks) /\ Len(q) \in Nat /\ DOMAIN q = 1..Len(q)
      /\ StatesOf(q) \subseteq AllStates
  BY ShapeNow
<1>2. Step = q[pc] BY DEF Step
<1>3. pc \in DOMAIN q BY DEF Running
<1> HIDE DEF q
<1>4. Step \in Tasks BY <1>1, <1>2, <1>3
<1>5. pc \in Nat /\ 1 <= pc /\ pc <= Len(q) BY <1>1, <1>3
<1>6. WellFormed(Step) /\ Step.require \in SUBSET Awaited /\ Step.onchanges \in SUBSET Awaited
  BY <1>4, TaskFacts
<1>7. pc = 1 => Step.kind = "create" BY <1>1, <1>2, <1>6 DEF Shape, WellFormed
<1>8. pc # 1 => Step.kind # "create"
  <2> SUFFICES ASSUME pc # 1 PROVE Step.kind # "create"
    OBVIOUS
  <2>1. pc - 1 \in DOMAIN q /\ (pc - 1) + 1 = pc BY <1>1, <1>3
  <2>2. Link(q[pc - 1], q[pc]) BY <1>1, <1>3, <2>1 DEF Shape, Piece
  <2>3. QED BY <1>2, <1>6, <2>2 DEF Link, Heir, WellFormed, Plain, Restarters
<1>9. Step.kind = "state" => Step.name \in AllStates
  BY <1>1, <1>2, <1>3 DEF StatesOf
<1>10. QED BY <1>5, <1>6, <1>7, <1>8, <1>9 DEF q

\* The step before the one that is run.
Prev == Script[setting][pc - 1]
\* The steps before it.
Passed(name) == \E j \in DOMAIN Script[setting] : j < pc /\ Script[setting][j].name = name

\* One step on.
LEMMA Advance ==
  ASSUME setting \in Settings, Running, pc' = pc + 1, setting' = setting
  PROVE  /\ pc' \in 0..(Len(Script[setting']) + 1) /\ pc' > 1
         /\ Running' => WellFormed(Step') /\ Link(Step, Step') /\ Prev' = Step
         /\ ~Running' => Step.name \notin Restarters /\ pc = Len(Script[setting])
         /\ \A n : Passed(n)' <=> Passed(n) \/ Step.name = n
<1> DEFINE q == Script[setting]
<1>1. /\ Shape(q, setting) /\ q \in Seq(Tasks) /\ Len(q) \in Nat /\ Len(q) >= 2
      /\ DOMAIN q = 1..Len(q)
  BY ShapeNow
<1>2. Step = q[pc] BY DEF Step
<1>3. pc \in DOMAIN q BY DEF Running
<1>4. Running' <=> pc + 1 \in DOMAIN q BY DEF Running
<1>5. Step' = q[pc + 1] BY DEF Step
<1>6. Prev' = q[(pc + 1) - 1] BY DEF Prev
<1>8. \A n : Passed(n) <=> \E j \in DOMAIN q : j < pc /\ q[j].name = n BY DEF Passed
<1>9. \A n : Passed(n)' <=> \E j \in DOMAIN q : j < pc + 1 /\ q[j].name = n BY DEF Passed
<1>10. Script[setting'] = q OBVIOUS
<1> HIDE DEF q
<1>11. pc \in Nat /\ 1 <= pc /\ pc <= Len(q) BY <1>1, <1>3
<1>12. Running' => WellFormed(Step') /\ Link(Step, Step') /\ Prev' = Step
  <2>1. (pc + 1) - 1 = pc BY <1>11
  <2>2. pc + 1 \in DOMAIN q => Link(q[pc], q[pc + 1]) BY <1>1, <1>3 DEF Shape, Piece
  <2>3. pc + 1 \in DOMAIN q => WellFormed(q[pc + 1])
    <3>1. pc + 1 \in DOMAIN q => q[pc + 1] \in Tasks BY <1>1
    <3>2. QED BY <3>1, TaskFacts
  <2>4. QED BY <1>2, <1>4, <1>5, <1>6, <2>1, <2>2, <2>3
<1>13. ~Running' => Step.name \notin Restarters /\ pc = Len(q)
  <2>1. ~Running' => pc = Len(q)
    <3> DEFINE n == Len(q)
    <3>0. n \in Nat BY <1>1
    <3> HIDE DEF n
    <3>1. pc + 1 \notin 1..n => pc = n
      <4>1. pc + 1 >= 1 /\ pc <= n BY <3>0, <1>11 DEF n
      <4>2. QED BY <3>0, <4>1, <1>11
    <3>2. pc + 1 \notin DOMAIN q => pc = Len(q) BY <1>1, <3>1 DEF n
    <3>3. QED BY <1>4, <3>2
  <2>2. q # <<>> BY <1>1
  <2>3. q[Len(q)].name \notin Restarters BY <1>1, <2>2 DEF Shape, Piece
  <2>4. QED BY <1>2, <2>1, <2>3
<1>14. ASSUME NEW n PROVE Passed(n)' <=> Passed(n) \/ Step.name = n
  <2>1. \A j \in DOMAIN q : j < pc + 1 <=> j < pc \/ j = pc BY <1>1, <1>11
  <2>2. QED BY <1>2, <1>3, <1>8, <1>9, <2>1
<1>15. pc' \in 0..(Len(q) + 1) /\ pc' > 1 BY <1>1, <1>11
<1>16. QED BY <1>10, <1>12, <1>13, <1>14, <1>15 DEF q

-----------------------------------------------------------------------------
(* Types. *)

MachineOK ==
  /\ host \in {"absent", "up", "due", "down"}
  /\ applied \subseteq AllStates /\ loaded \in BOOLEAN
  /\ (loaded => "essentials" \in applied) /\ (host = "absent" => applied = {})
ControlOK ==
  /\ setting \in Settings /\ pc \in 0..(Len(Script[setting]) + 1)
  /\ listening \in BOOLEAN /\ (listening => Running /\ Step.kind = "wait")
  /\ results \in [Awaited -> {"none", "true", "changed", "false"}] /\ failed \in BOOLEAN
  /\ edits \in 0..MaxEdits /\ meddled \in BOOLEAN
BudgetOK == faults \in 0..MaxFaults /\ struck \in BOOLEAN

LEMMA TypeParts == TypeOK <=> MachineOK /\ ControlOK /\ BudgetOK
BY DEF TypeOK, MachineOK, ControlOK, BudgetOK

Came == {"true", "changed", "false"}
LEMMA ConcludeType ==
  ASSUME ControlOK, Running, NEW r \in Came, Conclude(r)
  PROVE  ControlOK'
<1>1. /\ setting' = setting /\ edits' = edits /\ meddled' = meddled
      /\ pc' = pc + 1 /\ listening' = FALSE /\ failed' = (failed \/ r = "false")
      /\ results' = IF Step.name \in Awaited THEN [results EXCEPT ![Step.name] = r] ELSE results
  BY DEF Conclude
<1>2. setting' \in Settings /\ pc' \in 0..(Len(Script[setting']) + 1)
  BY <1>1, Advance DEF ControlOK
<1>3. results' \in [Awaited -> {"none", "true", "changed", "false"}]
  BY <1>1 DEF ControlOK, Came
<1>4. failed' \in BOOLEAN BY <1>1 DEF ControlOK
<1>5. QED BY <1>1, <1>2, <1>3, <1>4 DEF ControlOK

LEMMA BudgetType ==
  ASSUME BudgetOK, Orderly \/ Fault
  PROVE  BudgetOK'
<1>1. CASE Orderly BY <1>1 DEF BudgetOK, Orderly
<1>2. CASE Fault
  <2>1. faults' \in 0..MaxFaults BY <1>2, HostAssumption DEF BudgetOK, Fault
  <2>2. struck' = TRUE BY <1>2 DEF Fault
  <2>3. QED BY <2>1, <2>2 DEF BudgetOK
<1>3. QED BY <1>1, <1>2

\* The rest of the orchestration is as it was.
LEMMA SameControl ==
  ASSUME ControlOK, UNCHANGED <<setting, pc, results, failed, edits, meddled>>,
         listening' \in {listening, FALSE}
  PROVE  ControlOK'
<1>1. Running' = Running /\ Step' = Step BY DEF Running, Step
<1>2. CASE listening' = listening BY <1>1, <1>2 DEF ControlOK
<1>3. CASE listening' = FALSE BY <1>3 DEF ControlOK
<1>4. QED BY <1>2, <1>3

LEMMA TypeInit == Init => TypeOK
<1> SUFFICES ASSUME Init PROVE TypeOK
  OBVIOUS
<1>1. Len(Script[setting]) \in Nat BY ShapeNow DEF Init
<1>2. 0 \in 0..(Len(Script[setting]) + 1) /\ 0 \in 0..MaxFaults /\ 0 \in 0..MaxEdits
  BY <1>1, HostAssumption
<1>3. QED BY <1>2 DEF Init, TypeOK

LEMMA PartsNext ==
  ASSUME MachineOK', ControlOK', BudgetOK'
  PROVE  TypeOK'
BY DEF TypeOK, MachineOK, ControlOK, BudgetOK

LEMMA StartType ==
  ASSUME TypeOK, Start
  PROVE  TypeOK'
<1>1. /\ ~Running /\ setting' = setting /\ listening' = listening /\ edits' = edits
      /\ pc' \in {0, 1} /\ results' = [n \in Awaited |-> "none"] /\ failed' = FALSE
      /\ struck' = FALSE /\ meddled' = FALSE /\ faults' = faults /\ UNCHANGED machine
  BY DEF Start
<1>2. MachineOK' BY <1>1, TypeParts DEF MachineOK, machine
<1>3. BudgetOK' BY <1>1, TypeParts DEF BudgetOK
<1>4. setting \in Settings /\ ~listening /\ edits \in 0..MaxEdits
  BY <1>1, TypeParts DEF ControlOK
<1>5. pc' \in 0..(Len(Script[setting']) + 1)
  <2>1. Len(Script[setting]) \in Nat BY <1>4, ShapeNow
  <2>2. {0, 1} \subseteq 0..(Len(Script[setting]) + 1) BY <2>1
  <2>3. QED BY <1>1, <2>2
<1>6. listening' = FALSE BY <1>1, <1>4, TypeParts DEF ControlOK
<1>7. results' \in [Awaited -> {"none", "true", "changed", "false"}] BY <1>1
<1>8. ControlOK' BY <1>1, <1>4, <1>5, <1>6, <1>7 DEF ControlOK
<1>9. QED BY <1>2, <1>3, <1>8, PartsNext

LEMMA SkipType ==
  ASSUME TypeOK, Skip
  PROVE  TypeOK'
<1>1. Running /\ Orderly /\ UNCHANGED machine /\ (Conclude("false") \/ Conclude("true"))
  BY DEF Skip
<1>2. ControlOK' BY <1>1, TypeParts, ConcludeType DEF Came
<1>3. BudgetOK' BY <1>1, TypeParts, BudgetType
<1>4. MachineOK' BY <1>1, TypeParts DEF MachineOK, machine
<1>5. QED BY <1>2, <1>3, <1>4, PartsNext

LEMMA CreateType ==
  ASSUME TypeOK, Create
  PROVE  TypeOK'
<1>1. /\ Running /\ (Orderly \/ Fault) /\ (Conclude("false") \/ Conclude("changed"))
      /\ \/ host = "absent" /\ host' = "up" /\ applied' = {} /\ loaded' = FALSE
         \/ host' \in {host, "up"} /\ applied' = applied /\ loaded' = loaded
  BY DEF Create, At, machine
<1>2. ControlOK' BY <1>1, TypeParts, ConcludeType DEF Came
<1>3. BudgetOK' BY <1>1, TypeParts, BudgetType
<1>4. MachineOK'
  <2>1. MachineOK BY TypeParts
  <2>2. CASE host' = "up" /\ applied' = {} /\ loaded' = FALSE BY <2>2 DEF MachineOK
  <2>3. CASE host' = host /\ applied' = applied /\ loaded' = loaded
    BY <2>1, <2>3 DEF MachineOK
  <2>4. CASE host' = "up" /\ applied' = applied /\ loaded' = loaded
    BY <2>1, <2>4 DEF MachineOK
  <2>5. QED BY <1>1, <2>2, <2>3, <2>4
<1>5. QED BY <1>2, <1>3, <1>4, PartsNext

LEMMA AsideType ==
  ASSUME TypeOK, Aside
  PROVE  TypeOK'
<1>1. /\ Running /\ (Orderly \/ Fault) /\ UNCHANGED machine
      /\ Conclude("false") \/ Conclude("changed") \/ Conclude("true")
  BY DEF Aside, At
<1>2. ControlOK' BY <1>1, TypeParts, ConcludeType DEF Came
<1>3. BudgetOK' BY <1>1, TypeParts, BudgetType
<1>4. MachineOK' BY <1>1, TypeParts DEF MachineOK, machine
<1>5. QED BY <1>2, <1>3, <1>4, PartsNext

LEMMA RedefineType ==
  ASSUME TypeOK, Redefine
  PROVE  TypeOK'
<1>1. /\ Running /\ (Orderly \/ Fault) /\ (Conclude("false") \/ Conclude("changed"))
      /\ applied' = applied /\ loaded' = loaded
      /\ host' = host \/ (host # "absent" /\ host' = "down")
  BY DEF Redefine, At
<1>2. ControlOK' BY <1>1, TypeParts, ConcludeType DEF Came
<1>3. BudgetOK' BY <1>1, TypeParts, BudgetType
<1>4. MachineOK' BY <1>1, TypeParts DEF MachineOK
<1>5. QED BY <1>2, <1>3, <1>4, PartsNext

LEMMA ApplyType ==
  ASSUME TypeOK, ApplyState
  PROVE  TypeOK'
<1>1. /\ Running /\ Step.kind = "state" /\ (Orderly \/ Fault) /\ loaded' = loaded
      /\ Conclude("false") \/ Conclude("changed") \/ Conclude("true")
      /\ \/ host' = host /\ applied' = applied
         \/ /\ host \in {"up", "due"} /\ host' \in {host, "due", "down"}
            /\ applied' \in {applied, applied \cup {Step.name}}
  BY DEF ApplyState, At
<1>2. ControlOK' BY <1>1, TypeParts, ConcludeType DEF Came
<1>3. BudgetOK' BY <1>1, TypeParts, BudgetType
<1>4. Step.name \in AllStates BY <1>1, TypeParts, StepFacts DEF ControlOK
<1>5. MachineOK' BY <1>1, <1>4, TypeParts DEF MachineOK
<1>6. QED BY <1>2, <1>3, <1>5, PartsNext

LEMMA ListenType ==
  ASSUME TypeOK, Listen
  PROVE  TypeOK'
<1>1. /\ Running /\ Step.kind = "wait" /\ listening' = TRUE
      /\ UNCHANGED <<setting, machine, pc, results, failed, faults, edits, struck, meddled>>
  BY DEF Listen, At
<1>2. Running' /\ Step'.kind = "wait" BY <1>1 DEF Running, Step
<1>3. ControlOK' BY <1>1, <1>2, TypeParts DEF ControlOK
<1>4. BudgetOK' BY <1>1, TypeParts DEF BudgetOK
<1>5. MachineOK' BY <1>1, TypeParts DEF MachineOK, machine
<1>6. QED BY <1>3, <1>4, <1>5, PartsNext

LEMMA WaitType ==
  ASSUME TypeOK, Timeout \/ Sleep
  PROVE  TypeOK'
<1>1. /\ listening \/ Running
      /\ Orderly \/ Fault
      /\ UNCHANGED machine
      /\ Conclude("false") \/ Conclude("true")
  BY DEF Timeout, Sleep, At
<1>2. Running BY <1>1, TypeParts DEF ControlOK
<1>3. ControlOK' BY <1>1, <1>2, TypeParts, ConcludeType DEF Came
<1>4. BudgetOK' BY <1>1, TypeParts, BudgetType DEF Timeout, Sleep
<1>5. MachineOK' BY <1>1, TypeParts DEF MachineOK, machine, Timeout, Sleep
<1>6. QED BY <1>3, <1>4, <1>5, PartsNext

LEMMA KilledType ==
  ASSUME TypeOK, Killed
  PROVE  TypeOK'
<1>1. /\ Fault /\ pc' = 0 /\ listening' = FALSE
      /\ UNCHANGED <<setting, machine, results, failed, edits, meddled>>
  BY DEF Killed
<1>2. Len(Script[setting]) \in Nat BY TypeParts, ShapeNow DEF ControlOK
<1>3. pc' \in 0..(Len(Script[setting']) + 1) BY <1>1, <1>2
<1>4. ControlOK' BY <1>1, <1>3, TypeParts DEF ControlOK
<1>5. BudgetOK' BY <1>1, TypeParts, BudgetType
<1>6. MachineOK' BY <1>1, TypeParts DEF MachineOK, machine
<1>7. QED BY <1>4, <1>5, <1>6, PartsNext

LEMMA GoDownType ==
  ASSUME TypeOK, GoDown
  PROVE  TypeOK'
<1>1. /\ host = "due" /\ host' = "down"
      /\ UNCHANGED <<setting, applied, loaded, pc, listening, results, failed, faults, edits,
                     struck, meddled>>
  BY DEF GoDown
<1>2. ControlOK' BY <1>1, TypeParts, SameControl
<1>3. BudgetOK' BY <1>1, TypeParts DEF BudgetOK
<1>4. MachineOK' BY <1>1, TypeParts DEF MachineOK
<1>5. QED BY <1>2, <1>3, <1>4, PartsNext

LEMMA BootType ==
  ASSUME TypeOK, Boot
  PROVE  TypeOK'
<1>1. /\ host' = "up" /\ loaded' = ("essentials" \in applied) /\ applied' = applied
      /\ Orderly \/ Fault
      /\ \/ listening /\ Conclude("true")
         \/ UNCHANGED <<setting, pc, listening, results, failed, edits, meddled>>
  BY DEF Boot
<1>2. listening => Running BY TypeParts DEF ControlOK
<1>3. ControlOK' BY <1>1, <1>2, TypeParts, ConcludeType, SameControl DEF Came
<1>4. BudgetOK' BY <1>1, TypeParts, BudgetType
<1>5. MachineOK' BY <1>1, TypeParts DEF MachineOK
<1>6. QED BY <1>3, <1>4, <1>5, PartsNext

LEMMA OperatorType ==
  ASSUME TypeOK, Operator
  PROVE  TypeOK'
<1>1. /\ edits < MaxEdits /\ edits' = edits + 1 /\ meddled' = TRUE
      /\ pc' = IF Running THEN pc ELSE 0
      /\ UNCHANGED <<listening, results, failed, faults, struck>>
      /\ \/ host = "absent" /\ host' = "up" /\ UNCHANGED <<setting, applied, loaded>>
         \/ host # "absent" /\ host' = "absent" /\ applied' = {} /\ loaded' = FALSE
            /\ UNCHANGED setting
         \/ ~Running /\ setting' \in Settings \ {setting} /\ UNCHANGED machine
  BY DEF Operator
<1>2. edits' \in 0..MaxEdits BY <1>1, TypeParts, HostAssumption DEF ControlOK
<1>3. MachineOK'
  <2>1. MachineOK BY TypeParts
  <2>2. CASE host' = "up" /\ UNCHANGED <<applied, loaded>> BY <2>1, <2>2 DEF MachineOK
  <2>3. CASE host' = "absent" /\ applied' = {} /\ loaded' = FALSE
    BY <2>3 DEF MachineOK
  <2>4. CASE UNCHANGED machine BY <2>1, <2>4 DEF MachineOK, machine
  <2>5. QED BY <1>1, <2>2, <2>3, <2>4
<1>4. BudgetOK' BY <1>1, TypeParts DEF BudgetOK
<1>5. setting' \in Settings BY <1>1, TypeParts DEF ControlOK
<1>6. ControlOK'
  <2>1. CASE Running
    <3>1. setting' = setting /\ pc' = pc BY <1>1, <2>1
    <3>2. Running' = Running /\ Step' = Step BY <3>1 DEF Running, Step
    <3>3. QED BY <1>1, <1>2, <1>5, <3>1, <3>2, TypeParts DEF ControlOK
  <2>2. CASE ~Running
    <3>1. listening' = FALSE /\ pc' = 0 BY <1>1, <2>2, TypeParts DEF ControlOK
    <3>2. Len(Script[setting'])  \in Nat
      <4>1. \A s \in Settings : Len(Script[s]) \in Nat
        <5> SUFFICES ASSUME NEW s \in Settings PROVE Len(Script[s]) \in Nat
          OBVIOUS
        <5>1. Shape(Steps(s), s) BY ScriptShape, HostAssumption
        <5>2. QED BY <5>1, PieceSeq DEF Shape, Script
      <4>2. QED BY <1>5, <4>1
    <3>3. pc' \in 0..(Len(Script[setting']) + 1) BY <3>1, <3>2
    <3>4. QED BY <1>1, <1>2, <1>5, <3>1, <3>3, TypeParts DEF ControlOK
  <2>3. QED BY <2>1, <2>2
<1>7. QED BY <1>3, <1>4, <1>6, PartsNext

LEMMA TypeNext == TypeOK /\ [Next]_vars => TypeOK'
<1> SUFFICES ASSUME TypeOK, [Next]_vars PROVE TypeOK'
  OBVIOUS
<1>1. CASE Start BY <1>1, StartType
<1>2. CASE Skip BY <1>2, SkipType
<1>3. CASE Create BY <1>3, CreateType
<1>4. CASE Aside BY <1>4, AsideType
<1>5. CASE Redefine BY <1>5, RedefineType
<1>6. CASE ApplyState BY <1>6, ApplyType
<1>7. CASE Listen BY <1>7, ListenType
<1>8. CASE Timeout \/ Sleep BY <1>8, WaitType
<1>9. CASE Killed BY <1>9, KilledType
<1>10. CASE GoDown BY <1>10, GoDownType
<1>11. CASE Boot BY <1>11, BootType
<1>12. CASE Operator BY <1>12, OperatorType
<1>13. CASE UNCHANGED vars
  <2>1. ControlOK' BY <1>13, TypeParts, SameControl DEF vars
  <2>2. BudgetOK' BY <1>13, TypeParts DEF BudgetOK, vars
  <2>3. MachineOK' BY <1>13, TypeParts DEF MachineOK, vars
  <2>4. QED BY <2>1, <2>2, <2>3, PartsNext
<1>14. QED
  BY <1>1, <1>2, <1>3, <1>4, <1>5, <1>6, <1>7, <1>8, <1>9, <1>10, <1>11, <1>12, <1>13
     DEF Next, Orchestrate

\* Every variable always holds a value of its kind, and only a wait listens.
THEOREM HostTypes == Spec => []TypeOK
BY TypeInit, TypeNext, PTL DEF Spec

-----------------------------------------------------------------------------
(* The inductive invariant. *)

\* The step before this one has restarted the host.
Owes(name) == name = "redefine" \/ Restarts(name)
Owed == Running /\ pc > 1 /\ Owes(Prev.name)

\* A step that failed is remembered; the wait for cis knows whether cis was
\* enforced; and what has begun to listen was neither refused nor unneeded.
Told ==
  /\ (\E n \in Awaited : results[n] = "false") => failed
  /\ (Running /\ Step.name = "wait cis") =>
       results["cis"] \in {"false", IF setting.cis THEN "changed" ELSE "true"}
  /\ listening => ~Refused /\ ~Unneeded

\* Without a fault the host restarts where a wait or the sleep comes next, and
\* nowhere else; and each wait finds it restarting, if its address is new.
Calm ==
  /\ host = "absent" <=> pc = 1
  /\ \A n \in Awaited : results[n] # "false"
  /\ host \in {"due", "down"} => Owed
  /\ Owed /\ Step.kind = "wait" => host \in {"due", "down"}
  /\ setting.net = "new" => ~failed

Essential  == Passed("wait essentials")
Firewalled == Passed("environment")
Reached ==
  \A j \in DOMAIN Script[setting] :
    j < pc /\ Script[setting][j].kind = "state" => Script[setting][j].name \in applied

\* Without a failure the host has every state that has been passed, and has
\* restarted with its essentials; only the firewall's restart may go on.
Clean ==
  /\ host = "absent" <=> pc = 1
  /\ Reached
  /\ Essential => loaded
  /\ host \in {"due", "down"} =>
       \/ Owed /\ Step.kind = "wait"
       \/ Firewalled /\ setting.debian
  /\ Finished /\ setting.cis => host = "up"

Undisturbed == pc >= 1 /\ ~struck /\ ~meddled /\ Patient => Calm
Flawless    == pc >= 1 /\ ~failed /\ ~meddled /\ Patient => Clean

Inv == Told /\ Undisturbed /\ Flawless

-----------------------------------------------------------------------------
(* What a step finds. *)

LEMMA PrevFacts ==
  ASSUME setting \in Settings, Running, pc > 1
  PROVE  /\ pc - 1 \in DOMAIN Script[setting] /\ pc - 1 < pc
         /\ WellFormed(Prev) /\ Link(Prev, Step)
<1> DEFINE q == Script[setting]
<1>1. Shape(q, setting) /\ q \in Seq(Tasks) /\ Len(q) \in Nat /\ DOMAIN q = 1..Len(q)
  BY ShapeNow
<1>2. Step = q[pc] /\ Prev = q[pc - 1] BY DEF Step, Prev
<1>3. pc \in DOMAIN q BY DEF Running
<1> HIDE DEF q
<1>4. pc - 1 \in DOMAIN q /\ pc - 1 < pc /\ (pc - 1) + 1 = pc BY <1>1, <1>3
<1>5. Link(q[pc - 1], q[pc]) BY <1>1, <1>3, <1>4 DEF Shape, Piece
<1>6. q[pc - 1] \in Tasks BY <1>1, <1>4
<1>7. QED BY <1>2, <1>4, <1>5, <1>6, TaskFacts DEF q

\* A wait comes after the step it waits for, and only there.
LEMMA Behind ==
  ASSUME NEW a, NEW b, WellFormed(a), WellFormed(b), Link(a, b)
  PROVE  /\ b.kind # "create"
         /\ b.kind \in {"wait", "sleep"} => a.name \in Restarters
         /\ b.name = "wait interfaces" => a.name = "redefine"
         /\ b.name = "wait essentials" => a.name = "essentials" /\ a.kind = "state"
         /\ b.name = "wait nmconnections" => a.name = "nmconnections"
         /\ b.name = "sleep" => a.name = "environment"
         /\ b.name = "wait cis" => a.name = "cis"
         /\ Owes(a.name) => b.kind \in {"wait", "sleep"}
         /\ Owes(a.name) /\ b.kind = "sleep" => a.name = "environment" /\ setting.debian
<1>1. a.name \in Restarters => b.name = Heir(a.name) BY DEF Link
<1>2. a.name \notin Restarters => b.kind \in Plain BY DEF Link
<1>3. Owes(a.name) => a.name \in Restarters BY DEF Owes, Restarts, Restarters
<1>4. b.kind \in Plain =>
        b.kind \notin {"wait", "sleep", "create"} /\ b.name \notin Waits /\ b.name # "sleep"
  BY DEF Plain, WellFormed
<1>5. b.name \in Waits => b.kind = "wait" BY DEF WellFormed
<1>6. b.name = "sleep" <=> b.kind = "sleep" BY DEF WellFormed
<1>7. a.name = "essentials" => a.kind = "state" BY DEF WellFormed, NetworkStates
<1>8. CASE a.name \in Restarters
  <2>1. \/ a.name = "redefine" /\ b.name = "wait interfaces"
        \/ a.name = "essentials" /\ b.name = "wait essentials"
        \/ a.name = "nmconnections" /\ b.name = "wait nmconnections"
        \/ a.name = "environment" /\ b.name = "sleep"
        \/ a.name = "cis" /\ b.name = "wait cis"
    BY <1>1, <1>8 DEF Restarters, Heir
  <2>2. a.name = "environment" /\ Owes(a.name) => setting.debian BY DEF Owes, Restarts
  <2>3. QED BY <1>5, <1>6, <1>7, <1>8, <2>1, <2>2 DEF Waits
<1>9. CASE a.name \notin Restarters BY <1>2, <1>3, <1>4, <1>9 DEF Waits
<1>10. QED BY <1>8, <1>9

\* Names that owe no restart.
LEMMA Idle ==
  ASSUME NEW t, WellFormed(t), t.kind \notin {"state", "redefine"}
  PROVE  ~Owes(t.name) /\ t.name \notin Restarters /\ t.name \notin Awaited
BY DEF WellFormed, Owes, Restarts, Restarters, Awaited, NetworkStates, HighStates

\* Nothing is refused when nothing has failed, and only the wait for cis may be
\* unneeded, if cis is not enforced.
LEMMA Needed ==
  ASSUME TypeOK, Told, Running, \A n \in Awaited : results[n] # "false"
  PROVE  /\ ~Refused
         /\ Unneeded => Step.name = "wait cis" /\ Step.kind = "wait" /\ ~setting.cis
         /\ Step.name = "wait cis" /\ ~Unneeded => setting.cis
<1>1. setting \in Settings BY DEF TypeOK
<1>2. WellFormed(Step) /\ Step.require \in SUBSET Awaited /\ Step.onchanges \in SUBSET Awaited
  BY <1>1, StepFacts
<1>3. ~Refused BY <1>2 DEF Refused, Requisites
<1>4. Step.onchanges = IF Step.name = "wait cis" THEN {"cis"} ELSE {} BY <1>2 DEF WellFormed
<1>5. Step.name = "wait cis" => Step.kind = "wait" BY <1>2 DEF WellFormed, Waits
<1>6. Step.name = "wait cis" => results["cis"] = IF setting.cis THEN "changed" ELSE "true"
  BY DEF Told, Awaited
<1>7. Unneeded <=> Step.name = "wait cis" /\ results["cis"] # "changed"
  BY <1>3, <1>4 DEF Unneeded
<1>8. QED BY <1>3, <1>5, <1>6, <1>7

-----------------------------------------------------------------------------
(* What is told. *)

LEMMA ConcludeTold ==
  ASSUME TypeOK, TypeOK', Told, Running, NEW r \in Came, Conclude(r),
         Step.name = "cis" => r \in {"false", IF setting.cis THEN "changed" ELSE "true"}
  PROVE  Told'
<1>1. /\ setting' = setting /\ pc' = pc + 1 /\ listening' = FALSE
      /\ failed' = (failed \/ r = "false")
      /\ results' = IF Step.name \in Awaited THEN [results EXCEPT ![Step.name] = r] ELSE results
  BY DEF Conclude
<1>2. setting \in Settings /\ results \in [Awaited -> {"none", "true", "changed", "false"}]
  BY DEF TypeOK
<1>3. (\E n \in Awaited : results'[n] = "false") => failed'
  <2> SUFFICES ASSUME NEW n \in Awaited, results'[n] = "false" PROVE failed'
    OBVIOUS
  <2>1. results[n] = "false" \/ r = "false" BY <1>1, <1>2
  <2>2. QED BY <1>1, <2>1 DEF Told
<1>4. ASSUME Running', Step'.name = "wait cis"
      PROVE  results'["cis"] \in {"false", IF setting'.cis THEN "changed" ELSE "true"}
  <2>1. WellFormed(Step) BY <1>2, StepFacts
  <2>2. WellFormed(Step') /\ Link(Step, Step') BY <1>1, <1>2, <1>4, Advance
  <2>3. Step.name = "cis" BY <1>4, <2>1, <2>2, Behind
  <2>4. results'["cis"] = r BY <1>1, <1>2, <2>3 DEF Awaited
  <2>5. QED BY <1>1, <2>3, <2>4
<1>5. QED BY <1>1, <1>3, <1>4 DEF Told

\* The orchestration has not moved.
LEMMA SameTold ==
  ASSUME Told, UNCHANGED <<setting, pc, results, failed>>,
         listening' => listening \/ (~Refused /\ ~Unneeded)
  PROVE  Told'
<1>1. Running' = Running /\ Step' = Step BY DEF Running, Step
<1>2. Refused' = Refused BY <1>1 DEF Refused, Requisites
<1>3. Unneeded' = Unneeded BY <1>1, <1>2 DEF Unneeded
<1>4. QED BY <1>1, <1>2, <1>3 DEF Told

\* Nor is it running.
LEMMA IdleTold ==
  ASSUME ~Running', listening' = FALSE,
         \/ results' = [n \in Awaited |-> "none"]
         \/ Told /\ UNCHANGED <<results, failed>>
  PROVE  Told'
<1>1. (\E n \in Awaited : results'[n] = "false") => failed'
  <2>1. CASE results' = [n \in Awaited |-> "none"] BY <2>1
  <2>2. CASE Told /\ UNCHANGED <<results, failed>> BY <2>2 DEF Told
  <2>3. QED BY <2>1, <2>2
<1>2. QED BY <1>1 DEF Told

LEMMA ToldNext == TypeOK /\ TypeOK' /\ Told /\ [Next]_vars => Told'
<1> SUFFICES ASSUME TypeOK, TypeOK', Told, [Next]_vars PROVE Told'
  OBVIOUS
<1>1. setting \in Settings BY DEF TypeOK
<1>2. Running => WellFormed(Step) BY <1>1, StepFacts
<1>3. listening => Running /\ Step.kind = "wait" BY DEF TypeOK
<1>4. Running /\ Step.kind # "state" => Step.name # "cis"
  BY <1>2 DEF WellFormed, HighStates
<1>5. CASE Start
  <2>1. listening' = FALSE BY <1>3, <1>5 DEF Start, TypeOK
  <2>2. pc' \in {0, 1} /\ results' = [n \in Awaited |-> "none"] /\ setting' = setting
    BY <1>5 DEF Start
  <2>4. Running' => Step'.name # "wait cis"
    <3>1. pc' = 0 => ~Running'
      <4>1. DOMAIN Script[setting] = 1..Len(Script[setting]) /\ Len(Script[setting]) \in Nat
        BY <1>1, ShapeNow
      <4>2. 0 \notin DOMAIN Script[setting] BY <4>1
      <4>3. QED BY <2>2, <4>2 DEF Running
    <3>2. SUFFICES ASSUME Running', pc' = 1 PROVE Step'.name # "wait cis"
      BY <2>2, <3>1
    <3>3. Shape(Script[setting], setting) BY <1>1, ShapeNow
    <3>4. Step' = Script[setting][1] BY <2>2, <3>2 DEF Step
    <3>5. QED BY <3>3, <3>4 DEF Shape
  <2>5. QED BY <2>1, <2>2, <2>4 DEF Told
<1>6. CASE Skip
  <2>1. Running /\ (Conclude("false") \/ (Unneeded /\ Conclude("true"))) BY <1>6 DEF Skip
  <2>2. Unneeded => Step.name # "cis"
    BY <1>2, <2>1 DEF Unneeded, WellFormed
  <2>3. QED BY <2>1, <2>2, ConcludeTold DEF Came
<1>7. CASE Create \/ Aside \/ Redefine \/ Sleep
  <2>1. Running /\ Step.kind # "state" BY <1>7 DEF Create, Aside, Redefine, Sleep, At
  <2>2. Conclude("false") \/ Conclude("true") \/ Conclude("changed")
    BY <1>7 DEF Create, Aside, Redefine, Sleep
  <2>3. QED BY <1>4, <2>1, <2>2, ConcludeTold DEF Came
<1>8. CASE ApplyState
  <2>1. /\ Running
        /\ \/ Conclude("false")
           \/ Conclude(IF Changes(Step.name) THEN "changed" ELSE "true")
    BY <1>8 DEF ApplyState, At
  <2>2. Step.name = "cis" =>
          (IF Changes(Step.name) THEN "changed" ELSE "true")
            = IF setting.cis THEN "changed" ELSE "true"
    BY DEF Changes
  <2>3. QED BY <2>1, <2>2, ConcludeTold DEF Came
<1>9. CASE Listen
  <2>1. /\ UNCHANGED <<setting, pc, results, failed>> /\ ~Refused /\ ~Unneeded
    BY <1>9 DEF Listen, At
  <2>2. QED BY <2>1, SameTold
<1>10. CASE Timeout
  <2>1. listening /\ Conclude("false") BY <1>10 DEF Timeout
  <2>2. QED BY <1>3, <2>1, ConcludeTold DEF Came
<1>11. CASE Killed
  <2>1. pc' = 0 /\ listening' = FALSE /\ UNCHANGED <<setting, results, failed>>
    BY <1>11 DEF Killed
  <2>2. DOMAIN Script[setting] = 1..Len(Script[setting]) /\ Len(Script[setting]) \in Nat
    BY <1>1, ShapeNow
  <2>3. 0 \notin DOMAIN Script[setting] BY <2>2
  <2>4. ~Running' BY <2>1, <2>3 DEF Running
  <2>5. QED BY <2>1, <2>4, IdleTold
<1>12. CASE GoDown
  <2>1. UNCHANGED <<setting, pc, results, failed, listening>> BY <1>12 DEF GoDown
  <2>2. QED BY <2>1, SameTold
<1>13. CASE Boot
  <2>1. CASE listening
    <3>1. Conclude("true") BY <1>13, <2>1 DEF Boot
    <3>2. QED BY <1>3, <1>4, <2>1, <3>1, ConcludeTold DEF Came
  <2>2. CASE ~listening
    <3>1. UNCHANGED <<setting, pc, results, failed, listening>> BY <1>13, <2>2 DEF Boot
    <3>2. QED BY <3>1, SameTold
  <2>3. QED BY <2>1, <2>2
<1>14. CASE Operator
  <2>1. UNCHANGED <<results, failed, listening>> BY <1>14 DEF Operator
  <2>2. CASE Running
    <3>1. setting' = setting /\ pc' = pc BY <1>14, <2>2 DEF Operator
    <3>2. QED BY <2>1, <3>1, SameTold
  <2>3. CASE ~Running
    <3>1. pc' = 0 BY <1>14, <2>3 DEF Operator
    <3>2. setting' \in Settings BY DEF TypeOK
    <3>3. ~Running'
      <4>1. 0 \notin DOMAIN Script[setting']
        <5>1. \A s \in Settings : 0 \notin DOMAIN Script[s]
          <6> SUFFICES ASSUME NEW s \in Settings PROVE 0 \notin DOMAIN Script[s]
            OBVIOUS
          <6>1. Shape(Steps(s), s) BY ScriptShape, HostAssumption
          <6>2. Script[s] \in Seq(Tasks) BY <6>1, PieceSeq DEF Shape, Script
          <6>3. DOMAIN Script[s] = 1..Len(Script[s]) /\ Len(Script[s]) \in Nat BY <6>2
          <6>4. QED BY <6>3
        <5>2. QED BY <3>2, <5>1
      <4>2. QED BY <3>1, <4>1 DEF Running
    <3>4. listening' = FALSE BY <1>3, <2>1, <2>3 DEF TypeOK
    <3>5. QED BY <2>1, <3>3, <3>4, IdleTold
  <2>4. QED BY <2>2, <2>3
<1>15. CASE UNCHANGED vars
  <2>1. UNCHANGED <<setting, pc, results, failed, listening>> BY <1>15 DEF vars
  <2>2. QED BY <2>1, SameTold
<1>16. QED
  BY <1>5, <1>6, <1>7, <1>8, <1>9, <1>10, <1>11, <1>12, <1>13, <1>14, <1>15
     DEF Next, Orchestrate

-----------------------------------------------------------------------------
(* Without a fault. *)

LEMMA CalmStep ==
  ASSUME TypeOK, Told, Calm, Running
  PROVE  /\ ~Refused
         /\ Step.kind # "create" => host # "absent"
         /\ Step.kind \notin {"create", "wait", "sleep"} => host = "up"
         /\ Step.kind = "sleep" => host = "up" \/ setting.debian
         /\ Unneeded => host = "up"
         /\ Step.kind = "wait" /\ ~Unneeded /\ setting.net = "new" =>
              host \in {"due", "down"}
<1>1. setting \in Settings /\ host \in {"absent", "up", "due", "down"} BY DEF TypeOK
<1>2. WellFormed(Step) /\ (Step.kind = "create" <=> pc = 1) /\ pc \in Nat /\ 1 <= pc
  BY <1>1, StepFacts
<1>3. /\ ~Refused
      /\ Unneeded => Step.name = "wait cis" /\ Step.kind = "wait" /\ ~setting.cis
      /\ Step.name = "wait cis" /\ ~Unneeded => setting.cis
  BY Needed DEF Calm
<1>4. Step.kind # "create" => host # "absent" BY <1>2 DEF Calm
<1>5. CASE pc = 1 BY <1>2, <1>3, <1>5
<1>6. CASE pc > 1
  <2>1. WellFormed(Prev) /\ Link(Prev, Step) BY <1>1, <1>6, PrevFacts
  <2>2. /\ Owes(Prev.name) => Step.kind \in {"wait", "sleep"}
        /\ Owes(Prev.name) /\ Step.kind = "sleep" => setting.debian
        /\ Step.name = "wait cis" => Prev.name = "cis"
    BY <1>2, <2>1, Behind
  <2>3. host \in {"due", "down"} => Owes(Prev.name) BY DEF Calm, Owed
  <2>4. Step.kind = "wait" /\ Owes(Prev.name) => host \in {"due", "down"}
    BY <1>6 DEF Calm, Owed
  <2>5. Unneeded => host = "up"
    <3>1. Prev.name = "cis" /\ ~setting.cis => ~Owes(Prev.name) BY DEF Owes, Restarts
    <3>2. QED BY <1>1, <1>3, <1>4, <2>2, <2>3, <3>1
  <2>6. Step.kind = "wait" /\ ~Unneeded /\ setting.net = "new" => Owes(Prev.name)
    <3> SUFFICES ASSUME Step.kind = "wait", ~Unneeded, setting.net = "new"
                 PROVE  Owes(Prev.name)
      OBVIOUS
    <3>1. Step.name \in Waits BY <1>2 DEF WellFormed
    <3>2. CASE Step.name = "wait cis"
      <4>1. setting.cis /\ Prev.name = "cis" BY <1>3, <2>2, <3>2
      <4>2. QED BY <4>1 DEF Owes, Restarts
    <3>3. CASE Step.name # "wait cis"
      <4>1. Prev.name \in {"redefine", "essentials", "nmconnections"}
        BY <1>2, <2>1, <3>1, <3>3, Behind DEF Waits
      <4>2. QED BY <4>1 DEF Owes, Restarts
    <3>4. QED BY <3>2, <3>3
  <2>7. QED BY <1>1, <1>2, <1>3, <1>4, <1>6, <2>2, <2>3, <2>4, <2>5, <2>6
<1>7. QED BY <1>2, <1>5, <1>6

\* A step that is concluded as it should be.
LEMMA ConcludeCalm ==
  ASSUME TypeOK, Calm, Running, NEW r \in Came, Conclude(r),
         host' # "absent", host' \in {"due", "down"} <=> Owes(Step.name),
         r = "false" => Step.kind = "wait" /\ setting.net # "new"
  PROVE  Calm'
<1>1. /\ setting' = setting /\ pc' = pc + 1 /\ failed' = (failed \/ r = "false")
      /\ results' = IF Step.name \in Awaited THEN [results EXCEPT ![Step.name] = r] ELSE results
  BY DEF Conclude
<1>2. setting \in Settings /\ results \in [Awaited -> {"none", "true", "changed", "false"}]
  BY DEF TypeOK
<1>3. WellFormed(Step) BY <1>2, StepFacts
<1>4. /\ pc' > 1 /\ pc' \in 0..(Len(Script[setting']) + 1)
      /\ Running' => Prev' = Step
      /\ ~Running' => Step.name \notin Restarters
  BY <1>1, <1>2, Advance
<1>5. \A n \in Awaited : results'[n] # "false"
  <2>1. \A n \in Awaited : results[n] # "false" BY DEF Calm
  <2>2. CASE r # "false" BY <1>1, <1>2, <2>1, <2>2
  <2>3. CASE r = "false"
    <3>1. Step.name \notin Awaited BY <1>3, <2>3, Idle
    <3>2. QED BY <1>1, <2>1, <3>1
  <2>4. QED BY <2>2, <2>3
<1>6. host' = "absent" <=> pc' = 1 BY <1>4
<1>7. Running' => (Owes(Prev.name)' <=> Owes(Step.name))
  <2> SUFFICES ASSUME Running' PROVE Owes(Prev.name)' <=> Owes(Step.name)
    OBVIOUS
  <2>1. setting' = setting /\ Prev' = Step BY <1>1, <1>4
  <2>2. QED BY <2>1 DEF Owes, Restarts
<1>8. Owes(Step.name) => Running'
  <2>1. Owes(Step.name) => Step.name \in Restarters BY DEF Owes, Restarts, Restarters
  <2>2. QED BY <1>4, <2>1
<1>9. Owed' <=> Owes(Step.name)
  <2>1. Owed' <=> Running' /\ pc' > 1 /\ Owes(Prev.name)' BY DEF Owed
  <2>2. QED BY <1>4, <1>7, <1>8, <2>1
<1>10. setting'.net = "new" => ~failed' BY <1>1 DEF Calm
<1>11. QED BY <1>5, <1>6, <1>9, <1>10 DEF Calm

\* The orchestration has not moved.
LEMMA SameCalm ==
  ASSUME TypeOK, Calm, UNCHANGED <<setting, pc, results, failed>>,
         \/ host' = host
         \/ host \in {"due", "down"} /\ host' \in {"due", "down"}
         \/ host \in {"due", "down"} /\ host' = "up" /\ Running /\ Step.kind = "sleep"
  PROVE  Calm'
<1>1. Running' = Running /\ Step' = Step /\ Prev' = Prev BY DEF Running, Step, Prev
<1>2. Owed' = Owed BY <1>1 DEF Owed, Owes, Restarts
<1>3. CASE host' = host BY <1>1, <1>2, <1>3 DEF Calm
<1>4. CASE host \in {"due", "down"} /\ host' \in {"due", "down"} BY <1>1, <1>2, <1>4 DEF Calm
<1>5. CASE host \in {"due", "down"} /\ host' = "up" /\ Running /\ Step.kind = "sleep"
  BY <1>1, <1>2, <1>5 DEF Calm
<1>6. QED BY <1>3, <1>4, <1>5

\* What each step of the orchestration leaves.
LEMMA CalmOrchestrate ==
  ASSUME TypeOK, Told, Calm, Patient, ~struck', Orchestrate
  PROVE  Calm'
<1>1. setting \in Settings /\ host \in {"absent", "up", "due", "down"} BY DEF TypeOK
<1>2. listening => Running /\ Step.kind = "wait" BY DEF TypeOK
<1>3. Running
  BY <1>2 DEF Orchestrate, Skip, Create, Aside, Redefine, ApplyState, Listen, Timeout, Sleep, At
<1>4. WellFormed(Step) /\ (Step.kind = "create" <=> pc = 1) BY <1>1, <1>3, StepFacts
<1>5. ~Fault BY DEF Fault
<1>6. /\ ~Refused
      /\ Step.kind # "create" => host # "absent"
      /\ Step.kind \notin {"create", "wait", "sleep"} => host = "up"
      /\ Step.kind = "sleep" => host = "up" \/ setting.debian
      /\ Unneeded => host = "up"
      /\ Step.kind = "wait" /\ ~Unneeded /\ setting.net = "new" =>
           host \in {"due", "down"}
  BY <1>3, CalmStep
<1>7. Step.kind \notin {"state", "redefine"} => ~Owes(Step.name) BY <1>4, Idle
<1>8. CASE Skip
  <2>1. Unneeded /\ Conclude("true") /\ UNCHANGED machine BY <1>6, <1>8 DEF Skip
  <2>2. host' = "up" BY <1>6, <2>1 DEF machine
  <2>3. Step.kind = "wait" BY <1>3, <2>1, Needed DEF Calm
  <2>4. QED BY <1>3, <1>7, <2>1, <2>2, <2>3, ConcludeCalm DEF Came
<1>9. CASE Create
  <2>1. Step.kind = "create" BY <1>9 DEF Create, At
  <2>2. host = "absent" BY <1>4, <2>1 DEF Calm
  <2>3. host' = "up" /\ Conclude("changed") BY <1>5, <1>9, <2>2 DEF Create
  <2>4. QED BY <1>3, <1>7, <2>1, <2>3, ConcludeCalm DEF Came
<1>10. CASE Aside
  <2>1. Step.kind \in {"usb", "snapshot"} BY <1>10 DEF Aside, At
  <2>2. host = "up" BY <1>6, <2>1
  <2>3. Conclude("changed") /\ UNCHANGED machine BY <1>5, <1>10, <2>2 DEF Aside
  <2>4. host' = "up" BY <2>2, <2>3 DEF machine
  <2>5. QED BY <1>3, <1>7, <2>1, <2>3, <2>4, ConcludeCalm DEF Came
<1>11. CASE Redefine
  <2>1. Step.kind = "redefine" BY <1>11 DEF Redefine, At
  <2>2. host = "up" BY <1>6, <2>1
  <2>3. Conclude("changed") /\ host' = "down" BY <1>5, <1>11, <2>2 DEF Redefine
  <2>4. Owes(Step.name) BY <1>4, <2>1 DEF WellFormed, Owes
  <2>5. QED BY <1>3, <2>3, <2>4, ConcludeCalm DEF Came
<1>12. CASE ApplyState
  <2>1. Step.kind = "state" BY <1>12 DEF ApplyState, At
  <2>2. host = "up" BY <1>6, <2>1
  <2>3. /\ host' = IF Restarts(Step.name) THEN "due" ELSE host
        /\ Conclude(IF Changes(Step.name) THEN "changed" ELSE "true")
    BY <1>5, <1>12, <2>2 DEF ApplyState
  <2>4. Owes(Step.name) <=> Restarts(Step.name)
    BY <1>4, <2>1 DEF WellFormed, Owes
  <2>5. host' # "absent" /\ (host' \in {"due", "down"} <=> Owes(Step.name))
    BY <2>2, <2>3, <2>4
  <2>6. QED BY <1>3, <2>3, <2>5, ConcludeCalm DEF Came
<1>13. CASE Listen
  <2>1. UNCHANGED <<setting, pc, results, failed, host>> BY <1>13 DEF Listen, machine
  <2>2. QED BY <2>1, SameCalm
<1>14. CASE Timeout
  <2>1. listening /\ host \in {"up", "absent"} /\ Conclude("false") /\ UNCHANGED machine
    BY <1>5, <1>14 DEF Timeout
  <2>2. Step.kind = "wait" /\ ~Unneeded BY <1>2, <2>1 DEF Told
  <2>3. host = "up" /\ setting.net # "new" BY <1>6, <2>1, <2>2
  <2>4. host' = "up" BY <2>1, <2>3 DEF machine
  <2>5. QED BY <1>3, <1>7, <2>1, <2>2, <2>3, <2>4, ConcludeCalm DEF Came
<1>15. CASE Sleep
  <2>1. Step.kind = "sleep" /\ Conclude("true") /\ UNCHANGED machine
        /\ (~setting.master \/ host \in {"up", "absent"})
    BY <1>5, <1>15 DEF Sleep, At
  <2>2. host = "up" BY <1>6, <2>1 DEF Patient
  <2>3. host' = "up" BY <2>1, <2>2 DEF machine
  <2>4. QED BY <1>3, <1>7, <2>1, <2>3, ConcludeCalm DEF Came
<1>16. QED
  BY <1>8, <1>9, <1>10, <1>11, <1>12, <1>13, <1>14, <1>15 DEF Orchestrate

\* What the host does by itself.
LEMMA CalmHost ==
  ASSUME TypeOK, Told, Calm, ~struck', GoDown \/ Boot
  PROVE  Calm'
<1>1. listening => Running /\ Step.kind = "wait" BY DEF TypeOK
<1>2. setting \in Settings BY DEF TypeOK
<1>3. CASE GoDown
  <2>1. UNCHANGED <<setting, pc, results, failed>> /\ host = "due" /\ host' = "down"
    BY <1>3 DEF GoDown
  <2>2. QED BY <2>1, SameCalm
<1>4. CASE Boot /\ listening
  <2>1. Conclude("true") /\ host' = "up" BY <1>4 DEF Boot
  <2>2. Running /\ ~Owes(Step.name)
    BY <1>1, <1>2, <1>4, StepFacts, Idle
  <2>3. QED BY <2>1, <2>2, ConcludeCalm DEF Came
<1>5. CASE Boot /\ ~listening
  <2>1. /\ host = "down" /\ host' = "up" /\ ~At("wait")
        /\ UNCHANGED <<setting, pc, results, failed>>
    BY <1>5 DEF Boot, Fault
  <2>2. Running /\ pc > 1 /\ Owes(Prev.name) BY <2>1 DEF Calm, Owed
  <2>3. WellFormed(Step) /\ WellFormed(Prev) /\ Link(Prev, Step)
    BY <1>2, <2>2, StepFacts, PrevFacts
  <2>4. Step.kind \in {"wait", "sleep"} BY <2>2, <2>3, Behind
  <2>5. ~Refused /\ ~Unneeded BY <2>1, <2>2, CalmStep
  <2>6. Step.kind = "sleep" BY <1>5, <2>1, <2>2, <2>4, <2>5 DEF At
  <2>7. QED BY <2>1, <2>2, <2>6, SameCalm
<1>6. QED BY <1>3, <1>4, <1>5

\* An orchestration begins.
LEMMA CalmStart ==
  ASSUME TypeOK, Start, pc' >= 1
  PROVE  Calm'
<1>1. /\ pc' = 1 /\ host = "absent" /\ host' = host /\ setting' = setting
      /\ results' = [n \in Awaited |-> "none"] /\ failed' = FALSE
  BY DEF Start, machine
<1>2. ~Owed' BY <1>1 DEF Owed
<1>3. \A n \in Awaited : results'[n] # "false" BY <1>1
<1>4. QED BY <1>1, <1>2, <1>3 DEF Calm

LEMMA UndisturbedNext == TypeOK /\ Told /\ Undisturbed /\ [Next]_vars => Undisturbed'
<1> SUFFICES ASSUME TypeOK, Told, Undisturbed, [Next]_vars,
                    pc' >= 1, ~struck', ~meddled', Patient'
             PROVE  Calm'
  BY DEF Undisturbed
<1>1. setting \in Settings BY DEF TypeOK
<1>2. CASE Start BY <1>2, CalmStart
<1>3. CASE Orchestrate
  <2>1. listening => Running BY DEF TypeOK
  <2>2. Running
    BY <1>3, <2>1 DEF Orchestrate, Skip, Create, Aside, Redefine, ApplyState, Listen,
                      Timeout, Sleep, At
  <2>3. pc >= 1 BY <1>1, <2>2, StepFacts
  <2>4. setting' = setting /\ meddled' = meddled
    BY <1>3 DEF Orchestrate, Skip, Create, Aside, Redefine, ApplyState, Listen,
                Timeout, Sleep, Conclude
  <2>5. ~struck
    BY <1>3 DEF Orchestrate, Skip, Create, Aside, Redefine, ApplyState, Listen,
                Timeout, Sleep, Orderly, Fault
  <2>6. Calm /\ Patient BY <2>3, <2>4, <2>5 DEF Undisturbed, Patient
  <2>7. QED BY <1>3, <2>6, CalmOrchestrate
<1>4. CASE Killed BY <1>4 DEF Killed, Fault
<1>5. CASE GoDown \/ Boot
  <2>1. listening => Running BY DEF TypeOK
  <2>2. pc >= 1
    <3>1. CASE pc' = pc BY <3>1
    <3>2. CASE listening BY <1>1, <2>1, <3>2, StepFacts
    <3>3. QED BY <1>5, <3>1, <3>2 DEF GoDown, Boot
  <2>3. setting' = setting /\ meddled' = meddled
    BY <1>5 DEF GoDown, Boot, Conclude
  <2>4. ~struck BY <1>5 DEF GoDown, Boot, Orderly, Fault
  <2>5. Calm BY <2>2, <2>3, <2>4 DEF Undisturbed, Patient
  <2>6. QED BY <1>5, <2>5, CalmHost
<1>6. CASE Operator BY <1>6 DEF Operator
<1>7. CASE UNCHANGED vars
  <2>1. /\ UNCHANGED <<setting, pc, results, failed, host, struck, meddled>>
    BY <1>7 DEF vars
  <2>2. Calm BY <2>1 DEF Undisturbed, Patient
  <2>3. QED BY <2>1, <2>2, SameCalm
<1>8. QED BY <1>2, <1>3, <1>4, <1>5, <1>6, <1>7 DEF Next

-----------------------------------------------------------------------------
(* Without a failure. *)

ForEssentials == Step.name = "wait essentials"
ForCis        == Step.name = "wait cis"

\* The firewall comes with the highstate, which ends with the wait for cis.
LEMMA EnvironmentPassed ==
  ASSUME setting \in Settings, Firewalled
  PROVE  /\ setting.config /\ setting.highstate
         /\ Running /\ pc = Len(Script[setting]) => ForCis
<1>1. Shape(Script[setting], setting) BY ShapeNow
<1>2. "environment" \in Names(Script[setting]) BY DEF Essential, Firewalled, Passed, Names
<1>3. QED BY <1>1, <1>2 DEF Shape, Step, ForCis

\* A step that is concluded without a failure.
LEMMA ConcludeClean ==
  ASSUME TypeOK, TypeOK', Clean, Running, NEW r \in Came, Conclude(r), host' # "absent",
         applied \subseteq applied',
         Step.kind = "state" => Step.name \in applied',
         Essential \/ ForEssentials => loaded',
         host' \in {"due", "down"} =>
           Owes(Step.name) \/ (Firewalled /\ setting.debian),
         ForCis /\ setting.cis => host' = "up"
  PROVE  Clean'
<1>1. setting' = setting /\ pc' = pc + 1 BY DEF Conclude
<1>2. setting \in Settings BY DEF TypeOK
<1>3. WellFormed(Step) /\ pc \in Nat BY <1>2, StepFacts
<1>4. /\ pc' > 1
      /\ Running' => WellFormed(Step') /\ Link(Step, Step') /\ Prev' = Step
      /\ ~Running' => Step.name \notin Restarters /\ pc = Len(Script[setting])
      /\ Essential' <=> Essential \/ ForEssentials
      /\ Firewalled' <=> Firewalled \/ Step.name = "environment"
  BY <1>1, <1>2, Advance DEF Essential, Firewalled, ForEssentials
<1>5. host' = "absent" <=> pc' = 1
  <2>1. pc' \in Nat /\ pc' > 1 BY <1>1, <1>3, <1>4
  <2>2. pc' # 1 BY <2>1
  <2>3. QED BY <2>2
<1>6. Reached'
  <2> SUFFICES ASSUME NEW j \in DOMAIN Script[setting'], j < pc', Script[setting'][j].kind = "state"
               PROVE  Script[setting'][j].name \in applied'
    BY DEF Reached
  <2>1. j \in Nat
    <3>1. DOMAIN Script[setting] = 1..Len(Script[setting]) /\ Len(Script[setting]) \in Nat
      BY <1>2, ShapeNow
    <3>2. j \in DOMAIN Script[setting] BY <1>1
    <3>3. QED BY <3>1, <3>2
  <2>2. j < pc \/ j = pc
    <3>1. j < pc + 1 BY <1>1
    <3>2. pc \in Nat BY <1>3
    <3>3. QED BY <2>1, <3>1, <3>2
  <2>3. CASE j < pc BY <1>1, <2>3 DEF Clean, Reached
  <2>4. CASE j = pc BY <1>1, <2>4 DEF Step
  <2>5. QED BY <2>2, <2>3, <2>4
<1>7. Essential' => loaded' BY <1>4
<1>8. Owes(Step.name) => Running' /\ Owed' /\ Step'.kind \in {"wait", "sleep"}
                         /\ (Step'.kind = "sleep" => Step.name = "environment" /\ setting.debian)
  <2> SUFFICES ASSUME Owes(Step.name)
               PROVE  /\ Running' /\ Owed' /\ Step'.kind \in {"wait", "sleep"}
                      /\ (Step'.kind = "sleep" => Step.name = "environment" /\ setting.debian)
    OBVIOUS
  <2>1. Step.name \in Restarters BY DEF Owes, Restarts, Restarters
  <2>2. Running' /\ Prev' = Step BY <1>4, <2>1
  <2>3. Owes(Prev.name)' BY <1>1, <2>2 DEF Owes, Restarts
  <2>4. Owed' BY <1>4, <2>2, <2>3 DEF Owed
  <2>5. QED BY <1>3, <1>4, <2>2, <2>4, Behind
<1>9. host' \in {"due", "down"} =>
        \/ Owed' /\ Step'.kind = "wait"
        \/ Firewalled' /\ setting'.debian
  BY <1>1, <1>4, <1>8
<1>10. Finished' /\ setting'.cis => host' = "up"
  <2> SUFFICES ASSUME Finished', setting'.cis PROVE host' = "up"
    OBVIOUS
  <2>1. ~Running'
    <3>1. DOMAIN Script[setting] = 1..Len(Script[setting]) /\ Len(Script[setting]) \in Nat
      BY <1>2, ShapeNow
    <3>2. pc' > Len(Script[setting]) BY <1>1 DEF Finished
    <3>3. pc' \in Nat BY <1>1, <1>3
    <3>4. pc' \notin DOMAIN Script[setting] BY <3>1, <3>2, <3>3
    <3>5. QED BY <1>1, <3>4 DEF Running
  <2>2. pc = Len(Script[setting]) /\ ~Owes(Step.name) BY <1>4, <1>8, <2>1
  <2>3. CASE host' \in {"due", "down"}
    <3>1. Firewalled BY <2>2, <2>3
    <3>2. ForCis BY <1>2, <2>2, <3>1, EnvironmentPassed
    <3>3. QED BY <1>1, <3>2
  <2>4. CASE host' \notin {"due", "down"} BY <2>4 DEF TypeOK
  <2>5. QED BY <2>3, <2>4
<1>11. QED BY <1>5, <1>6, <1>7, <1>9, <1>10 DEF Clean

\* The orchestration has not moved.
LEMMA SameClean ==
  ASSUME TypeOK, Clean, UNCHANGED <<setting, pc, applied>>,
         loaded => loaded',
         \/ host' = host
         \/ host \in {"due", "down"} /\ host' \in {"due", "down", "up"}
  PROVE  Clean'
<1>1. Running' = Running /\ Step' = Step /\ Prev' = Prev BY DEF Running, Step, Prev
<1>2. Owed' = Owed BY <1>1 DEF Owed, Owes, Restarts
<1>3. Finished' = Finished BY DEF Finished
<1>4. Essential' = Essential
      /\ Firewalled' = Firewalled
  BY DEF Essential, Firewalled, Passed
<1>5. Reached' BY DEF Clean, Reached
<1>6. CASE host' = host BY <1>1, <1>2, <1>3, <1>4, <1>5, <1>6 DEF Clean
<1>7. CASE host \in {"due", "down"} /\ host' \in {"due", "down", "up"}
  BY <1>1, <1>2, <1>3, <1>4, <1>5, <1>7 DEF Clean
<1>8. QED BY <1>6, <1>7

LEMMA CleanStep ==
  ASSUME TypeOK, Told, Clean, Running, ~failed
  PROVE  /\ ~Refused
         /\ Unneeded => ForCis /\ Step.kind = "wait" /\ ~setting.cis
         /\ Step.kind # "create" => host # "absent"
         /\ ForEssentials \/ ForCis => Step.kind = "wait"
         /\ Essential \/ ForEssentials => "essentials" \in applied
         /\ host \in {"due", "down"} /\ (Step.kind # "wait" \/ Unneeded) =>
              Firewalled /\ setting.debian
<1>1. setting \in Settings /\ (loaded => "essentials" \in applied) BY DEF TypeOK
<1>2. /\ WellFormed(Step) /\ (Step.kind = "create" <=> pc = 1)
      /\ pc \in Nat /\ 1 <= pc
  BY <1>1, StepFacts
<1>3. /\ ~Refused
      /\ Unneeded => ForCis /\ Step.kind = "wait" /\ ~setting.cis
  <2>1. \A n \in Awaited : results[n] # "false" BY DEF Told
  <2>2. QED BY <2>1, Needed DEF ForCis
<1>4. Step.kind # "create" => host # "absent" BY <1>2 DEF Clean
<1>5. ForEssentials \/ ForCis => Step.kind = "wait"
  BY <1>2 DEF ForEssentials, ForCis, WellFormed, Waits
<1>6. Step.kind # "create" => pc > 1 BY <1>2
<1>7. pc > 1 =>
        /\ pc - 1 \in DOMAIN Script[setting] /\ pc - 1 < pc
        /\ ForEssentials => Prev.name = "essentials" /\ Prev.kind = "state"
        /\ ForCis => Prev.name = "cis"
  <2> SUFFICES ASSUME pc > 1
               PROVE  /\ pc - 1 \in DOMAIN Script[setting] /\ pc - 1 < pc
                      /\ ForEssentials => Prev.name = "essentials" /\ Prev.kind = "state"
                      /\ ForCis => Prev.name = "cis"
    OBVIOUS
  <2>1. /\ pc - 1 \in DOMAIN Script[setting] /\ pc - 1 < pc
        /\ WellFormed(Prev) /\ Link(Prev, Step)
    BY <1>1, PrevFacts
  <2>2. /\ ForEssentials => Prev.name = "essentials" /\ Prev.kind = "state"
        /\ ForCis => Prev.name = "cis"
    BY <1>2, <2>1, Behind DEF ForEssentials, ForCis
  <2>3. QED BY <2>1, <2>2
<1>8. Essential => "essentials" \in applied BY <1>1 DEF Clean
<1>9. ForEssentials => "essentials" \in applied
  <2> SUFFICES ASSUME ForEssentials PROVE "essentials" \in applied
    OBVIOUS
  <2>1. pc > 1 BY <1>5, <1>6
  <2>2. QED BY <1>7, <2>1 DEF Clean, Reached, Prev
<1>10. Unneeded => ~Owed
  <2> SUFFICES ASSUME Unneeded, Owed PROVE FALSE
    OBVIOUS
  <2>1. Prev.name = "cis" /\ ~setting.cis BY <1>3, <1>7 DEF Owed
  <2>2. QED BY <2>1 DEF Owed, Owes, Restarts
<1>11. host \in {"due", "down"} /\ (Step.kind # "wait" \/ Unneeded) =>
         Firewalled /\ setting.debian
  BY <1>10 DEF Clean
<1>12. QED BY <1>3, <1>4, <1>5, <1>8, <1>9, <1>11

\* What each step of the orchestration leaves.
LEMMA CleanOrchestrate ==
  ASSUME TypeOK, TypeOK', Told, Clean, ~failed, ~failed', Orchestrate
  PROVE  Clean'
<1>1. /\ setting \in Settings /\ host \in {"absent", "up", "due", "down"}
      /\ (host = "absent" => applied = {}) /\ (loaded => "essentials" \in applied)
  BY DEF TypeOK
<1>2. listening => Running /\ Step.kind = "wait" BY DEF TypeOK
<1>3. Running
  BY <1>2 DEF Orchestrate, Skip, Create, Aside, Redefine, ApplyState, Listen, Timeout, Sleep, At
<1>4. WellFormed(Step) BY <1>1, <1>3, StepFacts
<1>5. ~Conclude("false") BY DEF Conclude
<1>6. /\ ~Refused
      /\ Unneeded => ForCis /\ Step.kind = "wait" /\ ~setting.cis
      /\ Step.kind # "create" => host # "absent"
      /\ ForEssentials \/ ForCis => Step.kind = "wait"
      /\ Essential \/ ForEssentials => "essentials" \in applied
      /\ host \in {"due", "down"} /\ (Step.kind # "wait" \/ Unneeded) =>
           Firewalled /\ setting.debian
  BY <1>3, CleanStep
<1>7. Essential => loaded BY DEF Clean
<1>8. ASSUME NEW r \in Came, Conclude(r), UNCHANGED machine,
             Step.kind \notin {"create", "state", "wait"} \/ Unneeded
      PROVE  Clean'
  <2>1. host' = host /\ applied' = applied /\ loaded' = loaded BY <1>8 DEF machine
  <2>2. host # "absent" /\ Step.kind # "state" BY <1>6, <1>8
  <2>3. ~ForEssentials
    <3>1. CASE Unneeded
      <4>1. ForCis BY <1>6, <3>1
      <4>2. QED BY <4>1 DEF ForEssentials, ForCis
    <3>2. CASE ~Unneeded BY <1>6, <1>8, <3>2
    <3>3. QED BY <3>1, <3>2
  <2>4. ~(ForCis /\ setting.cis) BY <1>6, <1>8
  <2>5. host' \in {"due", "down"} => Firewalled /\ setting.debian BY <1>6, <1>8, <2>1
  <2>6. QED
    BY <1>3, <1>7, <1>8, <2>1, <2>2, <2>3, <2>4, <2>5, ConcludeClean
<1>9. CASE Skip
  <2>1. Unneeded /\ Conclude("true") /\ UNCHANGED machine BY <1>6, <1>9 DEF Skip
  <2>2. QED BY <1>8, <2>1 DEF Came
<1>10. CASE Create
  <2>1. Step.kind = "create" BY <1>10 DEF Create, At
  <2>2. host = "absent" /\ host' = "up" /\ applied' = {} /\ Conclude("changed")
    BY <1>5, <1>10 DEF Create
  <2>3. applied = {} BY <1>1, <2>2
  <2>4. ~Essential /\ ~ForEssentials /\ ~ForCis BY <1>6, <2>1, <2>3
  <2>5. applied \subseteq applied' BY <2>3
  <2>6. QED BY <1>3, <2>1, <2>2, <2>4, <2>5, ConcludeClean DEF Came
<1>11. CASE Aside
  <2>1. Step.kind \in {"usb", "snapshot"} /\ UNCHANGED machine
        /\ (Conclude("changed") \/ Conclude("true"))
    BY <1>5, <1>11 DEF Aside, At
  <2>2. QED BY <1>8, <2>1 DEF Came
<1>12. CASE Redefine
  <2>1. Step.kind = "redefine" BY <1>12 DEF Redefine, At
  <2>2. host' = "down" /\ Conclude("changed") /\ applied' = applied /\ loaded' = loaded
    BY <1>5, <1>12 DEF Redefine
  <2>3. ~ForEssentials /\ ~ForCis BY <1>6, <2>1
  <2>4. Owes(Step.name) BY <1>4, <2>1 DEF WellFormed, Owes
  <2>5. QED BY <1>3, <1>7, <2>1, <2>2, <2>3, <2>4, ConcludeClean DEF Came
<1>13. CASE ApplyState
  <2>1. Step.kind = "state" BY <1>13 DEF ApplyState, At
  <2>2. /\ host \in {"up", "due"} /\ applied' = applied \cup {Step.name} /\ loaded' = loaded
        /\ host' = IF Restarts(Step.name) THEN "due" ELSE host
        /\ Conclude(IF Changes(Step.name) THEN "changed" ELSE "true")
    BY <1>5, <1>13 DEF ApplyState
  <2>3. ~ForEssentials /\ ~ForCis BY <1>6, <2>1
  <2>4. host' # "absent" /\ applied \subseteq applied' /\ Step.name \in applied'
    BY <2>2
  <2>5. host' \in {"due", "down"} => Owes(Step.name) \/ (Firewalled /\ setting.debian)
    <3>1. CASE Restarts(Step.name) BY <3>1 DEF Owes
    <3>2. CASE ~Restarts(Step.name) BY <1>6, <2>1, <2>2, <3>2
    <3>3. QED BY <3>1, <3>2
  <2>6. \/ Conclude("changed")
        \/ Conclude("true")
    BY <2>2
  <2>7. QED BY <1>3, <1>7, <2>2, <2>3, <2>4, <2>5, <2>6, ConcludeClean DEF Came
<1>14. CASE Listen
  <2>1. UNCHANGED <<setting, pc, applied, loaded, host>> BY <1>14 DEF Listen, machine
  <2>2. QED BY <2>1, SameClean
<1>15. CASE Timeout BY <1>5, <1>15 DEF Timeout
<1>16. CASE Sleep
  <2>1. Step.kind = "sleep" /\ Conclude("true") /\ UNCHANGED machine
    BY <1>16 DEF Sleep, At
  <2>2. QED BY <1>8, <2>1 DEF Came
<1>17. QED
  BY <1>9, <1>10, <1>11, <1>12, <1>13, <1>14, <1>15, <1>16 DEF Orchestrate

\* What the host does by itself.
LEMMA CleanHost ==
  ASSUME TypeOK, TypeOK', Told, Clean, ~failed, GoDown \/ Boot
  PROVE  Clean'
<1>1. listening => Running BY DEF TypeOK
<1>2. loaded => "essentials" \in applied BY DEF TypeOK
<1>3. CASE GoDown
  <2>1. UNCHANGED <<setting, pc, applied, loaded>> /\ host = "due" /\ host' = "down"
    BY <1>3 DEF GoDown
  <2>2. QED BY <2>1, SameClean
<1>4. CASE Boot /\ listening
  <2>1. /\ Conclude("true") /\ host' = "up" /\ applied' = applied
        /\ loaded' = ("essentials" \in applied)
    BY <1>4 DEF Boot
  <2>2. Running /\ Step.kind = "wait" BY <1>4 DEF TypeOK
  <2>3. Essential \/ ForEssentials => loaded' BY <2>1, <2>2, CleanStep
  <2>4. applied \subseteq applied' BY <2>1
  <2>5. QED BY <2>1, <2>2, <2>3, <2>4, ConcludeClean DEF Came
<1>5. CASE Boot /\ ~listening
  <2>1. /\ UNCHANGED <<setting, pc, applied>> /\ host = "down" /\ host' = "up"
        /\ loaded' = ("essentials" \in applied)
    BY <1>5 DEF Boot
  <2>2. loaded => loaded' BY <1>2, <2>1
  <2>3. QED BY <2>1, <2>2, SameClean
<1>6. QED BY <1>3, <1>4, <1>5

\* An orchestration begins.
LEMMA CleanStart ==
  ASSUME TypeOK, Start, pc' >= 1
  PROVE  Clean'
<1>1. pc' = 1 /\ host = "absent" /\ UNCHANGED <<setting, host, applied, loaded>>
  BY DEF Start, machine
<1>2. setting \in Settings BY DEF TypeOK
<1>3. DOMAIN Script[setting] = 1..Len(Script[setting]) /\ Len(Script[setting]) \in Nat
      /\ Len(Script[setting]) >= 2
  BY <1>2, ShapeNow
<1>4. \A j \in DOMAIN Script[setting] : ~(j < 1) BY <1>3
<1>5. Reached' BY <1>1, <1>4 DEF Reached
<1>6. ~Essential' BY <1>1, <1>4 DEF Essential, Passed
<1>7. ~Finished'
  <2>1. ~(1 > Len(Script[setting])) BY <1>3
  <2>2. QED BY <1>1, <2>1 DEF Finished
<1>8. QED BY <1>1, <1>5, <1>6, <1>7 DEF Clean

LEMMA FlawlessNext == TypeOK /\ TypeOK' /\ Told /\ Flawless /\ [Next]_vars => Flawless'
<1> SUFFICES ASSUME TypeOK, TypeOK', Told, Flawless, [Next]_vars,
                    pc' >= 1, ~failed', ~meddled', Patient'
             PROVE  Clean'
  BY DEF Flawless
<1>1. setting \in Settings BY DEF TypeOK
<1>2. CASE Start BY <1>2, CleanStart
<1>3. CASE Orchestrate
  <2>1. listening => Running BY DEF TypeOK
  <2>2. Running
    BY <1>3, <2>1 DEF Orchestrate, Skip, Create, Aside, Redefine, ApplyState, Listen,
                      Timeout, Sleep, At
  <2>3. pc >= 1 BY <1>1, <2>2, StepFacts
  <2>4. setting' = setting /\ meddled' = meddled
    BY <1>3 DEF Orchestrate, Skip, Create, Aside, Redefine, ApplyState, Listen,
                Timeout, Sleep, Conclude
  <2>5. (\E r \in Came : Conclude(r)) \/ UNCHANGED failed
    BY <1>3 DEF Orchestrate, Skip, Create, Aside, Redefine, ApplyState, Listen,
                Timeout, Sleep, Came
  <2>6. ~failed BY <2>5 DEF Conclude
  <2>7. Clean BY <2>3, <2>4, <2>6 DEF Flawless, Patient
  <2>8. QED BY <1>3, <2>6, <2>7, CleanOrchestrate
<1>4. CASE Killed BY <1>4 DEF Killed
<1>5. CASE GoDown \/ Boot
  <2>1. listening => Running BY DEF TypeOK
  <2>2. pc >= 1
    <3>1. CASE pc' = pc BY <3>1
    <3>2. CASE listening BY <1>1, <2>1, <3>2, StepFacts
    <3>3. QED BY <1>5, <3>1, <3>2 DEF GoDown, Boot
  <2>3. setting' = setting /\ meddled' = meddled /\ (failed => failed')
    BY <1>5 DEF GoDown, Boot, Conclude
  <2>4. ~failed /\ Clean BY <2>2, <2>3 DEF Flawless, Patient
  <2>5. QED BY <1>5, <2>4, CleanHost
<1>6. CASE Operator BY <1>6 DEF Operator
<1>7. CASE UNCHANGED vars
  <2>1. UNCHANGED <<setting, pc, applied, loaded, host, failed, meddled>> BY <1>7 DEF vars
  <2>2. Clean BY <2>1 DEF Flawless, Patient
  <2>3. QED BY <2>1, <2>2, SameClean
<1>8. QED BY <1>2, <1>3, <1>4, <1>5, <1>6, <1>7 DEF Next

-----------------------------------------------------------------------------
(* The theorems. *)

LEMMA InvInit == Init => Inv
<1> SUFFICES ASSUME Init PROVE Inv
  OBVIOUS
<1>1. pc = 0 /\ setting \in Settings BY DEF Init
<1>2. ~(pc >= 1) BY <1>1
<1>3. ~Running
  <2>1. DOMAIN Script[setting] = 1..Len(Script[setting]) /\ Len(Script[setting]) \in Nat
    BY <1>1, ShapeNow
  <2>2. 0 \notin DOMAIN Script[setting] BY <2>1
  <2>3. QED BY <1>1, <2>2 DEF Running
<1>4. \A n \in Awaited : results[n] # "false" BY DEF Init
<1>5. Told BY <1>3, <1>4 DEF Told, Init
<1>6. QED BY <1>2, <1>5 DEF Inv, Undisturbed, Flawless

LEMMA Invariance == Spec => [](TypeOK /\ Inv)
<1>1. Init => TypeOK /\ Inv BY TypeInit, InvInit
<1>2. TypeOK /\ Inv /\ [Next]_vars => TypeOK' /\ Inv'
  BY TypeNext, ToldNext, UndisturbedNext, FlawlessNext DEF Inv
<1>3. QED BY <1>1, <1>2, PTL DEF Spec

\* An orchestration that has finished has come past every step.
LEMMA Past ==
  ASSUME TypeOK, Finished
  PROVE  /\ ~Running /\ pc >= 1 /\ pc # 1
         /\ \A j \in DOMAIN Script[setting] : j < pc
<1>1. setting \in Settings /\ pc \in 0..(Len(Script[setting]) + 1) BY DEF TypeOK
<1>2. DOMAIN Script[setting] = 1..Len(Script[setting]) /\ Len(Script[setting]) \in Nat
      /\ Len(Script[setting]) >= 2
  BY <1>1, ShapeNow
<1> DEFINE n == Len(Script[setting])
<1>3. pc > n /\ n \in Nat /\ n >= 2 /\ pc \in 0..(n + 1) BY <1>1, <1>2 DEF Finished
<1>4. DOMAIN Script[setting] = 1..n BY <1>2
<1> HIDE DEF n
<1>5. pc >= 1 /\ pc # 1 /\ pc \notin 1..n BY <1>3
<1>6. \A j \in 1..n : j < pc BY <1>3
<1>7. ~Running BY <1>4, <1>5 DEF Running
<1>8. QED BY <1>4, <1>5, <1>6, <1>7

\* In an orchestration that nothing disturbs, no state is sent to a host that
\* restarts or is about to, and no snapshot is taken of one: where a step of
\* init/config.sls makes the host restart, the next one waits for it.
THEOREM HostUninterrupted == Spec => []NeverInterrupted
<1>1. TypeOK /\ Inv => NeverInterrupted
  <2> SUFFICES ASSUME TypeOK, Inv, At("state") \/ At("snapshot"), ~struck, ~meddled, Patient
               PROVE  host = "up"
    BY DEF NeverInterrupted
  <2>1. Running /\ Step.kind \in {"state", "snapshot"} BY DEF At
  <2>2. pc >= 1 BY <2>1, StepFacts DEF TypeOK
  <2>3. Told /\ Calm BY <2>2 DEF Inv, Undisturbed
  <2>4. QED BY <2>1, <2>3, CalmStep
<1>2. QED BY <1>1, Invariance, PTL

\* Where the host gets an address that it did not have, an orchestration that
\* nothing disturbs succeeds: every wait hears the host.
THEOREM HostStatic == Spec => []StaticInitSucceeds
<1>1. TypeOK /\ Inv => StaticInitSucceeds
  <2> SUFFICES ASSUME TypeOK, Inv, setting.net = "new", Finished,
                      ~struck, ~meddled, Patient
               PROVE  ~failed
    BY DEF StaticInitSucceeds, InitSucceeds, Succeeded
  <2>1. pc >= 1 BY Past
  <2>2. Calm BY <2>1 DEF Inv, Undisturbed
  <2>3. QED BY <2>2 DEF Calm
<1>2. QED BY <1>1, Invariance, PTL

\* An orchestration that reports success, whatever went wrong on its way,
\* leaves a host that is up, has every state of its script and has restarted
\* with its essentials; only the firewall's restart of the minion, of which the
\* sleep takes no notice, may go on if no wait comes after it.
THEOREM HostReady == Spec => []SuccessMeansReady
<1>1. TypeOK /\ Inv => SuccessMeansReady
  <2> SUFFICES ASSUME TypeOK, Inv, Finished, ~failed, ~meddled, Patient
               PROVE  Ready
    BY DEF SuccessMeansReady, Succeeded
  <2>1. setting \in Settings /\ host \in {"absent", "up", "due", "down"} BY DEF TypeOK
  <2>2. /\ ~Running /\ pc >= 1 /\ pc # 1
        /\ \A j \in DOMAIN Script[setting] : j < pc
    BY Past
  <2>3. Clean BY <2>2 DEF Inv, Flawless
  <2>4. host # "absent" BY <2>2, <2>3 DEF Clean
  <2>5. ASSUME host \in {"due", "down"} PROVE Unawaited /\ struck
    <3>1. ~Owed BY <2>2 DEF Owed
    <3>2. Firewalled /\ setting.debian BY <2>3, <2>5, <3>1 DEF Clean
    <3>3. setting.config /\ setting.highstate BY <2>1, <3>2, EnvironmentPassed DEF Firewalled
    <3>4. ~setting.cis BY <2>3, <2>5 DEF Clean
    <3>5. struck
      <4>1. ~struck => Calm BY <2>2 DEF Inv, Undisturbed
      <4>2. Calm => Owed BY <2>5 DEF Calm
      <4>3. QED BY <3>1, <4>1, <4>2
    <3>6. QED BY <3>2, <3>3, <3>4, <3>5 DEF Unawaited
  <2>6. States[setting] \subseteq applied
    <3>1. States[setting] = StatesOf(Script[setting]) BY <2>1, ShapeNow
    <3>2. \A j \in DOMAIN Script[setting] :
            Script[setting][j].kind = "state" => Script[setting][j].name \in applied
      BY <2>2, <2>3 DEF Clean, Reached
    <3>3. QED BY <3>1, <3>2 DEF StatesOf
  <2>7. setting.config => loaded
    <3>1. Shape(Script[setting], setting) BY <2>1, ShapeNow
    <3>2. setting.config => Essential BY <2>2, <3>1 DEF Shape, Names, Essential, Passed
    <3>3. QED BY <2>3, <3>2 DEF Clean
  <2>8. QED BY <2>1, <2>4, <2>5, <2>6, <2>7 DEF Ready
<1>2. QED BY <1>1, Invariance, PTL

-----------------------------------------------------------------------------
(* The setups that are done once. *)

Setup == {"sshd", "elasticsearch", "elasticsearch7", "mongodb", "certbot"}

LEMMA StatesType ==
  ASSUME NEW s \in Setup
  PROVE  OnceStates(s) \in Seq(AllOnceStates)
<1>1. CASE s = "sshd" BY <1>1 DEF OnceStates, AllOnceStates
<1>2. CASE s \in {"elasticsearch", "elasticsearch7"}
  <2>1. OnceStates(s) = <<"reset", "disable", "flag">> BY <1>2 DEF OnceStates
  <2>2. {"reset", "disable", "flag"} \subseteq AllOnceStates BY DEF AllOnceStates
  <2>3. QED BY <2>1, <2>2
<1>3. CASE s = "mongodb" BY <1>3 DEF OnceStates, AllOnceStates
<1>4. CASE s = "certbot" BY <1>4 DEF OnceStates, AllOnceStates
<1>5. QED BY <1>1, <1>2, <1>3, <1>4 DEF Setup

\* The first n states have been run and what succeeded is among them.
Ran(n) ==
  /\ todo = SubSeq(OnceStates(setup), n + 1, Len(OnceStates(setup)))
  /\ \A x \in succeeded : \E i \in 1..n : x = OnceStates(setup)[i]

\* The next state to run is the one after the first n.
LEMMA NowIs ==
  ASSUME NEW s \in Setup, NEW n \in 0..Len(OnceStates(s)), NEW q,
         q = SubSeq(OnceStates(s), n + 1, Len(OnceStates(s))), q # <<>>
  PROVE  /\ n + 1 \in 1..Len(OnceStates(s))
         /\ Head(q) = OnceStates(s)[n + 1]
         /\ Head(q) \in AllOnceStates
         /\ Tail(q) = SubSeq(OnceStates(s), n + 2, Len(OnceStates(s)))
<1>1. OnceStates(s) \in Seq(AllOnceStates) BY StatesType
<1>2. Len(OnceStates(s)) \in Nat BY <1>1
<1>3. n + 1 <= Len(OnceStates(s))
  <2>1. SUFFICES ASSUME Len(OnceStates(s)) < n + 1 PROVE FALSE
    BY <1>2
  <2>2. q = <<>> BY <1>2, <2>1, SubSeqEmpty
  <2>3. QED BY <2>2
<1>4. n + 1 \in 1..Len(OnceStates(s)) BY <1>2, <1>3
<1>5. Len(OnceStates(s)) \in (n + 1)..Len(OnceStates(s)) BY <1>2, <1>3
<1>6. /\ Head(q) = OnceStates(s)[n + 1]
      /\ Tail(q) = SubSeq(OnceStates(s), (n + 1) + 1, Len(OnceStates(s)))
  BY <1>1, <1>4, <1>5, HeadTailOfSubSeq
<1>7. QED BY <1>1, <1>4, <1>6

LEMMA SetupIs ==
  ASSUME OnceTypeOK
  PROVE  setup \in Setup
BY SetupAssumption DEF OnceTypeOK, Setup

\* What a step does to the states that are still to be run.
LEMMA RanNext ==
  ASSUME setup \in Setup, NEW n \in 0..Len(OnceStates(setup)), Ran(n), todo # <<>>,
         todo' = Tail(todo), UNCHANGED setup,
         succeeded' \in {succeeded, succeeded \cup {Now}}
  PROVE  \E m \in 0..Len(OnceStates(setup')) : Ran(m)'
<1>1. /\ n + 1 \in 1..Len(OnceStates(setup))
      /\ Now = OnceStates(setup)[n + 1]
      /\ Tail(todo) = SubSeq(OnceStates(setup), n + 2, Len(OnceStates(setup)))
  BY NowIs DEF Ran, Now
<1>2. n \in Nat /\ n + 1 \in 0..Len(OnceStates(setup)) BY <1>1
<1>3. todo' = SubSeq(OnceStates(setup), (n + 1) + 1, Len(OnceStates(setup)))
  BY <1>1, <1>2
<1>4. ASSUME NEW x \in succeeded'
      PROVE  \E i \in 1..(n + 1) : x = OnceStates(setup)[i]
  <2>1. CASE x \in succeeded
    <3>1. PICK i \in 1..n : x = OnceStates(setup)[i] BY <2>1 DEF Ran
    <3>2. i \in 1..(n + 1) BY <1>2
    <3>3. QED BY <3>1, <3>2
  <2>2. CASE x = Now BY <1>1, <1>2, <2>2
  <2>3. QED BY <1>4, <2>1, <2>2
<1>5. Ran(n + 1)' BY <1>3, <1>4 DEF Ran
<1>6. QED BY <1>2, <1>5

-----------------------------------------------------------------------------
LEMMA OnceTypeInit == OnceInit => OnceTypeOK
<1> SUFFICES ASSUME OnceInit PROVE OnceTypeOK
  OBVIOUS
<1>1. setup \in Setup BY SetupAssumption DEF OnceInit, Setup
<1>2. OnceStates(setup) \in Seq(AllOnceStates) BY <1>1, StatesType
<1>3. Len(OnceStates(setup)) \in Nat BY <1>2
<1>4. todo = SubSeq(OnceStates(setup), Len(OnceStates(setup)) + 1, Len(OnceStates(setup)))
  BY <1>3, SubSeqEmpty DEF OnceInit
<1>5. slips \in 0..MaxSlips BY SetupAssumption DEF OnceInit
<1>6. Len(OnceStates(setup)) \in 0..Len(OnceStates(setup)) BY <1>3
<1>7. \E n \in 0..Len(OnceStates(setup)) :
        todo = SubSeq(OnceStates(setup), n + 1, Len(OnceStates(setup)))
  BY <1>4, <1>6
<1>8. /\ setup \in Setups /\ flag \in BOOLEAN /\ silent \in BOOLEAN
      /\ succeeded \subseteq AllOnceStates
      /\ done \subseteq AllOnceStates \ {"flag", "configure"}
  BY DEF OnceInit
<1>9. QED BY <1>5, <1>7, <1>8 DEF OnceTypeOK

\* What the steps make of the states to be run.
LEMMA TodoNext ==
  ASSUME OnceTypeOK, UNCHANGED setup,
         \/ todo' \in {todo, <<>>, OnceStates(setup)}
         \/ todo # <<>> /\ todo' = Tail(todo)
  PROVE  \E n \in 0..Len(OnceStates(setup)) :
           todo' = SubSeq(OnceStates(setup), n + 1, Len(OnceStates(setup)))
<1>1. setup \in Setup BY SetupIs
<1>2. OnceStates(setup) \in Seq(AllOnceStates) BY <1>1, StatesType
<1>3. Len(OnceStates(setup)) \in Nat BY <1>2
<1>4. CASE todo' = todo BY <1>4 DEF OnceTypeOK
<1>5. CASE todo' = <<>>
  <2>1. todo' = SubSeq(OnceStates(setup), Len(OnceStates(setup)) + 1, Len(OnceStates(setup)))
    BY <1>3, <1>5, SubSeqEmpty
  <2>2. QED BY <1>3, <2>1
<1>6. CASE todo' = OnceStates(setup)
  <2>1. SubSeq(OnceStates(setup), 1, Len(OnceStates(setup))) = OnceStates(setup)
    BY <1>2, SubSeqFull
  <2>2. todo' = SubSeq(OnceStates(setup), 0 + 1, Len(OnceStates(setup)))
    BY <1>6, <2>1
  <2>3. 0 \in 0..Len(OnceStates(setup)) BY <1>3
  <2>4. QED BY <2>2, <2>3
<1>7. CASE todo # <<>> /\ todo' = Tail(todo)
  <2>1. PICK n \in 0..Len(OnceStates(setup)) :
          todo = SubSeq(OnceStates(setup), n + 1, Len(OnceStates(setup)))
    BY DEF OnceTypeOK
  <2>2. /\ n + 1 \in 1..Len(OnceStates(setup))
        /\ Tail(todo) = SubSeq(OnceStates(setup), n + 2, Len(OnceStates(setup)))
    BY <1>1, <1>7, <2>1, NowIs
  <2>3. todo' = SubSeq(OnceStates(setup), (n + 1) + 1, Len(OnceStates(setup)))
    BY <1>7, <2>2
  <2>4. n + 1 \in 0..Len(OnceStates(setup)) BY <2>2
  <2>5. QED BY <2>3, <2>4
<1>8. QED BY <1>4, <1>5, <1>6, <1>7

\* The next state to run is one of a setup.
LEMMA NowType ==
  ASSUME OnceTypeOK, todo # <<>>
  PROVE  Now \in AllOnceStates
<1>1. setup \in Setup BY SetupIs
<1>2. PICK n \in 0..Len(OnceStates(setup)) :
        todo = SubSeq(OnceStates(setup), n + 1, Len(OnceStates(setup)))
  BY DEF OnceTypeOK
<1>3. QED BY <1>1, <1>2, NowIs DEF Now

\* What a command makes of the host.
LEMMA AfterType ==
  ASSUME OnceTypeOK, NEW state \in AllOnceStates \ {"flag"}
  PROVE  OnceAfter(state) \subseteq AllOnceStates \ {"flag", "configure"}
<1>1. done \subseteq AllOnceStates \ {"flag", "configure"} BY DEF OnceTypeOK
<1>2. CASE state = "configure" BY <1>1, <1>2 DEF OnceAfter, AllOnceStates
<1>3. CASE state # "configure" BY <1>1, <1>3 DEF OnceAfter
<1>4. QED BY <1>2, <1>3

\* It adds to what is done, but for three: new host keys undo what was made of
\* others, mongod.conf is as the grain says, and MongoDB starts with it.
LEMMA AfterIs ==
  ASSUME NEW state
  PROVE  /\ state # "configure" /\ (state = "restart" => setup # "mongodb")
              => state \in OnceAfter(state)
         /\ state \notin {"remove", "generate", "configure", "restart"}
              => done \subseteq OnceAfter(state)
         /\ state = "remove" => done \ {"generate", "restart"} \subseteq OnceAfter(state)
         /\ state = "generate" => done \ {"restart"} \subseteq OnceAfter(state)
         /\ state = "restart" => done \ {"restart"} \subseteq OnceAfter(state)
         /\ state = "configure" => done \ {"authorize"} \subseteq OnceAfter(state)
         /\ state = "configure" /\ flag => OnceAfter(state) = done \cup {"authorize"}
         /\ state = "configure" /\ ~flag => "authorize" \notin OnceAfter(state)
         /\ state \notin {"authorize", "configure"} =>
              ("authorize" \in OnceAfter(state) <=> "authorize" \in done)
<1>1. CASE state = "remove" BY <1>1 DEF OnceAfter
<1>2. CASE state = "generate" BY <1>2 DEF OnceAfter
<1>3. CASE state = "configure" BY <1>3 DEF OnceAfter
<1>4. CASE state = "restart" BY <1>4 DEF OnceAfter
<1>5. CASE state \notin {"remove", "generate", "configure", "restart"}
  BY <1>5 DEF OnceAfter
<1>6. QED BY <1>1, <1>2, <1>3, <1>4, <1>5

LEMMA OnceTypeNext == OnceTypeOK /\ [OnceNext]_onceVars => OnceTypeOK'
<1> SUFFICES ASSUME OnceTypeOK, [OnceNext]_onceVars PROVE OnceTypeOK'
  OBVIOUS
<1>1. setup' = setup
  BY DEF OnceNext, BeginHighstate, Unmet, Command, RunNow, SetFlag, HighstateDies, onceVars
<1>2. \/ todo' \in {todo, <<>>, OnceStates(setup)}
      \/ todo # <<>> /\ todo' = Tail(todo)
  BY DEF OnceNext, BeginHighstate, Unmet, Met, Command, RunNow, SetFlag, HighstateDies, onceVars
<1>3. \E n \in 0..Len(OnceStates(setup')) :
        todo' = SubSeq(OnceStates(setup'), n + 1, Len(OnceStates(setup')))
  BY <1>1, <1>2, TodoNext
<1>4. setup' \in Setups BY <1>1 DEF OnceTypeOK
<1>5. /\ flag' \in BOOLEAN /\ silent' \in BOOLEAN
      /\ succeeded' \subseteq AllOnceStates
      /\ done' \subseteq AllOnceStates \ {"flag", "configure"}
      /\ slips' \in 0..MaxSlips
  <2> USE SetupAssumption DEF OnceTypeOK
  <2>1. CASE BeginHighstate BY <2>1 DEF BeginHighstate
  <2>2. CASE Unmet BY <2>2 DEF Unmet
  <2>3. CASE Command
    <3>1. Now \in AllOnceStates \ {"flag"} BY <2>3, NowType DEF Command, Met
    <3>2. PICK effect \in BOOLEAN, ok \in BOOLEAN :
            /\ \/ UNCHANGED <<slips, silent>>
               \/ silent' = TRUE /\ UNCHANGED slips
               \/ /\ slips < MaxSlips /\ slips' = slips + 1
                  /\ silent' = (silent \/ ok)
            /\ done' = IF effect THEN OnceAfter(Now) ELSE done
            /\ succeeded' = IF ok THEN succeeded \cup {Now} ELSE succeeded
      BY <2>3 DEF Command, RunNow
    <3>3. slips' \in 0..MaxSlips BY <3>2
    <3>4. silent' \in BOOLEAN BY <3>2
    <3>5. flag' = flag BY <2>3 DEF Command, RunNow
    <3>6. OnceAfter(Now) \subseteq AllOnceStates \ {"flag", "configure"}
      BY <3>1, AfterType
    <3>7. done' \subseteq AllOnceStates \ {"flag", "configure"} BY <3>2, <3>6
    <3>8. succeeded' \subseteq AllOnceStates BY <3>1, <3>2
    <3>9. QED BY <3>3, <3>4, <3>5, <3>7, <3>8
  <2>4. CASE SetFlag
    <3>1. Now \in AllOnceStates BY <2>4, NowType DEF SetFlag, Met
    <3>2. QED BY <2>4, <3>1 DEF SetFlag
  <2>5. CASE HighstateDies
    <3>1. slips' \in 0..MaxSlips BY <2>5 DEF HighstateDies
    <3>2. QED BY <2>5, <3>1 DEF HighstateDies
  <2>6. CASE UNCHANGED onceVars BY <2>6 DEF onceVars
  <2>7. QED BY <2>1, <2>2, <2>3, <2>4, <2>5, <2>6 DEF OnceNext
<1>6. QED BY <1>3, <1>4, <1>5 DEF OnceTypeOK

\* Every variable always holds a value of its kind.
THEOREM FlagsTypes == OnceSpec => []OnceTypeOK
BY OnceTypeInit, OnceTypeNext, PTL DEF OnceSpec
-----------------------------------------------------------------------------
\* The inductive invariant.  What succeeded shows, unless something had no effect
\* in silence (and but for what is done in every highstate);
\* the access control of MongoDB comes after its user; where the grain is
\* looked at, its state is the last; and the flag is true.
Shown == ~silent => succeeded \ {"flag", "configure", "restart"} \subseteq done
InForce == setup = "mongodb" /\ ~silent /\ "authorize" \in done => "admin" \in done
Completed == flag /\ setup # "mongodb" => todo = <<>>
Order == \E n \in 0..Len(OnceStates(setup)) : Ran(n)

FlagInv == Order /\ Shown /\ InForce /\ Completed /\ FlagIsTrue

LEMMA FlagInit == OnceTypeOK /\ OnceInit => FlagInv
<1> SUFFICES ASSUME OnceTypeOK, OnceInit PROVE FlagInv
  OBVIOUS
<1>1. Order BY DEF Order, Ran, OnceInit, OnceTypeOK
<1>2. QED BY <1>1 DEF OnceInit, FlagInv, Shown, InForce, Completed, FlagIsTrue

\* The states before the next one are those of the order.
LEMMA Before ==
  ASSUME OnceTypeOK, Order, todo # <<>>
  PROVE  /\ setup = "sshd" /\ Now = "remove" => succeeded = {}
         /\ setup = "sshd" /\ Now = "generate" => succeeded \subseteq {"remove"}
         /\ setup # "sshd" => Now \notin {"remove", "generate"}
         /\ setup # "mongodb" /\ Now = "flag" => Tail(todo) = <<>>
         /\ Now = "configure" => succeeded = {}
         /\ setup # "mongodb" => Now \notin {"configure", "authorize", "admin"}
         /\ setup = "mongodb" => Now # "reset"
<1>1. setup \in Setup BY SetupIs
<1>2. PICK n \in 0..Len(OnceStates(setup)) : Ran(n) BY DEF Order
<1>3. /\ n + 1 \in 1..Len(OnceStates(setup))
      /\ Now = OnceStates(setup)[n + 1]
      /\ Tail(todo) = SubSeq(OnceStates(setup), n + 2, Len(OnceStates(setup)))
  BY <1>1, <1>2, NowIs DEF Ran, Now
<1>4. \A x \in succeeded : \E i \in 1..n : x = OnceStates(setup)[i]
  BY <1>2 DEF Ran
<1>5. CASE setup = "sshd"
  <2>1. OnceStates(setup) = <<"remove", "generate", "restart", "flag">>
    BY <1>5 DEF OnceStates
  <2>2. n \in 0..3 BY <1>3, <2>1
  <2>3. Now = "remove" => n = 0 BY <1>3, <2>1, <2>2
  <2>4. Now = "generate" => n = 1 BY <1>3, <2>1, <2>2
  <2>5. Now = "flag" => n = 3 BY <1>3, <2>1, <2>2
  <2>6. Now \notin {"configure", "authorize", "admin"} BY <1>3, <2>1, <2>2
  <2>7. n = 3 => Tail(todo) = <<>> BY <1>3, <2>1, SubSeqEmpty
  <2>8. n = 0 => succeeded = {} BY <1>4
  <2>9. n = 1 => succeeded \subseteq {"remove"} BY <1>4, <2>1
  <2>10. QED BY <1>5, <2>3, <2>4, <2>5, <2>6, <2>7, <2>8, <2>9
<1>6. CASE setup \in {"elasticsearch", "elasticsearch7"}
  <2>1. OnceStates(setup) = <<"reset", "disable", "flag">> BY <1>6 DEF OnceStates
  <2>2. n \in 0..2 BY <1>3, <2>1
  <2>3. Now \notin {"remove", "generate", "configure", "authorize", "admin"}
        /\ (Now = "flag" => n = 2)
    BY <1>3, <2>1, <2>2
  <2>4. n = 2 => Tail(todo) = <<>> BY <1>3, <2>1, SubSeqEmpty
  <2>5. QED BY <1>6, <2>3, <2>4
<1>7. CASE setup = "mongodb"
  <2>1. OnceStates(setup) = <<"configure", "admin", "authorize", "flag", "restart">>
    BY <1>7 DEF OnceStates
  <2>2. n \in 0..4 BY <1>3, <2>1
  <2>3. Now \notin {"remove", "generate", "reset"} BY <1>3, <2>1, <2>2
  <2>4. Now = "configure" => n = 0 BY <1>3, <2>1, <2>2
  <2>5. n = 0 => succeeded = {} BY <1>4
  <2>6. QED BY <1>7, <2>3, <2>4, <2>5
<1>8. CASE setup = "certbot"
  <2>1. OnceStates(setup) = <<"certonly", "flag">> BY <1>8 DEF OnceStates
  <2>2. n \in 0..1 BY <1>3, <2>1
  <2>3. Now \notin {"remove", "generate", "configure", "authorize", "admin"}
        /\ (Now = "flag" => n = 1)
    BY <1>3, <2>1, <2>2
  <2>4. n = 1 => Tail(todo) = <<>> BY <1>3, <2>1, SubSeqEmpty
  <2>5. QED BY <1>8, <2>3, <2>4
<1>9. QED BY <1>1, <1>5, <1>6, <1>7, <1>8 DEF Setup
\* What a command does to the host and to the highstate.
LEMMA CommandKeeps ==
  ASSUME OnceTypeOK, OnceTypeOK', FlagInv, Command
  PROVE  Shown' /\ InForce' /\ Completed' /\ FlagIsTrue'
<1> USE DEF FlagInv
<1>1. todo # <<>> /\ Requires(setup, Now) \subseteq succeeded /\ Now # "flag"
  BY DEF Command, Met
<1>2. setup' = setup /\ flag' = flag BY DEF Command, RunNow
<1>3. Now \in AllOnceStates BY <1>1, NowType
<1>4. PICK effect \in BOOLEAN, ok \in BOOLEAN :
        /\ \/ /\ effect /\ ok /\ ~Refuses(Now) /\ ~Vain(Now)
              /\ UNCHANGED <<slips, silent>>
           \/ /\ ~effect /\ Refuses(Now) /\ (ok => Now \in Quiet)
              /\ UNCHANGED <<slips, silent>>
           \/ /\ ~effect /\ ok /\ Vain(Now)
              /\ silent' = TRUE /\ UNCHANGED slips
           \/ /\ ~(effect /\ ok) /\ ~Refuses(Now) /\ ~(effect /\ Vain(Now))
              /\ ok => Now \in Quiet
              /\ slips < MaxSlips /\ slips' = slips + 1
              /\ silent' = (silent \/ ok)
        /\ done' = IF effect THEN OnceAfter(Now) ELSE done
        /\ succeeded' = IF ok THEN succeeded \cup {Now} ELSE succeeded
  BY DEF Command, RunNow
<1>5. ~silent' => ~silent BY <1>4 DEF OnceTypeOK
\* Success without an effect is silent, but of what is there already.
<1>6. ~silent' /\ ok => effect \/ Now \in done
  BY <1>4 DEF Refuses
\* Nothing that succeeded is undone, and nothing that a grain stands for.
<1>7. succeeded \ {"flag", "configure", "restart"} \subseteq done
        => succeeded \ {"flag", "configure", "restart"} \subseteq OnceAfter(Now)
  <2>1. CASE Now \in {"remove", "configure"}
    <3>1. Now = "configure" => succeeded = {} BY <1>1, Before
    <3>2. Now = "remove" => succeeded = {}
      BY <1>1, Before DEF FlagInv
    <3>3. QED BY <2>1, <3>1, <3>2
  <2>2. CASE Now \in {"generate", "restart"} BY <2>2, AfterIs
  <2>3. CASE Now \notin {"remove", "generate", "configure", "restart"}
    BY <2>3, AfterIs
  <2>4. QED BY <2>1, <2>2, <2>3
<1>8. setup = "mongodb" =>
        /\ "admin" \in done => "admin" \in done'
        /\ flag /\ "authorize" \in done => "authorize" \in done'
  <2>1. SUFFICES ASSUME setup = "mongodb"
                 PROVE  /\ "admin" \in done => "admin" \in OnceAfter(Now)
                        /\ flag /\ "authorize" \in done => "authorize" \in OnceAfter(Now)
    BY <1>4
  <2>2. Now \notin {"remove", "generate"} BY <1>1, <2>1, Before
  <2>3. QED BY <2>2, AfterIs
<1>9. InForce'
  <2>1. SUFFICES ASSUME setup = "mongodb", ~silent', "authorize" \in done'
                 PROVE  "admin" \in done
    BY <1>2, <1>8 DEF InForce
  <2>2. CASE "authorize" \in done BY <1>5, <2>1, <2>2 DEF InForce
  <2>3. CASE "authorize" \notin done
    <3>1. Now = "authorize" \/ (Now = "configure" /\ flag)
      BY <1>4, <2>1, <2>3, AfterIs
    <3>2. CASE Now = "authorize"
      <4>1. "admin" \in succeeded BY <1>1, <3>2 DEF Requires
      <4>2. QED BY <1>5, <2>1, <4>1 DEF Shown
    <3>3. CASE Now = "configure" /\ flag
      BY <1>5, <2>1, <3>3 DEF FlagIsTrue, Purpose
    <3>4. QED BY <3>1, <3>2, <3>3
  <2>4. QED BY <2>2, <2>3
<1>10. Shown'
  <2>1. SUFFICES ASSUME ~silent'
                 PROVE  succeeded' \ {"flag", "configure", "restart"} \subseteq done'
    BY DEF Shown
  <2>2. succeeded \ {"flag", "configure", "restart"} \subseteq done
    BY <1>5, <2>1 DEF Shown
  <2>3. succeeded \ {"flag", "configure", "restart"} \subseteq done'
    BY <1>4, <1>7, <2>2
  <2>4. ok /\ Now \notin {"configure", "restart"} => Now \in done'
    <3>1. CASE effect BY <1>4, <3>1, AfterIs
    <3>2. CASE ~effect BY <1>4, <1>6, <2>1, <3>2
    <3>3. QED BY <3>1, <3>2
  <2>5. QED BY <1>4, <2>3, <2>4
<1>11. Completed'
  <2>1. ~(flag /\ setup # "mongodb") BY <1>1 DEF Completed
  <2>2. QED BY <1>2, <2>1 DEF Completed
<1>12. FlagIsTrue'
  <2>1. SUFFICES ASSUME flag, ~silent' PROVE Purpose \subseteq done'
    BY <1>2 DEF FlagIsTrue, Purpose
  <2>2. setup = "mongodb" BY <1>1, <2>1 DEF Completed
  <2>3. Purpose \subseteq done BY <1>5, <2>1 DEF FlagIsTrue
  <2>4. QED BY <1>8, <2>1, <2>2, <2>3 DEF Purpose
<1>13. QED BY <1>9, <1>10, <1>11, <1>12

\* The grain is set after what it stands for.
LEMMA SetFlagKeeps ==
  ASSUME OnceTypeOK, FlagInv, SetFlag
  PROVE  Shown' /\ InForce' /\ Completed' /\ FlagIsTrue'
<1> USE DEF FlagInv
<1>1. /\ todo # <<>> /\ Requires(setup, Now) \subseteq succeeded /\ Now = "flag"
      /\ succeeded' = succeeded \cup {Now} /\ todo' = Tail(todo)
      /\ UNCHANGED <<setup, done, silent, slips>>
  BY DEF SetFlag, Met
<1>2. Shown' BY <1>1 DEF Shown
<1>3. InForce' BY <1>1 DEF InForce
<1>4. Completed' BY <1>1, Before DEF Completed
<1>5. FlagIsTrue'
  <2>1. SUFFICES ASSUME ~silent PROVE Purpose \subseteq done
    BY <1>1 DEF FlagIsTrue, Purpose
  <2>2. Requires(setup, "flag") \subseteq done
    <3>1. Requires(setup, "flag") \cap {"flag", "configure", "restart"} = {}
      BY DEF Requires
    <3>2. QED BY <1>1, <2>1, <3>1 DEF Shown
  <2>3. setup \in Setup BY SetupIs
  <2>4. CASE setup = "mongodb" BY <2>1, <2>2, <2>4 DEF Purpose, Requires, InForce
  <2>5. CASE setup = "sshd" BY <2>2, <2>5 DEF Purpose, Requires
  <2>6. CASE setup \in {"elasticsearch", "elasticsearch7"}
    BY <2>2, <2>6 DEF Purpose, Requires
  <2>7. CASE setup = "certbot" BY <2>2, <2>7 DEF Purpose, Requires
  <2>8. QED BY <2>3, <2>4, <2>5, <2>6, <2>7 DEF Setup
<1>6. QED BY <1>2, <1>3, <1>4, <1>5
\* Highstates are run in the order of their states.
LEMMA OrderNext ==
  ASSUME OnceTypeOK, Order, [OnceNext]_onceVars
  PROVE  Order'
<1>1. setup \in Setup BY SetupIs
<1>2. OnceStates(setup) \in Seq(AllOnceStates) BY <1>1, StatesType
<1>3. Len(OnceStates(setup)) \in Nat BY <1>2
<1>4. PICK n \in 0..Len(OnceStates(setup)) : Ran(n) BY DEF Order
<1>5. CASE BeginHighstate
  <2>1. SubSeq(OnceStates(setup), 1, Len(OnceStates(setup))) = OnceStates(setup)
    BY <1>2, SubSeqFull
  <2>2. todo' = SubSeq(OnceStates(setup'), 0 + 1, Len(OnceStates(setup')))
    BY <1>5, <2>1 DEF BeginHighstate
  <2>3. Ran(0)' BY <1>5, <2>2 DEF Ran, BeginHighstate
  <2>4. 0 \in 0..Len(OnceStates(setup')) BY <1>3, <1>5 DEF BeginHighstate
  <2>5. QED BY <2>3, <2>4 DEF Order
<1>6. CASE Unmet
  <2>1. \E m \in 0..Len(OnceStates(setup')) : Ran(m)'
    BY <1>1, <1>4, <1>6, RanNext DEF Unmet
  <2>2. QED BY <2>1 DEF Order
<1>7. CASE Command
  <2>1. /\ todo # <<>> /\ todo' = Tail(todo) /\ UNCHANGED setup
        /\ succeeded' \in {succeeded, succeeded \cup {Now}}
    BY <1>7 DEF Command, Met, RunNow
  <2>2. \E m \in 0..Len(OnceStates(setup')) : Ran(m)' BY <1>1, <1>4, <2>1, RanNext
  <2>3. QED BY <2>2 DEF Order
<1>8. CASE SetFlag
  <2>1. \E m \in 0..Len(OnceStates(setup')) : Ran(m)'
    BY <1>1, <1>4, <1>8, RanNext DEF SetFlag, Met
  <2>2. QED BY <2>1 DEF Order
<1>9. CASE HighstateDies
  <2>1. Len(OnceStates(setup)) \in 0..Len(OnceStates(setup)) BY <1>3
  <2>2. SubSeq(OnceStates(setup), Len(OnceStates(setup)) + 1, Len(OnceStates(setup))) = <<>>
    BY <1>3, SubSeqEmpty
  <2>3. \A x \in succeeded : \E i \in 1..Len(OnceStates(setup)) : x = OnceStates(setup)[i]
    BY <1>3, <1>4 DEF Ran
  <2>4. Ran(Len(OnceStates(setup)))' BY <1>9, <2>2, <2>3 DEF Ran, HighstateDies
  <2>5. setup' = setup BY <1>9 DEF HighstateDies
  <2>6. QED BY <2>1, <2>4, <2>5 DEF Order
<1>10. CASE UNCHANGED onceVars
  <2>1. Ran(n)' BY <1>4, <1>10 DEF Ran, onceVars
  <2>2. setup' = setup BY <1>10 DEF onceVars
  <2>3. QED BY <2>1, <2>2 DEF Order
<1>11. QED BY <1>5, <1>6, <1>7, <1>8, <1>9, <1>10 DEF OnceNext

LEMMA FlagNext == OnceTypeOK /\ OnceTypeOK' /\ FlagInv /\ [OnceNext]_onceVars => FlagInv'
<1> SUFFICES ASSUME OnceTypeOK, OnceTypeOK', FlagInv, [OnceNext]_onceVars PROVE FlagInv'
  OBVIOUS
<1>1. Order' BY OrderNext DEF FlagInv
<1>2. Shown' /\ InForce' /\ Completed' /\ FlagIsTrue'
  <2> USE DEF FlagInv, Shown, InForce, Completed, FlagIsTrue, Purpose
  <2>1. CASE BeginHighstate
    <3>1. setup = "mongodb" \/ ~flag BY <2>1 DEF BeginHighstate, Rendered
    <3>2. QED BY <2>1, <3>1 DEF BeginHighstate
  <2>2. CASE Unmet
    <3>1. todo # <<>> BY <2>2 DEF Unmet
    <3>2. QED BY <2>2, <3>1 DEF Unmet
  <2>3. CASE Command BY <2>3, CommandKeeps
  <2>4. CASE SetFlag BY <2>4, SetFlagKeeps
  <2>5. CASE HighstateDies BY <2>5 DEF HighstateDies
  <2>6. CASE UNCHANGED onceVars BY <2>6 DEF onceVars
  <2>7. QED BY <2>1, <2>2, <2>3, <2>4, <2>5, <2>6 DEF OnceNext
<1>3. QED BY <1>1, <1>2 DEF FlagInv

\* A grain that is set stands for a host that is set up, but for a command
\* that ended well without its effect: whatever died or failed, in however many
\* highstates.
THEOREM FlagTold == OnceSpec => []FlagIsTrue
<1>1. OnceSpec => [](OnceTypeOK /\ FlagInv)
  <2>1. OnceInit => OnceTypeOK /\ FlagInv BY OnceTypeInit, FlagInit
  <2>2. (OnceTypeOK /\ FlagInv) /\ [OnceNext]_onceVars => (OnceTypeOK /\ FlagInv)'
    BY OnceTypeNext, FlagNext
  <2>3. QED BY <2>1, <2>2, PTL DEF OnceSpec
<1>2. FlagInv => FlagIsTrue BY DEF FlagInv
<1>3. QED BY <1>1, <1>2, PTL
=============================================================================
