------------------------------ MODULE HostInit ------------------------------
(***************************************************************************)
(* The orchestration that makes a new virtual machine and configures it:   *)
(* init/init.sls, which calls init/config.sls, over the states that they   *)
(* apply to the host.  The orchestration runs on the Salt master, state by *)
(* state; the host restarts on its own, when one of its states has asked   *)
(* for it, and says on the event bus that it is back.  Nobody hears what   *)
(* is said before he listens.                                              *)
(*                                                                         *)
(* Time is left out.  A restart that was asked for begins (`sleep 5') when *)
(* the reply is on its way, and ends before the timeout of a wait, unless  *)
(* a fault says otherwise.                                                 *)
(***************************************************************************)
EXTENDS Naturals, Sequences

CONSTANTS Settings,   \* what the map file may say of the host
          MaxFaults,  \* how many things may go wrong
          MaxEdits    \* how often an operator makes or destroys the machine

\* net: the host's addresses come from DHCP, or are its own and new to it, or
\* its own and in its image already.  debian: the host, which then restarts
\* its minion with the firewall, is Debian; master: so is the master.
Setting == [redefine : BOOLEAN, snapshots : BOOLEAN, config : BOOLEAN,
            highstate : BOOLEAN, cis : BOOLEAN, net : {"dhcp", "new", "same"},
            debian : BOOLEAN, master : BOOLEAN]

ASSUME HostAssumption ==
  /\ Settings \subseteq Setting /\ Settings # {}
  /\ MaxFaults \in Nat /\ MaxEdits \in Nat

-----------------------------------------------------------------------------
(* The steps, in the order of the two files. *)

Task(name, kind)   == [name |-> name, kind |-> kind, require |-> {}, onchanges |-> {}]
Apply(name)        == Task(name, "state")
After(name, needs) == [Apply(name) EXCEPT !.require = {needs}]
Snapshot(name)     == Task(name, "snapshot")
Wait(name, needs)  == [Task(name, "wait") EXCEPT !.require = {needs}]
When(asked, steps) == IF asked THEN steps ELSE <<>>

\* (Mutant: nobody waits for the restart that essentials asks for.)
NetworkUnwaited(s) ==
  << Apply("proxy"), Apply("os_specific"), Apply("essentials"),
     Apply("network manager"), Apply("drivers"),
     After("nmconnections", "network manager"),
     Wait("wait nmconnections", "nmconnections") >>
Network(s) ==
  << Apply("proxy"), Apply("os_specific"), Apply("essentials"),
     Wait("wait essentials", "essentials"),
     Apply("network manager"), Apply("drivers"),
     After("nmconnections", "network manager"),
     Wait("wait nmconnections", "nmconnections") >>

Highstate(s) ==
  When(s.snapshots, << Snapshot("pre-highstate") >>)
  \o << Apply("environment"), Task("sleep", "sleep"), Apply("basic_services"),
        Apply("services"), Apply("roles"), Apply("apps"), Apply("pkgs") >>
  \o When(s.snapshots, << Snapshot("pre-cis") >>)
  \o << Apply("cis"), [Task("wait cis", "wait") EXCEPT !.onchanges = {"cis"}] >>

Steps(s) ==
  << Task("create", "create"), Task("attach usb", "usb") >>
  \o When(s.redefine, << Task("redefine", "redefine"), Wait("wait interfaces", "redefine") >>)
  \o When(s.snapshots, << Snapshot("pre-config") >>)
  \o When(s.config, Network(s) \o When(s.highstate, Highstate(s)))

Full   == [redefine |-> TRUE, snapshots |-> TRUE, config |-> TRUE, highstate |-> TRUE,
           cis |-> TRUE, net |-> "new", debian |-> TRUE, master |-> TRUE]
Script == [s \in Settings |-> Steps(s)]

StatesOf(script) == { t.name : t \in { script[i] : i \in { j \in DOMAIN script : script[j].kind = "state" } } }
AllStates == StatesOf(Steps(Full))
States    == [s \in Settings |-> StatesOf(Script[s])]

\* The steps that another step waits for.
Awaited == {"redefine", "essentials", "network manager", "nmconnections", "cis"}

-----------------------------------------------------------------------------
VARIABLES
  setting,    \* what the map says of the host
  host,       \* "absent", "up", "due" (up, about to restart) or "down"
  applied,    \* the states that the host has been brought to
  loaded,     \* it has restarted since the essentials were installed
  pc,         \* the step of the orchestration; 0 when there is none
  listening,  \* the step is a wait and has begun
  results,    \* what the awaited steps of this orchestration came to
  failed,     \* some step of it failed
  faults, edits,
  struck,     \* a fault has struck this orchestration
  meddled     \* an operator has touched the machine since it began

machine == <<host, applied, loaded>>
vars == <<setting, host, applied, loaded, pc, listening, results, failed, faults, edits,
          struck, meddled>>

Running  == pc \in DOMAIN Script[setting]
Finished == pc > Len(Script[setting])
Step     == Script[setting][pc]

Init ==
  /\ setting \in Settings
  /\ host = "absent" /\ applied = {} /\ loaded = FALSE
  /\ pc = 0 /\ listening = FALSE
  /\ results = [n \in Awaited |-> "none"] /\ failed = FALSE
  /\ faults = 0 /\ edits = 0
  /\ struck = FALSE /\ meddled = FALSE

Orderly == UNCHANGED <<faults, struck>>
Fault   == faults < MaxFaults /\ faults' = faults + 1 /\ struck' = TRUE

Conclude(r) ==
  /\ results' = IF Step.name \in Awaited THEN [results EXCEPT ![Step.name] = r] ELSE results
  /\ failed' = (failed \/ r = "false")
  /\ pc' = pc + 1
  /\ listening' = FALSE
  /\ UNCHANGED <<setting, edits, meddled>>

-----------------------------------------------------------------------------
(* The orchestration. *)

\* It is called.  The machines are listed once, before anything runs; of one
\* that is there nothing is done.
Start ==
  /\ ~Running
  /\ pc' = IF host = "absent" THEN 1 ELSE 0
  /\ results' = [n \in Awaited |-> "none"] /\ failed' = FALSE
  /\ struck' = FALSE /\ meddled' = FALSE
  /\ UNCHANGED <<setting, machine, listening, faults, edits>>

\* A step whose requisites failed is not run and counts as failed; one that
\* waits for changes, of which there were none, is not run either.
Requisites  == Step.require \cup Step.onchanges
Refused     == \E n \in Requisites : results[n] = "false"
Unneeded    == ~Refused /\ Step.onchanges # {} /\ \A n \in Step.onchanges : results[n] # "changed"
At(kind)    == Running /\ Step.kind = kind /\ ~listening /\ ~Refused /\ ~Unneeded

Skip ==
  /\ Running /\ ~listening
  /\ \/ Refused /\ Conclude("false")
     \/ Unneeded /\ Conclude("true")
  /\ Orderly /\ UNCHANGED machine

\* cloud.profile: makes the machine and waits until its minion answers.
Create ==
  /\ At("create")
  /\ \/ /\ host = "absent" /\ host' = "up" /\ applied' = {} /\ loaded' = FALSE
        /\ Conclude("changed") /\ Orderly
     \/ host # "absent" /\ Conclude("false") /\ Orderly /\ UNCHANGED machine
     \/ /\ Fault /\ Conclude("false")
        /\ host' \in {host} \cup (IF host = "absent" THEN {"up"} ELSE {})
        /\ UNCHANGED <<applied, loaded>>

\* The hypervisor attaches the devices, if there are any, or takes a snapshot.
Aside ==
  /\ At("usb") \/ At("snapshot")
  /\ \/ host # "absent" /\ Conclude("changed") /\ Orderly
     \/ host = "absent" /\ Conclude("false") /\ Orderly
     \/ host = "absent" /\ Step.kind = "usb" /\ Conclude("true") /\ Orderly
     \/ Fault /\ Conclude("false")
  /\ UNCHANGED machine

\* The hypervisor stops the machine, and starts it with its new interfaces.
Redefine ==
  /\ At("redefine")
  /\ \/ host # "absent" /\ host' = "down" /\ Conclude("changed") /\ Orderly
     \/ host = "absent" /\ Conclude("false") /\ Orderly /\ UNCHANGED host
     \/ /\ Fault /\ Conclude("false")
        /\ host' \in {host} \cup (IF host = "absent" THEN {} ELSE {"down"})
  /\ UNCHANGED <<applied, loaded>>

\* (Mutant: new connections do not restart the host.)
RestartsSeldom(name) ==
  \/ name = "essentials"
  \/ name = "environment" /\ setting.debian
  \/ name = "cis" /\ setting.cis

\* The state asks for a restart.  essentials and cis do so even if other
\* parts of them failed; nmconnections only if a connection changed, and never
\* when all addresses come from DHCP.
Restarts(name) ==
  \/ name = "essentials"
  \/ name = "nmconnections" /\ setting.net = "new"
  \/ name = "environment" /\ setting.debian
  \/ name = "cis" /\ setting.cis
Changes(name) == name = "cis" => setting.cis

\* A state is applied to the host and its reply awaited.  It may fail in the
\* middle, or be done and its reply lost; one that meets the restart is cut
\* short; a host that is down does not answer.
ApplyState ==
  /\ At("state")
  /\ LET asked == IF Restarts(Step.name) THEN "due" ELSE host IN
     \/ /\ host \in {"up", "due"}
        /\ applied' = applied \cup {Step.name} /\ host' = asked
        /\ Conclude(IF Changes(Step.name) THEN "changed" ELSE "true") /\ Orderly
     \/ /\ host \in {"up", "due"} /\ Fault
        /\ applied' \in {applied, applied \cup {Step.name}} /\ host' \in {host, asked}
        /\ Conclude("false")
     \/ /\ host = "due" /\ host' = "down"
        /\ applied' \in {applied, applied \cup {Step.name}}
        /\ Conclude("false") /\ Orderly
     \/ /\ host \in {"down", "absent"} /\ Conclude("false") /\ Orderly
        /\ UNCHANGED <<host, applied>>
  /\ UNCHANGED loaded

\* (Mutant: the ear is open before the wait has come.)
ListenEarly ==
  /\ Running /\ ~listening
  /\ listening' = TRUE
  /\ UNCHANGED <<setting, machine, pc, results, failed, faults, edits, struck, meddled>>

\* salt.wait_for_event: listens from now on.
Listen ==
  /\ At("wait")
  /\ listening' = TRUE
  /\ UNCHANGED <<setting, machine, pc, results, failed, faults, edits, struck, meddled>>

\* (Mutants: a wait without a timeout; a timeout that counts as a success.)
TimeoutNever == listening /\ Fault /\ Conclude("false") /\ UNCHANGED machine
TimeoutPasses ==
  /\ listening
  /\ \/ host \in {"up", "absent"} /\ Orderly
     \/ Fault
  /\ Conclude("true") /\ UNCHANGED machine

\* The time of the wait is up.
Timeout ==
  /\ listening
  /\ \/ host \in {"up", "absent"} /\ Orderly
     \/ Fault
  /\ Conclude("false") /\ UNCHANGED machine

\* The master sleeps while the minion restarts, if the master is Debian.
Sleep ==
  /\ At("sleep")
  /\ \/ ~setting.master /\ Orderly
     \/ host \in {"up", "absent"} /\ Orderly
     \/ Fault
  /\ Conclude("true") /\ UNCHANGED machine

\* The orchestration is killed, or the master restarts.
Killed ==
  /\ Running /\ Fault
  /\ pc' = 0 /\ listening' = FALSE
  /\ UNCHANGED <<setting, machine, results, failed, edits, meddled>>

-----------------------------------------------------------------------------
(* The host, and the operators. *)

GoDown ==
  /\ host = "due" /\ host' = "down"
  /\ UNCHANGED <<setting, applied, loaded, pc, listening, results, failed, faults, edits,
                 struck, meddled>>

\* The host is back and its minion says so: to a wait, if one listens.  That
\* it says so before the wait that is next has begun is a fault.
Boot ==
  /\ host = "down" /\ host' = "up"
  /\ loaded' = ("essentials" \in applied)
  /\ UNCHANGED applied
  /\ IF listening
     THEN Conclude("true") /\ Orderly
     ELSE /\ UNCHANGED <<setting, pc, listening, results, failed, edits, meddled>>
          /\ IF At("wait") THEN Fault ELSE Orderly

\* An operator makes the machine by hand, destroys it, or changes the map.
Operator ==
  /\ edits < MaxEdits /\ edits' = edits + 1 /\ meddled' = TRUE
  /\ \/ host = "absent" /\ host' = "up" /\ UNCHANGED <<setting, applied, loaded>>
     \/ host # "absent" /\ host' = "absent" /\ applied' = {} /\ loaded' = FALSE
        /\ UNCHANGED setting
     \/ ~Running /\ setting' \in Settings \ {setting} /\ UNCHANGED machine
  /\ pc' = IF Running THEN pc ELSE 0
  /\ UNCHANGED <<listening, results, failed, faults, struck>>

Orchestrate == Skip \/ Create \/ Aside \/ Redefine \/ ApplyState \/ Listen
                 \/ Timeout \/ Sleep
Next == Start \/ Orchestrate \/ Killed \/ GoDown \/ Boot \/ Operator

Spec == Init /\ [][Next]_vars

\* The master goes on with what it runs, and a host that restarts comes back.
FairSpec == Spec /\ WF_vars(Orchestrate) /\ WF_vars(GoDown) /\ WF_vars(Boot)

-----------------------------------------------------------------------------
(* Properties. *)

\* Every variable holds a value of its kind; only a wait listens, and only a
\* host that has the essentials can have loaded them.
TypeOK ==
  /\ setting \in Settings
  /\ host \in {"absent", "up", "due", "down"}
  /\ applied \subseteq AllStates /\ loaded \in BOOLEAN
  /\ pc \in 0..(Len(Script[setting]) + 1)
  /\ listening \in BOOLEAN /\ (listening => Running /\ Step.kind = "wait")
  /\ (loaded => "essentials" \in applied) /\ (host = "absent" => applied = {})
  /\ results \in [Awaited -> {"none", "true", "changed", "false"}] /\ failed \in BOOLEAN
  /\ faults \in 0..MaxFaults /\ edits \in 0..MaxEdits
  /\ struck \in BOOLEAN /\ meddled \in BOOLEAN

\* The master waits long enough after the firewall's restart of the minion.
Patient == setting.debian => setting.master

\* In an orchestration that nothing disturbs, no state is sent to a host that
\* is restarting or about to, and no snapshot is taken of one.
NeverInterrupted ==
  (At("state") \/ At("snapshot")) /\ ~struck /\ ~meddled /\ Patient => host = "up"

Succeeded == Finished /\ ~failed

\* Nothing after the sleep waits for the firewall's restart of the minion, if
\* the enforcement of cis does not restart the host.
Unawaited == setting.config /\ setting.highstate /\ setting.debian /\ ~setting.cis

Ready == /\ host = "up" \/ (host # "absent" /\ Unawaited /\ struck)
         /\ States[setting] \subseteq applied
         /\ setting.config => loaded

\* An orchestration that reports success, whatever failed on the way, leaves
\* a host that is up, has restarted with its essentials and has every state.
\* It may be about to restart its minion if that outlasts the sleep and no
\* wait comes after it.
SuccessMeansReady == Succeeded /\ ~meddled /\ Patient => Ready

\* What the comment over the wait says, that the host `may restart' there:
\* an orchestration that nothing disturbs succeeds, restart or not.
InitSucceeds == Finished /\ ~struck /\ ~meddled /\ Patient => Succeeded

\* It does if the host gets an address that it did not have.
StaticInitSucceeds == setting.net = "new" => InitSucceeds

\* No orchestration waits for ever: a restart is heard of, or time runs out.
AlwaysEnds == Running ~> ~Running
=============================================================================
