----------------------------- MODULE DdnsUpdate -----------------------------
(***************************************************************************)
(* The scripts that keep the address of a host in the DNS:                 *)
(*                                                                         *)
(*   aws      aws_dns_update.py, by cron every five minutes, so that a     *)
(*            slow run overlaps the next, and aws-register.sh in the       *)
(*            highstate;                                                   *)
(*   godaddy  godaddy_dns_update.py by cron, and godaddy_ddns.py in the    *)
(*            highstate;                                                   *)
(*   bind     Salt's ddns.present in the highstate, and bind_ddns.py,      *)
(*            started by hand if at all;                                   *)
(*   tdns     environment/hostname/tdns.sls, in the highstate.             *)
(*                                                                         *)
(* The address of the host changes under them, and the minion's grain that *)
(* some of them take it from is behind; the resolver keeps what it has     *)
(* read, and the provider's servers take a change over some time after     *)
(* they accepted it.  The host has one address: its own is its public one. *)
(***************************************************************************)
EXTENDS Naturals

CONSTANTS
  Addresses,   \* the addresses the host gets
  Loopback,    \* 127.0.0.1, for a name that cannot be resolved
  Runs,        \* the runs of the scripts that may be under way at once
  InHighstate, \* one of them, in the highstate; the others by cron or by hand
  Hosters,     \* of {"aws", "godaddy", "bind", "tdns"}
  MaxChanges,  \* bound on the changes of the address
  MaxFaults    \* bound on lost or refused requests and killed runs

ASSUME DdnsAssumption ==
  /\ Loopback \notin Addresses /\ InHighstate \in Runs
  /\ Hosters \subseteq {"aws", "godaddy", "bind", "tdns"}
  /\ MaxChanges \in Nat /\ MaxFaults \in Nat

VARIABLES
  hoster,   \* pillar dns_hoster_by_domain
  addr,     \* the address of the host
  grain,    \* grains.ipv4: as the minion has read it last
  record,   \* the addresses in the record, as the provider accepted them
  served,   \* as the provider's servers answer
  cache,    \* what the host's resolver remembers; {} is nothing
  pc,       \* "off", "ask", "resolve", "write", "hung", "same" or "changed"
  mine,     \* pub_addr, args.ip, ip4_address or what is written otherwise
  changes, faults,
  clean     \* nothing came between this run and what it has read

dns  == <<record, served, cache>>
vars == <<hoster, addr, grain, record, served, cache, pc, mine,
          changes, faults, clean>>

\* The script that a run executes.
Script(r) ==
  CASE hoster = "aws" /\ r # InHighstate     -> "aws_dns_update"
    [] hoster = "aws" /\ r = InHighstate     -> "aws_register"
    [] hoster = "godaddy" /\ r # InHighstate -> "godaddy_dns_update"
    [] hoster = "godaddy" /\ r = InHighstate -> "godaddy_ddns"
    [] hoster = "bind" /\ r # InHighstate    -> "bind_ddns"
    [] hoster = "bind" /\ r = InHighstate    -> "ddns_present"
    [] hoster = "tdns" /\ r = InHighstate    -> "tdns"
    [] OTHER                                 -> "none"

\* The sls files take the address from a grain, the Python scripts look for it.
FromGrain(s) == s \in {"aws_register", "ddns_present", "tdns"}

Active(r) == pc[r] \in {"ask", "resolve", "write", "hung"}

-----------------------------------------------------------------------------
Init ==
  /\ hoster \in Hosters
  /\ addr \in Addresses /\ grain = addr
  /\ record \in {{}} \cup {{a} : a \in Addresses}
  /\ served = record /\ cache = {}
  /\ pc = [r \in Runs |-> "off"]
  /\ mine = [r \in Runs |-> Loopback]
  /\ changes = 0 /\ faults = 0
  /\ clean = [r \in Runs |-> FALSE]

Fault == faults < MaxFaults /\ faults' = faults + 1

Goto(r, l) == pc' = [pc EXCEPT ![r] = l]

\* An exception, or another exit status than 0; by cron nobody sees it.
Fail(r) == Goto(r, "off")

\* cron starts a run beside those that are not done.  A run starts clean if no
\* other is under way, the grain is not behind, and the resolver and the
\* servers have what the provider has.
Begin(r) ==
  /\ ~Active(r) /\ Script(r) # "none"
  /\ Goto(r, "ask")
  /\ mine' = [mine EXCEPT ![r] = Loopback]
  /\ clean' = [q \in Runs |-> IF q = r
                 THEN /\ \A p \in Runs : ~Active(p)
                      /\ grain = addr /\ served = record /\ cache \in {{}, record}
                 ELSE clean[q] /\ ~Active(q)]
  /\ UNCHANGED <<hoster, addr, grain, dns, changes, faults>>

\* requests.get, urlopen, the socket's own address or the grain; tdns.sls also
\* asks for a token, and bind.sls for the address of the name server.
\* godaddy_dns_update.py fails before it has the address: cron gives it an
\* option, --zoneid, that it does not know, and not the one that it requires.
\* Without a token tdns.sls cannot be rendered, or does nothing and succeeds.
\* requests.get and urlopen have no timeout.
Ask(r) ==
  /\ pc[r] = "ask"
  /\ mine' = [mine EXCEPT ![r] = IF FromGrain(Script(r)) THEN grain ELSE addr]
  /\ \/ /\ Script(r) = "godaddy_dns_update" /\ Fail(r) /\ UNCHANGED faults
     \/ /\ Script(r) \in {"aws_dns_update", "godaddy_ddns"}
        /\ Goto(r, "resolve") /\ UNCHANGED faults
     \/ /\ Script(r) \in {"aws_register", "bind_ddns", "ddns_present", "tdns"}
        /\ Goto(r, "write") /\ UNCHANGED faults
     \/ /\ Script(r) \in {"aws_dns_update", "godaddy_ddns", "ddns_present", "tdns"}
        /\ Fault
        /\ \/ Fail(r)
           \/ Script(r) = "tdns" /\ Goto(r, "same")
           \/ Script(r) \in {"aws_dns_update", "godaddy_ddns"} /\ Goto(r, "hung")
  /\ clean' = [clean EXCEPT ![r] = clean[r] /\ faults' = faults]
  /\ UNCHANGED <<hoster, addr, grain, dns, changes>>

\* The answer of the resolver, from its cache if it has one.
Answer == IF cache # {} THEN cache ELSE served

\* (Mutant: without the comparison of what the resolver says with what the
\* host has; a name that resolves is taken for a good one.)
MustWriteUnresolved(s, hostaddr, me) ==
  s = "godaddy_ddns" \/ hostaddr = Loopback
\* Is the record to be written?  godaddy_ddns.py raises an exception when the
\* address is the same and swallows it: it always writes.
MustWrite(s, hostaddr, me) == s = "godaddy_ddns" \/ hostaddr # me

\* dns.resolver.resolve or gethostbyname, and the comparison.
Resolve(r) ==
  /\ pc[r] = "resolve"
  /\ \/ /\ cache' = Answer
        /\ \E hostaddr \in IF Answer = {} THEN {Loopback} ELSE Answer :
             Goto(r, IF MustWrite(Script(r), hostaddr, mine[r]) THEN "write"
                                                               ELSE "same")
        /\ UNCHANGED faults
     \/ /\ Fault /\ UNCHANGED cache
        /\ Goto(r, IF MustWrite(Script(r), Loopback, mine[r]) THEN "write"
                                                             ELSE "same")
  /\ UNCHANGED <<hoster, addr, grain, record, served, mine, changes, clean>>

\* (Mutants: the address is added to those there; the one that stands in for
\* an unknown name is written.)
WrittenBeside(s, a) == record \cup {a}
WrittenLoopback(s, a) == {Loopback}
\* The record after UPSERT, PUT, a replacing update -- or zones/records/add.
Written(s, a) == IF s = "tdns" THEN record \cup {a} ELSE {a}

\* The request to the provider.  It may be refused; applied and the answer
\* lost; or never be answered, where the script waits without a timeout.  Every
\* handler of aws_dns_update.py names an undefined Route53: a failed update ends
\* it before it logs a success.  tdns.sls and bind_ddns.py do not look at the
\* answer.
Write(r) ==
  /\ pc[r] = "write"
  /\ \/ /\ record' = Written(Script(r), mine[r])
        /\ Goto(r, "changed") /\ UNCHANGED faults
     \/ /\ Fault
        /\ record' \in {record, Written(Script(r), mine[r])}
        /\ \/ Fail(r)
           \/ Script(r) \in {"bind_ddns", "tdns"} /\ Goto(r, "changed")
           \/ Script(r) \in {"bind_ddns", "godaddy_ddns"} /\ Goto(r, "hung")
  /\ clean' = [q \in Runs |->
       clean[q] /\ ((q = r /\ faults' = faults) \/ ~Active(q))]
  /\ UNCHANGED <<hoster, addr, grain, served, cache, mine, changes>>

\* The host, or its highstate, is stopped.
Killed(r) ==
  /\ Active(r)
  /\ \/ pc[r] = "hung" /\ UNCHANGED faults
     \/ pc[r] # "hung" /\ Fault
  /\ Fail(r)
  /\ UNCHANGED <<hoster, addr, grain, dns, mine, changes, clean>>

-----------------------------------------------------------------------------
(* The rest of the world. *)

\* The provider of the line gives the host another address.
Change ==
  /\ changes < MaxChanges
  /\ addr' \in Addresses \ {addr}
  /\ changes' = changes + 1
  /\ clean' = [r \in Runs |-> FALSE]
  /\ UNCHANGED <<hoster, grain, dns, pc, mine, faults>>

\* The minion reads its grains again: when it starts, or is told to.
Refresh ==
  /\ grain # addr
  /\ grain' = addr
  /\ UNCHANGED <<hoster, addr, dns, pc, mine, changes, faults, clean>>

\* The DNS provider brings the record to its servers.
Propagate ==
  /\ served # record
  /\ served' = record
  /\ UNCHANGED <<hoster, addr, grain, record, cache, pc, mine, changes, faults,
                 clean>>

\* The time to live of what the resolver remembers is over.
Expire ==
  /\ cache # {}
  /\ cache' = {}
  /\ UNCHANGED <<hoster, addr, grain, record, served, pc, mine, changes, faults,
                 clean>>

Step(r) == Ask(r) \/ Resolve(r) \/ Write(r)

Next == \/ \E r \in Runs : Begin(r) \/ Step(r) \/ Killed(r)
        \/ Change \/ Refresh \/ Propagate \/ Expire

Spec == Init /\ [][Next]_vars

\* Nothing starts bind_ddns.py but a person.
Scheduled(r) == Script(r) # "bind_ddns"

\* cron and the highstate come again, a run goes on, the minion reads its
\* grains again, the provider brings its records to its servers and the
\* resolver forgets.
FairSpec ==
  /\ Spec
  /\ \A r \in Runs : WF_vars(Scheduled(r) /\ Begin(r)) /\ WF_vars(Step(r))
  /\ WF_vars(Refresh) /\ WF_vars(Propagate) /\ WF_vars(Expire)

-----------------------------------------------------------------------------
(* Properties. *)

\* Every variable holds a value of its kind.
TypeOK ==
  /\ hoster \in Hosters /\ addr \in Addresses /\ grain \in Addresses
  /\ record \subseteq Addresses /\ served \subseteq Addresses
  /\ cache \subseteq Addresses
  /\ pc \in [Runs -> {"off", "ask", "resolve", "write", "hung", "same", "changed"}]
  /\ mine \in [Runs -> Addresses \cup {Loopback}]
  /\ changes \in 0..MaxChanges /\ faults \in 0..MaxFaults
  /\ clean \in [Runs -> BOOLEAN]

\* The record has the host's address; and, but for tdns.sls, no other.
Current == IF hoster = "tdns" THEN addr \in record ELSE record = {addr}

\* A run that ends well, alone, with the address as it is in the grain and with
\* a resolver that had the record as it was, leaves the record current, if the
\* address did not change meanwhile.
CleanRunRepairs ==
  \A r \in Runs : clean[r] /\ pc[r] \in {"same", "changed"} => Current

\* Once the address stays and requests are answered, the record becomes
\* current and stays so, whatever outdated address an overlapping run, or one
\* started by hand, wrote and whatever the grain and the resolver remembered --
\* unless the script in the highstate hangs.
EventuallyCurrent == <>[](pc[InHighstate] # "hung" => Current)
=============================================================================
