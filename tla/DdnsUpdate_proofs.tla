------------------------- MODULE DdnsUpdate_proofs -------------------------
(***************************************************************************)
(* Proofs about DdnsUpdate, for every set of addresses and runs and every  *)
(* number of changes and faults.                                           *)
(***************************************************************************)
EXTENDS DdnsUpdate, TLAPS

\* A run that compares or writes has the address that the host had.
Known == \A r \in Runs : pc[r] \in {"resolve", "write"} => mine[r] \in Addresses

LEMMA TypeInit == Init => TypeOK /\ Known
<1> SUFFICES ASSUME Init PROVE TypeOK /\ Known
  OBVIOUS
<1>1. changes \in 0..MaxChanges /\ faults \in 0..MaxFaults
  BY DdnsAssumption DEF Init
<1>2. pc \in [Runs -> {"off", "ask", "resolve", "write", "hung", "same", "changed"}]
  BY DEF Init
<1>3. mine \in [Runs -> Addresses \cup {Loopback}] /\ clean \in [Runs -> BOOLEAN]
  BY DEF Init
<1>4. record \subseteq Addresses BY DEF Init
<1>5. Known BY DEF Init, Known
<1>6. QED BY <1>1, <1>2, <1>3, <1>4, <1>5 DEF Init, TypeOK

\* What a run may do to the variables, whatever its script.
LEMMA FaultType ==
  ASSUME TypeOK, Fault \/ UNCHANGED faults
  PROVE  faults' \in 0..MaxFaults
BY DdnsAssumption DEF TypeOK, Fault

LEMMA GotoType ==
  ASSUME TypeOK, NEW r \in Runs,
         NEW l \in {"off", "ask", "resolve", "write", "hung", "same", "changed"},
         Goto(r, l)
  PROVE  pc' \in [Runs -> {"off", "ask", "resolve", "write", "hung", "same", "changed"}]
BY DEF TypeOK, Goto

LEMMA TypeNext == TypeOK /\ Known /\ [Next]_vars => TypeOK'
<1> SUFFICES ASSUME TypeOK, Known, [Next]_vars PROVE TypeOK'
  OBVIOUS
<1> USE DEF TypeOK
<1>1. ASSUME NEW r \in Runs, Begin(r) PROVE TypeOK'
  <2>1. pc' \in [Runs -> {"off", "ask", "resolve", "write", "hung", "same", "changed"}]
    BY <1>1, GotoType DEF Begin
  <2>2. clean' \in [Runs -> BOOLEAN]
    <3>1. \A p \in Runs : Active(p) \in BOOLEAN BY DEF Active
    <3>2. QED BY <1>1, <3>1 DEF Begin
  <2>3. mine' \in [Runs -> Addresses \cup {Loopback}] BY <1>1 DEF Begin
  <2>4. QED BY <1>1, <2>1, <2>2, <2>3 DEF Begin, dns
<1>2. ASSUME NEW r \in Runs, Ask(r) PROVE TypeOK'
  <2>1. \E l \in {"off", "resolve", "write", "same", "hung"} : Goto(r, l)
    BY <1>2 DEF Ask, Fail
  <2>2. pc' \in [Runs -> {"off", "ask", "resolve", "write", "hung", "same", "changed"}]
    BY <2>1, GotoType
  <2>3. faults' \in 0..MaxFaults BY <1>2, FaultType DEF Ask
  <2>4. clean' \in [Runs -> BOOLEAN]
    BY <1>2 DEF Ask
  <2>5. mine' \in [Runs -> Addresses \cup {Loopback}] BY <1>2 DEF Ask
  <2>6. QED BY <1>2, <2>2, <2>3, <2>4, <2>5 DEF Ask, dns
<1>3. ASSUME NEW r \in Runs, Resolve(r) PROVE TypeOK'
  <2>1. Goto(r, "write") \/ Goto(r, "same") BY <1>3 DEF Resolve
  <2>2. pc' \in [Runs -> {"off", "ask", "resolve", "write", "hung", "same", "changed"}]
    BY <2>1, GotoType
  <2>3. faults' \in 0..MaxFaults BY <1>3, FaultType DEF Resolve
  <2>4. cache' \subseteq Addresses BY <1>3 DEF Resolve, Answer
  <2>5. QED BY <1>3, <2>2, <2>3, <2>4 DEF Resolve
<1>4. ASSUME NEW r \in Runs, Write(r) PROVE TypeOK'
  <2>1. \E l \in {"off", "hung", "changed"} : Goto(r, l)
    BY <1>4 DEF Write, Fail
  <2>2. pc' \in [Runs -> {"off", "ask", "resolve", "write", "hung", "same", "changed"}]
    BY <2>1, GotoType
  <2>3. faults' \in 0..MaxFaults BY <1>4, FaultType DEF Write
  <2>4. clean' \in [Runs -> BOOLEAN]
    <3>1. \A p \in Runs : Active(p) \in BOOLEAN BY DEF Active
    <3>2. QED BY <1>4, <3>1 DEF Write
  <2>5. record' \subseteq Addresses
    <3>1. mine[r] \in Addresses BY <1>4 DEF Write, Known
    <3>2. Written(Script(r), mine[r]) \subseteq Addresses BY <3>1 DEF Written
    <3>3. QED BY <1>4, <3>2 DEF Write
  <2>6. QED BY <1>4, <2>2, <2>3, <2>4, <2>5 DEF Write
<1>5. ASSUME NEW r \in Runs, Killed(r) PROVE TypeOK'
  <2>1. pc' \in [Runs -> {"off", "ask", "resolve", "write", "hung", "same", "changed"}]
    BY <1>5, GotoType DEF Killed, Fail
  <2>2. faults' \in 0..MaxFaults BY <1>5, FaultType DEF Killed
  <2>3. QED BY <1>5, <2>1, <2>2 DEF Killed, dns
<1>6. CASE Change
  <2>1. changes' \in 0..MaxChanges BY <1>6, DdnsAssumption DEF Change
  <2>2. clean' \in [Runs -> BOOLEAN] BY <1>6 DEF Change
  <2>3. QED BY <1>6, <2>1, <2>2 DEF Change, dns
<1>7. CASE Propagate BY <1>7 DEF Propagate
<1>8. CASE Refresh BY <1>8 DEF Refresh, dns
<1>9. CASE Expire BY <1>9 DEF Expire
<1>10. CASE UNCHANGED vars BY <1>10 DEF vars, dns
<1>11. QED
  BY <1>1, <1>2, <1>3, <1>4, <1>5, <1>6, <1>7, <1>8, <1>9, <1>10 DEF Next, Step

LEMMA KnownNext == TypeOK /\ Known /\ [Next]_vars => Known'
<1> SUFFICES ASSUME TypeOK, Known, [Next]_vars PROVE Known'
  OBVIOUS
<1> USE DEF TypeOK, Known, Goto, Fail
<1>1. ASSUME NEW r \in Runs, Begin(r) PROVE Known' BY <1>1 DEF Begin
<1>2. ASSUME NEW r \in Runs, Ask(r) PROVE Known' BY <1>2 DEF Ask
<1>3. ASSUME NEW r \in Runs, Resolve(r) PROVE Known'
  <2>1. pc[r] = "resolve" /\ mine' = mine BY <1>3 DEF Resolve
  <2>2. \A q \in Runs : q # r => pc'[q] = pc[q] BY <1>3 DEF Resolve
  <2>3. QED BY <2>1, <2>2
<1>4. ASSUME NEW r \in Runs, Write(r) PROVE Known'
  <2>1. mine' = mine /\ pc'[r] \notin {"resolve", "write"} BY <1>4 DEF Write
  <2>2. \A q \in Runs : q # r => pc'[q] = pc[q] BY <1>4 DEF Write
  <2>3. QED BY <2>1, <2>2
<1>5. ASSUME NEW r \in Runs, Killed(r) PROVE Known' BY <1>5 DEF Killed
<1>6. CASE UNCHANGED <<pc, mine>> BY <1>6
<1>7. CASE Change \/ Refresh \/ Propagate \/ Expire \/ UNCHANGED vars
  BY <1>6, <1>7 DEF Change, Refresh, Propagate, Expire, vars
<1>8. QED BY <1>1, <1>2, <1>3, <1>4, <1>5, <1>7 DEF Next, Step

\* Every variable always holds a value of its kind; no address is written but
\* one that the host had.
THEOREM DdnsTypes == Spec => []TypeOK
<1>1. TypeOK /\ Known /\ [Next]_vars => (TypeOK /\ Known)'
  BY TypeNext, KnownNext
<1>2. QED BY TypeInit, <1>1, PTL DEF Spec
-----------------------------------------------------------------------------
\* The inductive invariant.  But for tdns.sls the record has one address at
\* most; a clean run that is under way is alone, the grain is not behind, the
\* resolver and the servers have nothing else than the record, and what it compares is the address of
\* the host; after a clean run that ended well the record is current, and the
\* runs begun since know the same address.
Single == hoster # "tdns" => \A x, y \in record : x = y

Alone(r) ==
  clean[r] /\ Active(r) =>
    /\ \A p \in Runs : Active(p) => p = r
    /\ grain = addr /\ served = record /\ cache \in {{}, record}
    /\ pc[r] \in {"resolve", "write"} => mine[r] = addr

Repaired(r) ==
  clean[r] /\ pc[r] \in {"same", "changed"} =>
    /\ Current /\ grain = addr
    /\ \A p \in Runs : pc[p] \in {"resolve", "write"} => mine[p] = addr

CleanInv == Single /\ \A r \in Runs : Alone(r) /\ Repaired(r)

LEMMA CleanInit == Init => CleanInv
<1> SUFFICES ASSUME Init PROVE CleanInv
  OBVIOUS
<1>1. Single BY DEF Init, Single
<1>2. \A r \in Runs : ~clean[r] BY DEF Init
<1>3. QED BY <1>1, <1>2 DEF CleanInv, Alone, Repaired

LEMMA BeginClean ==
  ASSUME TypeOK, CleanInv, NEW r \in Runs, Begin(r)
  PROVE  CleanInv'
<1> USE DEF TypeOK, dns
<1>1. /\ ~Active(r) /\ pc' = [pc EXCEPT ![r] = "ask"]
      /\ UNCHANGED <<hoster, addr, grain, record, served, cache>>
      /\ mine' = [mine EXCEPT ![r] = Loopback]
  BY DEF Begin, Goto
<1>2. \A q \in Runs : q # r => clean'[q] = (clean[q] /\ ~Active(q))
  BY DEF Begin
<1>3. clean'[r] = /\ \A p \in Runs : ~Active(p)
                  /\ grain = addr /\ served = record /\ cache \in {{}, record}
  BY DEF Begin
<1>4. Single' BY <1>1 DEF CleanInv, Single
<1>5. ASSUME NEW q \in Runs PROVE Alone(q)' /\ Repaired(q)'
  <2>1. CASE q = r
    <3>1. pc'[r] = "ask" BY <1>1
    <3>2. \A p \in Runs : p # r => Active(p)' = Active(p) BY <1>1 DEF Active
    <3>3. Alone(r)' BY <1>1, <1>3, <3>1, <3>2 DEF Alone
    <3>4. QED BY <2>1, <3>1, <3>3 DEF Repaired
  <2>2. CASE q # r
    <3>1. pc'[q] = pc[q] BY <1>1, <2>2
    <3>2. Alone(q)' BY <1>2, <2>2, <3>1 DEF Alone, Active
    <3>3. Repaired(q)'
      <4>1. SUFFICES ASSUME clean[q], pc[q] \in {"same", "changed"}
                     PROVE  /\ Current' /\ grain' = addr'
                            /\ \A p \in Runs : pc'[p] \in {"resolve", "write"}
                                               => mine'[p] = addr'
        BY <1>2, <2>2, <3>1 DEF Repaired
      <4>2. Repaired(q) BY DEF CleanInv
      <4>3. Current' BY <1>1, <4>1, <4>2 DEF Repaired, Current
      <4>4. QED BY <1>1, <4>1, <4>2, <4>3 DEF Repaired
    <3>4. QED BY <3>2, <3>3
  <2>3. QED BY <2>1, <2>2
<1>6. QED BY <1>4, <1>5 DEF CleanInv

LEMMA AskClean ==
  ASSUME TypeOK, CleanInv, NEW r \in Runs, Ask(r)
  PROVE  CleanInv'
<1> USE DEF TypeOK, dns
<1>1. /\ pc[r] = "ask" /\ mine' \in {[mine EXCEPT ![r] = addr], [mine EXCEPT ![r] = grain]}
      /\ UNCHANGED <<hoster, addr, grain, record, served, cache>>
      /\ clean' = [clean EXCEPT ![r] = clean[r] /\ faults' = faults]
  BY DEF Ask
<1>2. PICK l \in {"off", "resolve", "write", "same", "hung"} :
        /\ pc' = [pc EXCEPT ![r] = l]
        /\ l \in {"same", "hung"} => faults' # faults
  BY DEF Ask, Fail, Goto, Fault
<1>3. Single' BY <1>1 DEF CleanInv, Single
<1>4. \A q \in Runs : (clean'[q] => clean[q]) /\ (Active(q)' => Active(q))
  BY <1>1, <1>2 DEF Active
<1>5. ASSUME NEW q \in Runs PROVE Alone(q)' /\ Repaired(q)'
  <2>1. Alone(q)'
    <3>1. Alone(q) BY DEF CleanInv
    <3>2. QED BY <1>1, <1>2, <1>4, <3>1 DEF Alone, Active
  <2>2. Repaired(q)'
    <3>1. CASE q = r
      <4>1. clean'[r] => pc'[r] \notin {"same", "changed"} BY <1>1, <1>2
      <4>2. QED BY <3>1, <4>1 DEF Repaired
    <3>2. CASE q # r
      <4>1. pc'[q] = pc[q] /\ clean'[q] = clean[q] BY <1>1, <1>2, <3>2
      <4>2. Repaired(q) BY DEF CleanInv
      <4>3. Current' = Current BY <1>1 DEF Current
      <4>4. QED BY <1>1, <1>2, <4>1, <4>2, <4>3 DEF Repaired
    <3>3. QED BY <3>1, <3>2
  <2>3. QED BY <2>1, <2>2
<1>6. QED BY <1>3, <1>5 DEF CleanInv
LEMMA ResolveClean ==
  ASSUME TypeOK, Known, CleanInv, NEW r \in Runs, Resolve(r)
  PROVE  CleanInv'
<1> USE DEF TypeOK
<1>1. /\ pc[r] = "resolve"
      /\ UNCHANGED <<hoster, addr, grain, record, served, mine, changes, clean>>
  BY DEF Resolve
<1>2. PICK l \in {"write", "same"} : pc' = [pc EXCEPT ![r] = l]
  BY DEF Resolve, Goto
<1>3. cache' \in {cache, served}
  BY DEF Resolve, Answer
<1>4. mine[r] # Loopback BY <1>1, DdnsAssumption DEF Known
\* The comparison finds the address only in what the resolver answers.
<1>5. l = "same" => Script(r) # "godaddy_ddns" /\ mine[r] \in Answer
  <2>1. ASSUME NEW h, Goto(r, IF MustWrite(Script(r), h, mine[r]) THEN "write" ELSE "same"),
               l = "same"
        PROVE  Script(r) # "godaddy_ddns" /\ h = mine[r]
    <3>1. pc'[r] = "same" BY <1>2, <2>1
    <3>2. pc'[r] = IF MustWrite(Script(r), h, mine[r]) THEN "write" ELSE "same"
      BY <2>1 DEF Goto
    <3>3. QED BY <3>1, <3>2 DEF MustWrite
  <2>2. QED BY <1>4, <2>1 DEF Resolve
<1>6. Single' BY <1>1 DEF CleanInv, Single
<1>7. ASSUME NEW q \in Runs PROVE Alone(q)' /\ Repaired(q)'
  <2>1. Alone(q)' /\ (q = r \/ Repaired(q)')
    <3>1. Alone(q) /\ Repaired(q) BY DEF CleanInv
    <3>2. \A p \in Runs : Active(p)' => Active(p) BY <1>1, <1>2 DEF Active
    <3>3. q # r => pc'[q] = pc[q] BY <1>2
    <3>4. Alone(q)'
      <4>1. SUFFICES ASSUME clean[q], Active(q)'
                     PROVE  /\ \A p \in Runs : Active(p)' => p = q
                            /\ grain = addr
                            /\ served = record /\ cache' \in {{}, record}
                            /\ pc'[q] \in {"resolve", "write"} => mine[q] = addr
        BY <1>1 DEF Alone
      <4>2. Active(q) BY <3>2, <4>1
      <4>3. /\ \A p \in Runs : Active(p) => p = q
            /\ grain = addr
            /\ served = record /\ cache \in {{}, record}
            /\ pc[q] \in {"resolve", "write"} => mine[q] = addr
        BY <3>1, <4>1, <4>2 DEF Alone
      <4>4. q = r BY <1>1, <4>3 DEF Active
      <4>5. QED BY <1>1, <1>3, <3>2, <4>3, <4>4
    <3>5. Current' = Current BY <1>1 DEF Current
    <3>6. q # r => Repaired(q)' BY <1>1, <1>2, <3>1, <3>3, <3>5 DEF Repaired
    <3>7. QED BY <3>4, <3>6
  <2>2. Repaired(r)'
    <3>1. SUFFICES ASSUME clean[r], l = "same"
                   PROVE  /\ Current' /\ grain' = addr'
                          /\ \A p \in Runs : pc'[p] \in {"resolve", "write"}
                                             => mine'[p] = addr'
      BY <1>1, <1>2 DEF Repaired
    <3>2. /\ \A p \in Runs : Active(p) => p = r
          /\ served = record /\ cache \in {{}, record}
          /\ mine[r] = addr /\ grain = addr
      BY <1>1, <3>1 DEF CleanInv, Alone, Active
    <3>3. addr \in record BY <1>5, <3>1, <3>2 DEF Answer
    <3>4. Current' BY <1>1, <3>3 DEF Current, CleanInv, Single
    <3>5. \A p \in Runs : p # r => pc'[p] \notin {"resolve", "write"}
      BY <1>2, <3>2 DEF Active
    <3>6. QED BY <1>1, <3>2, <3>4, <3>5
  <2>3. QED BY <2>1, <2>2
<1>8. QED BY <1>6, <1>7 DEF CleanInv

LEMMA WriteClean ==
  ASSUME TypeOK, CleanInv, NEW r \in Runs, Write(r)
  PROVE  CleanInv'
<1> USE DEF TypeOK
<1>1. /\ pc[r] = "write"
      /\ UNCHANGED <<hoster, addr, grain, served, cache, mine, changes>>
      /\ record' \in {record, Written(Script(r), mine[r])}
      /\ faults' = faults => record' = Written(Script(r), mine[r])
  BY DEF Write, Fault
<1>2. PICK l \in {"off", "hung", "changed"} :
        /\ pc' = [pc EXCEPT ![r] = l]
        /\ faults' = faults => l = "changed"
  BY DEF Write, Fail, Goto, Fault
<1>3. /\ clean'[r] => clean[r] /\ faults' = faults
      /\ \A q \in Runs : q # r => clean'[q] = (clean[q] /\ ~Active(q))
  <2>1. Active(r) BY <1>1 DEF Active
  <2>2. QED BY <2>1 DEF Write
<1>4. Single'
  <2>1. hoster # "tdns" => Script(r) # "tdns" BY DEF Script
  <2>2. hoster # "tdns" => record' \in {record, {mine[r]}}
    BY <1>1, <2>1 DEF Written
  <2>3. QED BY <1>1, <2>2 DEF CleanInv, Single
\* What knows the address writes it, beside others only in the TDNS.
<1>5. mine[r] = addr =>
        /\ Current => Current'
        /\ faults' = faults => Current'
  <2>1. hoster # "tdns" => Script(r) # "tdns" BY DEF Script
  <2>2. mine[r] \in Written(Script(r), mine[r]) BY DEF Written
  <2>3. hoster # "tdns" => Written(Script(r), mine[r]) = {mine[r]}
    BY <2>1 DEF Written
  <2>4. record \subseteq Written(Script(r), mine[r])
        \/ Written(Script(r), mine[r]) = {mine[r]}
    BY DEF Written
  <2>5. QED BY <1>1, <2>2, <2>3, <2>4 DEF Current
<1>6. ASSUME NEW q \in Runs PROVE Alone(q)' /\ Repaired(q)'
  <2>1. Alone(q) /\ Repaired(q) BY DEF CleanInv
  <2>2. CASE q = r
    <3>1. clean'[r] => pc'[r] = "changed" BY <1>2, <1>3
    <3>2. ASSUME clean'[r]
          PROVE  /\ Current' /\ grain = addr
                 /\ \A p \in Runs : pc'[p] \notin {"resolve", "write"}
      <4>1. /\ \A p \in Runs : Active(p) => p = r
            /\ mine[r] = addr /\ grain = addr
        BY <1>1, <1>3, <2>1, <2>2, <3>2 DEF Alone, Active
      <4>2. Current' BY <1>3, <1>5, <3>2, <4>1
      <4>3. \A p \in Runs : p # r => pc'[p] \notin {"resolve", "write"}
        BY <1>2, <4>1 DEF Active
      <4>4. QED BY <3>1, <3>2, <4>1, <4>2, <4>3
    <3>3. Alone(r)' BY <3>1 DEF Alone, Active
    <3>4. Repaired(r)' BY <1>1, <3>2 DEF Repaired
    <3>5. QED BY <2>2, <3>3, <3>4
  <2>3. CASE q # r
    <3>1. clean'[q] => clean[q] /\ ~Active(q) BY <1>3, <2>3
    <3>2. pc'[q] = pc[q] BY <1>2, <2>3
    <3>3. Alone(q)' BY <3>1, <3>2 DEF Alone, Active
    <3>4. Repaired(q)'
      <4>1. SUFFICES ASSUME clean'[q], pc[q] \in {"same", "changed"}
                     PROVE  /\ Current' /\ grain' = addr'
                            /\ \A p \in Runs : pc'[p] \in {"resolve", "write"}
                                               => mine'[p] = addr'
        BY <3>2 DEF Repaired
      <4>2. /\ Current /\ grain = addr
            /\ \A p \in Runs : pc[p] \in {"resolve", "write"} => mine[p] = addr
        BY <2>1, <3>1, <4>1 DEF Repaired
      <4>3. Current' BY <1>1, <1>5, <4>2
      <4>4. QED BY <1>1, <1>2, <4>2, <4>3
    <3>5. QED BY <3>3, <3>4
  <2>4. QED BY <2>2, <2>3
<1>7. QED BY <1>4, <1>6 DEF CleanInv

LEMMA KilledClean ==
  ASSUME TypeOK, CleanInv, NEW r \in Runs, Killed(r)
  PROVE  CleanInv'
<1> USE DEF TypeOK, dns
<1>1. /\ pc' = [pc EXCEPT ![r] = "off"]
      /\ UNCHANGED <<hoster, addr, grain, record, served, cache, mine, clean>>
  BY DEF Killed, Fail, Goto
<1>2. Single' BY <1>1 DEF CleanInv, Single
<1>3. \A q \in Runs : Active(q)' => Active(q) BY <1>1 DEF Active
<1>4. \A q \in Runs : pc'[q] \in {pc[q], "off"} BY <1>1
<1>5. Current' = Current BY <1>1 DEF Current
<1>6. ASSUME NEW q \in Runs PROVE Alone(q)' /\ Repaired(q)'
  <2>1. Alone(q) /\ Repaired(q) BY DEF CleanInv
  <2>2. Alone(q)' BY <1>1, <1>3, <1>4, <2>1 DEF Alone
  <2>3. Repaired(q)' BY <1>1, <1>4, <1>5, <2>1 DEF Repaired
  <2>4. QED BY <2>2, <2>3
<1>7. QED BY <1>2, <1>6 DEF CleanInv

LEMMA WorldClean ==
  ASSUME TypeOK, CleanInv, Change \/ Refresh \/ Propagate \/ Expire \/ UNCHANGED vars
  PROVE  CleanInv'
<1> USE DEF TypeOK, dns, CleanInv, Single, Alone, Repaired, Active, Current
<1>1. CASE Change
  <2>1. \A r \in Runs : ~clean'[r] BY <1>1 DEF Change
  <2>2. Single' BY <1>1 DEF Change
  <2>3. QED BY <2>1, <2>2
<1>2. CASE Propagate BY <1>2 DEF Propagate
<1>3. CASE Refresh BY <1>3 DEF Refresh
<1>4. CASE Expire BY <1>4 DEF Expire
<1>5. CASE UNCHANGED vars BY <1>5 DEF vars
<1>6. QED BY <1>1, <1>2, <1>3, <1>4, <1>5

\* A run that ends well, alone, with the address as it is in the grain and with
\* a resolver that had the record as it was, leaves the record current if the address did not change meanwhile; and
\* what begins afterwards keeps it so.
THEOREM CleanRepairs == Spec => []CleanRunRepairs
<1>1. TypeOK /\ Known /\ CleanInv /\ [Next]_vars => CleanInv'
  BY BeginClean, AskClean, ResolveClean, WriteClean, KilledClean, WorldClean
  DEF Next, Step
<1>2. Spec => [](TypeOK /\ Known /\ CleanInv)
  <2>1. Init => TypeOK /\ Known /\ CleanInv BY TypeInit, CleanInit
  <2>2. (TypeOK /\ Known /\ CleanInv) /\ [Next]_vars
        => (TypeOK /\ Known /\ CleanInv)'
    BY <1>1, TypeNext, KnownNext
  <2>3. QED BY <2>1, <2>2, PTL DEF Spec
<1>3. CleanInv => CleanRunRepairs BY DEF CleanInv, CleanRunRepairs, Repaired
<1>4. QED BY <1>2, <1>3, PTL
=============================================================================
