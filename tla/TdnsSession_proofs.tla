------------------------ MODULE TdnsSession_proofs ------------------------
(***************************************************************************)
(* Proofs about TdnsSession, for all passwords, tokens and bounds.         *)
(***************************************************************************)
EXTENDS TdnsSession, TLAPS

LEMMA TypeInit == Init => TypeOK
<1> SUFFICES ASSUME Init PROVE TypeOK
  OBVIOUS
<1>1. /\ pillarPw \in Passwords /\ serverPw \in Passwords /\ tried \in Passwords
      /\ sessions \in SUBSET Tokens /\ token \in Tokens \cup {NoToken}
  BY SessionAssumption DEF Init
<1>2. faults \in 0..MaxFaults /\ edits \in 0..MaxEdits
  BY SessionAssumption DEF Init
<1>3. QED BY <1>1, <1>2 DEF Init, TypeOK, Reply

LEMMA TypeNext == TypeOK /\ [Next]_vars => TypeOK'
<1> SUFFICES ASSUME TypeOK, [Next]_vars PROVE TypeOK'
  OBVIOUS
<1> USE SessionAssumption DEF TypeOK, Reply, server, minion, bounds, ghosts
<1>1. CASE ChangePassword BY <1>1 DEF ChangePassword, Call
<1>2. CASE OtherCall BY <1>2 DEF OtherCall, Call
<1>3. CASE LoginDown BY <1>3 DEF LoginDown, Answer
<1>4. CASE LoginAccepted BY <1>4 DEF LoginAccepted
<1>5. CASE LoginRefused BY <1>5 DEF LoginRefused, Answer
<1>6. CASE RequestServed BY <1>6 DEF RequestServed, Serve
<1>7. CASE RequestLost BY <1>7 DEF RequestLost, Serve
<1>8. CASE RequestFails BY <1>8 DEF RequestFails
<1>9. CASE Logout BY <1>9 DEF Logout
<1>10. CASE LogoutFails BY <1>10 DEF LogoutFails, Answer
<1>11. CASE SetFlag BY <1>11 DEF SetFlag
<1>12. CASE Killed
  <2>1. faults' \in 0..MaxFaults BY <1>12 DEF Killed
  <2>2. reply' \in Reply BY <1>12 DEF Killed
  <2>3. QED BY <1>12, <2>1, <2>2 DEF Killed
<1>13. CASE Crash
  <2>1. faults' \in 0..MaxFaults BY <1>13 DEF Crash
  <2>2. sessions' \in SUBSET Tokens BY <1>13 DEF Crash
  <2>3. QED BY <1>13, <2>1, <2>2 DEF Crash
<1>14. CASE Restart BY <1>14 DEF Restart
<1>15. CASE Expire BY <1>15 DEF Expire
<1>16. CASE Rotate BY <1>16 DEF Rotate
<1>17. CASE Tamper BY <1>17 DEF Tamper
<1>18. CASE UNCHANGED vars BY <1>18 DEF vars
<1>19. QED
  BY <1>1, <1>2, <1>3, <1>4, <1>5, <1>6, <1>7, <1>8, <1>9, <1>10, <1>11,
     <1>12, <1>13, <1>14, <1>15, <1>16, <1>17, <1>18 DEF Next, CallStep

\* Every variable always holds a value of its kind.
THEOREM SessionTypes == Spec => []TypeOK
BY TypeInit, TypeNext, PTL DEF Spec

-----------------------------------------------------------------------------
\* What is known of the password between the change and the grain, and of
\* the request between its answer and the logout.
PasswordInv ==
  HandsOff =>
    /\ serverPw \in {pillarPw, Factory}
    /\ flag \/ owed => serverPw = pillarPw
    /\ pc = "logout" /\ kind = "change" /\ reply = "ok" => serverPw = pillarPw

ReplyInv ==
  /\ pc \in {"login", "request"} => served = 0
  /\ pc = "logout" => reply \in {"ok", "nok"} /\ served \in {0, 1}
                      /\ (reply = "ok" => served = 1)

Inv == PasswordInv /\ ReplyInv

LEMMA InvInit == Init => Inv
BY DEF Init, Inv, PasswordInv, ReplyInv, HandsOff

LEMMA InvNext == TypeOK /\ Inv /\ [Next]_vars => Inv'
<1> SUFFICES ASSUME TypeOK, Inv, [Next]_vars PROVE Inv'
  OBVIOUS
<1> USE DEF Inv, PasswordInv, ReplyInv, HandsOff, TypeOK, Calling, server,
        minion, bounds, ghosts
<1>1. CASE ChangePassword BY <1>1 DEF ChangePassword, Call
<1>2. CASE OtherCall BY <1>2 DEF OtherCall, Call
<1>3. CASE LoginDown BY <1>3 DEF LoginDown, Answer
<1>4. CASE LoginAccepted BY <1>4 DEF LoginAccepted
<1>5. CASE LoginRefused BY <1>5 DEF LoginRefused, Answer
<1>6. CASE RequestServed BY <1>6 DEF RequestServed, Serve
<1>7. CASE RequestLost BY <1>7 DEF RequestLost, Serve
<1>8. CASE RequestFails BY <1>8 DEF RequestFails
<1>9. CASE Logout BY <1>9 DEF Logout
<1>10. CASE LogoutFails BY <1>10 DEF LogoutFails, Answer
<1>11. CASE SetFlag BY <1>11 DEF SetFlag
<1>12. CASE Killed BY <1>12 DEF Killed
<1>13. CASE Crash BY <1>13 DEF Crash
<1>14. CASE Restart BY <1>14 DEF Restart
<1>15. CASE Expire BY <1>15 DEF Expire
<1>16. CASE Rotate BY <1>16 DEF Rotate
<1>17. CASE Tamper BY <1>17 DEF Tamper
<1>18. CASE UNCHANGED vars BY <1>18 DEF vars
<1>19. QED
  BY <1>1, <1>2, <1>3, <1>4, <1>5, <1>6, <1>7, <1>8, <1>9, <1>10, <1>11,
     <1>12, <1>13, <1>14, <1>15, <1>16, <1>17, <1>18 DEF Next, CallStep

LEMMA Invariance == Spec => []Inv
<1>1. TypeOK /\ Inv /\ [Next]_vars => Inv' BY InvNext
<1>2. QED BY InvInit, <1>1, SessionTypes, PTL DEF Spec

\* The grain flag_technitium_admin_pw_set is never set too early.
THEOREM FlagHonest == Spec => []FlagIsTrue
<1>1. Inv => FlagIsTrue BY DEF Inv, PasswordInv, FlagIsTrue
<1>2. QED BY <1>1, Invariance, PTL

\* _call_api, with its two logins and its logout, is one abstract API call:
\* the server acts at most once and the reply goes with what it did.
THEOREM SessionImplementsCall == Spec => IsApiCall
<1> USE DEF Calling, Abstract!callVars
<1>1. Init => Abstract!CallInit
  BY DEF Init, Abstract!CallInit
<1>2. TypeOK /\ Inv /\ [Next]_vars => [Abstract!CallNext]_(Abstract!callVars)
  <2> SUFFICES ASSUME TypeOK, Inv, [Next]_vars
               PROVE  [Abstract!CallNext]_(Abstract!callVars)
    OBVIOUS
  <2> USE DEF Abstract!CallNext, Inv, ReplyInv, server, minion, bounds, ghosts
  <2>1. CASE ChangePassword \/ OtherCall
    BY <2>1 DEF ChangePassword, OtherCall, Call, Abstract!Begin
  <2>2. CASE LoginDown \/ LoginRefused
    BY <2>2 DEF LoginDown, LoginRefused, Answer, Abstract!Answer,
       Abstract!Outcome, Abstract!Reply, TypeOK
  <2>3. CASE LoginAccepted \/ RequestFails
    BY <2>3 DEF LoginAccepted, RequestFails
  <2>4. CASE RequestServed \/ RequestLost
    BY <2>4 DEF RequestServed, RequestLost, Serve, Abstract!Act
  <2>5. CASE Logout \/ LogoutFails
    BY <2>5 DEF Logout, LogoutFails, Answer, Abstract!Answer,
       Abstract!Outcome, Abstract!Reply, TypeOK
  <2>6. CASE Killed
    BY <2>6 DEF Killed, Abstract!Die
  <2>7. CASE SetFlag \/ Crash \/ Restart \/ Expire \/ Rotate \/ Tamper
    BY <2>7 DEF SetFlag, Crash, Restart, Expire, Rotate, Tamper
  <2>8. CASE UNCHANGED vars
    BY <2>8 DEF vars
  <2>9. QED
    BY <2>1, <2>2, <2>3, <2>4, <2>5, <2>6, <2>7, <2>8 DEF Next, CallStep
<1>3. QED
  BY <1>1, <1>2, SessionTypes, Invariance, PTL
     DEF Spec, IsApiCall, Abstract!CallSpec
=============================================================================
