---------------------------- MODULE TdnsSession ----------------------------
(***************************************************************************)
(* One minion's API calls in detail: _call_api, with its login, its retry  *)
(* with the factory password, its request and its logout, against a server *)
(* that may be down; and the one call that changes what the next login     *)
(* needs, change_admin_password, which apps/tdns/config.sls makes as long  *)
(* as the grain flag_technitium_admin_pw_set is unset.                     *)
(*                                                                         *)
(* The hazard: the password lives in three places (server, pillar, grain)  *)
(* and is changed by a call that itself has to log in.                     *)
(***************************************************************************)
EXTENDS TdnsApi, FiniteSets

CONSTANTS
  Passwords,   \* passwords
  Factory,     \* 'admin'
  Tokens,      \* session tokens; their number bounds the open sessions
  NoToken,
  MaxFaults,   \* bound on crashes, lost replies and killed jobs
  MaxEdits     \* bound on pillar and console password changes

ASSUME SessionAssumption ==
  /\ Factory \in Passwords
  /\ NoToken \notin Tokens
  /\ MaxFaults \in Nat /\ MaxEdits \in Nat

VARIABLES
  up,          \* the service answers
  serverPw,    \* the admin password at the server
  sessions,    \* the sessions open at the server
  pillarPw,    \* pillar tdns:admin_pw, or 'admin'
  flag,        \* grain flag_technitium_admin_pw_set
  owed,        \* the change succeeded and the grains.present is still to run
  pc,          \* "idle", "login", "request", "logout" or "done"
  kind,        \* "change" for change_admin_password, "other" for the rest
  tried,       \* the password _login is trying
  token,       \* the token _login returned
  served,      \* how often the server acted on the request
  reply,       \* the outcome the caller sees
  faults, edits,
  \* What an observer knows:
  tampered,    \* the password was changed by hand at the server
  rotated      \* the pillar changed after the password had been set from it

server == <<up, serverPw, sessions>>
minion == <<pillarPw, flag, owed>>
bounds == <<faults, edits>>
ghosts == <<tampered, rotated>>
vars   == <<up, serverPw, sessions, pillarPw, flag, owed, pc, kind, tried,
            token, served, reply, faults, edits, tampered, rotated>>

Calling == pc \in {"login", "request", "logout"}

Init ==
  /\ up = TRUE /\ serverPw = Factory /\ sessions = {}
  /\ pillarPw \in Passwords /\ flag = FALSE /\ owed = FALSE
  /\ pc = "idle" /\ kind = "other" /\ tried = Factory /\ token = NoToken
  /\ served = 0 /\ reply = "nok"
  /\ faults = 0 /\ edits = 0
  /\ tampered = FALSE /\ rotated = FALSE

-----------------------------------------------------------------------------
(* The calls. *)

\* (Mutant: pillar.get without its default.)
CallNoDefault(k) ==
  /\ ~Calling
  /\ pc' = "login" /\ kind' = k
  /\ tried' = IF pillarPw = Factory THEN NoToken ELSE pillarPw
  /\ token' = NoToken /\ served' = 0
  /\ UNCHANGED <<server, minion, reply, bounds, ghosts>>
\* _call_api starts by logging in with the pillar's password.
Call(k) ==
  /\ ~Calling
  /\ pc' = "login" /\ kind' = k
  /\ tried' = pillarPw /\ token' = NoToken /\ served' = 0
  /\ UNCHANGED <<server, minion, reply, bounds, ghosts>>

\* config.sls renders the change while the grain is unset.
ChangePassword == ~flag /\ ~owed /\ Call("change")
OtherCall      == Call("other")

Answer(r) == pc' = "done" /\ reply' = r

\* A login nobody answers escapes as a pycurl error.
LoginDown ==
  /\ pc = "login" /\ ~up
  /\ Answer("raise")
  /\ UNCHANGED <<server, minion, kind, tried, token, served, bounds, ghosts>>

LoginAccepted ==
  /\ pc = "login" /\ up /\ tried = serverPw
  /\ \E t \in Tokens \ sessions :
       token' = t /\ sessions' = sessions \cup {t}
  /\ pc' = "request"
  /\ UNCHANGED <<up, serverPw, minion, kind, tried, served, reply, bounds, ghosts>>

\* (Mutant: no second try.)
LoginRefusedOnce ==
  /\ pc = "login" /\ up /\ tried # serverPw
  /\ Answer("raise")
  /\ UNCHANGED <<server, minion, kind, tried, token, served, bounds, ghosts>>
\* A refused password is tried again as 'admin', once.
LoginRefused ==
  /\ pc = "login" /\ up /\ tried # serverPw
  /\ IF tried # Factory
       THEN tried' = Factory /\ UNCHANGED <<pc, reply>>
       ELSE Answer("raise") /\ UNCHANGED tried
  /\ UNCHANGED <<server, minion, kind, token, served, bounds, ghosts>>

\* What the server does with a request: the password change, or something
\* this module does not look at.
Serve == /\ served' = served + 1
         /\ serverPw' = IF kind = "change" THEN pillarPw ELSE serverPw

\* The request is served and its answer read.
RequestServed ==
  /\ pc = "request" /\ up /\ token \in sessions
  /\ Serve
  /\ pc' = "logout" /\ reply' = "ok"
  /\ UNCHANGED <<up, sessions, minion, kind, tried, token, bounds, ghosts>>

\* (Mutant: a lost answer makes the call start over.)
RequestRetried ==
  /\ pc = "request" /\ up /\ token \in sessions /\ faults < MaxFaults
  /\ Serve
  /\ pc' = "login" /\ faults' = faults + 1
  /\ UNCHANGED <<up, sessions, minion, kind, tried, token, reply, edits, ghosts>>
\* The request is served and its answer lost: status nok.
RequestLost ==
  /\ pc = "request" /\ up /\ token \in sessions /\ faults < MaxFaults
  /\ Serve
  /\ pc' = "logout" /\ reply' = "nok" /\ faults' = faults + 1
  /\ UNCHANGED <<up, sessions, minion, kind, tried, token, edits, ghosts>>

\* The server is down, has forgotten the session, or refuses: status nok.
RequestFails ==
  /\ pc = "request"
  /\ \/ (~up \/ token \notin sessions) /\ UNCHANGED faults
     \/ up /\ token \in sessions
        /\ faults < MaxFaults /\ faults' = faults + 1
  /\ pc' = "logout" /\ reply' = "nok"
  /\ UNCHANGED <<server, minion, kind, tried, token, served, edits, ghosts>>

\* The sessions a logout closes.  The URL is a plain string, not an f-string:
\* it names the session `{token}', which is nobody's.
LoggedOut == {}

\* _logout: the reply of the request stands.
Logout ==
  /\ pc = "logout" /\ up
  /\ sessions' = sessions \ LoggedOut
  /\ pc' = "done"
  /\ owed' = (owed \/ (kind = "change" /\ reply = "ok"))
  /\ UNCHANGED <<up, serverPw, pillarPw, flag, kind, tried, token, served,
                 reply, bounds, ghosts>>

\* _logout meets a dead server or a lost answer: an exception, whatever the
\* request had done.
LogoutFails ==
  /\ pc = "logout"
  /\ \/ ~up /\ UNCHANGED faults
     \/ up /\ faults < MaxFaults /\ faults' = faults + 1
  /\ Answer("raise")
  /\ UNCHANGED <<server, minion, kind, tried, token, served, edits, ghosts>>

\* (Mutant: the require is missing.)
SetFlagAnyway ==
  /\ ~Calling /\ kind = "change" /\ pc = "done" /\ ~flag
  /\ flag' = TRUE /\ owed' = FALSE
  /\ UNCHANGED <<server, pillarPw, pc, kind, tried, token, served, reply,
                 bounds, ghosts>>
\* flag_technitium_admin_pw_set, which requires the change to have succeeded.
\* A failed change_admin_password raises (it names an undefined token).
SetFlag ==
  /\ ~Calling /\ owed
  /\ flag' = TRUE /\ owed' = FALSE
  /\ UNCHANGED <<server, pillarPw, pc, kind, tried, token, served, reply,
                 bounds, ghosts>>

-----------------------------------------------------------------------------
(* The rest of the world. *)

\* The minion dies, with the job and whatever of it was still to run.
Killed ==
  /\ Calling \/ owed
  /\ faults < MaxFaults /\ faults' = faults + 1
  /\ pc' = "idle" /\ owed' = FALSE
  /\ reply' = IF Calling THEN "nok" ELSE reply
  /\ UNCHANGED <<server, pillarPw, flag, kind, tried, token, served,
                 edits, ghosts>>

\* The server dies; it may or may not remember its sessions.
Crash ==
  /\ up /\ faults < MaxFaults /\ faults' = faults + 1
  /\ up' = FALSE /\ sessions' \in {{}, sessions}
  /\ UNCHANGED <<serverPw, minion, pc, kind, tried, token, served, reply,
                 edits, ghosts>>

Restart ==
  /\ ~up /\ up' = TRUE
  /\ UNCHANGED <<serverPw, sessions, minion, pc, kind, tried, token, served,
                 reply, bounds, ghosts>>

\* The server drops a session that has been idle for long.
Expire ==
  /\ \E t \in sessions :
       /\ Calling => t # token
       /\ sessions' = sessions \ {t}
  /\ UNCHANGED <<up, serverPw, minion, pc, kind, tried, token, served, reply,
                 bounds, ghosts>>

\* Somebody writes a new password in the pillar, between two jobs.
Rotate ==
  /\ ~Calling /\ ~owed /\ edits < MaxEdits /\ edits' = edits + 1
  /\ pillarPw' \in Passwords \ {pillarPw}
  /\ rotated' = (rotated \/ flag \/ serverPw # Factory)
  /\ UNCHANGED <<server, flag, owed, pc, kind, tried, token, served, reply,
                 faults, tampered>>

\* Somebody changes the password at the server's console.
Tamper ==
  /\ up /\ edits < MaxEdits /\ edits' = edits + 1
  /\ serverPw' \in Passwords \ {serverPw}
  /\ tampered' = TRUE
  /\ UNCHANGED <<up, sessions, minion, pc, kind, tried, token, served, reply,
                 faults, rotated>>

CallStep == LoginDown \/ LoginAccepted \/ LoginRefused \/ RequestServed
              \/ RequestLost \/ RequestFails \/ Logout \/ LogoutFails

Next == ChangePassword \/ OtherCall \/ CallStep \/ SetFlag
          \/ Killed \/ Crash \/ Restart \/ Expire \/ Rotate \/ Tamper

Spec == Init /\ [][Next]_vars

\* Every highstate asks for the change and then for the flag, Python and the
\* service manager go on, and idle sessions end.  Other calls and jobs come
\* in between, hence the strong fairness of the two states.
FairSpec == /\ Spec
            /\ SF_vars(ChangePassword) /\ SF_vars(SetFlag)
            /\ WF_vars(CallStep) /\ WF_vars(Restart) /\ WF_vars(Expire)

-----------------------------------------------------------------------------
(* Properties. *)

\* Every variable holds a value of its kind.
TypeOK ==
  /\ up \in BOOLEAN /\ serverPw \in Passwords /\ sessions \in SUBSET Tokens
  /\ pillarPw \in Passwords /\ flag \in BOOLEAN /\ owed \in BOOLEAN
  /\ pc \in {"idle", "login", "request", "logout", "done"}
  /\ kind \in {"change", "other"} /\ tried \in Passwords
  /\ token \in Tokens \cup {NoToken}
  /\ served \in Nat /\ reply \in Reply
  /\ faults \in 0..MaxFaults /\ edits \in 0..MaxEdits
  /\ tampered \in BOOLEAN /\ rotated \in BOOLEAN

\* Nobody changed the password behind the states' back.
HandsOff == ~tampered /\ ~rotated

\* The grain is only ever set when the server has the pillar's password,
\* whatever call failed, at whatever step: a grain set too early would keep
\* every later highstate from setting the password.
FlagIsTrue == HandsOff /\ flag => serverPw = pillarPw

\* Once the faults stop, the server gets the pillar's password and the grain
\* is set, although the login of the change itself needs the right password.
PasswordSettles ==
  <>[](HandsOff => flag /\ serverPw = pillarPw)

\* What the comment over _call_api says: it `handles login, request, logout'.
\* A call that went well leaves no session behind.
CallLogsOut == pc = "done" /\ reply = "ok" => token \notin sessions

\* To the functions above it, a call is an abstract call.
Abstract == INSTANCE ApiCall WITH calling <- Calling,
              reply <- IF Calling THEN "nok" ELSE reply
IsApiCall == Abstract!CallSpec
=============================================================================
