---------------------------- MODULE OneShotFlags ----------------------------
(***************************************************************************)
(* What is done once on a host and remembered in a grain: new host keys    *)
(* (environment/sshd.sls), the built-in users of Elasticsearch (auth.sls), *)
(* the access control of MongoDB (accesscontrol.sls) and the certificate   *)
(* (certbot/godaddy.sls).  A highstate renders the states while the grain  *)
(* is unset and runs them in their order, each only if those it requires   *)
(* succeeded; it may die between any two, and the next begins anew.        *)
(*                                                                         *)
(* What HostInit, the other module about one host, has a name for as well  *)
(* is called Once... here, so that one module can prove about both.        *)
(***************************************************************************)
EXTENDS Naturals, Sequences

CONSTANTS Setups,     \* of those below; "elasticsearch7" is of a version before 8
          MaxSlips    \* bound on failed commands and killed highstates

ASSUME SetupAssumption ==
  /\ Setups \subseteq {"sshd", "elasticsearch", "elasticsearch7", "mongodb",
                      "certbot"}
  /\ MaxSlips \in Nat

VARIABLES
  setup,      \* the setup this host is given
  flag,       \* its grain
  todo,       \* the states that the highstate has still to run
  succeeded,  \* the states of this highstate that succeeded
  done,       \* the states whose effect the host shows
  silent,     \* a command had no effect and ended with exit status 0 all the same
  slips

onceVars == <<setup, flag, todo, succeeded, done, silent, slips>>

\* The states of each setup in the order in which they run; what only tidies
\* the new host keys is left out.  For MongoDB, configure.sls writes
\* mongod.conf before accesscontrol.sls, and the formula's service.restart
\* comes after it.
OnceStates(s) ==
  CASE s = "sshd"          -> <<"remove", "generate", "restart", "flag">>
    [] s = "mongodb"       -> <<"configure", "admin", "authorize", "flag", "restart">>
    [] s = "certbot"       -> <<"certonly", "flag">>
    [] s \in {"elasticsearch", "elasticsearch7"} -> <<"reset", "disable", "flag">>

AllOnceStates == {"remove", "generate", "restart", "reset", "disable",
                  "configure", "admin", "authorize", "certonly", "flag"}

\* (Mutant: the flag requires nothing.)
RequiresLess(s, state) ==
  CASE state = "restart" /\ s = "sshd" -> {"generate"}
    [] state = "authorize"             -> {"admin"}
    [] OTHER                           -> {}
\* The require and watch of a state.
Requires(s, state) ==
  CASE state = "restart" /\ s = "sshd"       -> {"generate"}
    [] state = "authorize"                   -> {"admin"}
    [] state = "flag" /\ s = "sshd"          -> {"generate"}
    [] state = "flag" /\ s = "mongodb"       -> {"authorize"}
    [] state = "flag" /\ s = "certbot"       -> {"certonly"}
    [] state = "flag" /\ s \in {"elasticsearch", "elasticsearch7"}
                                             -> {"reset", "disable"}
    [] OTHER                                 -> {}

\* What the host shows after the effect of a state.  Without host keys there are
\* no new ones, and sshd does not use those of its last start; mongod.conf is
\* rendered with the access control or without it, as the grain says, and
\* MongoDB starts with what is there.
OnceAfter(state) ==
  CASE state = "remove"    -> (done \ {"generate", "restart"}) \cup {state}
    [] state = "generate"  -> (done \ {"restart"}) \cup {state}
    [] state = "configure" -> IF flag THEN done \cup {"authorize"}
                                      ELSE done \ {"authorize"}
    [] state = "restart" /\ setup = "mongodb" /\ "authorize" \notin done
                           -> done \ {state}
    [] OTHER               -> done \cup {state}

\* What worked once cannot be repeated: MongoDB makes no user of the same name
\* (and lets nobody in without a password, once there is a user and the access
\* control is in force), and elasticsearch-setup-passwords of Elasticsearch 7
\* logs in with the passwords that it has changed.
Refuses(state) ==
  state \in done /\ (state = "admin" \/ (state = "reset" /\ setup = "elasticsearch7"))

\* ssh-keygen -A makes only keys that are missing: while the old ones stand, it
\* does nothing and succeeds, and with it the grain.
Vain(state) == state = "generate" /\ "remove" \notin done

\* curl -s and mongosh --quiet end with exit status 0 although the server
\* refused what they asked (mongosh perhaps not).
Quiet == {"disable", "admin"}

-----------------------------------------------------------------------------
OnceInit ==
  /\ setup \in Setups
  /\ flag = FALSE
  /\ todo = <<>> /\ succeeded = {} /\ done = {}
  /\ silent = FALSE /\ slips = 0

\* (Mutant: no setup looks at its grain.)
RenderedAlways(s) == TRUE
\* The guard of the SLS file.  The one of MongoDB looks for its grain among
\* the pillar data, where it never is.
Rendered(s) == s = "mongodb" \/ ~flag

BeginHighstate ==
  /\ todo = <<>> /\ Rendered(setup)
  /\ todo' = OnceStates(setup) /\ succeeded' = {}
  /\ UNCHANGED <<setup, flag, done, silent, slips>>

Now == Head(todo)
Met == todo # <<>> /\ Requires(setup, Now) \subseteq succeeded

\* A state one of whose requisites failed is not run, and fails.
Unmet == /\ todo # <<>> /\ ~Met
         /\ todo' = Tail(todo)
         /\ UNCHANGED <<setup, flag, succeeded, done, silent, slips>>

\* A state has its effect or not, and says so or not.
RunNow ==
  /\ \E effect, ok \in BOOLEAN :
       /\ \/ /\ effect /\ ok /\ ~Refuses(Now) /\ ~Vain(Now)
             /\ UNCHANGED <<slips, silent>>
          \/ /\ ~effect /\ Refuses(Now) /\ (ok => Now \in Quiet)
             /\ UNCHANGED <<slips, silent>>
          \/ /\ ~effect /\ ok /\ Vain(Now)
             /\ silent' = TRUE /\ UNCHANGED slips
          \/ /\ ~(effect /\ ok) /\ ~Refuses(Now) /\ ~(effect /\ Vain(Now))
             /\ ok => Now \in Quiet
             /\ slips < MaxSlips /\ slips' = slips + 1
             /\ silent' = (silent \/ ok)
       /\ done' = IF effect THEN OnceAfter(Now) ELSE done
       /\ succeeded' = IF ok THEN succeeded \cup {Now} ELSE succeeded
  /\ todo' = Tail(todo)
  /\ UNCHANGED <<setup, flag>>

\* (Mutant: the flag is a command among the others, and no grain.)
CommandAny == Met /\ RunNow
\* cmd.run, cmd.script, file.managed, file.replace and module.run.
Command == Met /\ Now # "flag" /\ RunNow

\* grains.present.
SetFlag == /\ Met /\ Now = "flag"
           /\ flag' = TRUE
           /\ todo' = Tail(todo) /\ succeeded' = succeeded \cup {Now}
           /\ UNCHANGED <<setup, done, silent, slips>>

\* The highstate dies: some of its own states restart the minion.
HighstateDies ==
  /\ todo # <<>> /\ slips < MaxSlips
  /\ todo' = <<>> /\ slips' = slips + 1
  /\ UNCHANGED <<setup, flag, succeeded, done, silent>>

OnceNext == BeginHighstate \/ Unmet \/ Command \/ SetFlag \/ HighstateDies

OnceSpec == OnceInit /\ [][OnceNext]_onceVars

\* Highstates are applied again and again and go on.
OnceFairSpec ==
  OnceSpec /\ WF_onceVars(BeginHighstate) /\ WF_onceVars(Unmet \/ Command \/ SetFlag)

-----------------------------------------------------------------------------
(* Properties. *)

\* Every variable holds a value of its kind.
OnceTypeOK ==
  /\ setup \in Setups /\ flag \in BOOLEAN /\ silent \in BOOLEAN
  /\ \E n \in 0..Len(OnceStates(setup)) :
       todo = SubSeq(OnceStates(setup), n + 1, Len(OnceStates(setup)))
  /\ succeeded \subseteq AllOnceStates
  /\ done \subseteq AllOnceStates \ {"flag", "configure"}
  /\ slips \in 0..MaxSlips

\* What the flag of each setup stands for.
Purpose == CASE setup = "sshd"    -> {"generate"}
             [] setup = "mongodb" -> {"admin", "authorize"}
             [] setup = "certbot" -> {"certonly"}
             [] setup \in {"elasticsearch", "elasticsearch7"} -> {"reset", "disable"}

\* A grain that is set stands for a host that is set up, whatever died or
\* failed on the way and however often the setup is begun anew; but for a
\* command that ended well without its effect: a request that was refused in
\* silence, or ssh-keygen where the old host keys could not be removed.
FlagIsTrue == flag /\ ~silent => Purpose \subseteq done

\* Once commands no longer fail, the setup is completed: a highstate that died
\* after it removed the host keys, or before it set the flag, is made good by a
\* later one.  What had no effect in silence stays undone for good.  And two
\* setups do not always recover from a highstate that did not get to the grain:
\* the passwords of Elasticsearch 7 are then set, but not the flag; the user of
\* MongoDB is there, and as every highstate takes the access control out of
\* mongod.conf again while the grain is unset, it comes to stay only if mongosh
\* says nothing of the user that it could not make.
EventuallySet ==
  <>[](~silent =>
         /\ setup # "mongodb" => Purpose \subseteq done
         /\ setup = "mongodb" => "admin" \in done
         /\ setup = "mongodb" /\ flag => {"authorize", "restart"} \subseteq done
         /\ setup \notin {"mongodb", "elasticsearch7"} => flag)
=============================================================================
