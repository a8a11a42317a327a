------------------------------ MODULE TdnsApi ------------------------------
(***************************************************************************)
(* What one call of the Technitium DNS API can mean to the code that makes *)
(* it.  Every function of _modules/tdns.py goes through _call_api, which   *)
(* logs in, sends the request and logs out, and hands its caller one of    *)
(* three replies:                                                          *)
(*                                                                         *)
(*   "ok"     status ok: the server did what it was asked;                 *)
(*   "nok"    the server refused, or the request or its answer was lost    *)
(*            (the try block turns both into status nok);                  *)
(*   "raise"  an exception escaped: the login failed before the request,   *)
(*            or the logout failed after it.                               *)
(*                                                                         *)
(* An outcome adds to the reply whether the server acted on the request,   *)
(* which only the server knows.  ApiCall.tla states the same promise as a  *)
(* state machine, and TdnsSession.tla, the detailed protocol, implements   *)
(* it.                                                                     *)
(***************************************************************************)
EXTENDS Integers

Reply == {"ok", "nok", "raise"}

\* Nothing but a status of ok comes back as ok, and the server gives that
\* status only after acting.
Outcome == { o \in [applied : BOOLEAN, reply : Reply] :
               o.reply = "ok" => o.applied }

\* The outcome of a call that nothing disturbs: a request the server can
\* serve is served, one it cannot is refused.
Undisturbed(can) == IF can THEN [applied |-> TRUE,  reply |-> "ok"]
                           ELSE [applied |-> FALSE, reply |-> "nok"]

\* The outcomes of a call when the server could serve it (or not) and
\* `budget' more faults may happen.
Possible(can, budget) ==
  { o \in Outcome : /\ o.applied => can
                    /\ budget > 0 \/ o = Undisturbed(can) }

\* How many faults the outcome stands for.
FaultsOf(o, can) == IF o = Undisturbed(can) THEN 0 ELSE 1
=============================================================================
