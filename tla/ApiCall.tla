------------------------------ MODULE ApiCall ------------------------------
(***************************************************************************)
(* The abstract specification of one API call at a time, as the functions  *)
(* above _call_api see it: the server acts on the request at most once     *)
(* while the call lasts, and the caller gets a reply that goes with what   *)
(* the server did (TdnsApi!Outcome).  TdnsSession implements it.           *)
(***************************************************************************)
EXTENDS TdnsApi

VARIABLES calling,    \* a call is in progress
          served,     \* how often the server acted on the request
          reply       \* what the caller was told of the last call, if anything

callVars == <<calling, served, reply>>

CallInit == calling = FALSE /\ served = 0 /\ reply = "nok"

Begin == /\ ~calling
         /\ calling' = TRUE
         /\ served' = 0
         /\ reply' = "nok"

Act == /\ calling /\ served = 0
       /\ served' = 1
       /\ UNCHANGED <<calling, reply>>

Answer == /\ calling
          /\ calling' = FALSE
          /\ [applied |-> served > 0, reply |-> reply'] \in Outcome
          /\ UNCHANGED served

\* The caller dies before it hears anything.
Die == /\ calling
       /\ calling' = FALSE
       /\ UNCHANGED <<served, reply>>

CallNext == Begin \/ Act \/ Answer \/ Die

CallSpec == CallInit /\ [][CallNext]_callVars
=============================================================================
