--------------------------- MODULE MC_TdnsSession ---------------------------
(***************************************************************************)
(* TdnsSession with two passwords besides the factory one and two tokens.  *)
(* Tokens are only compared, so two of them show a stale one.              *)
(***************************************************************************)
EXTENDS TdnsSession

CONSTANTS admin, p1, p2, t1, t2

AllPasswords == {admin, p1, p2}
AllTokens    == {t1, t2}
=============================================================================
