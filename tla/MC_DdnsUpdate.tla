--------------------------- MODULE MC_DdnsUpdate ---------------------------
(***************************************************************************)
(* DdnsUpdate on a small instance: two addresses, so that the address may  *)
(* change back, and three runs: two overlapping ones of cron, or by hand,  *)
(* and the one of the highstate.                                           *)
(***************************************************************************)
EXTENDS DdnsUpdate

TwoAddresses == {"a", "b"}
ThreeRuns    == {"other1", "other2", "highstate"}
AllHosters   == {"aws", "godaddy", "bind", "tdns"}
=============================================================================
