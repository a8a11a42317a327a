-------------------------- MODULE MC_OneShotFlags --------------------------
(***************************************************************************)
(* OneShotFlags with each of the setups, Elasticsearch in both versions.   *)
(***************************************************************************)
EXTENDS OneShotFlags

EverySetup == {"sshd", "elasticsearch", "elasticsearch7", "mongodb", "certbot"}
=============================================================================
