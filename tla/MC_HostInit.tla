---------------------------- MODULE MC_HostInit ----------------------------
(***************************************************************************)
(* HostInit for one host and the settings that change the script most.     *)
(***************************************************************************)
EXTENDS HostInit

Dhcp    == [Full EXCEPT !.net = "dhcp", !.redefine = FALSE]
Bare    == [Full EXCEPT !.config = FALSE, !.snapshots = FALSE]
NoHigh  == [Full EXCEPT !.highstate = FALSE, !.redefine = FALSE]
Lax     == [Full EXCEPT !.cis = FALSE, !.debian = FALSE, !.snapshots = FALSE]
Imaged  == [Full EXCEPT !.net = "same", !.redefine = FALSE, !.snapshots = FALSE]
Hasty   == [Full EXCEPT !.master = FALSE]
Unwatched == [Full EXCEPT !.cis = FALSE, !.redefine = FALSE, !.snapshots = FALSE]

HostSettings == {Full, Dhcp, Bare, NoHigh, Lax, Imaged, Hasty, Unwatched}
DhcpSettings == {Dhcp}
=============================================================================
