---------------------------- MODULE MC_TdnsZones ----------------------------
(***************************************************************************)
(* TdnsZones on a small instance: one option, one SOA field and its        *)
(* serial, a forwarder's address, its proxy and its validation, two values *)
(* each.                                                                   *)
(***************************************************************************)
EXTENDS TdnsZones

OptionNames == {"notify"}
SoaNames    == {"refresh"}
FwdNames    == {"forwarder", "proxyHost", "dnssecValidation"}
Named       == {"forwarder", "dnssecValidation"}
Addressing  == {"forwarder"}
FieldValues == {"d", "v"}
MadeOptions == [notify |-> "d"]
MadeSoa     == [fields |-> [refresh |-> "d"], serial |-> 0]
MadeFwd     == [f \in FwdNames |-> "d"]

\* A zone of some kind, of which nothing is asked but to be there.
Plain(kind) ==
  [fn |-> "managed", kind |-> kind,
   opts |-> [notify |-> Unmanaged], soa |-> [refresh |-> Unmanaged],
   pin |-> Unmanaged, fwd |-> [f \in FwdNames |-> Unmanaged],
   sign |-> "unset", test |-> FALSE, legal |-> TRUE]

Notifying(kind) == [Plain(kind) EXCEPT !.opts.notify = "v"]
Signed     == [Notifying("Primary") EXCEPT !.soa.refresh = "v", !.sign = "on"]
Pinned     == [Plain("Primary") EXCEPT !.pin = 2, !.sign = "off"]
Proxied    == [Plain("Forwarder") EXCEPT !.fwd.proxyHost = "v", !.sign = "on",
                                         !.fwd.dnssecValidation = "v"]
Forwarding == [Notifying("Forwarder") EXCEPT !.fwd.forwarder = "v"]
Unchecked  == [Plain("Forwarder") EXCEPT !.sign = "off", !.fwd.dnssecValidation = "d"]
Try(r)     == [r EXCEPT !.test = TRUE]
Removed    == [Plain("Primary") EXCEPT !.fn = "absent"]

Pillars == { Signed, Pinned, Notifying("Secondary"), Plain("Stub"), Proxied,
             Forwarding, Unchecked, Try(Signed), Try(Forwarding), Removed, Try(Removed),
             [Signed EXCEPT !.legal = FALSE] }
=============================================================================
