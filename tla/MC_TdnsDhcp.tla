---------------------------- MODULE MC_TdnsDhcp ----------------------------
(***************************************************************************)
(* TdnsDhcp on a small instance: an address, the reserved leases and one   *)
(* ordinary field, two server-side values, and a handful of pillars.       *)
(***************************************************************************)
EXTENDS TdnsDhcp

FieldNames == {"startingAddress", "reservedLeases", "domainName"}
Addresses  == {"startingAddress"}
FieldValues == {"", "v", "False"}
Defaults == [startingAddress |-> "", reservedLeases |-> "False",
             domainName |-> ""]

Managed(addr, leases, domain, enable, test, legal) ==
  [fn |-> "managed",
   want |-> [startingAddress |-> addr, reservedLeases |-> leases,
             domainName |-> domain],
   enable |-> enable, test |-> test, legal |-> legal]

Removed(test) ==
  [Managed("unmanaged", "unmanaged", "unmanaged", "unset", test, TRUE)
     EXCEPT !.fn = "absent"]

\* A full pillar, one that leaves the leases or the address to the server,
\* one that is only tried, one with a misspelled field.
Pillars ==
  { Managed("v", "v", "unmanaged", "on",  FALSE, TRUE),
    Managed("v", "",  "v",         "unset", FALSE, TRUE),
    Managed("v", "unmanaged", "v", "off", FALSE, TRUE),
    Managed("unmanaged", "v", "v", "on",  FALSE, TRUE),
    Managed("v", "v", "v",         "off", TRUE,  TRUE),
    Managed("v", "v", "v",         "on",  FALSE, FALSE),
    Removed(FALSE), Removed(TRUE) }

=============================================================================
