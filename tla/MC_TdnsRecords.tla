--------------------------- MODULE MC_TdnsRecords ---------------------------
(***************************************************************************)
(* TdnsRecords on a small instance: an A and an MX record, two name        *)
(* servers, one list of glue, two SOA fields of two values.                *)
(***************************************************************************)
EXTENDS TdnsRecords

Plain      == {"a", "mx"}
APlain     == {"a"}
NameServers == {"ns1", "ns2"}
GlueLists  == {"glue"}
Fields     == {"refresh", "retry"}
FieldValues == {"d", "v"}
MadeSoa    == [refresh |-> "d", retry |-> "d"]

Nothing == [refresh |-> Unmanaged, retry |-> Unmanaged]

\* A request for what is not spelled out is one for the A record.
Base == [fn |-> "present", kind |-> "plain", rec |-> "a", server |-> "ns1",
         glue |-> Unmanaged, want |-> Nothing, pin |-> Unmanaged,
         test |-> FALSE, formed |-> TRUE]

Ns(glue)  == [Base EXCEPT !.kind = "ns", !.glue = glue]
Soa(pin)  == [Base EXCEPT !.kind = "soa", !.want.refresh = "v", !.pin = pin]
Try(r)    == [r EXCEPT !.test = TRUE]
Remove(r) == [r EXCEPT !.fn = "absent"]

PresentPillars == { Base, [Base EXCEPT !.rec = "mx"], Ns(Unmanaged), Soa(Unmanaged) }

Pillars == PresentPillars
  \cup { Ns("glue"), Soa(1) }
  \cup { Try(Base), Try([Base EXCEPT !.rec = "mx"]), Try(Soa(Unmanaged)) }
  \cup { Remove(Base), [Base EXCEPT !.formed = FALSE] }

AbsentPillars == { Remove(Base), Remove(Ns(Unmanaged)) }
=============================================================================
