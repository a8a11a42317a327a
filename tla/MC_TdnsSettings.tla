-------------------------- MODULE MC_TdnsSettings --------------------------
(***************************************************************************)
(* TdnsSettings on a small instance: a plain setting, the TSIG keys, the   *)
(* forwarders and one setting of the proxy.                                *)
(***************************************************************************)
EXTENDS TdnsSettings

Names    == {"recursion", "tsigKeys", "forwarders", "proxyType"}
OfProxy  == {"proxyType"}
OfLists  == {"forwarders"}
FieldValues == {"none", "d", "v", "a+b", "a&b"}
Breaking == {"a&b"}
Defaults == [f \in Names |-> "d"]
Found    == { Defaults, [Defaults EXCEPT !["tsigKeys"] = "a+b"],
              [f \in Names |-> "v"] }

\* A broken request took one setting, none or all of them with it.
Wreckage == Found \cup { [f \in Names |-> IF f = g THEN "d" ELSE "v"] : g \in Names }

\* `a+b' is a secret with a plus, or a text where a list should be.
OnArrival == [f \in Names |-> [v \in FieldValues |->
                IF v # "a+b" THEN v ELSE IF f \in OfLists THEN "none" ELSE "v"]]

Ask(recursion, keys, forwarders, proxy) ==
  [want |-> [recursion |-> recursion, tsigKeys |-> keys,
             forwarders |-> forwarders, proxyType |-> proxy],
   test |-> FALSE, legal |-> TRUE, joinable |-> TRUE]

Pillars == { Ask("v", "unmanaged", "unmanaged", "unmanaged"),
             Ask("d", "unmanaged", "v", "unmanaged"),
             Ask("d", "unmanaged", "none", "unmanaged"),
             Ask("v", "unmanaged", "unmanaged", "v"),
             Ask("d", "unmanaged", "unmanaged", "d"),
             Ask("v", "a+b", "unmanaged", "unmanaged"),
             Ask("v", "unmanaged", "a+b", "unmanaged"),
             Ask("a&b", "v", "unmanaged", "unmanaged"),
             [Ask("v", "unmanaged", "v", "unmanaged") EXCEPT !.test = TRUE],
             [Ask("v", "unmanaged", "v", "unmanaged") EXCEPT !.legal = FALSE],
             [Ask("v", "unmanaged", "v", "unmanaged") EXCEPT !.joinable = FALSE] }
=============================================================================
