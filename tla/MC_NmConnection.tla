-------------------------- MODULE MC_NmConnection --------------------------
(***************************************************************************)
(* NmConnection on a small instance: an option shown as it was set, one    *)
(* shown otherwise, an alias that is not shown, and the one that the state *)
(* sets itself.                                                            *)
(***************************************************************************)
EXTENDS NmConnection

Options4 == {"gateway", "routes", "ip4", "connection.autoconnect"}
Alias    == {"ip4"}
TwoValues == {"a", "b"}
Switch    == {"yes", "no"}
AllValues == TwoValues \cup Switch
\* nmcli shows every value of routes in its own way.
Display ==
  [f \in Options4 |-> [v \in AllValues \cup {Null} |->
     IF f = "routes" /\ v = "a" THEN "b" ELSE v]]

Opts(gateway, routes, ip4, auto) ==
  [f \in Options4 |-> CASE f = "gateway" -> gateway
                        [] f = "routes"  -> routes
                        [] f = "ip4"     -> ip4
                        [] OTHER         -> auto]
Made(id, gateway, routes, auto, link) ==
  [exists |-> TRUE, id |-> id, link |-> link,
   opts |-> Opts(gateway, routes, Null, auto)]
Others == { Made("ifname", "a", Null, "no", "up"),
            Made("ifname", "b", "b", "yes", "down"),
            Made("ap_name", "a", Null, "yes", "activating") }

Nothing == [f \in Options4 |-> Unmanaged]
Base == [fn |-> "present", name |-> "ifname", hwaddr |-> FALSE,
         type |-> "ethernet", want |-> [Nothing EXCEPT !["gateway"] = "a"],
         auto |-> Unmanaged,
         ap |-> TRUE, ssid |-> FALSE, test |-> FALSE]
Of(type) == [Base EXCEPT !.type = type]
Fn(fn, hw) == [Base EXCEPT !.fn = fn, !.hwaddr = hw, !.want = Nothing]

Pillars ==
  { Base, Of("wifi"), [Of("wifi") EXCEPT !.ssid = TRUE], Of("hotspot"),
    Of("hostpot"), [Of("hotspot") EXCEPT !.ap = FALSE],
    [Base EXCEPT !.test = TRUE],
    [Base EXCEPT !.want = Opts(Null, "a", "b", Unmanaged)],
    [Base EXCEPT !.want["routes"] = "b"],
    [Base EXCEPT !.auto = "no"],
    [Base EXCEPT !.want = Opts("b", Unmanaged, Unmanaged, "no")],
    [Of("wifi") EXCEPT !.want = Opts("b", "a", Unmanaged, Unmanaged)],
    [Of("hotspot") EXCEPT !.want["gateway"] = Null],
    Fn("absent", FALSE), [Fn("absent", FALSE) EXCEPT !.name = "ap_name", !.test = TRUE],
    Fn("active", FALSE), Fn("active", TRUE),
    Fn("inactive", FALSE), Fn("inactive", TRUE),
    [Fn("active", TRUE) EXCEPT !.test = TRUE] }
=============================================================================
