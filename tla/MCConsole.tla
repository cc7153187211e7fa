------------------------------ MODULE MCConsole ------------------------------
(* Small instances of the settings page and what it configures.            *)
EXTENDS Console, TLC

CONSTANTS ada, bob, r1, r2, r3

Plain == [k \in Registry |-> CASE k \in {"rdp_login.enabled", "public.detect"} -> "on"
                               [] k \in {"notify.url", "public.host"} -> ""
                               [] OTHER -> "off"]
Held == [Plain EXCEPT !["rdp_login.enabled"] = "off", !["jit.enabled"] = "on"]
TwoFiles == {Plain, Held}
Removed == "relay.banner" :> "off"
Environment == "notify.url" :> "hook"

Save(values, reset) == [values |-> values, reset |-> reset]
Everything ==
    {Save(("rdp_login.enabled" :> "off") @@ ("jit.enabled" :> "on")
          @@ ("notify.enabled" :> "on"), {}),
     Save("notify.url" :> "", {"notify.enabled"}),
     Save("public.host" :> "gw", {"rdp_login.enabled", "jit.enabled"}),
     Save("public.host" :> "?", {})}

Dns == "gw" :> "a1"
BusyPorts == {{"443", "80"}}
Https == <<"443", "8443">>
Http == <<"80", "8443", "8080">>
=============================================================================
