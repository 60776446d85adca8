--------------------------- MODULE MCAlertRouter ---------------------------
(* AlertRouter on small instances: two enforcements that share a kind and  *)
(* title in two namespaces, a drop, and four routes.                       *)
EXTENDS AlertRouter

kill(ns) == [kind |-> "runtime_enforcement", ns |-> ns, title |-> "kill"]
drop == [kind |-> "network_drop", ns |-> "shop", title |-> "drop"]
Raised == {kill("shop"), kill("pay"), drop}

route(e, k, s, n) == [enabled |-> e, kinds |-> k, minSeverity |-> s, namespaces |-> n]
all == route(TRUE, {}, "warning", {})
pay == route(TRUE, {}, "warning", {"pay"})
pager == route(TRUE, {"runtime_enforcement"}, "critical", {})
off == route(FALSE, {}, "warning", {})
AllRoutes == {all, pay, pager, off}
AllTables == {{all, off}, {pay, pager}}
NoAnswer == {pager}
=============================================================================
