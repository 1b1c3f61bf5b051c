-------------------------- MODULE MCProviderBudget --------------------------
(* Provider budgets on small instances; the rows suffice for every call the *)
(* daily limits allow, so no run is cut short by them.                     *)
EXTENDS ProviderBudget

RouteSet == {<<"codex", "local", "paid">>, <<"paid">>}
Estimate == {1, 2}
Usage == {5}
=============================================================================
