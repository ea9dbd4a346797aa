----------------------------- MODULE MCCatalog -----------------------------
(***************************************************************************)
(* A small instance of Catalog for TLC: one plan to seed and the tenant,    *)
(* which is all a run and a request, or two runs, can meet on in order.     *)
(***************************************************************************)
EXTENDS Catalog

MCSeedPlans == <<"Free">>
=============================================================================
