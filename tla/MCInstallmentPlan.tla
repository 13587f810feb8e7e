-------------------------- MODULE MCInstallmentPlan --------------------------
(* InstallmentPlan over ranges of small principals, counts and LTVs.        *)
EXTENDS InstallmentPlan

SmallPrincipals == 1 .. 100
SmallCounts == 1 .. 8
SomeLtvs == {110, 123, 137, 150}
==============================================================================
