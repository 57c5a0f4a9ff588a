---------------------------- MODULE MCStatusFold ----------------------------
(* Two condition types and three values, two of which differ in the reason *)
(* alone; every list of functions over every stored status.                *)
EXTENDS StatusFold

CONSTANT m1

MCTypes == {"Deployed", "Irreconcilable"}
MCWanted == {Unknown, True("InstallError"), True("UpgradeError")}
=============================================================================
