--------------------------- MODULE RollingUpgrade ---------------------------
(***************************************************************************)
(* What the rolling upgrades of the Kafka brokers and of the ZooKeeper     *)
(* servers promise ("brokers are updated one by one",                      *)
(* docs/home/howto/UPGRADE.md:239): at any time at most one node of the    *)
(* cluster is down, a node changes its version only while it is down, and  *)
(* it comes up with a whole installation, of the old version or the new.   *)
(***************************************************************************)
CONSTANT Nodes

VARIABLES
    version,        \* node -> version installed
    up              \* node -> it is running

upgradeVars == <<version, up>>

UpgradeInit ==
    /\ version = [n \in Nodes |-> "old"]
    /\ up = [n \in Nodes |-> TRUE]

TakeDown(n) ==
    /\ \A other \in Nodes \ {n} : up[other]
    /\ up' = [up EXCEPT ![n] = FALSE]
    /\ UNCHANGED version

Replace(n) ==
    /\ ~up[n]
    /\ version' = [version EXCEPT ![n] = "new"]
    /\ UNCHANGED up

BringUp(n) ==
    /\ version[n] \in {"old", "new"}
    /\ up' = [up EXCEPT ![n] = TRUE]
    /\ UNCHANGED version

UpgradeNext == \E n \in Nodes : TakeDown(n) \/ Replace(n) \/ BringUp(n)

UpgradeSpec == UpgradeInit /\ [][UpgradeNext]_upgradeVars
=============================================================================
