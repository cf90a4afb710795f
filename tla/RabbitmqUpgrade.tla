-------------------------- MODULE RabbitmqUpgrade ---------------------------
(***************************************************************************)
(* The RabbitMQ play of upgrade.yml.  It is no rolling upgrade: all nodes  *)
(* are in one batch, every task is finished on all of them before the next *)
(* one starts (Ansible's linear strategy), and a node on which a task has  *)
(* failed drops out while the others go on.  "Upgrade is performed in      *)
(* offline mode after stopping all RabbitMQ nodes" (UPGRADE.md:311).       *)
(***************************************************************************)
EXTENDS Naturals, FiniteSets

CONSTANTS
    N,              \* number of nodes; node 1, the first of the group, is rabbitmq_master
    FailPoints,     \* the tasks that may fail for reasons of their own
    AutoStart       \* the package may start the service itself, as Ubuntu's does

Nodes  == 1..N
Master == 1
Tasks  == <<"server_version", "cluster_status", "flag", "stop_nodes", "stop_master",
            "packages", "start_master", "start_nodes", "join", "unflag">>
TaskNames == {Tasks[i] : i \in 1..10}

\* What is assumed of the constants (MCRollingUpgrades).
Assumption == N \in Nat \ {0} /\ FailPoints \subseteq TaskNames /\ AutoStart \in BOOLEAN

VARIABLES
    running,        \* an upgrade runs
    task,           \* index of its current task
    active,         \* nodes that have not dropped out
    todo,           \* active nodes on which the task is still to run
    toUpgrade,      \* nodes for which the block applies
    clustered,      \* the fact is_clustered
    version,        \* node -> version of its packages
    up,             \* node -> the service runs
    flag,           \* node -> the upgrade flag file exists
    missed,         \* history: nodes a play has lost before it could stop them
    settled         \* no task fails by itself any more

vars  == <<running, task, active, todo, toUpgrade, clustered, version, up, flag,
           missed, settled>>
play  == <<running, task, active, toUpgrade, clustered, missed>>
nodes == <<version, up, flag>>

TypeOK ==
    /\ running \in BOOLEAN
    /\ task \in 1..10
    /\ todo \subseteq active /\ active \subseteq Nodes
    /\ toUpgrade \subseteq Nodes
    /\ clustered \in BOOLEAN
    /\ version \in [Nodes -> {"old", "new"}]
    /\ up \in [Nodes -> BOOLEAN]
    /\ flag \in [Nodes -> BOOLEAN]
    /\ missed \subseteq Nodes
    /\ settled \in BOOLEAN

Init ==
    /\ running = FALSE
    /\ task = 1
    /\ active = {} /\ todo = {} /\ toUpgrade = {}
    /\ clustered = FALSE
    /\ version = [n \in Nodes |-> "old"]
    /\ up = [n \in Nodes |-> TRUE]
    /\ flag = [n \in Nodes |-> FALSE]
    /\ missed = {}
    /\ settled = FALSE
-----------------------------------------------------------------------------
StartUpgrade ==
    /\ ~running
    /\ running' = TRUE
    /\ task' = 1
    /\ active' = Nodes
    /\ todo' = Nodes
    /\ toUpgrade' = {}
    /\ UNCHANGED <<clustered, nodes, missed, settled>>

\* The task runs on node n.
On(n, name) ==
    /\ running
    /\ Tasks[task] = name
    /\ n \in todo
    /\ todo' = todo \ {n}

\* Asks the node itself, so it fails on a node that is down.
ServerVersion(n) ==
    /\ On(n, "server_version")
    /\ up[n]
    /\ UNCHANGED <<play, nodes, settled>>

\* Run once, for all; then the flag file and the version decide on the block.
ClusterStatus ==
    /\ running
    /\ Tasks[task] = "cluster_status"
    /\ todo # {}
    /\ clustered' = (Cardinality({n \in Nodes : up[n]}) > 1)
    /\ toUpgrade' = {n \in active : flag[n] \/ version[n] = "old"}
    /\ todo' = {}
    /\ UNCHANGED <<running, task, active, nodes, missed, settled>>

CreateFlag(n) ==
    /\ On(n, "flag")
    /\ flag' = [flag EXCEPT ![n] = @ \/ n \in toUpgrade]
    /\ UNCHANGED <<play, version, up, settled>>

StopLater(n) ==                         \* slip: the other nodes are left running
    /\ On(n, "stop_nodes")
    /\ UNCHANGED <<play, nodes, settled>>

StopNode(n) ==
    /\ On(n, "stop_nodes")
    /\ up' = [up EXCEPT ![n] = @ /\ ~(n \in toUpgrade \ {Master})]
    /\ UNCHANGED <<play, version, flag, settled>>

StopMaster(n) ==
    /\ On(n, "stop_master")
    /\ up' = [up EXCEPT ![n] = @ /\ ~(n \in toUpgrade \cap {Master})]
    /\ UNCHANGED <<play, version, flag, settled>>

\* On Ubuntu the initscript of the package starts the service when there was
\* something to upgrade; the unit has been disabled, so it may also not do so.
UpgradePackages(n) ==
    /\ On(n, "packages")
    /\ version' = [version EXCEPT ![n] = IF n \in toUpgrade THEN "new" ELSE @]
    /\ \E starts \in {FALSE, AutoStart} :
          up' = [up EXCEPT ![n] = @ \/ (starts /\ n \in toUpgrade /\ version[n] = "old")]
    /\ missed' = missed \ {n}
    /\ UNCHANGED <<running, task, active, toUpgrade, clustered, flag, settled>>

StartAllNodes(n) ==                     \* slip: every node starts with the master
    /\ On(n, "start_master")
    /\ up' = [up EXCEPT ![n] = @ \/ n \in toUpgrade]
    /\ UNCHANGED <<play, version, flag, settled>>

StartMaster(n) ==
    /\ On(n, "start_master")
    /\ up' = [up EXCEPT ![n] = @ \/ n \in toUpgrade \cap {Master}]
    /\ UNCHANGED <<play, version, flag, settled>>

StartNode(n) ==
    /\ On(n, "start_nodes")
    /\ up' = [up EXCEPT ![n] = @ \/ n \in toUpgrade \ {Master}]
    /\ UNCHANGED <<play, version, flag, settled>>

\* stop_app, join_cluster, start_app: a member stays one; without the master it fails.
Joins(n) == clustered /\ n \in toUpgrade \ {Master}
JoinCluster(n) ==
    /\ On(n, "join")
    /\ Joins(n) => up[Master]
    /\ UNCHANGED <<play, nodes, settled>>

RemoveFlag(n) ==
    /\ On(n, "unflag")
    /\ flag' = [flag EXCEPT ![n] = FALSE]
    /\ UNCHANGED <<play, version, up, settled>>

\* The play is over after its last task, or when it has lost all its nodes.
NextTask ==
    /\ running
    /\ todo = {}
    /\ IF task = 10 \/ active = {}
       THEN running' = FALSE /\ UNCHANGED <<task, todo>>
       ELSE task' = task + 1 /\ todo' = active /\ UNCHANGED running
    /\ UNCHANGED <<active, toUpgrade, clustered, nodes, missed, settled>>

\* A skipped task cannot fail: these run on all nodes, those of the block on some.
Applies(n) ==
    CASE Tasks[task] \in {"server_version", "unflag"}    -> TRUE
      [] Tasks[task] \in {"flag", "packages"}            -> n \in toUpgrade
      [] Tasks[task] \in {"stop_master", "start_master"} -> n \in toUpgrade \cap {Master}
      [] Tasks[task] \in {"stop_nodes", "start_nodes"}   -> n \in toUpgrade \ {Master}
      [] Tasks[task] = "join"                            -> Joins(n)
      [] Tasks[task] = "cluster_status"                  -> FALSE

\* A node on which a task has failed drops out of the play.
Fail(n) ==
    /\ running
    /\ n \in todo
    /\ \/ ~settled /\ Tasks[task] \in FailPoints /\ Applies(n)
       \/ Tasks[task] = "server_version" /\ ~up[n]
       \/ Tasks[task] = "join" /\ Joins(n) /\ ~up[Master]
    /\ todo' = todo \ {n}
    /\ active' = active \ {n}
    /\ missed' = IF up[n] /\ version[n] = "old" THEN missed \cup {n} ELSE missed
    /\ UNCHANGED <<running, task, toUpgrade, clustered, nodes, settled>>

Settle ==
    /\ ~settled
    /\ settled' = TRUE
    /\ UNCHANGED <<play, todo, nodes>>

Task(n) ==
    \/ ServerVersion(n) \/ CreateFlag(n) \/ StopNode(n) \/ StopMaster(n) \/ UpgradePackages(n)
    \/ StartMaster(n) \/ StartNode(n) \/ JoinCluster(n) \/ RemoveFlag(n)

Play == ClusterStatus \/ NextTask \/ \E n \in Nodes : Task(n) \/ Fail(n)

Next == StartUpgrade \/ Play \/ Settle

Spec == Init /\ [][Next]_vars

\* A play that runs goes on; the operator starts a failed upgrade again.
FairSpec == Spec /\ WF_vars(Play) /\ WF_vars(StartUpgrade) /\ WF_vars(Settle)
-----------------------------------------------------------------------------
(***************************************************************************)
(* The upgrade is an offline one: nodes of both versions never run at the  *)
(* same time, since Erlang is upgraded too (UPGRADE.md:311-313), but for   *)
(* the nodes that a play has lost while they ran: it goes on without them. *)
(***************************************************************************)
Offline ==
    \A m, n \in Nodes \ missed : up[m] /\ up[n] => version[m] = version[n]

(***************************************************************************)
(* The play starts a node only when the master, stopped last, is up again  *)
(* (rabbitmq.yml:104-117), unless the master has dropped out of the play.  *)
(* What it does not control is the package of Ubuntu, which may start the  *)
(* node as it is upgraded (:63): the one way for a node to be up before a  *)
(* master that is still to be started.                                     *)
(***************************************************************************)
MasterFirst ==
    [][\A n \in Nodes \ {Master} :
          ~up[n] /\ up'[n] =>
              \/ up[Master] \/ Master \notin active
              \/ AutoStart /\ Tasks[task] = "packages" /\ version[n] = "old"]_vars

(***************************************************************************)
(* Started again after a failure, the upgrade picks up every node, which   *)
(* is what the flag file is for ("you can run it as many times as you      *)
(* wish", README.md:36), as long as no node was left down: such a node     *)
(* fails at the first task of every later upgrade.                         *)
(***************************************************************************)
AllUp == \A n \in Nodes : up[n]
AllUpgraded == AllUp /\ \A n \in Nodes : version[n] = "new"
EventuallyUpgraded == (settled /\ AllUp) ~> []AllUpgraded
=============================================================================
