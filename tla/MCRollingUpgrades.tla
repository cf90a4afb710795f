------------------------- MODULE MCRollingUpgrades --------------------------
(***************************************************************************)
(* The plays of upgrade.yml that upgrade a running cluster of servers,     *)
(* each on a cluster of its own (`upgrade_components` names one): play     *)
(* says which, and the servers of the others stay as they are.             *)
(* Any task may fail.                                                      *)
(***************************************************************************)
EXTENDS Naturals, FiniteSets

CONSTANTS
    KafkaN, ZookeeperN, RabbitmqN,  \* servers of each
    Ubuntu                          \* the servers run Ubuntu

VARIABLES
    play,
    kCur, kStep, kOldVersion, kFlag, kUp, kLink, kInstalled, kConfig, kSettled,
    zCur, zTask, zBefore, zFlag, zUp, zLink, zInstalled, zConf, zUnit, zSnapshot, zSettled,
    rRunning, rTask, rActive, rTodo, rToUpgrade, rClustered, rVersion, rUp, rFlag, rMissed, rSettled

kVars == <<kCur, kStep, kOldVersion, kFlag, kUp, kLink, kInstalled, kConfig, kSettled>>
zVars == <<zCur, zTask, zBefore, zFlag, zUp, zLink, zInstalled, zConf, zUnit, zSnapshot, zSettled>>
rVars == <<rRunning, rTask, rActive, rTodo, rToUpgrade, rClustered, rVersion, rUp, rFlag, rMissed, rSettled>>

BrokerSteps == {"probe", "flag", "stop", "properties", "unarchive", "copy_config", "link",
                "remove_old", "log_dirs", "set_version", "start", "unflag"}
K == INSTANCE KafkaUpgrade WITH
       N <- KafkaN, FailPoints <- BrokerSteps,
       cur <- kCur, step <- kStep, oldVersion <- kOldVersion, flag <- kFlag, up <- kUp,
       link <- kLink, installed <- kInstalled, config <- kConfig, settled <- kSettled

ServerSteps == {"probe", "flag", "stop", "unarchive", "copy_conf", "link", "unit", "snapshot",
                "start", "remove_old", "unflag"}
Z == INSTANCE ZookeeperUpgrade WITH
       N <- ZookeeperN, FailPoints <- ServerSteps,
       cur <- zCur, task <- zTask, before <- zBefore, flag <- zFlag, up <- zUp, link <- zLink,
       installed <- zInstalled, conf <- zConf, unit <- zUnit, snapshot <- zSnapshot, settled <- zSettled

NodeTasks == {"server_version", "cluster_status", "flag", "stop_nodes", "stop_master",
              "packages", "start_master", "start_nodes", "join", "unflag"}
R == INSTANCE RabbitmqUpgrade WITH
       N <- RabbitmqN, FailPoints <- NodeTasks, AutoStart <- Ubuntu,
       running <- rRunning, task <- rTask, active <- rActive, todo <- rTodo, toUpgrade <- rToUpgrade,
       clustered <- rClustered, version <- rVersion, up <- rUp, flag <- rFlag, missed <- rMissed,
       settled <- rSettled

ASSUME KafkaAssumption == K!Assumption
ASSUME ZookeeperAssumption == Z!Assumption
ASSUME RabbitmqAssumption == R!Assumption

-----------------------------------------------------------------------------
Init ==
    /\ play \in {"zookeeper", "kafka", "rabbitmq"}
    /\ K!Init /\ R!Init /\ Z!Init
    /\ play # "zookeeper" => zSnapshot = [s \in Z!Servers |-> TRUE] /\ zUnit = [s \in Z!Servers |-> "link"]

Kafka(A) == play = "kafka" /\ A /\ UNCHANGED <<play, zVars, rVars>>
Zookeeper(A) == play = "zookeeper" /\ A /\ UNCHANGED <<play, kVars, rVars>>
Rabbitmq(A) == play = "rabbitmq" /\ A /\ UNCHANGED <<play, kVars, zVars>>

Next == Kafka(K!Next) \/ Zookeeper(Z!Next) \/ Rabbitmq(R!Next)

vars == <<play, kVars, zVars, rVars>>

Spec == Init /\ [][Next]_vars

(***************************************************************************)
(* The fairness of each module, for the play there is.                     *)
(***************************************************************************)
FairSpec ==
    /\ Spec
    /\ WF_vars(Kafka(K!Tasks)) /\ WF_vars(Kafka(K!Fail))
    /\ WF_vars(Kafka(K!StartUpgrade)) /\ WF_vars(Kafka(K!Settle))
    /\ WF_vars(Zookeeper(Z!Tasks)) /\ WF_vars(Zookeeper(Z!Fail))
    /\ WF_vars(Zookeeper(Z!StartUpgrade)) /\ WF_vars(Zookeeper(Z!Settle))
    /\ WF_vars(Rabbitmq(R!Play)) /\ WF_vars(Rabbitmq(R!StartUpgrade)) /\ WF_vars(Rabbitmq(R!Settle))

-----------------------------------------------------------------------------
(* The properties the modules state of their plays.                        *)

(* However upgrades fail and are started over, a Kafka broker runs from    *)
(* binaries that are there, with its own configuration; at most one broker *)
(* loses its binaries, which then is down, unfinished, and the only one.   *)
KafkaKept == K!TypeOK /\ K!LossContained /\ K!OwnConfiguration

(* A ZooKeeper server keeps what it needs to start: a whole installation   *)
(* and its own configuration in it.                                        *)
ZookeeperKept == Z!TypeOK /\ Z!AlwaysStartable /\ Z!OwnConfiguration

(* No broker can start with binaries that do not know its protocol.        *)
KafkaProtocolFitsBinaries == K!ProtocolFitsBinaries

(* A server the ZooKeeper play has finished runs, from the new directory.  *)
ZookeeperFinishedRuns == Z!FinishedRuns

(* RabbitMQ nodes of two versions do not run at once, but for nodes the    *)
(* play has lost while they ran.                                           *)
RabbitmqOffline == R!TypeOK /\ R!Offline

(* The play starts no RabbitMQ node before a master that is still in it.   *)
RabbitmqMasterFirst == R!MasterFirst

(* Kafka and ZooKeeper are upgraded one server at a time, through failures *)
(* and new starts.                                                         *)
KeepsRolling == K!KeepsRolling /\ Z!KeepsRolling

(* When tasks stop failing, starting the play over upgrades every server,  *)
(* of Kafka unless a broker has lost its binaries.                         *)
EventuallyUpgraded == K!EventuallyUpgraded /\ Z!EventuallyUpgraded /\ R!EventuallyUpgraded
=============================================================================
