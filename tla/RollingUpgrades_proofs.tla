----------------------- MODULE RollingUpgrades_proofs -----------------------
(***************************************************************************)
(* The properties of the composition of the three upgrade plays, for every *)
(* number of servers of each.                                              *)
(*                                                                         *)
(* The inductive invariants of Kafka and of ZooKeeper are those of their   *)
(* own proof modules, instantiated here a second time beside K and Z: the  *)
(* lemmas KafkaSame and ZookeeperSame carry a step over.  The one of       *)
(* RabbitMQ is stated and proved here.                                     *)
(***************************************************************************)
EXTENDS MCRollingUpgrades, TLAPS

-----------------------------------------------------------------------------
(* Kafka, whatever task fails.                                             *)
KP == INSTANCE KafkaUpgrade_proofs WITH
       N <- KafkaN, FailPoints <- BrokerSteps,
       cur <- kCur, step <- kStep, oldVersion <- kOldVersion, flag <- kFlag, up <- kUp,
       link <- kLink, installed <- kInstalled, config <- kConfig, settled <- kSettled

(* The assumption of the module is that of the composition.                *)
LEMMA KafkaAssumed == KP!Assumption
  BY KafkaAssumption DEF K!Assumption, KP!Assumption, K!Steps, KP!Steps

(* A step of the play is one in both instances.                            *)
LEMMA KafkaSame == [K!Next]_(K!vars) => [KP!Next]_(KP!vars)
  BY DEF K!Next, KP!Next, K!StartUpgrade, KP!StartUpgrade, K!Tasks, KP!Tasks, K!Probe,
         KP!Probe, K!CreateFlag, KP!CreateFlag, K!StopService, KP!StopService,
         K!UpdateProperties, KP!UpdateProperties, K!Unarchive, KP!Unarchive,
         K!CopyConfiguration, KP!CopyConfiguration, K!Link, KP!Link,
         K!RemovePrevious, KP!RemovePrevious, K!LogDirs, KP!LogDirs,
         K!SetVersion, KP!SetVersion, K!StartService, KP!StartService,
         K!RemoveFlag, KP!RemoveFlag, K!NextBroker, KP!NextBroker, K!Fail,
         KP!Fail, K!Settle, KP!Settle, K!At, KP!At, K!Present, KP!Present,
         K!Proceed, KP!Proceed, K!TaskAfter, KP!TaskAfter, K!Stock, KP!Stock,
         K!vars, KP!vars, K!host, KP!host, K!run, KP!run

(* The invariant holds at first, ...                                       *)
LEMMA KafkaInit ==
  ASSUME Init
  PROVE  KP!IInv
<1>1. KP!Init
  BY DEF Init, K!Init, KP!Init, K!Brokers, KP!Brokers, K!Versions, KP!Versions, K!Stock, KP!Stock
<1> QED
  BY <1>1, KafkaAssumed, KP!InvInit

(* ... is preserved, ...                                                   *)
LEMMA KafkaSteps ==
  ASSUME KP!IInv, [Next]_vars
  PROVE  KP!IInv' /\ [KP!Next]_(KP!vars)
<1>1. [K!Next]_(K!vars)
  BY DEF Next, Kafka, Zookeeper, Rabbitmq, vars, kVars, K!vars
<1> QED
  BY <1>1, KafkaSame, KafkaAssumed, KP!InvNext

(* ... and so holds throughout.                                            *)
LEMMA KafkaInvCorrect == Spec => []KP!IInv
<1>1. Init => KP!IInv
  BY KafkaInit
<1>2. KP!IInv /\ [Next]_vars => KP!IInv'
  BY KafkaSteps
<1> QED
  BY <1>1, <1>2, PTL DEF Spec

-----------------------------------------------------------------------------
(* ZooKeeper, likewise, whatever task fails.                               *)
ZP == INSTANCE ZookeeperUpgrade_proofs WITH
       N <- ZookeeperN, FailPoints <- ServerSteps,
       cur <- zCur, task <- zTask, before <- zBefore, flag <- zFlag, up <- zUp, link <- zLink,
       installed <- zInstalled, conf <- zConf, unit <- zUnit, snapshot <- zSnapshot, settled <- zSettled

(* The assumption of the module is that of the composition.                *)
LEMMA ZookeeperAssumed == ZP!Assumption
  BY ZookeeperAssumption DEF Z!Assumption, ZP!Assumption, Z!StepNames, ZP!StepNames, Z!Steps,
         ZP!Steps

(* A step of the play is one in both instances.                            *)
LEMMA ZookeeperSame == [Z!Next]_(Z!vars) => [ZP!Next]_(ZP!vars)
  BY DEF Z!Next, ZP!Next, Z!StartUpgrade, ZP!StartUpgrade, Z!Tasks, ZP!Tasks, Z!Probe,
         ZP!Probe, Z!CreateFlag, ZP!CreateFlag, Z!StopService, ZP!StopService,
         Z!Unarchive, ZP!Unarchive, Z!CopyConfiguration, ZP!CopyConfiguration, Z!Link, ZP!Link,
         Z!ReconfigureService, ZP!ReconfigureService, Z!CopySnapshot, ZP!CopySnapshot,
         Z!ComesUp, ZP!ComesUp, Z!Runs, ZP!Runs, Z!StartService, ZP!StartService,
         Z!RemovePrevious, ZP!RemovePrevious, Z!RemoveFlag, ZP!RemoveFlag,
         Z!NextServer, ZP!NextServer, Z!Fail, ZP!Fail, Z!Settle, ZP!Settle, Z!At, ZP!At,
         Z!Present, ZP!Present, Z!Proceed, ZP!Proceed, Z!Step, ZP!Step, Z!Steps, ZP!Steps,
         Z!vars, ZP!vars, Z!host, ZP!host

(* The invariant holds at first, ...                                       *)
LEMMA ZookeeperInit ==
  ASSUME Init
  PROVE  ZP!IInv
<1>1. ZP!Init
  BY DEF Init, Z!Init, ZP!Init, Z!Servers, ZP!Servers, Z!Versions, ZP!Versions
<1> QED
  BY <1>1, ZookeeperAssumed, ZP!InvInit

(* ... is preserved, ...                                                   *)
LEMMA ZookeeperSteps ==
  ASSUME ZP!IInv, [Next]_vars
  PROVE  ZP!IInv' /\ [ZP!Next]_(ZP!vars)
<1>1. [Z!Next]_(Z!vars)
  BY DEF Next, Kafka, Zookeeper, Rabbitmq, vars, zVars, Z!vars
<1> QED
  BY <1>1, ZookeeperSame, ZookeeperAssumed, ZP!InvNext

(* ... and so holds throughout.                                            *)
LEMMA ZookeeperInvCorrect == Spec => []ZP!IInv
<1>1. Init => ZP!IInv
  BY ZookeeperInit
<1>2. ZP!IInv /\ [Next]_vars => ZP!IInv'
  BY ZookeeperSteps
<1> QED
  BY <1>1, <1>2, PTL DEF Spec

-----------------------------------------------------------------------------
(***************************************************************************)
(* RabbitMQ.  What a node that is still in the play has been through when  *)
(* a task is past for it, and what the play knows of the nodes it lost.    *)
(***************************************************************************)
Past(n, i) == rTask > i \/ (rTask = i /\ n \notin rTodo)

Worked(n) ==
    /\ Past(n, 1) /\ rTask <= 2 => rUp[n]
    /\ Past(n, 2) =>
         IF n \in rToUpgrade
         THEN /\ n # R!Master /\ Past(n, 4) /\ ~Past(n, 6) => ~rUp[n]
              /\ n = R!Master /\ Past(n, 5) /\ ~Past(n, 6) => ~rUp[n]
              /\ Past(n, 6) => rVersion[n] = "new"
              /\ n = R!Master /\ Past(n, 7) => rUp[n]
         ELSE rUp[n] /\ rVersion[n] = "new"

(* A node that was lost as it ran has the old version; any other that is   *)
(* out of the play and runs has the new one.                               *)
LostKnown ==
    /\ \A n \in rMissed : rVersion[n] = "old"
    /\ rRunning => \A n \in R!Nodes \ (rActive \cup rMissed) : rUp[n] => rVersion[n] = "new"

RabbitmqInv ==
    /\ R!TypeOK
    /\ R!Offline
    /\ LostKnown
    /\ rRunning => \A n \in rActive : Worked(n)
    /\ rRunning /\ rTask = 2 => rTodo \in {{}, rActive}

(* The order of the tasks, as the play lists them.                         *)
LEMMA RabbitmqTasks ==
  ASSUME NEW i \in 1..10
  PROVE  /\ R!Tasks[i] = "server_version" <=> i = 1
         /\ R!Tasks[i] = "cluster_status" <=> i = 2
         /\ R!Tasks[i] = "flag" <=> i = 3
         /\ R!Tasks[i] = "stop_nodes" <=> i = 4
         /\ R!Tasks[i] = "stop_master" <=> i = 5
         /\ R!Tasks[i] = "packages" <=> i = 6
         /\ R!Tasks[i] = "start_master" <=> i = 7
         /\ R!Tasks[i] = "start_nodes" <=> i = 8
         /\ R!Tasks[i] = "join" <=> i = 9
         /\ R!Tasks[i] = "unflag" <=> i = 10
  BY DEF R!Tasks

(* Before the first upgrade there is nothing to know.                      *)
LEMMA RabbitmqInit ==
  ASSUME R!Init
  PROVE  RabbitmqInv
<1>1. /\ rVersion \in [R!Nodes -> {"old", "new"}] /\ rUp \in [R!Nodes -> BOOLEAN]
      /\ rFlag \in [R!Nodes -> BOOLEAN]
  BY DEF R!Init
<1>2. R!TypeOK
  <2>1. rTask \in 1..10
    <3>1. rTask = 1
      BY DEF R!Init
    <3> QED
      BY <3>1
  <2>2. rRunning \in BOOLEAN /\ rClustered \in BOOLEAN /\ rSettled \in BOOLEAN
    BY DEF R!Init
  <2> QED
    BY <1>1, <2>1, <2>2 DEF R!Init, R!TypeOK
<1>3. R!Offline /\ LostKnown
  BY DEF R!Init, R!Offline, LostKnown
<1> QED
  BY <1>2, <1>3 DEF R!Init, RabbitmqInv

(* The play goes on from task to task.                                     *)
LEMMA RabbitmqRun ==
  ASSUME RabbitmqInv, R!StartUpgrade \/ R!ClusterStatus \/ R!NextTask \/ R!Settle
  PROVE  RabbitmqInv'
<1> USE DEF RabbitmqInv, R!nodes, R!play
<1>0. R!TypeOK /\ R!Offline /\ LostKnown /\ rTask \in 1..10
  BY DEF R!TypeOK
<1>1. UNCHANGED <<rVersion, rUp, rFlag, rMissed>>
  BY DEF R!StartUpgrade, R!ClusterStatus, R!NextTask, R!Settle
<1>2. R!Offline'
  BY <1>0, <1>1 DEF R!Offline
<1>3. CASE R!StartUpgrade
  <2>1. R!TypeOK'
    BY <1>0, <1>1, <1>3 DEF R!StartUpgrade, R!TypeOK
  <2>2. LostKnown'
    BY <1>0, <1>1, <1>3 DEF R!StartUpgrade, LostKnown
  <2>3. \A n \in rActive' : Worked(n)'
    BY <1>3 DEF R!StartUpgrade, Worked, Past
  <2> QED
    BY <1>2, <1>3, <2>1, <2>2, <2>3 DEF R!StartUpgrade
<1>4. CASE R!ClusterStatus
  <2>1. R!TypeOK'
    BY <1>0, <1>1, <1>4 DEF R!ClusterStatus, R!TypeOK
  <2>2. LostKnown'
    BY <1>0, <1>1, <1>4 DEF R!ClusterStatus, LostKnown
  <2>3. rTask = 2 /\ rRunning /\ rTodo = rActive /\ rTask' = 2 /\ rTodo' = {} /\ rActive' = rActive
        /\ rToUpgrade' = {n \in rActive : rFlag[n] \/ rVersion[n] = "old"}
    BY <1>0, <1>4, RabbitmqTasks DEF R!ClusterStatus
  <2>4. \A n \in rActive' : Worked(n)'
    <3> SUFFICES ASSUME NEW n \in rActive PROVE Worked(n)'
      BY <2>3
    <3>1. rUp[n] /\ rVersion[n] \in {"old", "new"}
      BY <1>0, <2>3 DEF Worked, Past, R!TypeOK
    <3> QED
      BY <1>1, <2>3, <3>1 DEF Worked, Past
  <2> QED
    BY <1>2, <1>4, <2>1, <2>2, <2>3, <2>4
<1>5. CASE R!NextTask
  <2>1. R!TypeOK'
    <3>1. rTask' \in 1..10
      <4>1. CASE rTask = 10 \/ rActive = {}
        BY <1>0, <1>5, <4>1 DEF R!NextTask
      <4>2. CASE ~(rTask = 10 \/ rActive = {})
        <5>1. rTask' = rTask + 1 /\ rTask # 10
          BY <1>5, <4>2 DEF R!NextTask
        <5> QED
          BY <1>0, <5>1
      <4> QED
        BY <4>1, <4>2
    <3>2. rRunning' \in BOOLEAN /\ rTodo' \subseteq rActive'
      BY <1>0, <1>5 DEF R!NextTask, R!TypeOK
    <3>3. UNCHANGED <<rActive, rToUpgrade, rClustered, rSettled>>
      BY <1>5 DEF R!NextTask
    <3> QED
      BY <1>0, <1>1, <3>1, <3>2, <3>3 DEF R!TypeOK
  <2>2. LostKnown'
    BY <1>0, <1>1, <1>5 DEF R!NextTask, LostKnown
  <2>3. rRunning /\ rTodo = {} /\ rActive' = rActive /\ rToUpgrade' = rToUpgrade
        /\ (rRunning' => rTask' = rTask + 1 /\ rTodo' = rActive)
    BY <1>5 DEF R!NextTask
  <2>4. rRunning' => \A n \in rActive' : Worked(n)'
    <3> SUFFICES ASSUME rRunning', NEW n \in rActive PROVE Worked(n)'
      BY <2>3
    <3>1. Worked(n) /\ n \notin rTodo /\ n \in rTodo' /\ rTask' = rTask + 1
      BY <2>3
    <3>2. \A i \in 1..10 : Past(n, i)' <=> Past(n, i)
      BY <1>0, <3>1 DEF Past
    <3>3. rUp'[n] = rUp[n] /\ rVersion'[n] = rVersion[n]
      BY <1>1
    <3> QED
      BY <1>0, <2>3, <3>1, <3>2, <3>3 DEF Worked
  <2> QED
    BY <1>2, <2>1, <2>2, <2>3, <2>4
<1>6. CASE R!Settle
  <2>1. UNCHANGED <<rRunning, rTask, rActive, rTodo, rToUpgrade, rClustered>>
    BY <1>6 DEF R!Settle
  <2>2. R!TypeOK'
    BY <1>0, <1>1, <1>6, <2>1 DEF R!Settle, R!TypeOK
  <2>3. LostKnown'
    BY <1>0, <1>1, <2>1 DEF LostKnown
  <2>4. rRunning' => \A n \in rActive' : Worked(n)'
    BY <1>1, <2>1 DEF Worked, Past
  <2> QED
    BY <1>2, <2>1, <2>2, <2>3, <2>4
<1> QED
  BY <1>3, <1>4, <1>5, <1>6

(* A task runs on one node, and concerns that node only.                   *)
OnlyNode(n) ==
    /\ \A m \in R!Nodes \ {n} :
          rUp'[m] = rUp[m] /\ rVersion'[m] = rVersion[m] /\ (m \in rMissed' <=> m \in rMissed)
    /\ UNCHANGED <<rRunning, rTask, rToUpgrade>>
    /\ rTodo' = rTodo \ {n}

(* What the others have been through does not change with it.              *)
LEMMA RabbitmqOthers ==
  ASSUME RabbitmqInv, rRunning, NEW n \in rTodo, OnlyNode(n), rActive' \subseteq rActive
  PROVE  /\ \A m \in rActive' \ {n} : Worked(m)'
         /\ rRunning' /\ rTask' = 2 => rTask = 2
<1>1. \A m \in rActive' \ {n} : Worked(m) /\ m \in R!Nodes
  BY DEF RabbitmqInv, R!TypeOK
<1>2. \A m \in rActive' \ {n} : \A i \in 1..10 : Past(m, i)' <=> Past(m, i)
  BY DEF OnlyNode, Past
<1> QED
  BY <1>1, <1>2 DEF OnlyNode, Worked

(* A task that is done moves its node on, and leaves what it promises.     *)
LEMMA RabbitmqTask ==
  ASSUME RabbitmqInv, NEW n \in R!Nodes, R!Task(n)
  PROVE  RabbitmqInv'
<1> USE DEF RabbitmqInv, R!nodes, R!play, R!On
<1>0. R!TypeOK /\ R!Offline /\ LostKnown /\ rTask \in 1..10
  BY DEF R!TypeOK
<1>1. /\ rRunning /\ n \in rTodo /\ n \in rActive /\ rTodo' = rTodo \ {n} /\ rActive' = rActive
      /\ UNCHANGED <<rRunning, rTask, rToUpgrade, rClustered, rSettled>>
      /\ rTask # 2 /\ rMissed' \subseteq rMissed
  BY <1>0, RabbitmqTasks
     DEF R!Task, R!ServerVersion, R!CreateFlag, R!StopNode, R!StopMaster, R!UpgradePackages,
         R!StartMaster, R!StartNode, R!JoinCluster, R!RemoveFlag, R!TypeOK
<1>2. OnlyNode(n)
  BY <1>0, <1>1
     DEF R!Task, R!ServerVersion, R!CreateFlag, R!StopNode, R!StopMaster, R!UpgradePackages,
         R!StartMaster, R!StartNode, R!JoinCluster, R!RemoveFlag, R!TypeOK, OnlyNode
<1>3. /\ rVersion' \in [R!Nodes -> {"old", "new"}] /\ rUp' \in [R!Nodes -> BOOLEAN]
      /\ rFlag' \in [R!Nodes -> BOOLEAN]
  BY <1>0
     DEF R!Task, R!ServerVersion, R!CreateFlag, R!StopNode, R!StopMaster, R!UpgradePackages,
         R!StartMaster, R!StartNode, R!JoinCluster, R!RemoveFlag, R!TypeOK
<1>4. R!TypeOK'
  BY <1>0, <1>1, <1>3 DEF R!TypeOK
<1>5. \A m \in rActive \ {n} : Worked(m)'
  BY <1>1, <1>2, RabbitmqOthers
<1>6. Worked(n)
  BY <1>1
<1>7. CASE R!ServerVersion(n)
  <2>1. rTask = 1 /\ rUp[n] /\ UNCHANGED <<rUp, rVersion, rMissed>>
    BY <1>0, <1>7, RabbitmqTasks DEF R!ServerVersion
  <2>2. Worked(n)'
    BY <1>1, <2>1 DEF Worked, Past
  <2>3. R!Offline' /\ LostKnown'
    BY <1>0, <1>1, <2>1 DEF R!Offline, LostKnown
  <2> QED
    BY <1>1, <1>4, <1>5, <2>2, <2>3
<1>8. CASE R!CreateFlag(n) \/ R!JoinCluster(n) \/ R!RemoveFlag(n)
  <2>1. rTask \in {3, 9, 10} /\ UNCHANGED <<rUp, rVersion, rMissed>>
    BY <1>0, <1>8, RabbitmqTasks DEF R!CreateFlag, R!JoinCluster, R!RemoveFlag
  <2>2. Worked(n)'
    BY <1>1, <1>6, <2>1 DEF Worked, Past
  <2>3. R!Offline' /\ LostKnown'
    BY <1>0, <1>1, <2>1 DEF R!Offline, LostKnown
  <2> QED
    BY <1>1, <1>4, <1>5, <2>2, <2>3
<1>9. CASE R!StopNode(n)
  <2>1. /\ rTask = 4 /\ UNCHANGED <<rVersion, rMissed>>
        /\ rUp'[n] = (rUp[n] /\ ~(n \in rToUpgrade \ {R!Master}))
    BY <1>0, <1>9, RabbitmqTasks DEF R!StopNode, R!TypeOK
  <2>2. Worked(n)'
    <3>1. ASSUME n \in rToUpgrade PROVE n # R!Master => ~rUp'[n]
      BY <2>1, <3>1
    <3>2. ASSUME n \notin rToUpgrade PROVE rUp'[n] = rUp[n]
      BY <1>0, <2>1, <3>2 DEF R!TypeOK
    <3> QED
      BY <1>1, <1>6, <2>1, <3>1, <3>2 DEF Worked, Past
  <2>3. \A m \in R!Nodes : rUp'[m] => rUp[m]
    BY <1>2, <2>1 DEF OnlyNode
  <2>4. R!Offline' /\ LostKnown'
    BY <1>0, <1>1, <2>1, <2>3 DEF R!Offline, LostKnown
  <2> QED
    BY <1>1, <1>4, <1>5, <2>2, <2>4
<1>10. CASE R!StopMaster(n)
  <2>1. /\ rTask = 5 /\ UNCHANGED <<rVersion, rMissed>>
        /\ rUp'[n] = (rUp[n] /\ ~(n \in rToUpgrade \cap {R!Master}))
    BY <1>0, <1>10, RabbitmqTasks DEF R!StopMaster, R!TypeOK
  <2>2. Worked(n)'
    <3>1. ASSUME n \in rToUpgrade PROVE IF n = R!Master THEN ~rUp'[n] ELSE rUp'[n] = rUp[n]
      BY <1>0, <2>1, <3>1 DEF R!TypeOK
    <3>2. ASSUME n \notin rToUpgrade PROVE rUp'[n] = rUp[n]
      BY <1>0, <2>1, <3>2 DEF R!TypeOK
    <3> QED
      BY <1>1, <1>6, <2>1, <3>1, <3>2 DEF Worked, Past
  <2>3. \A m \in R!Nodes : rUp'[m] => rUp[m]
    BY <1>2, <2>1 DEF OnlyNode
  <2>4. R!Offline' /\ LostKnown'
    BY <1>0, <1>1, <2>1, <2>3 DEF R!Offline, LostKnown
  <2> QED
    BY <1>1, <1>4, <1>5, <2>2, <2>4
<1>11. CASE R!UpgradePackages(n)
  <2>1. /\ rTask = 6 /\ rMissed' = rMissed \ {n}
        /\ rVersion'[n] = IF n \in rToUpgrade THEN "new" ELSE rVersion[n]
        /\ n \notin rToUpgrade => rUp'[n] = rUp[n]
    <3>1. PICK starts \in {FALSE, Ubuntu} :
            rUp' = [rUp EXCEPT ![n] = @ \/ (starts /\ n \in rToUpgrade /\ rVersion[n] = "old")]
      BY <1>11 DEF R!UpgradePackages
    <3>2. rUp'[n] = (rUp[n] \/ (starts /\ n \in rToUpgrade /\ rVersion[n] = "old"))
      BY <1>0, <3>1 DEF R!TypeOK
    <3>3. rUp[n] \in BOOLEAN
      BY <1>0 DEF R!TypeOK
    <3>4. n \notin rToUpgrade => rUp'[n] = rUp[n]
      BY <3>2, <3>3
    <3> QED
      BY <1>0, <1>11, <3>4, RabbitmqTasks DEF R!UpgradePackages, R!TypeOK
  <2>2. IF n \in rToUpgrade THEN ~rUp[n] ELSE rVersion[n] = "new" /\ n \notin rMissed
    BY <1>0, <1>1, <1>6, <2>1 DEF Worked, Past, LostKnown
  <2>3. Worked(n)'
    <3>1. n \notin rTodo' /\ rTask' = 6 /\ rToUpgrade' = rToUpgrade
      BY <1>1, <2>1
    <3>2. CASE n \in rToUpgrade
      <4>1. rVersion'[n] = "new"
        BY <2>1, <3>2
      <4> QED
        BY <3>1, <3>2, <4>1 DEF Worked, Past
    <3>3. CASE n \notin rToUpgrade
      <4>1. rVersion'[n] = "new" /\ rUp'[n]
        BY <1>1, <1>6, <2>1, <3>3 DEF Worked, Past
      <4> QED
        BY <3>1, <3>3, <4>1 DEF Worked, Past
    <3> QED
      BY <3>2, <3>3
  <2>4. ASSUME NEW m \in R!Nodes, m \notin rMissed, m # n, rUp[m] PROVE rVersion[m] = "new"
    <3>1. m \in rActive => Worked(m)
      BY <1>1
    <3>2. CASE m \in rActive
      BY <2>1, <2>4, <3>1, <3>2 DEF Worked, Past
    <3> QED
      BY <1>0, <1>1, <2>4, <3>2 DEF LostKnown
  <2>5. R!Offline'
    <3>1. \A m \in R!Nodes \ rMissed' : rUp'[m] => rVersion'[m] = "new"
      BY <1>0, <1>2, <2>1, <2>2, <2>4 DEF OnlyNode
    <3> QED
      BY <3>1 DEF R!Offline
  <2>6. LostKnown'
    BY <1>0, <1>1, <1>2, <2>1, <2>2 DEF LostKnown, OnlyNode, R!TypeOK
  <2> QED
    BY <1>1, <1>4, <1>5, <2>3, <2>5, <2>6
<1>12. CASE R!StartMaster(n) \/ R!StartNode(n)
  <2>1. /\ rTask \in {7, 8} /\ UNCHANGED <<rVersion, rMissed>>
        /\ rTask = 7 => rUp'[n] = (rUp[n] \/ n \in rToUpgrade \cap {R!Master})
        /\ rTask = 8 => rUp'[n] = (rUp[n] \/ n \in rToUpgrade \ {R!Master})
    BY <1>0, <1>12, RabbitmqTasks DEF R!StartMaster, R!StartNode, R!TypeOK
  <2>2. Worked(n)'
    <3>1. n \in rToUpgrade => Past(n, 6) /\ rVersion[n] = "new"
      BY <1>1, <1>6, <2>1 DEF Worked, Past
    <3>2. ASSUME n \notin rToUpgrade PROVE rUp[n] /\ rVersion[n] = "new"
      BY <1>1, <1>6, <2>1, <3>2 DEF Worked, Past
    <3>3. CASE rTask = 7
      <4>1. rUp'[n] = (rUp[n] \/ n \in rToUpgrade \cap {R!Master})
        BY <2>1, <3>3
      <4>2. rUp[n] \/ n \in rToUpgrade \cap {R!Master} => rUp'[n]
        BY <4>1, Zenon
      <4> QED
        BY <1>1, <2>1, <3>1, <3>2, <3>3, <4>2 DEF Worked, Past
    <3>4. CASE rTask = 8
      <4>1. rUp'[n] = (rUp[n] \/ n \in rToUpgrade \ {R!Master})
        BY <2>1, <3>4
      <4>2. rUp[n] => rUp'[n]
        BY <4>1, Zenon
      <4>3. n \in rToUpgrade /\ n = R!Master => rUp[n]
        BY <1>1, <1>6, <3>4 DEF Worked, Past
      <4> QED
        BY <1>1, <2>1, <3>1, <3>2, <3>4, <4>2, <4>3 DEF Worked, Past
    <3> QED
      BY <2>1, <3>3, <3>4
  <2>3. \A m \in rActive : rVersion[m] = "new"
    BY <1>0, <1>1, <2>1 DEF Worked, Past
  <2>4. \A m \in R!Nodes \ rMissed : rUp'[m] => rVersion[m] = "new"
    BY <1>0, <1>1, <1>2, <2>3 DEF LostKnown, OnlyNode
  <2>5. R!Offline' /\ LostKnown'
    BY <1>0, <1>1, <2>1, <2>4 DEF R!Offline, LostKnown
  <2> QED
    BY <1>1, <1>4, <1>5, <2>2, <2>5
<1> QED
  BY <1>7, <1>8, <1>9, <1>10, <1>11, <1>12 DEF R!Task

(* The play loses a node.                                                  *)
LEMMA RabbitmqFail ==
  ASSUME RabbitmqInv, NEW n \in R!Nodes, R!Fail(n)
  PROVE  RabbitmqInv'
<1> USE DEF RabbitmqInv, R!nodes
<1>0. R!TypeOK /\ R!Offline /\ LostKnown /\ rTask \in 1..10
  BY DEF R!TypeOK
<1>1. /\ rRunning /\ n \in rTodo /\ rTodo' = rTodo \ {n} /\ rActive' = rActive \ {n}
      /\ rMissed' = (IF rUp[n] /\ rVersion[n] = "old" THEN rMissed \cup {n} ELSE rMissed)
      /\ UNCHANGED <<rRunning, rTask, rToUpgrade, rClustered, rVersion, rUp, rFlag, rSettled>>
  BY DEF R!Fail
<1>2. rTask # 2
  BY <1>0, RabbitmqTasks DEF R!Fail, R!Applies
<1>3. R!TypeOK'
  BY <1>0, <1>1 DEF R!TypeOK
<1>4. OnlyNode(n)
  BY <1>1 DEF OnlyNode
<1>5. \A m \in rActive' : Worked(m)'
  BY <1>1, <1>4, RabbitmqOthers
<1>6. R!Offline'
  BY <1>0, <1>1 DEF R!Offline
<1>7. LostKnown'
  BY <1>0, <1>1 DEF LostKnown, R!TypeOK
<1> QED
  BY <1>1, <1>2, <1>3, <1>5, <1>6, <1>7

(* Whatever the play does, the invariant is kept.                          *)
LEMMA RabbitmqNext ==
  ASSUME RabbitmqInv, [R!Next]_(R!vars)
  PROVE  RabbitmqInv'
<1>1. CASE UNCHANGED R!vars
  BY <1>1 DEF R!vars, RabbitmqInv, R!TypeOK, R!Offline, LostKnown, Worked, Past
<1> QED
  BY <1>1, RabbitmqRun, RabbitmqTask, RabbitmqFail DEF R!Next, R!Play

(* Besides the package, only the task that starts the other nodes brings   *)
(* one of them up, and the master is then past being started, or was never *)
(* stopped.                                                                *)
LEMMA RabbitmqRises ==
  ASSUME RabbitmqInv, [R!Next]_(R!vars), NEW n \in R!Nodes \ {R!Master}, ~rUp[n], rUp'[n]
  PROVE  \/ rUp[R!Master] \/ R!Master \notin rActive
         \/ Ubuntu /\ R!Tasks[rTask] = "packages" /\ rVersion[n] = "old"
<1>0. R!TypeOK /\ rTask \in 1..10
  BY DEF RabbitmqInv, R!TypeOK
<1> SUFFICES ASSUME ~(Ubuntu /\ R!Tasks[rTask] = "packages" /\ rVersion[n] = "old")
             PROVE  rUp[R!Master] \/ R!Master \notin rActive
  OBVIOUS
<1>1. \E m \in R!Nodes : R!StartMaster(m) \/ R!StartNode(m)
  <2>1. rUp' # rUp
    OBVIOUS
  <2>2. ASSUME NEW m \in R!Nodes, R!StopNode(m) \/ R!StopMaster(m) PROVE FALSE
    BY <1>0, <2>2 DEF R!StopNode, R!StopMaster, R!TypeOK
  <2>3. ASSUME NEW m \in R!Nodes, R!UpgradePackages(m) PROVE FALSE
    <3>1. R!Tasks[rTask] = "packages"
      BY <2>3 DEF R!UpgradePackages, R!On
    <3>2. PICK starts \in {FALSE, Ubuntu} :
            rUp' = [rUp EXCEPT ![m] = @ \/ (starts /\ m \in rToUpgrade /\ rVersion[m] = "old")]
      BY <2>3 DEF R!UpgradePackages
    <3>3. m = n /\ starts /\ rVersion[n] = "old"
      BY <1>0, <3>2 DEF R!TypeOK
    <3> QED
      BY <3>1, <3>2, <3>3
  <2> QED
    BY <2>1, <2>2, <2>3 DEF R!Next, R!vars, R!Play, R!Task, R!ServerVersion, R!CreateFlag,
          R!JoinCluster, R!RemoveFlag, R!StartUpgrade, R!ClusterStatus,
          R!NextTask, R!Fail, R!Settle, R!nodes, R!play
<1>2. rTask = 8 /\ rRunning
  BY <1>0, <1>1, RabbitmqTasks DEF R!StartMaster, R!StartNode, R!On, R!TypeOK
<1>3. R!Master \in rActive => Worked(R!Master)
  BY <1>2 DEF RabbitmqInv
<1> QED
  BY <1>2, <1>3 DEF Worked, Past

(* The same in the composition, ...                                        *)
LEMMA RabbitmqSteps ==
  ASSUME RabbitmqInv, [Next]_vars
  PROVE  RabbitmqInv' /\ [R!Next]_(R!vars)
<1>1. [R!Next]_(R!vars)
  BY DEF Next, Kafka, Zookeeper, Rabbitmq, vars, rVars, R!vars
<1> QED
  BY <1>1, RabbitmqNext

(* ... and throughout it.                                                  *)
LEMMA RabbitmqInvCorrect == Spec => []RabbitmqInv
<1>1. Init => RabbitmqInv
  BY RabbitmqInit DEF Init
<1>2. RabbitmqInv /\ [Next]_vars => RabbitmqInv'
  BY RabbitmqSteps
<1> QED
  BY <1>1, <1>2, PTL DEF Spec

-----------------------------------------------------------------------------
(***************************************************************************)
(* What the plays promise, for every number of servers.                    *)
(***************************************************************************)

(* Whatever tasks fail, and however often the upgrade is started over: a   *)
(* broker runs from binaries that are there, with its own configuration,   *)
(* and at most one broker has lost its binaries, is down and unfinished.   *)
THEOREM KafkaKeptCorrect == Spec => []KafkaKept
<1>1. KP!IInv => K!TypeOK
  BY DEF KP!IInv, KP!TypeOK, K!TypeOK, K!Brokers, KP!Brokers, K!Versions, KP!Versions,
         K!Steps, KP!Steps, K!Properties, KP!Properties
<1>2. KP!IInv => K!LossContained
  BY KafkaAssumed, KP!InvContains DEF KP!LossContained, K!LossContained, K!Brokers, KP!Brokers
<1>3. KP!IInv => K!OwnConfiguration
  BY DEF KP!IInv, KP!Kept, K!OwnConfiguration, K!Brokers, KP!Brokers
<1> QED
  BY <1>1, <1>2, <1>3, KafkaInvCorrect, PTL DEF KafkaKept

(* Nor is a broker configured for a protocol its binaries do not know.     *)
THEOREM KafkaProtocolFitsBinariesCorrect == Spec => []KafkaProtocolFitsBinaries
<1>1. KP!IInv => KafkaProtocolFitsBinaries
  BY DEF KP!IInv, KP!Kept, KP!TypeOK, KP!Versions, KafkaProtocolFitsBinaries,
         K!ProtocolFitsBinaries, K!Brokers, KP!Brokers
<1> QED
  BY <1>1, KafkaInvCorrect, PTL

(* Whatever task fails, a ZooKeeper server can be started from a whole     *)
(* installation of its own configuration, unless its unpacking was cut off.*)
THEOREM ZookeeperKeptCorrect == Spec => []ZookeeperKept
<1>1. ZP!IInv => Z!TypeOK
  BY DEF ZP!IInv, ZP!TypeOK, Z!TypeOK, Z!Servers, ZP!Servers, Z!Versions, ZP!Versions
<1>2. ZP!IInv => Z!AlwaysStartable
  <2> SUFFICES ASSUME ZP!IInv, NEW s \in Z!Servers
               PROVE  \/ Z!Half(s)
                      \/ \E v \in Z!Versions : /\ zInstalled[s][v] = "whole"
                                               /\ zConf[s][v]
                                               /\ (v = "old" \/ zLink[s] = "new")
    BY DEF Z!AlwaysStartable
  <2>1. ZP!Kept(s) /\ zLink[s] \in {"old", "new"} /\ zInstalled[s]["new"] \in {"none", "part", "whole"}
    BY DEF ZP!IInv, ZP!TypeOK, Z!Servers, ZP!Servers, ZP!Versions
  <2> QED
    BY <2>1 DEF ZP!Kept, Z!Half, Z!Versions
<1>3. ZP!IInv => Z!OwnConfiguration
  <2> SUFFICES ASSUME ZP!IInv, NEW s \in Z!Servers, zUp[s]
               PROVE  zConf[s][Z!Runs(s)]
    BY DEF Z!OwnConfiguration
  <2>1. ZP!Kept(s) /\ zLink[s] \in {"old", "new"}
    BY DEF ZP!IInv, ZP!TypeOK, Z!Servers, ZP!Servers, ZP!Versions
  <2> QED
    BY <2>1 DEF ZP!Kept, Z!Runs
<1> QED
  BY <1>1, <1>2, <1>3, ZookeeperInvCorrect, PTL DEF ZookeeperKept

(* The ZooKeeper play leaves no dead server behind, likewise.              *)
THEOREM ZookeeperFinishedRunsCorrect == Spec => []ZookeeperFinishedRuns
<1>1. ZP!IInv => ZookeeperFinishedRuns
  BY DEF ZP!IInv, ZP!Served, ZP!Half, ZookeeperFinishedRuns, Z!FinishedRuns, Z!Half, Z!Servers,
         ZP!Servers
<1> QED
  BY <1>1, ZookeeperInvCorrect, PTL

(* Both upgrade one server at a time, through failures and new starts.     *)
THEOREM KeepsRollingCorrect == Spec => KeepsRolling
<1>1. Init => K!Rolling!UpgradeInit /\ Z!Rolling!UpgradeInit
  BY DEF Init, K!Init, Z!Init, K!Rolling!UpgradeInit, Z!Rolling!UpgradeInit
<1>2. KP!IInv /\ [Next]_vars => [K!Rolling!UpgradeNext]_(K!Rolling!upgradeVars)
  <2>1. ASSUME KP!IInv, [Next]_vars
        PROVE  [KP!Rolling!UpgradeNext]_(KP!Rolling!upgradeVars)
    BY <2>1, KafkaSteps, KafkaAssumed, KP!RollingStep
  <2>2. [KP!Rolling!UpgradeNext]_(KP!Rolling!upgradeVars)
        => [K!Rolling!UpgradeNext]_(K!Rolling!upgradeVars)
    BY DEF KP!Rolling!UpgradeNext, KP!Rolling!upgradeVars, K!Rolling!UpgradeNext,
           K!Rolling!upgradeVars, KP!Rolling!TakeDown, K!Rolling!TakeDown, KP!Rolling!Replace,
           K!Rolling!Replace, KP!Rolling!BringUp, K!Rolling!BringUp, KP!Brokers, K!Brokers
  <2> QED
    BY <2>1, <2>2
<1>3. ZP!IInv /\ [Next]_vars
      => [Z!Rolling!UpgradeNext \/ \E s \in Z!Servers : Z!Half(s)]_<<zLink, zUp>>
  <2>1. ASSUME ZP!IInv, [Next]_vars
        PROVE  [ZP!Rolling!UpgradeNext \/ \E s \in ZP!Servers : ZP!Half(s)]_<<zLink, zUp>>
    BY <2>1, ZookeeperSteps, ZookeeperAssumed, ZP!RollingStep
  <2>2. [ZP!Rolling!UpgradeNext \/ \E s \in ZP!Servers : ZP!Half(s)]_<<zLink, zUp>>
        => [Z!Rolling!UpgradeNext \/ \E s \in Z!Servers : Z!Half(s)]_<<zLink, zUp>>
    BY DEF ZP!Rolling!UpgradeNext, Z!Rolling!UpgradeNext, ZP!Rolling!TakeDown,
           Z!Rolling!TakeDown, ZP!Rolling!Replace, Z!Rolling!Replace, ZP!Rolling!BringUp,
           Z!Rolling!BringUp, ZP!Servers, Z!Servers, ZP!Half, Z!Half
  <2> QED
    BY <2>1, <2>2
<1> QED
  BY <1>1, <1>2, <1>3, KafkaInvCorrect, ZookeeperInvCorrect, PTL
  DEF Spec, KeepsRolling, K!KeepsRolling, Z!KeepsRolling, K!Rolling!UpgradeSpec

(* RabbitMQ nodes of two versions never run at once, but for nodes that    *)
(* the play has lost while they ran.                                       *)
THEOREM RabbitmqOfflineCorrect == Spec => []RabbitmqOffline
<1>1. RabbitmqInv => RabbitmqOffline
  BY DEF RabbitmqInv, RabbitmqOffline
<1> QED
  BY <1>1, RabbitmqInvCorrect, PTL

(* The play starts no RabbitMQ node before a master that is still in it:   *)
(* only the package of Ubuntu may do so.                                   *)
THEOREM RabbitmqMasterFirstCorrect == Spec => RabbitmqMasterFirst
<1>1. RabbitmqInv /\ [Next]_vars
      => [\A n \in R!Nodes \ {R!Master} :
             ~rUp[n] /\ rUp'[n] =>
                \/ rUp[R!Master] \/ R!Master \notin rActive
                \/ Ubuntu /\ R!Tasks[rTask] = "packages" /\ rVersion[n] = "old"]_(R!vars)
  BY RabbitmqSteps, RabbitmqRises
<1> QED
  BY <1>1, RabbitmqInvCorrect, PTL DEF Spec, RabbitmqMasterFirst, R!MasterFirst
=============================================================================
