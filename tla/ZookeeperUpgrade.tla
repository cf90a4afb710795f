-------------------------- MODULE ZookeeperUpgrade --------------------------
(***************************************************************************)
(* The ZooKeeper play of upgrade.yml: like the Kafka play, one server at a *)
(* time and with a flag file, but its tasks are written so that they can   *)
(* be started over: the archive is unpacked only where there is no bin/    *)
(* yet, and the previous version goes last, unless it is the new one.      *)
(***************************************************************************)
EXTENDS Integers, FiniteSets

CONSTANTS
    N,              \* number of servers
    FailPoints      \* the steps that may fail for reasons of their own

Servers  == 1..N
Versions == {"old", "new"}

Steps == <<"probe", "flag", "stop", "unarchive", "copy_conf", "link", "unit", "snapshot",
           "start", "remove_old", "unflag">>
Step(i) == Steps[i]
StepNames == {Steps[i] : i \in 1..11}

\* What is assumed of the constants (MCRollingUpgrades).
Assumption == N \in Nat \ {0} /\ FailPoints \subseteq StepNames

VARIABLES
    cur,            \* the server whose turn it is, 0 if no upgrade runs
    task,           \* index of the task about to run on it
    before,         \* the fact before_upgrade_zookeeper_version
    flag,           \* server -> the upgrade flag file exists
    up,             \* server -> the service runs
    link,           \* server -> where /opt/zookeeper leads to
    installed,      \* server, version -> its directory: "none", "part" or "whole"
    conf,           \* server, version -> conf/ is the server's own
    unit,           \* server -> the systemd unit names the link, or the old version
    snapshot,       \* server -> the data directory holds a snapshot
    settled         \* no task fails by itself any more

vars == <<cur, task, before, flag, up, link, installed, conf, unit, snapshot, settled>>
host == <<flag, up, link, installed, conf, unit, snapshot>>

TypeOK ==
    /\ cur \in 0..N
    /\ task \in 1..11
    /\ before \in Versions
    /\ flag \in [Servers -> BOOLEAN]
    /\ up \in [Servers -> BOOLEAN]
    /\ link \in [Servers -> Versions]
    /\ installed \in [Servers -> [Versions -> {"none", "part", "whole"}]]
    /\ conf \in [Servers -> [Versions -> BOOLEAN]]
    /\ unit \in [Servers -> {"link", "old"}]
    /\ snapshot \in [Servers -> BOOLEAN]
    /\ settled \in BOOLEAN

\* A server of 3.4 may have no snapshot, and a unit that names its version.
Init ==
    /\ cur = 0
    /\ task = 1
    /\ before = "old"
    /\ flag = [s \in Servers |-> FALSE]
    /\ up = [s \in Servers |-> TRUE]
    /\ link = [s \in Servers |-> "old"]
    /\ installed = [s \in Servers |-> [v \in Versions |-> IF v = "old" THEN "whole" ELSE "none"]]
    /\ conf = [s \in Servers |-> [v \in Versions |-> v = "old"]]
    /\ unit \in [Servers -> {"link", "old"}]
    /\ snapshot \in [Servers -> BOOLEAN]
    /\ settled = FALSE

Runs(s) == IF unit[s] = "link" THEN link[s] ELSE "old"
-----------------------------------------------------------------------------
StartUpgrade ==
    /\ cur = 0
    /\ cur' = 1
    /\ task' = 1
    /\ UNCHANGED <<before, host, settled>>

At(name) == cur # 0 /\ Step(task) = name

Proceed == task' = task + 1 /\ UNCHANGED <<cur, before, settled>>

Present == installed[cur][link[cur]] # "none"

Probe ==
    /\ At("probe")
    /\ Present
    /\ before' = link[cur]
    /\ task' = IF flag[cur] \/ link[cur] = "old" THEN 2 ELSE 11
    /\ UNCHANGED <<cur, host, settled>>

CreateFlag ==
    /\ At("flag")
    /\ flag' = [flag EXCEPT ![cur] = TRUE]
    /\ UNCHANGED <<up, link, installed, conf, unit, snapshot>>
    /\ Proceed

StopService ==
    /\ At("stop")
    /\ up' = [up EXCEPT ![cur] = FALSE]
    /\ UNCHANGED <<flag, link, installed, conf, unit, snapshot>>
    /\ Proceed

\* A directory that has a bin/ counts as unpacked.
Unarchive ==
    /\ At("unarchive")
    /\ IF installed[cur]["new"] = "none"
       THEN /\ installed' = [installed EXCEPT ![cur]["new"] = "whole"]
            /\ conf' = [conf EXCEPT ![cur]["new"] = FALSE]
       ELSE UNCHANGED <<installed, conf>>
    /\ UNCHANGED <<flag, up, link, unit, snapshot>>
    /\ Proceed

CopyConfiguration ==
    /\ At("copy_conf")
    /\ conf' = [conf EXCEPT ![cur]["new"] = conf[cur][link[cur]]]
    /\ UNCHANGED <<flag, up, link, installed, unit, snapshot>>
    /\ Proceed

Link ==
    /\ At("link")
    /\ link' = [link EXCEPT ![cur] = "new"]
    /\ UNCHANGED <<flag, up, installed, conf, unit, snapshot>>
    /\ Proceed

KeepUnit ==                             \* slip: the unit keeps the path of its version
    /\ At("unit")
    /\ UNCHANGED host
    /\ Proceed

ReconfigureService ==
    /\ At("unit")
    /\ unit' = [unit EXCEPT ![cur] = "link"]
    /\ UNCHANGED <<flag, up, link, installed, conf, snapshot>>
    /\ Proceed

KeepNoSnapshot ==                       \* slip: the empty snapshot is not copied
    /\ At("snapshot")
    /\ UNCHANGED host
    /\ Proceed

CopySnapshot ==
    /\ At("snapshot")
    /\ snapshot' = [snapshot EXCEPT ![cur] = TRUE]
    /\ UNCHANGED <<flag, up, link, installed, conf, unit>>
    /\ Proceed

\* 3.5 does not start without a snapshot, nor from half a directory; systemd reports nothing.
ComesUp ==
    /\ installed[cur][Runs(cur)] = "whole"
    /\ Runs(cur) = "new" => snapshot[cur]

StartService ==
    /\ At("start")
    /\ up' = [up EXCEPT ![cur] = ComesUp]
    /\ UNCHANGED <<flag, link, installed, conf, unit, snapshot>>
    /\ Proceed

RemoveAny ==                            \* slip: the guard on the version is missing
    /\ At("remove_old")
    /\ installed' = [installed EXCEPT ![cur][before] = "none"]
    /\ UNCHANGED <<flag, up, link, conf, unit, snapshot>>
    /\ Proceed

RemovePrevious ==
    /\ At("remove_old")
    /\ installed' = [installed EXCEPT ![cur][before] = IF before = "new" THEN @ ELSE "none"]
    /\ UNCHANGED <<flag, up, link, conf, unit, snapshot>>
    /\ Proceed

NextServer ==
    /\ cur' = IF cur = N THEN 0 ELSE cur + 1
    /\ task' = 1

RemoveFlag ==
    /\ At("unflag")
    /\ flag' = [flag EXCEPT ![cur] = FALSE]
    /\ NextServer
    /\ UNCHANGED <<before, up, link, installed, conf, unit, snapshot, settled>>

\* A task that fails ends the play; unpacking may have left bin/ and not all the rest.
Fail ==
    /\ cur # 0
    /\ \/ ~settled /\ Step(task) \in FailPoints
       \/ Step(task) = "probe" /\ ~Present
    /\ cur' = 0
    /\ task' = 1
    /\ \/ UNCHANGED installed
       \/ /\ Step(task) = "unarchive" /\ installed[cur]["new"] = "none"
          /\ installed' = [installed EXCEPT ![cur]["new"] = "part"]
    /\ UNCHANGED <<before, flag, up, link, conf, unit, snapshot, settled>>

Settle ==
    /\ ~settled
    /\ settled' = TRUE
    /\ UNCHANGED <<cur, task, before, host>>

Tasks ==
    \/ Probe \/ CreateFlag \/ StopService \/ Unarchive \/ CopyConfiguration \/ Link
    \/ ReconfigureService \/ CopySnapshot \/ StartService \/ RemovePrevious \/ RemoveFlag

Next == StartUpgrade \/ Tasks \/ Fail \/ Settle

Spec == Init /\ [][Next]_vars

\* As for Kafka: plays run on, and a failed upgrade is started again.
FairSpec == Spec /\ WF_vars(Tasks) /\ WF_vars(Fail) /\ WF_vars(StartUpgrade) /\ WF_vars(Settle)
-----------------------------------------------------------------------------
\* An unpacking that was cut off stays what it is: the next upgrade skips it.
Half(s) == installed[s]["new"] = "part"

(***************************************************************************)
(* A server always has one whole installation of its own configuration     *)
(* that it can be started from, whichever task the last run failed at; one *)
(* whose unpacking was cut off loses it with the previous version.         *)
(***************************************************************************)
AlwaysStartable ==
    \A s \in Servers :
        \/ Half(s)
        \/ \E v \in Versions : /\ installed[s][v] = "whole"
                              /\ conf[s][v]
                              /\ (v = "old" \/ link[s] = "new")

(***************************************************************************)
(* A server runs with its own configuration, never with the archive's.     *)
(***************************************************************************)
OwnConfiguration == \A s \in Servers : up[s] => conf[s][Runs(s)]

(***************************************************************************)
(* A server whose upgrade is over, flag removed, runs: the play does not   *)
(* go on to the next one leaving a dead server behind ("upgrade one and    *)
(* then start with the rest one by one", UPGRADE.md:247), unless its       *)
(* unpacking was cut off, which the upgrade then takes for done.           *)
(***************************************************************************)
FinishedRuns == \A s \in Servers : ~flag[s] => up[s] \/ Half(s)

(***************************************************************************)
(* The play is a rolling upgrade, also when it fails and is started over,  *)
(* until an unpacking was cut off.                                         *)
(***************************************************************************)
Rolling == INSTANCE RollingUpgrade WITH Nodes <- Servers, version <- link, up <- up
KeepsRolling ==
    /\ Rolling!UpgradeInit
    /\ [][Rolling!UpgradeNext \/ \E s \in Servers : Half(s)]_<<link, up>>

(***************************************************************************)
(* Once tasks have stopped failing, every server runs the new version from *)
(* some point on, if all that is unpacked is whole.                        *)
(***************************************************************************)
AllUpgraded == \A s \in Servers : up[s] /\ Runs(s) = "new" /\ conf[s]["new"]
EventuallyUpgraded == (settled /\ \A s \in Servers : ~Half(s)) ~> []AllUpgraded
=============================================================================
