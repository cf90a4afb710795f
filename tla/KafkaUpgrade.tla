---------------------------- MODULE KafkaUpgrade ----------------------------
(***************************************************************************)
(* The Kafka play of upgrade.yml: `serial: 1`, so the tasks run to the end *)
(* on one broker before the next one starts, and a task that fails ends    *)
(* the play.  The operator then starts the upgrade again, and it begins    *)
(* with the first broker; a flag file on a broker tells that its upgrade   *)
(* was not finished.                                                       *)
(*                                                                         *)
(* /opt/kafka is a link to the directory of one version; unpacking the     *)
(* archive puts the stock configuration into the new directory.            *)
(***************************************************************************)
EXTENDS Integers, FiniteSets

CONSTANTS
    N,              \* number of brokers
    FailPoints      \* the steps that may fail for reasons of their own

Brokers  == 1..N
Versions == {"old", "new"}

\* The tasks in their order.
TaskAfter(s) ==
    CASE s = "flag"         -> "stop"
      [] s = "stop"         -> "properties"
      [] s = "properties"   -> "unarchive"
      [] s = "unarchive"    -> "copy_config"
      [] s = "copy_config"  -> "link"
      [] s = "link"         -> "remove_old"
      [] s = "remove_old"   -> "log_dirs"
      [] s = "log_dirs"     -> "set_version"
      [] s = "set_version"  -> "start"
      [] s = "start"        -> "unflag"

Steps == {"probe", "flag", "stop", "properties", "unarchive", "copy_config", "link",
          "remove_old", "log_dirs", "set_version", "start", "unflag"}

\* What is assumed of the constants (MCRollingUpgrades).
Assumption == N \in Nat \ {0} /\ FailPoints \subseteq Steps

VARIABLES
    cur,            \* the broker whose turn it is, 0 if no upgrade runs
    step,           \* the task about to run on it
    oldVersion,     \* the fact kafka_version.old
    flag,           \* broker -> the upgrade flag file exists
    up,             \* broker -> the service runs
    link,           \* broker -> where /opt/kafka leads to
    installed,      \* broker -> versions whose directories exist
    config,         \* broker, version -> server.properties of that directory
    settled         \* no task fails by itself any more

vars == <<cur, step, oldVersion, flag, up, link, installed, config, settled>>
run  == <<cur, step, oldVersion>>
host == <<flag, up, link, installed, config>>

Properties == [own : BOOLEAN, protocol : {"unset"} \cup Versions]
Stock == [own |-> FALSE, protocol |-> "unset"]

TypeOK ==
    /\ cur \in 0..N
    /\ step \in Steps
    /\ oldVersion \in Versions
    /\ flag \in [Brokers -> BOOLEAN]
    /\ up \in [Brokers -> BOOLEAN]
    /\ link \in [Brokers -> Versions]
    /\ installed \in [Brokers -> SUBSET Versions]
    /\ config \in [Brokers -> [Versions -> Properties]]
    /\ settled \in BOOLEAN

Init ==
    /\ cur = 0
    /\ step = "probe"
    /\ oldVersion = "old"
    /\ flag = [b \in Brokers |-> FALSE]
    /\ up = [b \in Brokers |-> TRUE]
    /\ link = [b \in Brokers |-> "old"]
    /\ installed = [b \in Brokers |-> {"old"}]
    /\ config = [b \in Brokers |-> [v \in Versions |-> [Stock EXCEPT !.own = (v = "old")]]]
    /\ settled = FALSE
-----------------------------------------------------------------------------
StartUpgrade ==
    /\ cur = 0
    /\ cur' = 1
    /\ step' = "probe"
    /\ UNCHANGED <<oldVersion, host, settled>>

At(s) == cur # 0 /\ step = s

Proceed == step' = TaskAfter(step) /\ UNCHANGED <<cur, oldVersion, settled>>

Present == link[cur] \in installed[cur]

\* The pre-flight check, the version of the binaries and the flag file.
Probe ==
    /\ At("probe")
    /\ Present
    /\ oldVersion' = link[cur]
    /\ step' = IF flag[cur] \/ link[cur] = "old" THEN "flag" ELSE "unflag"
    /\ UNCHANGED <<cur, host, settled>>

CreateFlag ==
    /\ At("flag")
    /\ flag' = [flag EXCEPT ![cur] = TRUE]
    /\ UNCHANGED <<up, link, installed, config>>
    /\ Proceed

StopService ==
    /\ At("stop")
    /\ up' = [up EXCEPT ![cur] = FALSE]
    /\ UNCHANGED <<flag, link, installed, config>>
    /\ Proceed

UpdatePropertiesNew ==                  \* slip: the new protocol is written at once
    /\ At("properties")
    /\ config' = [config EXCEPT ![cur][link[cur]].protocol = "new"]
    /\ UNCHANGED <<flag, up, link, installed>>
    /\ Proceed

\* inter.broker.protocol.version is added unless it is there.
UpdateProperties ==
    /\ At("properties")
    /\ config' = [config EXCEPT ![cur][link[cur]].protocol =
                     IF @ = "unset" THEN oldVersion ELSE @]
    /\ UNCHANGED <<flag, up, link, installed>>
    /\ Proceed

Unarchive ==
    /\ At("unarchive")
    /\ installed' = [installed EXCEPT ![cur] = @ \cup {"new"}]
    /\ config' = [config EXCEPT ![cur]["new"] = Stock]
    /\ UNCHANGED <<flag, up, link>>
    /\ Proceed

\* From /opt/kafka, wherever it leads.
CopyConfiguration ==
    /\ At("copy_config")
    /\ config' = [config EXCEPT ![cur]["new"] = config[cur][link[cur]]]
    /\ UNCHANGED <<flag, up, link, installed>>
    /\ Proceed

Link ==
    /\ At("link")
    /\ link' = [link EXCEPT ![cur] = "new"]
    /\ UNCHANGED <<flag, up, installed, config>>
    /\ Proceed

\* The directory of the version that was found, which a failed run may have replaced.
RemovePrevious ==
    /\ At("remove_old")
    /\ installed' = [installed EXCEPT ![cur] = @ \ {oldVersion}]
    /\ UNCHANGED <<flag, up, link, config>>
    /\ Proceed

LogDirsUnnoticed ==                     \* slip: without pipefail the grep cannot fail
    /\ At("log_dirs")
    /\ UNCHANGED host
    /\ Proceed

\* The grep in server.properties fails if /opt/kafka leads nowhere.
LogDirs ==
    /\ At("log_dirs")
    /\ Present
    /\ UNCHANGED host
    /\ Proceed

SetVersion ==
    /\ At("set_version")
    /\ config' = [config EXCEPT ![cur][link[cur]].protocol = "new"]
    /\ UNCHANGED <<flag, up, link, installed>>
    /\ Proceed

StartService ==
    /\ At("start")
    /\ up' = [up EXCEPT ![cur] = TRUE]
    /\ UNCHANGED <<flag, link, installed, config>>
    /\ Proceed

NextBroker ==
    /\ cur' = IF cur = N THEN 0 ELSE cur + 1
    /\ step' = "probe"

RemoveFlag ==
    /\ At("unflag")
    /\ flag' = [flag EXCEPT ![cur] = FALSE]
    /\ NextBroker
    /\ UNCHANGED <<oldVersion, up, link, installed, config, settled>>

FailOnwards ==                          \* slip: the play goes on with the next broker
    /\ cur # 0
    /\ ~settled /\ step \in FailPoints
    /\ NextBroker
    /\ UNCHANGED <<oldVersion, host, settled>>

\* A task that fails ends the play.
Fail ==
    /\ cur # 0
    /\ \/ ~settled /\ step \in FailPoints
       \/ step \in {"probe", "log_dirs"} /\ ~Present
    /\ cur' = 0
    /\ step' = "probe"
    /\ UNCHANGED <<oldVersion, host, settled>>

\* The network, the disks and the repository behave from now on.
Settle ==
    /\ ~settled
    /\ settled' = TRUE
    /\ UNCHANGED <<run, host>>

Tasks ==
    \/ Probe \/ CreateFlag \/ StopService \/ UpdateProperties \/ Unarchive \/ CopyConfiguration
    \/ Link \/ RemovePrevious \/ LogDirs \/ SetVersion \/ StartService \/ RemoveFlag

Next == StartUpgrade \/ Tasks \/ Fail \/ Settle

Spec == Init /\ [][Next]_vars

(***************************************************************************)
(* Ansible gets on with a play it has started; an operator whose upgrade   *)
(* has failed starts it again.                                             *)
(***************************************************************************)
FairSpec == Spec /\ WF_vars(Tasks) /\ WF_vars(Fail) /\ WF_vars(StartUpgrade) /\ WF_vars(Settle)
-----------------------------------------------------------------------------
(***************************************************************************)
(* /opt/kafka always leads to a directory that exists: without it no later *)
(* run gets past the pre-flight check.                                     *)
(***************************************************************************)
BinariesKept == \A b \in Brokers : link[b] \in installed[b]

(***************************************************************************)
(* It does not, where an upgrade that failed behind the link was started   *)
(* over.  Such a broker is the only one, though, and is not taken for      *)
(* finished: it is down and has its flag, and all others run, from         *)
(* directories that exist.                                                 *)
(***************************************************************************)
LossContained ==
    \A b \in Brokers : link[b] \notin installed[b] =>
        /\ ~up[b] /\ flag[b]
        /\ \A other \in Brokers \ {b} : up[other]

(***************************************************************************)
(* A broker runs with its own configuration, never with the stock one of   *)
(* the archive, however often its upgrade was started over.                *)
(***************************************************************************)
OwnConfiguration == \A b \in Brokers : up[b] => config[b][link[b]].own

(***************************************************************************)
(* No broker is configured for a protocol its binaries do not know.        *)
(***************************************************************************)
ProtocolFitsBinaries ==
    \A b \in Brokers : config[b][link[b]].protocol = "new" => link[b] = "new"

(***************************************************************************)
(* The play is a rolling upgrade ("brokers are updated one by one",        *)
(* UPGRADE.md:239), also when it fails and is started over: one broker is  *)
(* down at a time, and its version changes only while it is.               *)
(***************************************************************************)
Rolling == INSTANCE RollingUpgrade WITH Nodes <- Brokers, version <- link, up <- up
KeepsRolling == Rolling!UpgradeSpec

(***************************************************************************)
(* Once tasks have stopped failing, every broker is running the new        *)
(* version before long, and further upgrades leave it running - unless one *)
(* has lost its binaries, which no start over brings back.                 *)
(***************************************************************************)
AllUpgraded == \A b \in Brokers : up[b] /\ link[b] = "new" /\ ~flag[b]
EventuallyUpgraded == settled ~> ([]AllUpgraded \/ []~BinariesKept)
=============================================================================
