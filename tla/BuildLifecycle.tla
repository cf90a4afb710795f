--------------------------- MODULE BuildLifecycle ---------------------------
(***************************************************************************)
(* The life of one cluster on Azure as the commands `lambdastack apply`,   *)
(* `upgrade` and `delete` drive it: the build directory they share (the    *)
(* manifest, the Ansible inventory, the Terraform state, the backup of an  *)
(* upgrade), the machines in the cloud, and the machines that joined the   *)
(* Kubernetes control plane or became PostgreSQL servers.                  *)
(*                                                                         *)
(* The CLI keeps no record of a run: what one run knows of the earlier     *)
(* ones is what they left in the build directory, and a run may stop       *)
(* anywhere (the process is killed, or Terraform or Ansible fails and the  *)
(* exception ends it).  The promise at stake is that a machine that joined *)
(* is never destroyed by an apply; the two assertions of ApplyEngine that  *)
(* should keep it compare the new configuration with the inventory only.   *)
(*                                                                         *)
(* Mishaps names what the operator or the environment does that the        *)
(* assertions do not take into account; with Mishaps = {} they suffice.    *)
(***************************************************************************)
EXTENDS Integers, FiniteSets

CONSTANTS
    MaxCount,       \* bound on the count of a component
    Configs,        \* the input files an operator may write
    Mishaps         \* subset of AllMishaps

Components == {"kubernetes_master", "postgresql", "single_machine"}
Groups     == {"kubernetes_master", "postgresql"}
Files      == {"inventory", "manifest", "backup", "terraform"}

AllMishaps ==
    {"stale_backup",     \* apply is run while an upgrade's backup is still in the build directory
     "topology_change",  \* single_machine is switched on or off in a living cluster
     "torn_write",       \* the process dies while it writes the inventory
     "partial_infra"}    \* --no-infra on machines that are not the configured ones

ASSUME MaxCountAssumption == MaxCount \in Nat \ {0}
ASSUME MishapsAssumption  == Mishaps \subseteq AllMishaps

\* A single machine cluster has no other component (CLUSTER.md:621).
IsSingle(c) == c["single_machine"] > 0
ASSUME ConfigsAssumption ==
    /\ Configs # {}
    /\ Configs \subseteq [Components -> 0..MaxCount]
    /\ \A c \in Configs :
          IF IsSingle(c) THEN /\ c["single_machine"] = 1
                              /\ c["kubernetes_master"] = 0
                              /\ c["postgresql"] = 0
                         ELSE c["kubernetes_master"] > 0

\* Azure names a machine after its component and its index.
Machine == Components \X (0..(MaxCount - 1))

Target(c) == {m \in Machine : m[2] < c[m[1]]}

\* The roles of Groups that the feature mapping gives to a component.
RolesMapping ==
    [kubernetes_master |-> {"kubernetes_master"},
     postgresql        |-> {"postgresql"},
     single_machine    |-> {"kubernetes_master", "postgresql"}]

NoMembers == [g \in Groups |-> {}]

NoConfig == [c \in Components |-> 0]      \* no input file: Configs never holds it

(***************************************************************************)
(* The inventory: the hosts of the components the configuration counts,    *)
(* under the groups of their roles.  A missing file, an empty one and one  *)
(* without these groups read the same: NoMembers.                          *)
(***************************************************************************)
InventoryOf(c, hosts) ==
    [g \in Groups |-> {m \in hosts : c[m[1]] >= 1 /\ g \in RolesMapping[m[1]]}]

VARIABLES
    config,         \* the operator's input file
    cloud,          \* machines that exist
    provisioned,    \* group -> machines on which its role has run
    inventory,      \* group -> hosts, the inventory file
    manifest,       \* manifest.yml holds a cluster document
    tfstate,        \* terraform.tfstate exists
    backup,         \* the backup directory of the build directory
    pc,             \* what the running command is about to do, "idle" if none runs
    run,            \* its input: configuration and options
    pending,        \* files a recursive copy or removal has still to handle
    attempted,      \* history: configuration of the last accepted apply
    settled         \* "no", or the one command the operator repeats, undisturbed, from now on

files == <<inventory, manifest, tfstate, backup>>
vars  == <<config, cloud, provisioned, inventory, manifest, tfstate, backup,
           pc, run, pending, attempted, settled>>

NoBackup == [present |-> FALSE, inventory |-> NoMembers, manifest |-> FALSE]
Membership == [Groups -> SUBSET Machine]

ApplyPC   == {"save_manifest", "terraform", "collect", "inventory", "roles"}
UpgradePC == {"backup", "restore", "upgrade"}
DeletePC  == {"destroy", "rmtree"}

TypeOK ==
    /\ config \in Configs
    /\ cloud \subseteq Machine
    /\ provisioned \in Membership
    /\ inventory \in Membership
    /\ manifest \in BOOLEAN
    /\ tfstate \in BOOLEAN
    /\ backup \in [present : BOOLEAN, inventory : Membership, manifest : BOOLEAN]
    /\ pc \in {"idle"} \cup ApplyPC \cup UpgradePC \cup DeletePC
    /\ run \in [cfg : Configs, noInfra : BOOLEAN, skipConfig : BOOLEAN]
    /\ pending \subseteq Files
    /\ attempted \in Configs \cup {NoConfig}
    /\ settled \in {"no", "apply", "upgrade"}

Init ==
    /\ config \in Configs
    /\ cloud = {}
    /\ provisioned = NoMembers
    /\ inventory = NoMembers
    /\ manifest = FALSE
    /\ tfstate = FALSE
    /\ backup = NoBackup
    /\ pc = "idle"
    /\ run = [cfg |-> config, noInfra |-> FALSE, skipConfig |-> FALSE]
    /\ pending = {}
    /\ attempted = NoConfig
    /\ settled = "no"
-----------------------------------------------------------------------------
(* The operator.                                                           *)

EditConfig(c) ==
    /\ pc = "idle"
    /\ settled = "no"
    /\ "topology_change" \in Mishaps \/ IsSingle(c) = IsSingle(config)
    /\ config' = c
    /\ UNCHANGED <<cloud, provisioned, files, pc, run, pending, attempted, settled>>

SettleOn(command) ==
    /\ settled = "no"
    /\ settled' = command
    /\ UNCHANGED <<config, cloud, provisioned, files, pc, run, pending, attempted>>
-----------------------------------------------------------------------------
(* lambdastack apply                                                       *)

AssertNoMasterLoss(c) ==                \* slip: one master fewer is let through
    Cardinality(inventory["kubernetes_master"]) <= c["kubernetes_master"] + 1

AssertMasterUpscale(c) ==               \* slip: an unchanged count is refused
    \/ inventory["kubernetes_master"] = {}
    \/ Cardinality(inventory["kubernetes_master"]) < c["kubernetes_master"]

AssertNoMasterDownscale(c) ==
    \/ IsSingle(c)
    \/ inventory["kubernetes_master"] = {}
    \/ Cardinality(inventory["kubernetes_master"]) <= c["kubernetes_master"]

AssertNoPostgresAnyNumber(c) == TRUE     \* slip: the assertion is not called

AssertNoPostgresNodesNumberChange(c) ==
    \/ inventory["postgresql"] = {}
    \/ Cardinality(inventory["postgresql"]) = c["postgresql"]

Accepts(c) ==
    /\ AssertNoMasterDownscale(c)
    /\ AssertNoPostgresNodesNumberChange(c)

\* A refused apply raises before it has changed anything, so it is no step.
\* Without the mishap the operator clears the backup of an earlier upgrade.
StartApply(noInfra, skipConfig) ==
    /\ pc = "idle"
    /\ Accepts(config)
    /\ settled # "upgrade"
    /\ settled = "apply" => ~noInfra /\ ~skipConfig
    /\ noInfra /\ "partial_infra" \notin Mishaps => cloud = Target(config)
    /\ run' = [cfg |-> config, noInfra |-> noInfra, skipConfig |-> skipConfig]
    /\ attempted' = config
    /\ pc' = "save_manifest"
    /\ backup' = IF "stale_backup" \in Mishaps THEN backup ELSE NoBackup
    /\ UNCHANGED <<config, cloud, provisioned, inventory, manifest, tfstate, pending, settled>>

SaveManifestSwapped ==                  \* slip: --no-infra read the wrong way round
    /\ pc = "save_manifest"
    /\ manifest' = TRUE
    /\ pc' = IF run.noInfra THEN "terraform" ELSE "collect"
    /\ UNCHANGED <<config, cloud, provisioned, inventory, tfstate, backup, run,
                   pending, attempted, settled>>

SaveManifest ==
    /\ pc = "save_manifest"
    /\ manifest' = TRUE
    /\ pc' = IF run.noInfra THEN "collect" ELSE "terraform"
    /\ UNCHANGED <<config, cloud, provisioned, inventory, tfstate, backup, run,
                   pending, attempted, settled>>

\* Terraform destroys a machine; what had been set up on it goes with it.
Lose(m) ==
    /\ cloud' = cloud \ {m}
    /\ provisioned' = [g \in Groups |-> provisioned[g] \ {m}]

\* terraform apply: resources come and go one at a time, each recorded in the state.
TerraformCreate(m) ==
    /\ pc = "terraform"
    /\ m \in Target(run.cfg) \ cloud
    /\ cloud' = cloud \cup {m}
    /\ tfstate' = TRUE
    /\ UNCHANGED <<config, provisioned, inventory, manifest, backup, pc, run,
                   pending, attempted, settled>>

TerraformDestroy(m) ==
    /\ pc = "terraform"
    /\ m \in cloud \ Target(run.cfg)
    /\ Lose(m)
    /\ UNCHANGED <<config, files, pc, run, pending, attempted, settled>>

TerraformDone ==
    /\ pc = "terraform"
    /\ cloud = Target(run.cfg)
    /\ pc' = "collect"
    /\ UNCHANGED <<config, cloud, provisioned, files, run, pending, attempted, settled>>

\* The configuration and infrastructure documents replace the first manifest.
CollectInfrastructureConfig ==
    /\ pc = "collect"
    /\ manifest' = TRUE
    /\ pc' = IF run.skipConfig THEN "idle" ELSE "inventory"
    /\ UNCHANGED <<config, cloud, provisioned, inventory, tfstate, backup, run,
                   pending, attempted, settled>>

CreateInventory ==
    /\ pc = "inventory"
    /\ inventory' = InventoryOf(run.cfg, cloud)
    /\ pc' = "roles"
    /\ UNCHANGED <<config, cloud, provisioned, manifest, tfstate, backup, run,
                   pending, attempted, settled>>

\* The role of group g runs on host m; kubernetes-master comes before postgresql.
Provision(g, m) ==
    /\ pc = "roles"
    /\ m \in inventory[g] \ provisioned[g]
    /\ m \in cloud
    /\ g = "postgresql" => inventory["kubernetes_master"] \subseteq provisioned["kubernetes_master"]
    /\ provisioned' = [provisioned EXCEPT ![g] = @ \cup {m}]
    /\ UNCHANGED <<config, cloud, files, pc, run, pending, attempted, settled>>

FinishApplyEarly ==                     \* slip: done when the first role is done
    /\ pc = "roles"
    /\ \E g \in Groups : inventory[g] \subseteq provisioned[g]
    /\ pc' = "idle"
    /\ UNCHANGED <<config, cloud, provisioned, files, run, pending, attempted, settled>>

FinishApply ==
    /\ pc = "roles"
    /\ \A g \in Groups : inventory[g] \subseteq provisioned[g]
    /\ pc' = "idle"
    /\ UNCHANGED <<config, cloud, provisioned, files, run, pending, attempted, settled>>
-----------------------------------------------------------------------------
(* lambdastack upgrade                                                     *)

\* Any backup directory there is will do, finished or not, however old.
StartUpgrade ==
    /\ pc = "idle"
    /\ settled # "apply"
    /\ attempted' = NoConfig
    /\ IF backup.present
       THEN /\ pc' = "restore"
            /\ UNCHANGED <<backup, pending>>
       ELSE /\ pc' = "backup"
            /\ backup' = [NoBackup EXCEPT !.present = TRUE]
            /\ pending' = {"inventory", "manifest"}
    /\ UNCHANGED <<config, cloud, provisioned, inventory, manifest, tfstate, run, settled>>

BackupFile(f) ==
    /\ pc = "backup"
    /\ f \in pending
    /\ pending' = pending \ {f}
    /\ backup' = IF f = "inventory" THEN [backup EXCEPT !.inventory = inventory]
                                    ELSE [backup EXCEPT !.manifest = manifest]
    /\ UNCHANGED <<config, cloud, provisioned, inventory, manifest, tfstate, pc, run,
                   attempted, settled>>

BackupDoneAnyway ==                     \* slip: goes on when a file could not be copied
    /\ pc = "backup"
    /\ pc' = "restore"
    /\ pending' = {}
    /\ UNCHANGED <<config, cloud, provisioned, files, run, attempted, settled>>

BackupDone ==
    /\ pc = "backup"
    /\ pending = {}
    /\ pc' = "restore"
    /\ UNCHANGED <<config, cloud, provisioned, files, run, pending, attempted, settled>>

\* An inventory without a repository group, or no cluster document, ends the upgrade.
Restorable == backup.inventory # NoMembers /\ backup.manifest

UpgradeInventory ==
    /\ pc = "restore"
    /\ IF Restorable THEN /\ inventory' = backup.inventory
                          /\ pc' = "upgrade"
                     ELSE /\ pc' = "idle"
                          /\ UNCHANGED inventory
    /\ UNCHANGED <<config, cloud, provisioned, manifest, tfstate, backup, run,
                   pending, attempted, settled>>

\* The upgrade playbooks change versions, not membership: either way the run ends.
FinishUpgrade ==
    /\ pc = "upgrade"
    /\ pc' = "idle"
    /\ UNCHANGED <<config, cloud, provisioned, files, run, pending, attempted, settled>>
-----------------------------------------------------------------------------
(* lambdastack delete                                                      *)

StartDelete ==
    /\ pc = "idle"
    /\ settled = "no"
    /\ manifest
    /\ pc' = "destroy"
    /\ attempted' = NoConfig
    /\ UNCHANGED <<config, cloud, provisioned, files, run, pending, settled>>

\* terraform destroy removes what its state records; the members go with it.
DestroyMachine(m) ==
    /\ pc = "destroy"
    /\ tfstate
    /\ m \in cloud
    /\ Lose(m)
    /\ UNCHANGED <<config, files, pc, run, pending, attempted, settled>>

DestroyGivenUp ==                       \* slip: goes on when terraform destroy has failed
    /\ pc = "destroy"
    /\ pc' = "rmtree"
    /\ pending' = Files
    /\ UNCHANGED <<config, cloud, provisioned, files, run, attempted, settled>>

DestroyDone ==
    /\ pc = "destroy"
    /\ tfstate => cloud = {}
    /\ pc' = "rmtree"
    /\ pending' = Files
    /\ UNCHANGED <<config, cloud, provisioned, files, run, attempted, settled>>

RemoveFile(f) ==
    /\ pc = "rmtree"
    /\ f \in pending
    /\ pending' = pending \ {f}
    /\ inventory' = IF f = "inventory" THEN NoMembers ELSE inventory
    /\ manifest' = (manifest /\ f # "manifest")
    /\ backup' = IF f = "backup" THEN NoBackup ELSE backup
    /\ tfstate' = (tfstate /\ f # "terraform")
    /\ UNCHANGED <<config, cloud, provisioned, pc, run, attempted, settled>>

FinishDelete ==
    /\ pc = "rmtree"
    /\ pending = {}
    /\ pc' = "idle"
    /\ UNCHANGED <<config, cloud, provisioned, files, run, pending, attempted, settled>>
-----------------------------------------------------------------------------
(***************************************************************************)
(* The command ends before it is done.  The files are opened for writing   *)
(* and truncated before they are written, so dying inside a save loses the *)
(* old content too.                                                        *)
(***************************************************************************)
Crash ==
    /\ pc # "idle"
    /\ settled = "no"
    /\ pc' = "idle"
    /\ pending' = {}
    /\ \/ UNCHANGED <<inventory, manifest>>
       \/ /\ pc \in {"save_manifest", "collect"}
          /\ manifest' = FALSE
          /\ UNCHANGED inventory
       \/ /\ pc \in {"inventory", "restore"}
          /\ "torn_write" \in Mishaps
          /\ pc = "restore" => Restorable
          /\ inventory' = NoMembers
          /\ UNCHANGED manifest
    /\ UNCHANGED <<config, cloud, provisioned, tfstate, backup, run, attempted, settled>>

ApplyStep ==
    \/ SaveManifest
    \/ \E m \in Machine : TerraformCreate(m) \/ TerraformDestroy(m)
    \/ TerraformDone
    \/ CollectInfrastructureConfig
    \/ CreateInventory
    \/ \E g \in Groups, m \in Machine : Provision(g, m)
    \/ FinishApply

UpgradeStep ==
    \/ \E f \in Files : BackupFile(f)
    \/ BackupDone
    \/ UpgradeInventory
    \/ FinishUpgrade

DeleteStep ==
    \/ \E m \in Machine : DestroyMachine(m)
    \/ DestroyDone
    \/ \E f \in Files : RemoveFile(f)
    \/ FinishDelete

Operator ==
    \/ \E c \in Configs : EditConfig(c)
    \/ \E command \in {"apply", "upgrade"} : SettleOn(command)
    \/ \E noInfra, skipConfig \in BOOLEAN : StartApply(noInfra, skipConfig)
    \/ StartUpgrade
    \/ StartDelete

Next == Operator \/ ApplyStep \/ UpgradeStep \/ DeleteStep \/ Crash

Spec == Init /\ [][Next]_vars

(***************************************************************************)
(* A command that runs gets on with it (the CLI is one thread that waits   *)
(* for its children), and an operator who has settled on a command starts  *)
(* it again whenever it has ended and may be started.                      *)
(***************************************************************************)
LiveSpec ==
    /\ Spec
    /\ WF_vars(ApplyStep)
    /\ WF_vars(UpgradeStep)
    /\ WF_vars(DeleteStep)
    /\ WF_vars(settled = "apply" /\ StartApply(FALSE, FALSE))
    /\ WF_vars(settled = "upgrade" /\ StartUpgrade)
-----------------------------------------------------------------------------
(* Properties.                                                             *)

(***************************************************************************)
(* No step but those of `delete` takes a machine from the control plane or *)
(* from the PostgreSQL servers ("It is not supported yet to scale-down     *)
(* clusters (master count cannot be decreased)", CLUSTER.md:984).          *)
(***************************************************************************)
MembersStay ==
    [][pc # "destroy" => \A g \in Groups : provisioned[g] \subseteq provisioned'[g]]_vars

(***************************************************************************)
(* The inventory knows every member: it is the only record the two         *)
(* assertions consult, so a member missing from it has lost its guard.     *)
(***************************************************************************)
InventoryKnowsMembers == \A g \in Groups : provisioned[g] \subseteq inventory[g]

(***************************************************************************)
(* While a machine exists the Terraform state that can destroy it exists,  *)
(* whatever `delete` and its crashes remove: no orphans in the cloud.      *)
(***************************************************************************)
NoOrphans == cloud # {} => tfstate

(***************************************************************************)
(* "All automation is idempotent so you can run it as many times as you    *)
(* wish" (README.md:36): the configuration of an accepted apply, finished  *)
(* or not, is accepted again as long as no other command came in between.  *)
(* That holds of clusters of several machines.  The inventory of a single  *)
(* machine has a PostgreSQL server that its template does not count        *)
(* (postgresql: 0), so its second apply is refused.                        *)
(***************************************************************************)
RerunAccepted == attempted # NoConfig /\ ~IsSingle(attempted) => Accepts(attempted)

(***************************************************************************)
(* Once the failures stop, re-running an accepted apply brings exactly the *)
(* configured machines into the cloud and provisions all of them.          *)
(***************************************************************************)
Delivered ==
    /\ cloud = Target(config)
    /\ provisioned = InventoryOf(config, cloud)
Converges == (settled = "apply" /\ pc = "idle" /\ Accepts(config)) ~> Delivered

(***************************************************************************)
(* Once the failures stop, an upgrade of a cluster that has an inventory   *)
(* and a manifest gets past its backup, repeated or not ("[Upgrade]        *)
(* lambdastack may fail after re-running", fixed by CHANGELOG-1.1.md:44),  *)
(* unless an interrupted upgrade has left half a backup, which every later *)
(* one then takes for the whole.                                           *)
(***************************************************************************)
WholeBackupGetsGoing ==
    (/\ settled = "upgrade"
     /\ pc = "idle"
     /\ manifest
     /\ inventory # NoMembers
     /\ backup.present => Restorable) ~> (pc = "upgrade")

(***************************************************************************)
(* The promise the whole of apply, upgrade and delete keeps: machines come *)
(* and go, members stay until the cluster is torn down.                    *)
(***************************************************************************)
Promise == INSTANCE ScaleOutCluster WITH
    Groups   <- Groups,
    Machines <- Machine,
    machines <- cloud,
    members  <- provisioned,
    tearing  <- pc = "destroy"
KeepsPromise == Promise!AbsSpec
-----------------------------------------------------------------------------
(***************************************************************************)
(* Why the assertions suffice when nothing of AllMishaps happens.  They    *)
(* compare counts, and a count stands for a set of machines only because   *)
(* the hosts of a group are always the first ones of its component         *)
(* (FirstHosts); they read the inventory, which speaks for the members     *)
(* only because every inventory there is, the one of a backup included,    *)
(* knows them all (InventoryKnowsMembers, BackupKnowsMembers).             *)
(***************************************************************************)
First(g, n) == {m \in Machine : m[1] = g /\ m[2] < n}

FirstHosts(inv) ==
    \A g \in Groups :
        IF IsSingle(config) THEN inv[g] \subseteq First("single_machine", 1)
                            ELSE \E n \in 0..MaxCount : inv[g] = First(g, n)

MembersAlive == \A g \in Groups : provisioned[g] \subseteq cloud

BackupKnowsMembers ==
    /\ backup.inventory # NoMembers =>
          \A g \in Groups : provisioned[g] \subseteq backup.inventory[g]
    /\ pc \in ApplyPC => backup.inventory = NoMembers

HostsConfigured ==
    /\ pc \in {"save_manifest", "terraform", "collect", "inventory"} =>
          \A g \in Groups : inventory[g] \subseteq Target(run.cfg)
    /\ pc \in {"collect", "inventory"} \/ (pc = "save_manifest" /\ run.noInfra) =>
          cloud = Target(run.cfg)

\* `delete` removes files only once Terraform has left no machine.
RemovesAfterDestroy == pc = "rmtree" => cloud = {}

(***************************************************************************)
(* The inductive invariant behind InventoryKnowsMembers, MembersStay and   *)
(* KeepsPromise: what every step of the three commands preserves.          *)
(***************************************************************************)
IInv ==
    /\ TypeOK
    /\ IsSingle(run.cfg) = IsSingle(config)
    /\ MembersAlive
    /\ InventoryKnowsMembers
    /\ BackupKnowsMembers
    /\ HostsConfigured
    /\ FirstHosts(inventory)
    /\ FirstHosts(backup.inventory)
=============================================================================
