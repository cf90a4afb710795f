# TLA+ models of LambdaStack

LambdaStack is a Python command line program that builds and looks after clusters of
machines.  It reads YAML documents, has Terraform make the machines, and has Ansible set
them up.  This directory holds TLA+ models of the parts of it that are hard to get right
and hard to test: what several runs of the program, some of them cut off or running at
once, do to one cluster and to the machines in it; what becomes of the documents on their
way from the input file to Terraform and Ansible; how the program and its child processes
work together; and how the upgrades of replicated services go through failures and new
starts.

Every module is written from the source (`cli/`, `ansible/`, `schema/`).  Paths below are
relative to the root of the repository.  `PROJECT.json` maps each definition to the lines
it stands for.

## 1. Inventory of the system

### 1.1 The command line (`cli/lambdastack.py`, `cli/helpers/Config.py`)

`main` parses the arguments, asks a question where a command is dangerous, fixes the
output directory, and calls one engine; an exception is logged and dumped and ends the
process, or is lost where the log cannot be opened.  A handler registered with `atexit` removes the file with the vault password,
`~/.lambdastack/vault.cfg`.  There is no daemon, no database and no lock.

*State*: the vault file and the build directories, which all sessions of a user share; the
output directory of the session.  *Hard*: sessions run beside each other, are interrupted
and killed, in the exit handler too; that handler looks and removes in two calls; Terraform's directory is found
by the name of the cluster, the directory to remove by its path.  *Correct* means: no
session encrypts with another's password, no password stays on disk but of a session that
was cut off, no failure of a command at work goes unlogged, and no `delete` forgets machines it has not destroyed.

### 1.2 The commands (`cli/engine/*Engine.py`)

One run learns about earlier runs only from the *build directory* of the cluster:

| file | written by | read by |
| --- | --- | --- |
| `manifest.yml` | `apply`, twice per run | `apply` (images), `upgrade`, `delete`, backup, recovery |
| `inventory` | `apply`, `upgrade` | the two assertions of `apply`, all playbooks |
| `terraform/terraform.tfstate` | `terraform` | `terraform`, the AWS builder |
| `terraform/cloud-config.yml` | `apply` | machines that start, on Azure |
| `backup_<ms>/` | `upgrade`, if there is none | `upgrade` |
| `ansible/` | every run, from the playbooks of the program | Ansible |

* **apply** (`ApplyEngine`): read and merge the input, assert that the control plane does
  not shrink and that the number of PostgreSQL servers does not change, build the
  infrastructure documents, save the manifest, assert that all images are of one Linux
  distribution, run Terraform, collect the configuration, save the manifest again, write
  the inventory and the variables, run the roles.  `--no-infra` leaves Terraform out,
  `--skip-config` leaves Ansible out.
* **upgrade** (`UpgradeEngine`, `AnsibleInventoryUpgrade`): copy the build directory into
  a backup unless there is one, derive the inventory from the one in the backup, run
  `upgrade.yml`.
* **delete** (`DeleteEngine`): `terraform destroy`, then remove the build directory.
* **init**, **prepare**, **test**, **backup**, **recovery**: templates, downloads, tests,
  and two playbooks over an existing inventory.

*State*: the build directory, the machines in the cloud, what is installed on them.
*Hard*: a run can stop anywhere and is then simply repeated; files are truncated before
they are written; the assertions read files that earlier runs of *other* commands wrote.
*Correct* means: members of stateful groups are never destroyed by an apply; what was
accepted can be repeated and converges; no machine is orphaned by a delete.

### 1.3 Documents (`cli/engine/schema`, `cli/helpers/objdict_helpers.py`)

Input documents are merged over the shipped defaults, over the user's own `default`, and
over the document they name as `based_on`; then they are validated.  For each component a
configuration is appended per feature.  *State*: Python dictionaries and lists, shared by
reference.  *Hard*: merging is in place; lists merge by name, or not at all, as flags among
their items say; what an apply saves is merged once more by an upgrade.  *Correct* means:
the result is the one of laying plain texts over each other, in any order of the file, and
merging it again changes nothing.

### 1.4 Infrastructure documents (`cli/engine/providers/*`)

One builder per cloud turns the counted components into documents for Terraform: networks,
security groups, storage, key pairs, machines.  Documents refer to each other by name.  On
a re-apply the builder looks into the manifest and preserves the OS images, and on AWS into
Terraform's state for the key pair.  *Hard*: components share address pools, so what one
makes the next finds; a variable of the loop keeps its value from one component to the
next; names are cut to a length; the lookup of images falls back to the first VM document,
and manifest and state may have been left by a run that was refused or cut off.  *Correct*
means: references resolve, a pool is one network with all its rules, machines are not
replaced because of their image or key, and a cluster never mixes distributions.

### 1.5 Child processes (`TerraformCommand`, `AnsibleCommand`, `helpers/Log.py`)

Output of a child goes through a pipe to a thread (`LogPipe`) that logs it and collects
the lines that look like errors.  `TerraformCommand.run` starts Terraform again when one
of these lines holds `RetryableError`.  *Hard*: three parties and no synchronisation but
the pipe.  *Correct* means: retries happen for a reason, everything is logged, nobody
waits for ever.

### 1.6 The Ansible layer (`AnsibleRunner`, inventory, variables)

`AnsibleRunner` copies the playbooks, writes inventory and variables, pings, sets up SSH
tunnels and the package repository, runs a playbook per role, and tears the set-up down
again.  *State*: the variables of the roles, in a directory that stays from run to run; the
package lists of every machine, their backup, what the repository machine serves.  *Hard*:
several components map to one role and may select different documents; an upgrade has no
input file of the cluster and renders from a backup; the tear-down is skipped when a role
fails, and the machines remain switched to the LambdaStack repository; the next run starts
from whatever it finds.  *Correct* means: every role has the document its component selected
and runs on the machines of its components; an upgrade gives roles what the apply gave them;
no list of a machine is lost, roles install from the LambdaStack repository only, and a run
that ends well gives the machines their own lists back.

### 1.7 Playbooks that upgrade replicated services (`ansible/playbooks/roles/upgrade`)

Kafka and ZooKeeper are upgraded with `serial: 1`, one host at a time; RabbitMQ offline,
all hosts together; Kubernetes in two stages, masters before nodes; Open Distro by a
rolling restart.  A *flag file* on a host says that its upgrade has begun and was not
finished.  *Hard*: any task may fail on any host; the operator then starts the whole
playbook over.  *Correct* means: at most one node of a rolling upgrade is down, data and
configuration survive, and repeating leads to the end.

### 1.8 How the parts interact

`main` calls an engine; `ApplyEngine` calls merger, builder, `TerraformRunner` and
`AnsibleRunner` in this order and passes documents along; the two runners start child
processes; playbooks are connected to the Python part only by the inventory and the
variable files.  The engines interact with *each other* only through the build directory:
this is what `BuildLifecycle` is about.  Sessions interact through the vault file, too:
this is `Session`.

## 2. Modules

| module | what it is | composed with |
| --- | --- | --- |
| `ScaleOutCluster` | the promise of a cluster that grows but never loses a member | implemented by `BuildLifecycle` |
| `BuildLifecycle` | apply, upgrade, delete and crashes over one build directory | |
| `BuildLifecycle_proofs` | theorems about it, checked by TLAPS | extends `BuildLifecycle` |
| `Session` | sessions of the command line beside each other | |
| `Session_proofs` | theorems about it, checked by TLAPS | extends `Session` |
| `Documents` | merging, validating, appending and saving documents on a heap | |
| `Configuration` | from an input file to the variables and the inventory of Ansible, in apply and upgrade | |
| `AwsInfrastructure`, `AzureInfrastructure` | the builders of the two providers, and what Terraform makes of it | |
| `OsImages` | images over several runs of apply | |
| `Infrastructure` | what an apply makes of its input file: the composition of these four | instances of `AwsInfrastructure`, `AzureInfrastructure`, `OsImages`, `Configuration` |
| `Infrastructure_proofs` | theorems about the composition, checked by TLAPS | extends `Infrastructure` |
| `TerraformCommand` | CLI thread, Terraform and LogPipe threads | |
| `TerraformCommand_proofs` | theorems about it, checked by TLAPS | extends `TerraformCommand` |
| `RollingUpgrade` | the promise of a rolling upgrade | implemented by `KafkaUpgrade`, `ZookeeperUpgrade` |
| `KafkaUpgrade`, `ZookeeperUpgrade` | the plays, task by task | |
| `KafkaUpgrade_proofs`, `ZookeeperUpgrade_proofs` | theorems about them, checked by TLAPS | extend `KafkaUpgrade`, `ZookeeperUpgrade` |
| `RabbitmqUpgrade` | the RabbitMQ play, task by task and host by host | |
| `RollingUpgrades_proofs` | theorems about the three plays together, checked by TLAPS | extends `MCRollingUpgrades`; instances of the two modules above it |
| `DebianRepositories` | the package lists of Debian machines, through set-up, roles and tear-down | |
| `DebianRepositories_proofs` | theorems about it, checked by TLAPS | extends `DebianRepositories` |
| `MCBuildLifecycle`, `MCSession`, `MCTerraformCommand`, `MCKafkaUpgrade`, `MCDebianRepositories`, `MCInfrastructure` | values of the constants for TLC | each extends the module of that name |
| `MCDocuments` | documents of one kind for TLC | instance of `Documents` |
| `MCRollingUpgrades` | a cluster of each service for TLC | instances of `KafkaUpgrade`, `ZookeeperUpgrade`, `RabbitmqUpgrade` |

`Infrastructure` and `MCRollingUpgrades` look at one of their parts at a time: the variable
`part` (or `play`) says at which, and the others stay as they are.  The parts do not meet
in the code either: a cluster has one provider, machines, their images and the
configuration of roles are made from different fields, and `upgrade.yml` runs one play
after the other on hosts of its own.  A property of such a
module is the conjunction of what the parts state under several names.

Operators marked `slip` are not part of a specification: each is a definition with a
mistake one could plausibly make in that code.  `PROJECT.json` lists which property finds
which of them, so that no property is there that the code could not break.

### 2.1 BuildLifecycle

`pc` says what the running command is about to do; `"idle"` means that none runs.  At most
one command runs at a time: the documentation knows one operator per build directory and
the code has no lock.

| variable | in the code |
| --- | --- |
| `config` | the operator's input file (counts of the components) |
| `cloud` | machines Terraform has made, named by component and index as on Azure |
| `provisioned` | for each stateful group, the machines its role has run on |
| `inventory` | the groups `kubernetes_master` and `postgresql` of the inventory file |
| `manifest`, `tfstate` | the file is there and usable |
| `backup` | the backup directory, and what it holds of inventory and manifest |
| `run` | input and options of the running command |
| `pending` | files a recursive copy or removal has still to do |
| `attempted`, `settled` | history and the choice of a determined operator, for the properties |

An apply is `StartApply` (both assertions; a refused apply changes nothing and is no
step), `SaveManifest`, `TerraformCreate`/`TerraformDestroy` machine by machine,
`TerraformDone`, `CollectInfrastructureConfig` (with the second save), `CreateInventory`,
`Provision` host by host and group by group, `FinishApply`.  An upgrade is `StartUpgrade`,
`BackupFile` for each file, `BackupDone`, `UpgradeInventory` (which ends the run if the
backup has no usable inventory or no cluster document), `FinishUpgrade`.  A delete is
`StartDelete`, `DestroyMachine`, `DestroyDone`, `RemoveFile`, `FinishDelete`.  `Crash`
stands for a killed process and for every exception; it happens before any step, and
inside a save it leaves the file empty.

A machine that Terraform destroys loses its place in `provisioned` in the same step
(`Lose`): the question is whether an apply ever does that to a machine that had one.

**Mishaps.**  The assertions are not sound under everything an operator may do.  `Mishaps`
names four things they do not take into account: a backup kept over an apply
(`stale_backup`), switching `single_machine` on or off (`topology_change`), dying while
the inventory is written (`torn_write`), and `--no-infra` on machines that are not the
configured ones (`partial_infra`).  With `Mishaps = {}` the properties hold, and this is
proved; each single one of them breaks a part of the invariant the proof rests on
(section 4), and `MCStaleBackup.cfg` shows where the first one ends: with a member
destroyed.  With another value of `Mishaps` in that file TLC finds the same of the others.

*Simplifications.*  Two stateful groups of the fourteen; hosts instead of addresses; the
manifest is present or not, its contents are the subject of `OsImages`; the provider is
Azure, where a machine's name tells its index.  Terraform destroys and creates in any
order, as far as the configuration asks for it.

### 2.2 Session

A session is one run of `cli/lambdastack.py`.  What sessions share is in variables of its
own, what is the session's in a record.

| variable | in the code |
| --- | --- |
| `docker` | the output directory a docker image imposes (`Config`) |
| `vault` | whose password is in `vault.cfg` |
| `builds` | for each place, `<<parent, base name>>`: is the directory there, the cluster its manifest describes, the deployment its Terraform state knows |
| `cloud` | the deployments whose machines exist |
| `session` | phase, command line, output directory, playbooks still to run, owners of the passwords used so far, and whether a failure went unlogged |
| `overlapped` | history: the sessions that did not run alone |

`Start` parses one of the command lines a session may have; `NoCommand` is one with options
but no command, which `argparse` lets through and `main` raises on; `Reject` is a refusal by
`argparse`, outside the `try` of `main`.  A command line says whether its log can be opened
(`log`): it cannot in a directory that is not writable, nor with `--log-count` where a log is
already, as that option stays a string.  `Confirm`, `AdjustPaths` (one disjunct per helper
of that name), `EnsureVault`, `Engine` (one disjunct per engine, each of which may raise),
`RemoveBuild`, `Playbook` and `Finish` are the way through `main`; `Dump`, `Exit` and
`Clean` are the way out of it.  `Interrupt` is Ctrl-C, which `except Exception` does not
catch and the exit handler survives; `InterruptExit` is Ctrl-C in that handler, and `Kill` a
signal after which nothing runs: both leave the session `"cut"`, with what it had on disk.
`MoveBuild` is a user who renames a build directory.  What apply, upgrade and delete do
inside a build is `BuildLifecycle`; here they may fail before or after each thing that
another session can see.

### 2.3 Documents

The heap of Python objects is explicit: `heap` has the fields of each dictionary and the
items of each list, a value that refers to one is its place in the heap, and two fields
may hold the same place.  `input` are the files, as *texts* without references; `docs` and
`merged` are the documents before and after `DefaultMerger`; `saved` and `again` are texts
once more, what the manifest holds and what an upgrade makes of it.

`Merge` merges the next document as `DefaultMerger` does, in place, with the names and
flags of `objdict_helpers`; `Validate` sets the version and checks against a schema, which
is a predicate here; `AppendConfig` is one lookup of `ConfigurationAppender`, the one place
that copies; `Save` writes the texts; `Upgrade` merges a saved document again.  An
exception, such as for two items of one name or an unknown base, leads to `"failed"`.

The reference definition, `Layered`, lays texts over each other and knows nothing of
references, order of merging or in-place changes.

### 2.4 Configuration

| variable | in the code |
| --- | --- |
| `file` | the input file of the apply that runs: documents, features of each component, enabled roles, machines, and the storage the cloud is going to provide |
| `conf` | `configuration_docs`; for an upgrade, the documents it was given |
| `index`, `feature` | the two loops of `ConfigurationAppender.run` |
| `manifest`, `inventory` | the two files; `manifest.of` is the number of the command that saved it |
| `backup` | the manifest and the inventory in the backup directory |
| `vars` | the variables in the `ansible` directory, and `roles_with_generated_vars` |
| `todo` | roles whose variables are still to be written |
| `phase`, `runs` | the step of the running command, how many there were |
| `ran` | history: the variables of the last apply whose playbooks ran |

An apply is `StartApply` (with the first save), `AppendRequired`, `AppendFeature` and
`NextComponent` (`ConfigurationAppender`, one feature at a time),
`CollectInfrastructureConfig` (with the second save), `CreateInventory`, `GenerateRoleVars`
role by role, `PopulateGroupVars`, `RunPlaybooks`; an upgrade is `StartUpgrade`,
`UpgradeInventory`, `UpgradeRoleVars` role by role, `PopulateUpgradeVars`.  `Stop` ends
either at any step, and what the command had in memory is forgotten (`End`).  A document is
its kind, its name, what it says, and the storage; a role is called as its kind.  Whether
the assertions let an apply through is `BuildLifecycle`'s business.

### 2.5 AwsInfrastructure

Resources are named after a component and an index; documents refer to each other by name,
the builder to documents by reference (an index).

| variable | in the code |
| --- | --- |
| `file` | the input file: pools and zones, rules and use of storage per component, and kinds of which it brings a document of its own |
| `phase`, `index` | the run, and the component whose turn it is in the loop of `run` |
| `docs` | the documents built so far |
| `work` | `subnets_to_create`, `security_groups_to_create` and `subnet_index` of the component at hand |
| `state` | Terraform's state: is it there, which key pair does it know |
| `machines` | for each component the key pair its machines let in |
| `drawn` | names of key pairs drawn so far: the random part never comes twice |

`Start` fixes the key pair (`GetPublicKey`: that of the state, else a new one; a state
without one raises).  The body of the loop over the components is `BuildNetwork`, once for
each subnet the component names (found by its pool, or made together with its group), and
then `BuildComponent`, which adds the rest.  `FinishBuild` collects the rules of the shared
storage, `Fail` raises.  `TerraformApply` makes and removes any part of
what is asked for, `TerraformDestroy` destroys any part and only removes the state when all
is gone.  `Edit` is the user.

### 2.6 AzureInfrastructure

`file`, `phase`, `index` and `docs` as above; `nsg` is the variable of that name in `run`,
which keeps its value from one component to the next; `copied` tells for which distribution
the `cloud-config.yml` in the Terraform directory is.  `Start` names the storage account,
`BuildComponent` is the body of the loop, `FinishBuild` chooses the file for the machines
from the first of them, `CopyFiles` checks the distributions and copies or deletes, `Fail`
raises.

### 2.7 OsImages

An input file gives images to VM definitions, says which definitions its components use,
and may set `default_os_image`.  `Preserved` is the rule of `get_virtual_machine`: keep
what is wanted if the manifest has no documents or its *first* document has that very
image; otherwise take the manifest's image for this definition, or the first one's.
`DocsToSave` says what goes into the manifest at the first save, and which document leads
it: those of the input file come first.  The second save writes what was built for the
components alone, the first component's document in front.  The two saves, the assertion
between them, Terraform's replacements one definition at a time, and crashes
with a torn manifest are actions.

The rule does not preserve images under everything that can happen.  `happened` records
which of three things did: an input file that asks for several images at once
(`mixed_images`), one that leaves a definition without components (`unused_document`: its
document may lead the manifest), and a process that died inside a save (`torn_manifest`).
Nothing is excluded from the model on their account; the properties that need their
absence say so.

### 2.8 TerraformCommand

The main thread (`Spawn`, `CloseWriteEnd`, `Wait`, `Scan`, `Exit`), the child
(`ChildWrite`, `ChildExit`; it blocks on a full pipe) and one `LogPipe` thread per attempt
(`ReadLine`, `EndOfFile`) interleave freely.  Lines are of three kinds: plain, an error
that asks for a retry, and one that cannot be decoded, which kills the thread.  `Wait`
does not wait for the thread, as in the code.

### 2.9 The upgrade plays

In `KafkaUpgrade` and `ZookeeperUpgrade`, `cur` is the host whose turn it is and the task
pointer walks over the tasks of the role; a failing task ends the play (`Fail`), and
`StartUpgrade` begins again with the first host.  What is on a host is modelled by what
the tasks touch: the flag file, the service, the link `/opt/kafka` or `/opt/zookeeper`,
the directories of the two versions, the configuration in each of them, and for ZooKeeper
the systemd unit and the snapshot.  `FailPoints` are the tasks that may fail for reasons
outside the playbook; tasks that fail because of what is on the host (a dangling link, a
service that is down) do so in every run.

Unpacking ZooKeeper may be cut off at any time: the `creates:` of that task looks for one
directory of the archive, so half an archive with that directory counts as the whole.  A
server this happened to is `Half`; what the play promises is promised of the others.

In `RabbitmqUpgrade` all hosts take part in every task; `todo` are the hosts it has still
to run on, `active` those that have not failed and dropped out.  Node 1 is the master.
`missed` is history: nodes that dropped out of a play while they ran the old version.
Nothing in the play comes back to them, and the others go on without them.  `AutoStart` says
that the package may start its service as it is upgraded, as a comment of the play has it of
Ubuntu (`rabbitmq.yml:63`).

### 2.10 DebianRepositories

One task of `repository_setup`, of the roles, or of `repository_teardown` is one step for
all machines: Ansible finishes a task everywhere before it starts the next, and none of
these tasks looks at another machine.  `D` is the set of machines it succeeds on, `Takes`
the set on which it is not skipped; `Run` has the machines drop out on which it fails, and
`Proceed` ends the run where a playbook has lost one, or has none left.  A task that fails
has no effect, but for `tar`, which may leave half a backup (`CutBackup`) and unpacks half
of one before it fails (`Unpacked`).  `Abort` cuts a run off anywhere; the next begins
with the first task, and what the last one left is what it finds.

| variable | in the code |
| --- | --- |
| `own` | what the operator of a machine has in `/etc/apt`, as he would have it |
| `lists` | what is there |
| `masked` | what is there with `.bak` at the end of its name |
| `backedUp`, `backup` | `/var/tmp/enabled-system-repos.tar`, and what is in it |
| `flagged` | `download-requirements-done.flag` |
| `stocked`, `serving` | lsrepo has packages; its HTTP server runs |
| `offline` | `offline_requirements` is set (an airgapped cluster) |
| `status`, `task`, `active` | the run, its next task, the machines that have not dropped out |
| `mishap`, `settled` | history, and whether tasks still fail by chance |

A list is one of five kinds: `/etc/apt/sources.list`, one of the operator's in
`sources.list.d`, those the download adds for a while, the local one of an airgapped
server, and lsrepo's.  The download script is six tasks, because it can be cut off in
between: it restores lists that are missing, masks, adds, downloads, unmasks, and leaves
its flag.  Before it masks it checks what it can reach, and that check has `apt` read all
lists there are, lsrepo's too if the server has it.

Four things take lists or packages away in a way the scripts cannot know of.  `mishap`
records for each machine which of them happened, and nothing is excluded on their account:
a backup cut off (`torn_backup`), lists the operator changed while an older backup or a
mask was waiting to bring the former ones back (`stale_backup`), lists that a download cut
off had added and the next one masked and unmasked as the operator's (`masked_leftovers`),
and a tear-down cut off after it removed the packages and before it removed the flag that
says they are there (`stale_flag`).


## 3. Properties and runs

Each run is one `.cfg` file over one of the MC modules.

### 3.1 Runs that pass

| run | configuration | properties | states |
| --- | --- | --- | --- |
| `core` | `MCBuildLifecycle.cfg` | `IInv`, `NoOrphans`, `RerunAccepted`, `MembersStay`, `KeepsPromise` | 256038 |
| `converges` | `MCConverges.cfg` | `Converges`, `WholeBackupGetsGoing` | 985500 |
| `session` | `MCSession.cfg` | `VaultOwned`, `OwnPassword`, `FailureLogged`, `DeletesOwn`, `PasswordForgotten` | 665368 |
| `documents` | `MCDocuments.cfg` | `MergedAsLayered`, `Remerged`, `AppendLeavesDocs` | 9524 |
| `infrastructure` | `MCInfrastructure.cfg` | `AwsNetworks`, `AwsKeyReused`, `AzureInterfacesInGroup`, `ResourcesFit`, `MachinesServed`, `ImagesOneFamily`, `ImagesPreserved`, `RolesConfigured`, `RendersAsApplied` | 106140 |
| `terraform` | `MCTerraform.cfg` | `RetriedForReason`, `NothingUnlogged`, `CommandEnds` | 21261 |
| `rolling` | `MCRollingUpgrades.cfg` | `KafkaKept`, `KafkaProtocolFitsBinaries`, `ZookeeperKept`, `ZookeeperFinishedRuns`, `RabbitmqOffline`, `KeepsRolling`, `EventuallyUpgraded`, `RabbitmqMasterFirst` | 129156 |
| `repository` | `MCDebianRepositories.cfg` | `NothingLost`, `InstallsFromLsrepo`, `OwnListsRestored`, `IInv`, `EventuallyFinished` | 739272 |

What they say:

* **MembersStay** — no step but those of `delete` takes a machine out of the control plane
  or out of the PostgreSQL servers.  **IInv** — the invariant the proofs rest on (4.1);
  among its parts are the types and `InventoryKnowsMembers`: the inventory, which is all
  the assertions consult, lists every member.  **KeepsPromise** — the whole of apply,
  upgrade and delete implements `ScaleOutCluster`.
* **NoOrphans** — while a machine exists, so does the Terraform state that can destroy it,
  wherever a delete is cut off and however it is repeated.
* **RerunAccepted** — the input of an accepted apply of several machines is accepted
  again, finished or not, as long as no other command came in between.  A single machine
  is left out: its template has `postgresql: 0` and its inventory one PostgreSQL server,
  so the second apply is refused.  **Converges** —
  when failures stop, and whatever mishaps there were before, repeating an accepted apply
  brings exactly the configured machines into being and provisions them.
  **WholeBackupGetsGoing** — a repeated upgrade reaches the playbook, unless the backup it
  finds is half a backup.  It is stuck with half a backup for ever, as no run makes a new
  one.
* **VaultOwned** — the vault password is on disk only while the session that wrote it runs,
  or after it was cut off — killed, or interrupted in its exit handler —, however many
  sessions leave at once.  **PasswordForgotten** — and
  otherwise it is removed again.  **OwnPassword** — an apply that ran alone encrypted with its own
  password only, also when a killed session had left another.  Two at once may use each
  other's: nothing in the code prevents it, and nothing here claims it.  **FailureLogged** —
  an exception is lost only before the session has done anything; and where a log can be
  opened, only at the question or for want of a command: behind these, every path function
  has found an output directory for the log before it or an engine fails.  **DeletesOwn** — a delete
  that ran alone, in a directory that is the cluster's own, removes it only when Terraform
  has destroyed the machines.
* **MergedAsLayered** — a merged document says what its texts laid over each other say, and
  goes on saying it while others are merged (where the user's `default` brings nothing to
  share, see section 6); the fields of the shipped default keep their types; no item
  the user names is lost from a list, unless it carries a flag itself.  **Remerged** — what
  an apply merged and saved, an upgrade merges into itself.  **AppendLeavesDocs** — looking
  a configuration up does not change the documents of the command.
* **RolesConfigured** — when playbooks start, each enabled role that an active component
  maps to has a document that one of these components selected; the list other roles decide
  by names exactly the roles with variables, whatever earlier runs left in the directory;
  each group has the machines of all its components and no other.  **RendersAsApplied** —
  an upgrade that works from the manifest of the last apply renders what that apply gave.
* **AwsNetworks** — an address pool becomes one subnet and one group however many components
  name it; the machines of each are in it; the group has all the rules these components
  want and no other.  **AzureInterfacesInGroup** — the group of an interface is that of its
  subnet, if components of one pool stand side by side in the cluster model: `nsg` is then
  the group made for the pool.  **ResourcesFit** — on both clouds, what a document refers to
  is built, once, whatever is shared or switched off; a storage account's name has at most
  24 characters, no dash the prefix did not bring, and says what it is for.
  **MachinesServed** — on AWS, machines reach the storage they mount: one mount target per
  zone, and every subnet let in; on Azure, they find the file they read when they start,
  that of their distribution, also after an input file with another one.  **AwsKeyReused** —
  machines and Terraform's state agree on the key pair over applies and deletes that fail
  half way.
* **ImagesOneFamily**, **ImagesPreserved** — when input files asked for one image at a
  time, whichever, and no save was cut off, the manifest tells the images of the machines
  there are, and no machine is replaced because of its image.  Even when files mix
  distributions and refused runs leave their images in the manifest, the machines that
  exist are of one distribution.
* **RetriedForReason** — an attempt is repeated because of an error it has itself written,
  not one of an earlier attempt (nor, as the code has it, because it has failed: 3.2).  **NothingUnlogged**
  — when the CLI has gone, everything the child wrote has been read.  **CommandEnds** —
  no endless retrying, and no deadlock over the pipe unless a reader died of a line.
* **KafkaKept** — however upgrades fail and are started over, a broker runs from binaries
  that are there and with its own configuration.  A failure behind the link and a new start
  do remove the binaries of a broker (3.2); such a broker is down, still has its flag, and is
  the only one: all others run.  **KafkaProtocolFitsBinaries** — a broker's protocol is one
  its binaries know.  **ZookeeperKept**, **ZookeeperFinishedRuns** — a server keeps a whole
  installation with its own configuration to start from, and runs when the play has finished
  it, unless half an archive counted as unpacked.  **KeepsRolling** — the two plays implement
  `RollingUpgrade`, through failures and new starts.  **EventuallyUpgraded** — when tasks stop
  failing, repetition gets everything upgraded: for Kafka unless a broker has lost its
  binaries, for RabbitMQ if all nodes run when they do.
* **RabbitmqOffline**, **RabbitmqMasterFirst** — RabbitMQ nodes of two versions never run at
  once, but for nodes that were missed; and the play starts no node before a master that is
  still in it.  The package of Ubuntu may, as it is upgraded: such a node has the new
  version, and the nodes beside it are stopped or new, so `RabbitmqOffline` does not except
  it.
* **NothingLost** — each of a machine's own lists is in use, masked, or in the backup,
  however often runs were cut off, unless the backup was spoilt.  **InstallsFromLsrepo** —
  when the roles run, every machine has lsrepo's list and no other, and lsrepo is served
  and filled.  **OwnListsRestored** — a run that ends well leaves every machine with
  exactly its own lists, whatever the runs before it left, unless a mishap befell it; the
  `sources.list` of an airgapped server is an exception (3.2).
  **EventuallyFinished** — when failures stop, repetition brings a run to its end, with no
  restoring by hand, unless a backup or a flag was spoilt, or an upgrade has emptied lsrepo
  while the server still had it among its lists (`NeedsHand`): then no download gets past its
  first check, and only the script `REPOSITORY.md:80` names helps.  **IInv** — the invariant of 4.2.

Each conjunct of a property was made to fail by a mistake of its own when it was written;
`PROJECT.json` keeps one mistake per property.

### 3.2 Runs that show a disagreement

Each checks one property; TLC finds the code at odds with what a document or a message of
the program says.  `PROJECT.json` quotes the line under `findings`.

| run | configuration | property | what happens |
| --- | --- | --- | --- |
| `stale_backup` | `MCStaleBackup.cfg` | `MembersStay` | upgrade, apply with one more master, upgrade: the inventory of the first backup is restored, and the next apply may shrink the control plane |
| `delete_elsewhere` | `MCDeleteElsewhere.cfg` | `DeletedMeansGone` | the build directory was renamed, or `--output` names another parent: Terraform destroys nothing where it looks, and the directory with the state of the machines is removed |
| `terraform_retry` | `MCTerraformRetry.cfg` | `RetriedAfterFailure` | an attempt that has written the word and ended well is repeated, with a message that Terraform failed |
| `kafka_rerun` | `MCKafkaRerun.cfg` | `BinariesKept` | the start over takes the new version for the previous one and removes it |

Every task of the three plays may fail in the passing run `rolling`; what its properties
except is written in them (a broker that has lost its binaries, `Half`, `missed`, a master
that dropped out, Ubuntu's package).  What is left out there does happen: a new start after
a failure behind the link removes what it finds, half an archive counts as unpacked, a node
that could not be stopped keeps running beside upgraded ones, and a node left stopped fails
the first task of every later upgrade.

Other places where the models follow the code and a text says otherwise; no run is kept
for them, but each can be seen by checking the named formula:

* `TerraformCommand.py:57` looks for `RetryableError` while the thread that collects lines
  may still be behind: an error still in the pipe is not retried.  `RetriedForReason` says
  what remains true.
* Ctrl-C in the exit handler leaves the vault password on disk, and so does a signal; only
  the next session that leaves takes it away.  `VaultOwned` without `"cut"` finds it.
* `create-repository.sh:13` renames the airgapped server's `sources.list` before the backup
  is made, and nothing renames it back, against `REPOSITORY.md:26`.  `OwnListsRestored`
  without its exception finds it.
* On Azure only the component that makes a subnet brings its rules to the group, and
  components that share a pool but do not stand side by side get a group that is not their
  subnet's (`SECURITY_GROUPS.md:13` has every component keep its own rule set).  `InterfacesInGroup`
  without `SideBySide` finds it.
* A Terraform state without a key pair, which an apply that fails early leaves, makes every
  later apply raise, where `InfrastructureBuilder.py:204` of the AWS provider has in mind
  that it is read on a re-apply.  `GetPublicKey` is then never enabled.

### 3.3 Bounds and why they are enough

* `MaxCount = 2` in `BuildLifecycle`: shrinking needs two machines, and the wrong one of
  two surviving is the smallest case of a count that does not stand for a set.  The
  theorems cover every count.
* `FewConfigs` in `MCConverges.cfg` keeps two input files, one growing in both groups, so
  that liveness with all mishaps stays within a million states.
* Three sessions in `MCSession`, two at once (`MaxLive = 2`): races over the vault file are
  between two, and what a third finds is what a session left that is gone or killed.  The
  first may type any command, the second an apply without infrastructure or a delete, of
  the cluster's directory or of one it was renamed to, the third another apply.  Two
  directories and two names make a build directory move in either part of its place.  The
  theorems cover any number of sessions, at once, too.
* `MCDocuments`: a `default` and one other document of the user's, either alone or both in
  either order, each with one field; the fields are the cases `objdict_helpers`
  distinguishes (flags that are true, false and neither, lists of named and unnamed items,
  doubled names, dictionaries the shipped default has or lacks, `yes`/`no`, a wrong type).
  Two documents are enough for one to see another's values.
* `MCInfrastructure`: three components over three (AWS) or two (Azure) pools, so that two
  share one, with or without a third between; counts of 0, 1 and 2; one or two
  subnets per component; three key names, one for each time machines can have been
  destroyed and made anew.  Names of clusters around the lengths at which parts are cut.
  Two VM definitions and three images (two of one distribution) in `OsImages`: the first
  document and another; equal images, different images of one distribution, different
  distributions.  For `Configuration`, three components, one of them selecting a document,
  or empty, or selecting one nobody wrote, or on a machine nobody described, two of them
  mapped to one role; none to three documents of the user's, two of them of one kind; and
  `MaxRuns = 3` commands: an apply that leaves variables, another over it, and an upgrade; or
  an apply and two upgrades, of which the second meets the backup of the first.  The theorems cover any of these, any
  number of components, and any number of commands.
* `AutoRetries = 3` is the value in the code; two lines per attempt and a pipe of one line
  make the child block and leave a line behind for a late reader.  The theorems cover any.
* Two machines in `MCDebianRepositories.cfg`, the server and one that only installs, so that
  either can drop out while the other goes on; tasks concern one machine each, and more
  machines of the second kind behave alike.  The operator edits the lists of the server
  (`Edited`), where all the scripts run, and one backup at a time is spoilt
  (`MaxMishaps = 1`).  Failures, aborts and new runs are unbounded in number; the theorems
  cover any machines, any `Edited` and any `MaxMishaps`.
* Three hosts in each play: one finished, one in work, one untouched; two are enough to
  show what `kafka_rerun` shows.  Failures and new starts are unbounded in number; the
  theorems cover any number of hosts.  `Ubuntu` is `TRUE`: the package may start its service
or not, so the other value adds no behaviour.

Deadlock checking is switched off where the system may stop: when a command has ended
(`TerraformCommand`), when every session is gone (`Session`), when the last document has
been merged (`MCDocuments`), when a Terraform state has lost its key pair, names have run
out or the last command has run (`MCInfrastructure`), or when an operator has nothing left
that he is allowed to do (`BuildLifecycle`: settled on an apply that is refused).

### 3.4 Fairness

* `LiveSpec` of `BuildLifecycle`: weak fairness of the steps of a running command — the
  CLI is a single thread that waits for its children — and of an operator who has decided
  to repeat one command (`settled`).  Nothing is assumed before that decision, and crashes
  stop with it: "once failures stop".
* `Spec` of `Session`: weak fairness of what each session does by itself (`Work`): Python
  goes on, and playbooks end.  Nothing is assumed of the user: prompts may wait for ever,
  and sessions need not be started, interrupted or killed.
* `FairSpec` of `TerraformCommand`: the scheduler is fair to threads and processes, and
  Terraform ends unless the pipe blocks it.
* `FairSpec` of `MCRollingUpgrades`, for the play there is: Ansible goes on with a play; the
  operator starts a failed upgrade again; at some point tasks stop failing for outside
  reasons (`Settle`).
* `FairSpec` of `DebianRepositories`: the same of an apply.  Tasks that fail because of what
  they find on a machine go on failing after `Settle` (`CannotRun`).

## 4. Proofs

Everything is checked by TLAPS from no assumptions but the named ones in the modules
proved about: `MaxCountAssumption`, `MishapsAssumption`, `ConfigsAssumption` in
`BuildLifecycle` (for any bound on counts and any set of configurations they allow),
`ServerAssumption`, `EditedAssumption`, `MaxMishapsAssumption` in `DebianRepositories` (for
any set of machines), `CwdAssumption`, `NoneAssumption`, `CommandLinesAssumption`,
`DockerAssumption` in `Session` (for any set of sessions and whatever they may type),
`BoundsAssumption` in `TerraformCommand` (for any numbers), `Assumption` in the two plays
(any number of hosts, any tasks that may fail), `KafkaAssumption`, `ZookeeperAssumption`,
`RabbitmqAssumption` in `MCRollingUpgrades` (the same of the three plays together, of which
every task may fail, on Ubuntu or not), and
`AwsAssumption`, `AzureAssumption`, `ImagesAssumption`, `ConfigurationAssumption` in
`Infrastructure` (for any input files, components, pools, images, key names, roles and
number of commands).

### 4.1 BuildLifecycle_proofs

| theorem | statement |
| --- | --- |
| `TypeCorrect` | `Spec => []TypeOK` |
| `NoOrphansCorrect` | `Spec => []NoOrphans`, whatever mishaps happen |
| `IInvCorrect` | `Spec => []IInv`, if `Mishaps = {}` |
| `InventoryKnowsMembersCorrect` | `Spec => []InventoryKnowsMembers`, if `Mishaps = {}` |
| `MembersStayCorrect` | `Spec => MembersStay`, if `Mishaps = {}` |
| `RefinementCorrect` | `Spec => KeepsPromise`, if `Mishaps = {}` |
| `RerunCorrect` | `Spec => []RerunAccepted`, if `Mishaps = {}` |

**The argument.**  `NoOrphans` is inductive together with `RemovesAfterDestroy`: files are
removed only once no machine is left.  `MembersStay` is not inductive, and neither is
`InventoryKnowsMembers`.  An apply destroys the machines that its configuration does not
count, so one has to know that members are among those it does count.  The assertion gives
`Cardinality(inventory[g]) <= config[g]`, a statement about numbers.  `IInv` adds what
turns it into one about machines:

* `FirstHosts`: the hosts of a group in the inventory are the first n machines of its
  component, for some n, so a smaller number means a subset (`FirstCardinality`,
  `FirstMonotonic`, and from them `AcceptedHosts`);
* `InventoryKnowsMembers` and `BackupKnowsMembers`: the members are among these hosts, and
  also among those of a backup that an upgrade could restore; no such backup is there
  while an apply runs;
* `HostsConfigured`: from the assertion until the inventory is written, its hosts are
  among the machines of the running configuration, and from Terraform's end on these are
  exactly the machines that exist;
* `MembersAlive`: members exist, so nothing is said about machines long gone.

Each mishap breaks one of these parts: `stale_backup` the second part of
`BackupKnowsMembers`, `topology_change` the agreement of `run` and `config` about the
topology, `torn_write` `InventoryKnowsMembers`, `partial_infra` `HostsConfigured`.  The
lemma `IInvStep` has one step per action; the refinement (`PromiseStep`) maps
`TerraformDestroy` to `Retire`, which is allowed only for a machine that is no member
(`DestroyedIsNoMember`), and every step of a file to a stutter.

`RerunAccepted` needs two facts more.  `ApplyRemembered`: as long as an apply runs, what was
attempted last is its configuration, so nothing came in between.  `OwnInventoryAccepted`:
the inventory an apply writes has as many hosts in each group as its configuration counts,
and the two assertions accept equality.

### 4.2 DebianRepositories_proofs

| theorem | statement |
| --- | --- |
| `TypeCorrect` | `Spec => []TypeOK` |
| `NothingLostCorrect` | `Spec => []NothingLost`, whatever mishaps happen |
| `InstallsFromLsrepoCorrect` | `Spec => []InstallsFromLsrepo` |
| `OwnListsRestoredCorrect` | `Spec => []OwnListsRestored` |
| `IInvCorrect` | `Spec => []IInv` |

**The argument.**  Three tasks take lists away for good: `disable_system` deletes what is
in use, on the strength of the backup; `remove_backup` deletes the backup; `back_up` makes
a backup that must then have everything.  `NothingLost` alone does not carry over any of
them.  `NeverLost`, the first part of `IInv`, says why each is safe where it is:

* `Unmasked`: from the end of a download on, and as long as its flag stands, the server
  has nothing masked but the `sources.list` of an airgapped one; other machines never have
  anything masked.  So what `back_up` finds in use is all there is.
* `BackupKnows`: a backup that is not spoilt has every list of the machine, but for that
  `sources.list`, which is still there as a file.  So `disable_system` deletes nothing
  that is not in it.
* `Enabled`: behind `enable_system`, a machine that has not dropped out has its lists in
  use again.  So `remove_backup` may go.

The two other properties are about lists that *should not* be there, and about what other
machines have; the rest of `IInv` is for them:

* `SwitchedOver`: between the backup and the roles, each machine still in the run has a
  backup and has lost all its lists; and a run gets to the roles with all its machines or
  not at all, so that `InstallsFromLsrepo` may speak of every machine.
* `Supplied`: the HTTP server runs behind the task that starts it, and was stocked before:
  by the download, or from the files of an airgapped cluster.  A flag that says so without
  the packages being there (`stale_flag`) is the one exception.
* `Foreign`: on a machine without mishaps and not excepted by 3.2, lsrepo's list, renamed
  or not, is only there while the machine has a backup, and lists a download has added only
  while no download counts as done.  That is what makes a run that was cut off harmless:
  its backup or the missing flag brings the next one past the tasks that take these lists
  away.
* `Finished`: a run that ended well has left no backup, and every machine its own lists.

`RunControl` gathers what a task does to the run, `TaskNumbers` where in the run a task
is; the lemmas about `Provide`, `Switch` and `SwitchBack` have one case per task, and those
about `Next` add the start and end of runs and what the operator does between them.
`FullInv` is `IInv` with the types and `NothingLost`.

### 4.3 TerraformCommand_proofs

| theorem | statement |
| --- | --- |
| `TypeCorrect` | `Spec => []TypeOK` |
| `RetriedForReasonCorrect` | `Spec => []RetriedForReason` |
| `NothingUnloggedCorrect` | `Spec => []NothingUnlogged` |

**The argument.**  A retry is decided on what a thread kept of what it read of what
terraform wrote; the invariant follows a line along this way.  `PipeInv`: what is in the
pipe of an attempt was written in this attempt, and so was what is kept of it; a pipe that
is not empty has its reader, alive or dead.  `Started`/`Untouched`: nothing happened to an
attempt that is still to come, so lines do not turn up in one before its child.
`ChildInv`: terraform runs only while the main thread waits for it, and its reader has been
there since before it started; the process exits only when no thread is reading.

### 4.4 Session_proofs

| theorem | statement |
| --- | --- |
| `TypeCorrect` | `Spec => []TypeOK` |
| `VaultOwnedCorrect` | `Spec => []VaultOwned` |
| `OwnPasswordCorrect` | `Spec => []OwnPassword` |
| `FailureLoggedCorrect` | `Spec => FailureLogged` |
| `DeletesOwnCorrect` | `Spec => DeletesOwn` |

**The argument.**  `VaultOwned` carries over by itself: a session that leaves has either
seen that the file is not there, or removes it as it goes, or is cut off, which the property
allows for.  `OwnPassword` does not, as a
playbook uses whatever the file holds.  `IInv` adds `Alone` — of two sessions that run, both
are among those that overlapped — and `OwnVault` — an apply between writing its password
and its last playbook that has not overlapped finds its own: who else could have written or
removed the file does not run.  Most steps do nothing to the file and bring no session to
where it needs one; these are `Quiet`, and one lemma (`InvQuiet`) covers them all.

The two action properties say what a step never does, and need an invariant each of what
went before.  `FailureLogged`: a session behind the path functions has an output directory,
though every one of these functions finds it in another way, and one at its playbooks or at
the removal has opened its log, as its engine began with that (`Outputs`).  `May` lists the
phases in which a failure may be lost at all, and `Reported` adds that the step which loses
it touches no build and no machine.  `DeletesOwn`: a
delete that has not overlapped and is about to remove its cluster's own directory finds no
machines in the state there (`OwnDelete`); between `terraform destroy` and the removal,
every step that could bring some back belongs to a session that would have overlapped.

### 4.5 KafkaUpgrade_proofs and ZookeeperUpgrade_proofs

| theorem | Kafka | ZooKeeper |
| --- | --- | --- |
| what a server needs is there | `LossContainedCorrect`, `OwnConfigurationCorrect` | `AlwaysStartableCorrect`, `OwnConfigurationCorrect` |
| what it runs with fits | `ProtocolFitsBinariesCorrect` | |
| a server the play has left runs | | `FinishedRunsCorrect` |
| the play implements `RollingUpgrade` | `KeepsRollingCorrect` | `KeepsRollingCorrect` |

**The argument.**  That one host at most is down is a statement about all hosts, of which a
task touches one; so the invariant has to tell what a failed upgrade leaves behind on
*other* hosts.  `Kept` is what holds of every host all the time: for Kafka, that a broker
that runs has its binaries and its own configuration, and keeps the old ones until the link
leaves them.  `InWork` follows the host whose turn it is from task to task: has its flag, is
down, is unpacked, is linked.  A Kafka broker whose link has left them is where a new start
does harm: the play takes the new version for the old one and removes it, and `InWork` shows
that it gets no further than `log_dirs` then, so the broker stays down.
`InOrder` says where the others are: those before it are finished, those behind it are
untouched — and if an upgrade ended half way through a host, the next one passes over the
finished ones and comes to that host before any that runs.  A host that is down (for
ZooKeeper, or half way) has its flag, which is what makes the next upgrade take it up again (`AtRest` for Kafka,
`Served` for ZooKeeper).  That a broker without binaries is the only one that is down
follows from the order too (`InvContains`): it is down and linked, so neither finished nor
untouched, and there is no other such.

One lemma (`TaskStep`) says that a task which touches only its host and keeps `Kept` and
`InWork` there keeps all the rest; `InvTasks` has one case per task.  The refinement
(`RollingStep`) maps `StopService` to `TakeDown`, `Link` to `Replace`, `StartService` to
`BringUp`, and every other step to a stutter.  `TakeDown` needs all others up, and that is
what `InOrder` is for.  A ZooKeeper server that does not come up, in spite of what systemd
reports, is a stutter too; it needs half an unpacking, and from there on nothing is claimed.

### 4.6 RollingUpgrades_proofs

| theorem | statement |
| --- | --- |
| `KafkaKeptCorrect`, `KafkaProtocolFitsBinariesCorrect` | `Spec => []KafkaKept`, `Spec => []KafkaProtocolFitsBinaries` |
| `ZookeeperKeptCorrect`, `ZookeeperFinishedRunsCorrect` | `Spec => []ZookeeperKept`, `Spec => []ZookeeperFinishedRuns` |
| `KeepsRollingCorrect` | `Spec => KeepsRolling`: both plays implement `RollingUpgrade` |
| `RabbitmqOfflineCorrect` | `Spec => []RabbitmqOffline` |
| `RabbitmqMasterFirstCorrect` | `Spec => RabbitmqMasterFirst` |

**The argument.**  These are the properties the run `rolling` checks, of the module it
checks them of, for any number of hosts of each service.  For Kafka and ZooKeeper the
inductive invariants of 4.5 are instantiated again (`KP`, `ZP`), and one lemma each
(`KafkaSame`, `ZookeeperSame`) says that a step of the composition is one of the instance.

That two RabbitMQ versions never run at once is a statement about all pairs of nodes, and
the play makes it true by an order of tasks: all are stopped before any gets its packages,
and all have them before any is started by the play. A node that its package starts has the
new version by then, and those beside it are stopped or have it too. `Worked` says how far
a node is that is still in the play, in terms of the task and of whether the task is past
for this node. `LostKnown` says what the play does *not* see any more: a node that dropped
out while it ran has the old version and is among `missed`; any other that dropped out and
runs has the new one. And the list of what is to be upgraded is made for all nodes at once.

### 4.7 Infrastructure_proofs

| theorem | statement |
| --- | --- |
| `ImagesOneFamilyCorrect` | `Spec => []ImagesOneFamily` |
| `ImagesPreservedCorrect` | `Spec => ImagesPreserved` |
| `AzureInterfacesInGroupCorrect` | `Spec => []AzureInterfacesInGroup` |
| `AwsKeyReusedCorrect` | `Spec => []AwsKeyReused` |
| `AwsNetworksCorrect` | `Spec => []AwsNetworks` |
| `MachinesServedCorrect` | `Spec => []MachinesServed` |
| `ResourcesFitCorrect` | `Spec => []ResourcesFit` |
| `RolesConfiguredCorrect` | `Spec => []RolesConfigured` |
| `RendersAsAppliedCorrect` | `Spec => []RendersAsApplied` |

A step of the composition is a step of one of the four parts and leaves the others alone
(`StepOfParts`), so each part has invariants of its own.

* **Images.**  That no machine is replaced is decided by the rule of `get_virtual_machine`,
  which looks at the *first* document of the manifest only.  `OneImage` says why this is
  enough while nothing irregular has happened: all documents of the manifest have the image
  of the first, and so have the machines; and what a run saves before the assertion has the
images of what it saves after it, though not the same documents.  It does not survive input files of mixed images;
  what does is `FamilyKnown`: a refused run leaves its images in the manifest, but those of
  the distribution the machines have.  `AtWork` ties what a run has built to what it saved.
* **Azure networks.**  `SubnetsMade`: each pool that the components so far name has one
  subnet, of the first component that named it, associated with the group of that name.
  `NsgOfPool`: while components of one pool follow each other, `nsg` is still the group made
  for it; this is all that makes the interfaces of the second one right (`InGroup`).
  `CustomOfFirst` is about the one `cloud-config.yml`: it is chosen by the first machine,
  and the check of the distributions makes it the others', too.
* **AWS key pairs.**  `KeyInv`: without a state there are no machines; during a run the key
  in the documents is the one in the state, if there is a state.  Terraform's steps one by
  one then keep machines and state together.
* **AWS networks.**  Names are how documents refer to each other, and two subnets of one
  name would be one subnet to Terraform.  `SubnetNames`: a name consists of the component
  and of the number of subnets made for it before, and is not given twice.  `WorkKnown`: the
  indices collected for the component at hand are in range and of the pools it names.
  `SharedSoFar` is `PoolsShared` and `RulesExact` for the components that are done, and
  `StorageSoFar` the same of mount targets: one per zone, and one in the zone of each
  machine that mounts.  The finished loop gives the properties (`Resting`).
* **References.**  `AwsLinked`, `GroupNames`, `LaunchNames` and `AzureLinked` follow each name from
  where it is given to where it is used; that a document is there *once* comes from the
  names of one kind being different.  Where the user has a document of his own of a kind the
  builder makes several of, nothing is claimed (section 6).
* **The account name.**  A storage account's name is cut out of the plain characters of
  prefix and cluster name; that there is a k-th plain character for each k up to their
  number is a fact about finite sets of numbers (`Ranked`), and `Smallest` gives the first
  subnet of a pool.
* **Configuration.**  What the playbooks find is read off the variables at the end, and was
  decided when the appender collected documents; `ConfigurationInv` carries it from there.
  `SelectedOnly`: the first document is the shared configuration, and of each other one its
  name is what some component mapped to its kind selects — so the *first* document of a
  kind, which every later step takes, is one some component selected, even where two
  components select different ones.  `FeaturesDone`: no feature of a component the loops
  have passed is without a document; at the end of them that is `AllSelected`, and
  `CollectedIs` says that putting in the storage changes no kind and no name and reaches the
  first document of the masters, also where equal ones follow.  `RolesWritten`: an enabled
  role is still to come, has no document, or has the first one of its kind; and the list
  of roles is their domain at every step, not only when playbooks start.
* **Rendering in an upgrade.**  `RendersAsApplied` compares what two commands computed from
  two lists, one in memory and one in a backup that other commands may have made long
  before.  `SaysWhatRan` is what makes the second as good as the first: a manifest with the
  number of the apply that ran last has one document of the shared configuration, and for
  each role with variables the first of its kind is what the role got.  It has to hold of
  the manifest and of the backup, and to survive every new command: a save gives the
  manifest a new number, and until its playbooks have run no apply has that number
  (`SavedInv`).  That there is exactly *one* shared configuration, which
  `get_shared_config_from_manifest` insists on, comes from the appender: it takes the first
  and no feature is called so.

### 4.8 What is only model-checked

* All liveness properties: `Converges`, `WholeBackupGetsGoing`, `PasswordForgotten`,
  `CommandEnds`, `EventuallyUpgraded`, `EventuallyFinished`.  Liveness under fairness is out
  of TLAPS's reach here.
* `MergedAsLayered`, `Remerged`, `AppendLeavesDocs`: `Documents` uses recursive operators,
  as the code does recursive functions on nested values; what they compute for every input
  is an induction over data, which the installed provers cannot do.

Every other property of a passing run is stated by a theorem.

## 5. Plan

What there is, in the order it was made: `BuildLifecycle`, `ScaleOutCluster`, `OsImages`,
`TerraformCommand`, the plays and `RollingUpgrade`, `DebianRepositories`, `Session`,
the builders, `Documents`, `Configuration`; proofs of `BuildLifecycle`,
`DebianRepositories`, `TerraformCommand`, `Session`, `KafkaUpgrade`, `ZookeeperUpgrade`, of
the composition of the plays, and of `Infrastructure`.  Left, the most important first:

1. `KubernetesUpgrade`: two stages, masters then nodes, drained one at a time; the
   abstract specification again `RollingUpgrade`, plus version skew.  `OpendistroUpgrade`.
2. `PostgresReplication`: set-up of replicas and failover with repmgr.
3. The Red Hat scripts, which enable and disable repositories by name, the firewall rule
   with its zone backup, and a download script that goes on when the command line program
   is killed.
4. What backup and recovery save and restore.

## 6. Not modelled

* What init and prepare write and what test checks (as sessions they are modelled); rendering
  of templates; texts of prompts.
* GCP: its builder is a copy of the AWS one and reads the AWS schemas; its own schemas and
  templates are in directories marked `wip`, where the program does not look.
* The Azure login and service principal (`TerraformRunner.py:35`), and on both clouds the
  waiting for addresses.
* A document of the user's own of a kind the Azure builder makes several of.  On AWS it is
  modelled for subnets and launch configurations, and excluded from what is claimed: it
  becomes every document of its kind.
* Names that depend on the order of components: on AWS a subnet has the name of the first
  component that used its pool, so changing the order, or setting a count to zero, renames
  it, and Terraform replaces it.
* Nested values that the user's `default` brings are not copied: the documents merged over it
  share them (`Shares`), and what one of these changes in place the others see.
  `MergedAsLayered` excepts such documents from staying as they were merged.
* Corners of merging that the models show and no property claims: a `default` of the user's
  that replaces a list of named items by one without names; `_merge` in a list under a
  field the shipped default lacks (a `KeyError`); a `default` later in the file than the
  documents merged over it, which is not yes/no-converted by then.
* What Terraform, Ansible, systemd, Kafka, ZooKeeper and RabbitMQ do inside.  They appear
  as far as the code relies on them: resources come and go one at a time and are recorded,
  a failed task ends a play or drops a host, a server starts or does not.
* Two commands that work *inside* one build directory at the same time.  `Session` has
  sessions at once as far as the vault file and whole directories go; `BuildLifecycle` has
  one command at a time, as the documentation knows one operator per directory.
* The time in which some Kafka brokers are upgraded and others are not: `UPGRADE.md:239`
  rules out zero downtime and promises nothing for it.
* `licenses.py`, dashboards, certificates and the installation roles of single packages.
