---------------------------- MODULE Configuration ---------------------------
(***************************************************************************)
(* From an input file to the variables Ansible runs with.  An apply        *)
(* appends a configuration document for every role of its components       *)
(* (ConfigurationAppender), saves them, groups the machines by role        *)
(* (AnsibleInventoryCreator) and writes each enabled role's document into  *)
(* the role's vars (AnsibleVarsGenerator).  An upgrade has no input file   *)
(* of the cluster: it renders from the manifest and the inventory of its   *)
(* backup of the build directory (AnsibleInventoryUpgrade).                *)
(*                                                                         *)
(* A document is its kind, the name components select it by, what its      *)
(* specification says once merged (Documents.tla) and the storage the      *)
(* cloud provides.  A role is called as its kind.                          *)
(***************************************************************************)
EXTENDS Naturals, Sequences, FiniteSets, FiniteSetsExt, SequencesExt

CONSTANTS
  InputFiles,     \* what an apply may be given, see InputFile
  UpgradeFiles,   \* sequences of documents an upgrade may be given
  Order,          \* the components, as the defaults list them
  Kinds,          \* the kinds of configuration, i.e. the roles
  shared,         \* the kind configuration/shared-config
  master,         \* the kind configuration/kubernetes-master
  repository, imageRegistry,   \* the two roles every upgrade needs hosts for
  UpgradeRoles,   \* the roles of an upgrade that always get vars, in order
  ManifestRoles,  \* the roles an upgrade renders from the manifest, in order
  Machines,       \* the machines the documents describe
  Names, Specs, Storages,   \* what documents are called and say, and where the cloud stores
  MaxRuns, None

Document == [kind : Kinds \cup {shared}, name : Names, spec : Specs, storage : Storages \cup {None}]

InputFile(f) ==
  /\ f.docs \in Seq(Document) /\ f.storage \in Storages /\ f.enabled \in Seq(Kinds)
  /\ \A c \in ToSet(Order) :
       /\ f.mapping[c] \in Seq(Kinds)
       /\ f.components[c].count \in Nat /\ f.components[c].configuration \in Names

Assumption ==
  /\ \A f \in InputFiles : InputFile(f)
  /\ UpgradeFiles \subseteq Seq(Document)
  /\ Order \in Seq(ToSet(Order)) /\ UpgradeRoles \in Seq(Kinds)
  /\ "default" \in Names /\ "shipped" \in Specs
  /\ shared \notin Kinds /\ {master, repository, imageRegistry} \subseteq Kinds
  /\ MaxRuns \in Nat

VARIABLES
  file,       \* the input file of the apply that runs, None between two of them
  conf,       \* configuration_docs of that command
  index,      \* the component whose configuration is appended,
  feature,    \* and the next of its features
  manifest,   \* manifest.yml: the configuration documents in it, None before the first
  inventory,  \* the inventory file: role -> its hosts, None before the first
  backup,     \* the backup's manifest and inventory, None before the first upgrade
  vars,       \* the vars in the ansible directory
  todo,       \* the roles whose vars are still to be written
  phase,      \* the step the command is at, "idle" between commands
  runs,       \* commands started
  ran         \* the vars of the last apply whose playbooks ran, and its number
state == <<file, conf, index, feature, manifest, inventory, backup, vars, todo, phase, runs, ran>>

Shipped(kind) == [kind |-> kind, name |-> "default", spec |-> "shipped", storage |-> None]

(* select_first: the first of the documents at some places of a list.      *)
At(kind, docs) == {i \in DOMAIN docs : docs[i].kind = kind}
Named(kind, name, docs) == {i \in At(kind, docs) : docs[i].name = name}
FirstOr(places, docs, otherwise) == IF places = {} THEN otherwise ELSE docs[Min(places)]
First(kind, docs) == docs[Min(At(kind, docs))]

NoVars == [main |-> <<>>, manifest |-> <<>>, shared |-> None, listed |-> {}]
With(f, k, v) == [c \in DOMAIN f \cup {k} |-> IF c = k THEN v ELSE f[c]]

-----------------------------------------------------------------------------
(* ConfigurationAppender.run *)

Component(c) == file.components[c]
Active == {c \in ToSet(Order) : Component(c).count > 0}
Features(c) == IF c \in Active THEN file.mapping[c] ELSE <<>>

Goto(p) == phase' = p

(* The command ends, and with it what it had in memory.                    *)
End == Goto("idle") /\ file' = None /\ conf' = <<>> /\ index' = 1 /\ feature' = 1 /\ todo' = <<>>

(* The shared-config of the user or the shipped one; the other required    *)
(* documents are in file.mapping, file.enabled and file.components.        *)
AppendRequired ==
  /\ phase = "terraform"
  /\ conf' = <<FirstOr(At(shared, file.docs), file.docs, Shipped(shared))>>
  /\ index' = 1 /\ feature' = 1
  /\ Goto("append")
  /\ UNCHANGED <<file, manifest, inventory, backup, vars, todo, runs, ran>>

AppendConfigOfKind(c, kind) ==   \* slip: takes any document of the kind for the selected one
  conf' = IF At(kind, conf) # {} THEN conf
          ELSE Append(conf, FirstOr(At(kind, file.docs), file.docs, Shipped(kind)))

(* One feature of one component: the user's document of the selected name  *)
(* is appended each time, another one only once; a name that neither the   *)
(* user nor LambdaStack has a document for cannot be merged.               *)
AppendConfig(c, kind) ==
  LET selector == Component(c).configuration
      own == Named(kind, selector, file.docs)
      there == Named(kind, selector, conf)
  IN \/ own # {} /\ conf' = Append(conf, file.docs[Min(own)])
     \/ own = {} /\ there # {} /\ conf' = conf
     \/ own = {} /\ there = {} /\ selector = "default" /\ conf' = Append(conf, Shipped(kind))

AppendFeature ==
  /\ phase = "append" /\ index <= Len(Order)
  /\ feature <= Len(Features(Order[index]))
  /\ AppendConfig(Order[index], Features(Order[index])[feature])
  /\ feature' = feature + 1
  /\ UNCHANGED <<file, index, manifest, inventory, backup, vars, todo, phase, runs, ran>>

NextComponent ==
  /\ phase = "append" /\ index <= Len(Order)
  /\ feature > Len(Features(Order[index]))
  /\ index' = index + 1 /\ feature' = 1
  /\ UNCHANGED <<file, conf, manifest, inventory, backup, vars, todo, phase, runs, ran>>

ProcessConfigurationDocs == AppendRequired \/ AppendFeature \/ NextComponent

-----------------------------------------------------------------------------
(* Apply *)

Init ==
  /\ file = None
  /\ conf = <<>> /\ index = 1 /\ feature = 1 /\ manifest = None /\ inventory = None /\ backup = None
  /\ vars = NoVars /\ todo = <<>> /\ phase = "idle" /\ runs = 0 /\ ran = None

(* The input documents are saved before Terraform runs.                    *)
StartApply ==
  /\ phase = "idle" /\ runs < MaxRuns
  /\ runs' = runs + 1
  /\ file' \in InputFiles
  /\ manifest' = [docs |-> file'.docs, of |-> runs']
  /\ Goto("terraform")
  /\ UNCHANGED <<conf, index, feature, inventory, backup, vars, todo, ran>>

(* InfrastructureConfigCollector: the first kubernetes-master document gets *)
(* the storage, wherever else the same document stands in the list; then   *)
(* all is saved.                                                           *)
Collected ==
  LET masters == At(master, conf)
  IN [i \in DOMAIN conf |-> IF masters # {} /\ conf[i] = First(master, conf)
                              THEN [conf[i] EXCEPT !.storage = file.storage] ELSE conf[i]]
CollectInfrastructureConfig ==
  /\ phase = "append" /\ index > Len(Order)
  /\ manifest' = [docs |-> Collected, of |-> runs]
  /\ \/ /\ Goto("resources")
        /\ conf' = Collected /\ index' = 1 /\ feature' = 1 /\ UNCHANGED <<file, todo>>
     \/ End                   \* --skip-config
  /\ UNCHANGED <<inventory, backup, vars, runs, ran>>

CopyResources(v) == NoVars

HostsOf(c) == ToSet(Component(c).machines)
Mapped(kind) == {c \in Active : kind \in ToSet(file.mapping[c])}

(* group_duplicated: a group for each role some component with hosts maps  *)
(* to, each host in it once.                                               *)
Grouped == [kind \in {k \in Kinds : \E c \in Mapped(k) : HostsOf(c) # {}} |->
              UNION {HostsOf(c) : c \in Mapped(kind)}]

CreateInventory ==
  /\ phase = "resources"
  /\ \A c \in Active : HostsOf(c) \subseteq Machines   \* a machine without a document
  /\ vars' = CopyResources(vars)
  /\ inventory' = Grouped
  /\ todo' = file.enabled
  /\ Goto("roles")
  /\ UNCHANGED <<file, conf, index, feature, manifest, backup, runs, ran>>

(* write_role_vars: the first document of the role's kind; a role without  *)
(* one is left out with a warning.                                         *)
WriteRoleVars(docs) ==
  LET role == Head(todo)
  IN vars' = IF At(role, docs) = {} THEN vars
             ELSE [vars EXCEPT !.main = With(@, role, First(role, docs)), !.listed = @ \cup {role}]

GenerateRoleVars ==
  /\ phase = "roles" /\ todo # <<>>
  /\ WriteRoleVars(conf)
  /\ todo' = Tail(todo)
  /\ UNCHANGED <<file, conf, index, feature, manifest, inventory, backup, phase, runs, ran>>

PopulateGroupVars ==
  /\ phase = "roles" /\ todo = <<>>
  /\ vars' = [vars EXCEPT !.shared = First(shared, conf)]
  /\ Goto("playbooks")
  /\ UNCHANGED <<file, conf, index, feature, manifest, inventory, backup, todo, runs, ran>>

RunPlaybooks ==
  /\ phase = "playbooks"
  /\ ran' = [of |-> runs, vars |-> vars]
  /\ End
  /\ UNCHANGED <<manifest, inventory, backup, vars, runs>>

(* A step fails, or the process is killed.                                 *)
Stop ==
  /\ phase # "idle"
  /\ End
  /\ UNCHANGED <<manifest, inventory, backup, vars, runs, ran>>

ApplyStep == StartApply \/ ProcessConfigurationDocs \/ CollectInfrastructureConfig \/ CreateInventory
             \/ GenerateRoleVars \/ PopulateGroupVars \/ RunPlaybooks

-----------------------------------------------------------------------------
(* Upgrade *)

StartUpgrade ==   \* backup_build, and the input file if there is one
  /\ phase = "idle" /\ runs < MaxRuns
  /\ manifest # None
  /\ runs' = runs + 1
  /\ backup' = IF backup = None THEN [manifest |-> manifest, inventory |-> inventory] ELSE backup
  /\ conf' \in UpgradeFiles
  /\ Goto("inventory")
  /\ UNCHANGED <<file, index, feature, manifest, inventory, vars, todo, ran>>

(* AnsibleInventoryUpgrade.upgrade: no groups, or no repository among them, *)
(* ends the command.                                                       *)
UpgradeInventory ==
  /\ phase = "inventory"
  /\ backup.inventory # None
  /\ repository \in DOMAIN backup.inventory
  /\ vars' = CopyResources(vars)
  /\ inventory' \in IF imageRegistry \in DOMAIN backup.inventory THEN {backup.inventory}
                    ELSE {With(backup.inventory, imageRegistry, {h}) : h \in backup.inventory[repository]}
  /\ todo' = UpgradeRoles \o [i \in DOMAIN conf |-> conf[i].kind]
  /\ Goto("upgrade roles")
  /\ UNCHANGED <<file, conf, index, feature, manifest, backup, runs, ran>>

UpgradeRoleVars ==   \* the user's document of the kind, or the shipped one
  /\ phase = "upgrade roles" /\ todo # <<>>
  /\ WriteRoleVars(Append(conf, Shipped(Head(todo))))
  /\ todo' = Tail(todo)
  /\ UNCHANGED <<file, conf, index, feature, manifest, inventory, backup, phase, runs, ran>>

(* write_role_manifest_vars: merged with the defaults, a saved document    *)
(* says what it said (Documents.Remerged).                                 *)
ManifestDocLast(kind) ==   \* slip: the last document of the kind
  LET found == At(kind, backup.manifest.docs)
  IN IF found = {} THEN Shipped(kind) ELSE backup.manifest.docs[Max(found)]
ManifestDoc(kind) == FirstOr(At(kind, backup.manifest.docs), backup.manifest.docs, Shipped(kind))

(* get_shared_config_from_manifest: unless there is exactly one, defaults. *)
SharedInManifest ==
  IF Cardinality(At(shared, backup.manifest.docs)) = 1 THEN First(shared, backup.manifest.docs)
  ELSE Shipped(shared)

PopulateUpgradeVars ==
  /\ phase = "upgrade roles" /\ todo = <<>>
  /\ vars' = [vars EXCEPT !.manifest = [kind \in ToSet(ManifestRoles) |-> ManifestDoc(kind)],
                          !.shared = SharedInManifest]
  /\ Goto("upgrade playbooks")
  /\ UNCHANGED <<file, conf, index, feature, manifest, inventory, backup, todo, runs, ran>>

UpgradeStep == StartUpgrade \/ UpgradeInventory \/ UpgradeRoleVars \/ PopulateUpgradeVars

Next == ApplyStep \/ UpgradeStep \/ Stop
Spec == Init /\ [][Next]_state

-----------------------------------------------------------------------------
(* Properties *)

Grouping(groups) ==
  \A kind \in DOMAIN groups : kind \in Kinds /\ groups[kind] # {} /\ groups[kind] \subseteq Machines

TypeOK ==
  /\ file \in InputFiles \cup {None} /\ runs \in 0..MaxRuns
  /\ conf \in Seq(Document) /\ index \in 1..(Len(Order) + 1) /\ feature \in Nat \ {0}
  /\ manifest = None \/ manifest.docs \in Seq(Document)
  /\ inventory = None \/ Grouping(inventory)
  /\ \A kind \in DOMAIN vars.main : vars.main[kind].kind = kind
  /\ todo \in Seq(Kinds \cup {shared})

Playing == phase \in {"playbooks", "upgrade playbooks"}

(* roles_with_generated_vars, which other roles decide by, names exactly   *)
(* the roles that have a vars file when the playbooks start, whatever      *)
(* earlier commands left in the directory.                                 *)
VarsListed == Playing => vars.listed = DOMAIN vars.main

(* When the playbooks of an apply start, every enabled role that an active *)
(* component maps to has vars, and they are a document that one of these   *)
(* components selected - with the cloud's storage, for the masters.        *)
RolesHaveVars ==
  phase = "playbooks" =>
    \A kind \in ToSet(file.enabled) :
      Mapped(kind) # {} =>
        /\ kind \in DOMAIN vars.main
        /\ vars.main[kind].name \in {Component(c).configuration : c \in Mapped(kind)}
        /\ kind = master => vars.main[kind].storage = file.storage

(* The inventory an apply runs with groups under each role the machines of *)
(* all active components that map to it, and no other machine.             *)
GroupsExact ==
  phase = "playbooks" =>
    \A kind \in Kinds, h \in Machines :
      (kind \in DOMAIN inventory /\ h \in inventory[kind])
        <=> \E c \in Mapped(kind) : h \in HostsOf(c)

(* An upgrade that works from the manifest of the apply that ran last      *)
(* renders each role, and the configuration all roles share, from the      *)
(* documents that apply gave its roles.                                    *)
RendersAsApplied ==
  phase = "upgrade playbooks" /\ ran # None /\ backup.manifest.of = ran.of =>
    /\ vars.shared = ran.vars.shared
    /\ \A kind \in DOMAIN vars.manifest \cap DOMAIN ran.vars.main : vars.manifest[kind] = ran.vars.main[kind]
=============================================================================
