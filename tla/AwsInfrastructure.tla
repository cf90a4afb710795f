------------------------- MODULE AwsInfrastructure --------------------------
(***************************************************************************)
(* The AWS provider: the InfrastructureBuilder turns the components of an  *)
(* input file into the documents Terraform's files are rendered from, one  *)
(* component after the other; components that name the same address pool   *)
(* share its subnet and security group.  Terraform applies or destroys     *)
(* any part of them before it fails, and what it did is in its state, the  *)
(* one thing of an earlier run the builder consults (OsImages has the      *)
(* images it looks up in the manifest).                                    *)
(*                                                                         *)
(* A resource is named after its component and an index.  Documents refer  *)
(* to each other by name, the builder to documents by reference: here, by  *)
(* their index in the sequence of their kind.                              *)
(***************************************************************************)
EXTENDS Naturals, Sequences, FiniteSets, FiniteSetsExt, SequencesExt

CONSTANTS
  Order,        \* the components in the order of the cluster model
  Pools, Zones,
  Rules,        \* security rules of machine definitions
  InputFiles,   \* the input files the user applies, see InputFile
  KeyNames,     \* names for key pairs; never drawn twice
  None

Components == {Order[i] : i \in DOMAIN Order}

(* own: kinds of which the input file brings a document of its own, in     *)
(* which the builder then keeps every document of that kind.               *)
Kinds == {"subnet", "launch-configuration"}
Component ==
  [count : Nat, subnets : Seq(Pools \X Zones) \ {<<>>}, rules : SUBSET Rules,
   efs : SUBSET {"mount", "authorized"}]
InputFile == [own : SUBSET Kinds, components : [Components -> Component]]

Assumption ==
  /\ Order \in Seq(Components) /\ \A i, j \in DOMAIN Order : Order[i] = Order[j] => i = j
  /\ InputFiles \subseteq InputFile
  /\ None \notin KeyNames

VARIABLES
  file,      \* the input file of the run
  phase,     \* of the run
  index,     \* the next component of Order
  docs,      \* the documents built so far
  work,      \* subnets_to_create, security_groups_to_create and subnet_index
  state,     \* Terraform's state
  machines,  \* component -> the key its machines let in, None without any
  drawn      \* names of key pairs that have been drawn

vars == <<file, phase, index, docs, work, state, machines, drawn>>

NoDocs == [key |-> None, subnets |-> <<>>, groups |-> <<>>, scaling |-> <<>>,
           launch |-> <<>>, targets |-> {}, nfs |-> {}]
NoWork == [ofSubnets |-> <<>>, ofGroups |-> <<>>, index |-> 0]
NoState == [there |-> FALSE, key |-> None]

Init ==
  /\ file \in InputFiles
  /\ phase = "idle"
  /\ index = 1
  /\ docs = NoDocs
  /\ work = NoWork
  /\ state = NoState
  /\ machines = [c \in Components |-> None]
  /\ drawn = {}

---------------------------------------------------------------------------
(* get_config_or_default() and the append that follows: a document of the  *)
(* user's is the same object each time.                                    *)
Add(kind, documents, d) ==
  Append(IF kind \in file.own THEN [i \in DOMAIN documents |-> d] ELSE documents, d)

WithPool(documents, pool) == {i \in DOMAIN documents : documents[i].pool = pool}

(* A subnet and a group (and a route) for one of component c's definitions. *)
NewSubnet(c, definition) ==
  LET name == <<c, work.index>>
      pool == definition[1]
  IN /\ docs' = [docs EXCEPT
          !.subnets = Add("subnet", @, [name |-> name, pool |-> pool, zone |-> definition[2]]),
          !.groups = Append(@, [name |-> name, pool |-> pool, rules |-> {}])]
     /\ work' = [ofSubnets |-> Append(work.ofSubnets, Len(docs.subnets) + 1),
                 ofGroups |-> Append(work.ofGroups, Len(docs.groups) + 1),
                 index |-> work.index + 1]

(* The subnet and the group another component has made for the pool. *)
KnownSubnet(pool) ==
  /\ work' = [work EXCEPT !.ofSubnets = Append(@, Min(WithPool(docs.subnets, pool))),
                          !.ofGroups = Append(@, Min(WithPool(docs.groups, pool)))]
  /\ UNCHANGED docs

GetSubnetSameIndex(c, definition) ==   \* slip: subnet_index is not counted up
  IF WithPool(docs.subnets, definition[1]) # {}
  THEN KnownSubnet(definition[1])
  ELSE LET name == <<c, 0>>
           pool == definition[1]
       IN /\ docs' = [docs EXCEPT
               !.subnets = Add("subnet", @, [name |-> name, pool |-> pool, zone |-> definition[2]]),
               !.groups = Append(@, [name |-> name, pool |-> pool, rules |-> {}])]
          /\ work' = [ofSubnets |-> Append(work.ofSubnets, Len(docs.subnets) + 1),
                      ofGroups |-> Append(work.ofGroups, Len(docs.groups) + 1), index |-> 0]

(* The subnet and the group of the pool if there are any, else new ones. *)
GetSubnet(c, definition) ==
  IF WithPool(docs.subnets, definition[1]) # {}
  THEN KnownSubnet(definition[1])
  ELSE NewSubnet(c, definition)

(* rule_exists_in_list(): the rules of the definition come to those of     *)
(* every group of the component that does not have them.                   *)
AddRulesToNew(groups, chosen, rules) ==   \* slip: a group that has rules gets no more
  [i \in DOMAIN groups |->
     IF groups[i].rules = {} /\ \E j \in DOMAIN chosen : chosen[j] = i
     THEN [groups[i] EXCEPT !.rules = rules] ELSE groups[i]]

AddRules(groups, chosen, rules) ==
  [i \in DOMAIN groups |->
     IF \E j \in DOMAIN chosen : chosen[j] = i
     THEN [groups[i] EXCEPT !.rules = @ \cup rules] ELSE groups[i]]

(* efs_add_mount_target_config(): AWS takes one target in a zone, which is *)
(* that of the first subnet there.                                         *)
Targets(subnets, chosen, new) ==
  {[zone |-> subnets[chosen[j]].zone, subnet |-> subnets[chosen[j]].name] : j \in new}

AddTargetPerSubnet(targets, subnets, chosen) ==   \* slip: one target for each subnet
  targets \cup Targets(subnets, chosen, DOMAIN chosen)

AddTarget(targets, subnets, chosen) ==
  targets \cup Targets(subnets, chosen,
    {j \in DOMAIN chosen : LET zone == subnets[chosen[j]].zone
                           IN /\ \A t \in targets : t.zone # zone
                              /\ \A k \in 1..(j - 1) : subnets[chosen[k]].zone # zone})

Names(documents, chosen) == [i \in DOMAIN chosen |-> documents[chosen[i]].name]

(* The rest of the loop of run(), with the networks of the component. *)
Built(c) ==
  LET wish == file.components[c]
  IN [docs EXCEPT
        !.groups = AddRules(@, work.ofGroups, wish.rules),
        !.scaling = Append(@, [name |-> c, count |-> wish.count, efs |-> wish.efs,
                               launch |-> c, subnets |-> Names(docs.subnets, work.ofSubnets)]),
        !.launch = Add("launch-configuration", @,
                       [name |-> c, key |-> docs.key, groups |-> Names(docs.groups, work.ofGroups)]),
        !.targets = IF "mount" \in wish.efs THEN AddTarget(@, docs.subnets, work.ofSubnets) ELSE @]

(* get_public_key(): the key pair of the Terraform state, if there is one. *)
GetFreshKey ==   \* slip: a new name in every run
  \E k \in KeyNames \ drawn :
    /\ drawn' = drawn \cup {k}
    /\ docs' = [NoDocs EXCEPT !.key = k]

GetPublicKey ==
  IF state.there
  THEN /\ state.key # None
       /\ docs' = [NoDocs EXCEPT !.key = state.key]
       /\ UNCHANGED drawn
  ELSE \E k \in KeyNames \ drawn :
         /\ drawn' = drawn \cup {k}
         /\ docs' = [NoDocs EXCEPT !.key = k]

Start ==
  /\ phase = "idle"
  /\ GetPublicKey
  /\ phase' = "components" /\ index' = 1
  /\ UNCHANGED <<file, work, state, machines>>

(* The networks of a component, one of its definitions after the other, *)
BuildNetwork ==
  /\ phase = "components" /\ index <= Len(Order)
  /\ LET c == Order[index]
         definitions == file.components[c].subnets
     IN /\ file.components[c].count >= 1
        /\ Len(work.ofSubnets) < Len(definitions)
        /\ GetSubnet(c, definitions[Len(work.ofSubnets) + 1])
  /\ UNCHANGED <<file, phase, index, state, machines, drawn>>

(* and then what is in them. *)
BuildComponent ==
  /\ phase = "components" /\ index <= Len(Order)
  /\ LET wish == file.components[Order[index]]
     IN IF wish.count < 1
        THEN UNCHANGED docs
        ELSE Len(work.ofSubnets) = Len(wish.subnets) /\ docs' = Built(Order[index])
  /\ index' = index + 1 /\ work' = NoWork
  /\ UNCHANGED <<file, phase, state, machines, drawn>>

(* add_security_rules_inbound_efs(), when something mounts the storage:     *)
(* NFS from the subnets of the groups that may reach it, which it looks up *)
(* by name and must find once.  A rule that is there is not recognised,    *)
(* the port being compared with a number; twice, it makes no difference.   *)
Named(n) == {i \in DOMAIN docs.subnets : docs.subnets[i].name = n}

Authorized ==
  UNION {ToSet(docs.scaling[i].subnets) :
         i \in {i \in DOMAIN docs.scaling : "authorized" \in docs.scaling[i].efs}}

Nfs == {docs.subnets[i].pool : i \in {i \in DOMAIN docs.subnets : docs.subnets[i].name \in Authorized}}

FinishBuild ==
  /\ phase = "components" /\ index > Len(Order)
  /\ IF docs.targets = {}
     THEN docs' = docs
     ELSE /\ \A n \in Authorized : Cardinality(Named(n)) = 1
          /\ docs' = [docs EXCEPT !.nfs = Nfs]
  /\ phase' = "terraform"
  /\ UNCHANGED <<file, index, work, state, machines, drawn>>

(* An image that is not found or not unique, a subnet that is not, a call  *)
(* that fails: nothing of the build is kept.                               *)
Fail ==
  /\ phase = "components"
  /\ phase' = "idle"
  /\ docs' = NoDocs /\ work' = NoWork /\ index' = 1
  /\ UNCHANGED <<file, state, machines, drawn>>

---------------------------------------------------------------------------
(* Terraform and AWS.  A machine starts only with a key pair that is there. *)
Wanted == {docs.scaling[i].name : i \in DOMAIN docs.scaling}

TerraformApply ==
  /\ phase = "terraform"
  /\ \E made \in SUBSET Wanted, gone \in SUBSET (Components \ Wanted),
        k \in {state.key, docs.key}, wrote \in BOOLEAN :
       /\ made # {} => k = docs.key
       /\ wrote \/ (made = {} /\ gone = {} /\ k = state.key)
       /\ state' = [there |-> state.there \/ wrote, key |-> k]
       /\ machines' = [c \in Components |->
            IF c \in gone THEN None
            ELSE IF c \in made /\ machines[c] = None THEN docs.key ELSE machines[c]]
  /\ phase' = "idle"
  /\ docs' = NoDocs /\ index' = 1
  /\ UNCHANGED <<file, work, drawn>>

(* delete: Terraform destroys any part; with everything gone the build     *)
(* directory is removed.                                                   *)
TerraformDestroy ==
  /\ phase = "idle" /\ state.there
  /\ \E left \in SUBSET Components, k \in {state.key, None} :
       /\ machines' = [c \in Components |-> IF c \in left THEN machines[c] ELSE None]
       /\ state' = IF k = None /\ \A c \in Components : machines'[c] = None
                   THEN NoState ELSE [there |-> TRUE, key |-> k]
  /\ UNCHANGED <<file, phase, index, docs, work, drawn>>

Edit ==
  /\ phase = "idle"
  /\ file' \in InputFiles \ {file}
  /\ UNCHANGED <<phase, index, docs, work, state, machines, drawn>>

Next == Start \/ BuildNetwork \/ BuildComponent \/ FinishBuild \/ Fail \/ TerraformApply \/ TerraformDestroy \/ Edit

Spec == Init /\ [][Next]_vars

---------------------------------------------------------------------------
(* Properties *)

Name == Components \X Nat

TypeOK ==
  /\ file \in InputFiles
  /\ phase \in {"idle", "components", "terraform"}
  /\ index \in 1..Len(Order) + 1
  /\ docs.key \in KeyNames \cup {None}
  /\ docs.subnets \in Seq([name : Name, pool : Pools, zone : Zones])
  /\ docs.groups \in Seq([name : Name, pool : Pools, rules : SUBSET Rules])
  /\ docs.scaling \in Seq([name : Components, count : Nat, efs : SUBSET {"mount", "authorized"},
                           launch : Components, subnets : Seq(Name)])
  /\ docs.launch \in Seq([name : Components, key : KeyNames, groups : Seq(Name)])
  /\ docs.targets \subseteq [zone : Zones, subnet : Name]
  /\ docs.nfs \subseteq Pools
  /\ work \in [ofSubnets : Seq(Nat), ofGroups : Seq(Nat), index : Nat]
  /\ state \in [there : BOOLEAN, key : KeyNames \cup {None}]
  /\ machines \in [Components -> KeyNames \cup {None}]
  /\ drawn \subseteq KeyNames

Active == {c \in Components : file.components[c].count >= 1}
PoolsOf(c) == {d[1] : d \in ToSet(file.components[c].subnets)}
NamesIn(documents) == {documents[i].name : i \in DOMAIN documents}
Once(documents, n) == Cardinality({i \in DOMAIN documents : documents[i].name = n}) = 1
ToApply == phase = "terraform"

(* An address pool becomes one subnet and one group however many components *)
(* name it, and the machines of each of them are in it.                    *)
PoolsShared ==
  ToApply /\ "subnet" \notin file.own =>
    /\ \A p \in UNION {PoolsOf(c) : c \in Active} :
         Cardinality(WithPool(docs.subnets, p)) = 1 /\ Cardinality(WithPool(docs.groups, p)) = 1
    /\ \A i \in DOMAIN docs.scaling : LET a == docs.scaling[i] IN
         {docs.subnets[j].pool : j \in UNION {Named(n) : n \in ToSet(a.subnets)}} = PoolsOf(a.name)

(* A group lets in what the components of its pool want, all of them and   *)
(* no other, whichever of them comes first.                                *)
RulesExact ==
  ToApply /\ "subnet" \notin file.own =>
    \A i \in DOMAIN docs.groups :
      docs.groups[i].rules = UNION {file.components[c].rules :
                                    c \in {c \in Active : docs.groups[i].pool \in PoolsOf(c)}}

(* What a document refers to by name is built, once; a document of the     *)
(* user's own, which becomes each document of its kind, is excluded.       *)
ReferencesResolve ==
  ToApply =>
    /\ \A i \in DOMAIN docs.scaling :
         /\ "subnet" \notin file.own => \A n \in ToSet(docs.scaling[i].subnets) : Once(docs.subnets, n)
         /\ "launch-configuration" \notin file.own => Once(docs.launch, docs.scaling[i].launch)
    /\ \A i \in DOMAIN docs.launch : \A n \in ToSet(docs.launch[i].groups) : Once(docs.groups, n)
    /\ "subnet" \notin file.own => \A t \in docs.targets : Once(docs.subnets, t.subnet)

(* With shared storage there is one mount target in each zone of the       *)
(* machines that mount it, and every subnet of those that may is let in.   *)
StorageReachable ==
  ToApply /\ docs.targets # {} =>
    /\ \A s, t \in docs.targets : s.zone = t.zone => s = t
    /\ \A i \in DOMAIN docs.scaling : LET a == docs.scaling[i] IN
         /\ "mount" \in a.efs =>
              \A j \in UNION {Named(n) : n \in ToSet(a.subnets)} :
                \E t \in docs.targets : t.zone = docs.subnets[j].zone
         /\ "authorized" \in a.efs =>
              {docs.subnets[j].pool : j \in UNION {Named(n) : n \in ToSet(a.subnets)}} \subseteq docs.nfs

(* Machines and Terraform's state agree on the key pair, over failures of  *)
(* applies and deletes: a run that cannot tell the key does not go on.     *)
KeyReused ==
  \A c \in Components :
    machines[c] # None /\ state.key # None => machines[c] = state.key
=============================================================================
