------------------------ MODULE AzureInfrastructure -------------------------
(***************************************************************************)
(* The Azure provider: the documents the InfrastructureBuilder makes of    *)
(* the components of an input file, one component after the other.  A      *)
(* component gets the subnet of its first address pool, the network        *)
(* security group that comes with a new subnet, an availability set if it  *)
(* names one, and for each machine a public address, an interface and the  *)
(* machine.  The group of the interfaces is whatever is in the variable    *)
(* nsg: that of the subnet that was made last.                             *)
(*                                                                         *)
(* Resources are named after their component and an index, what there is   *)
(* once in the cluster after the cluster.                                  *)
(***************************************************************************)
EXTENDS Naturals, Sequences, FiniteSets, SequencesExt

CONSTANTS
  Order,       \* the components in the order of the cluster model
  Pools,
  Sets,        \* names of availability sets
  Rules,
  Distros,
  WithCloudConfig,  \* distributions that have a cloud-config.yml
  InputFiles,  \* the input files the user applies, see InputFile
  None

Components == {Order[i] : i \in DOMAIN Order}

(* The definition of a component's machines comes with rules and a         *)
(* distribution; documented are the availability sets that the input file  *)
(* has documents for.  Prefix and name of the cluster are sequences of     *)
(* characters, of which only the dash matters; "default" is no prefix.      *)
Component ==
  [count : Nat, pools : Seq(Pools) \ {<<>>}, rules : SUBSET Rules, distro : Distros,
   set : Sets \cup {None}]
Dash == "-"
InputFile ==
  [groups : BOOLEAN, public : BOOLEAN, cloudInit : BOOLEAN, documented : SUBSET Sets,
   prefix : Seq(STRING), name : Seq(STRING), components : [Components -> Component]]

Assumption ==
  /\ Order \in Seq(Components) /\ \A i, j \in DOMAIN Order : Order[i] = Order[j] => i = j
  /\ InputFiles \subseteq InputFile
  /\ None \notin Sets \cup Components

VARIABLES
  file,    \* the input file of the run
  phase,   \* of the run
  index,   \* the next component of Order
  nsg,     \* the variable of run(): the group made last, None before
  docs,    \* the documents built so far
  copied   \* the distribution cloud-config.yml in the directory is for, or None

vars == <<file, phase, index, nsg, docs, copied>>

NoDocs == [account |-> <<>>, subnets |-> {}, groups |-> {}, associations |-> {}, sets |-> {},
           addresses |-> {}, interfaces |-> {}, machines |-> <<>>, custom |-> None]

Init ==
  /\ file \in InputFiles
  /\ phase = "idle"
  /\ index = 1
  /\ nsg = None
  /\ docs = NoDocs
  /\ copied = None

---------------------------------------------------------------------------
(* storage_account_name(): at most 24 characters; the cluster's name gives *)
(* way to the use, "k8s", and to eight characters of the prefix.           *)
Head8(s, n) == SubSeq(s, 1, IF Len(s) > n THEN n ELSE Len(s))
Use == <<"k", "8", "s">>

(* The characters of a name in their order, but for the dashes. *)
Plain(name) ==
  LET kept == {i \in DOMAIN name : name[i] # Dash}
  IN [k \in 1..Cardinality(kept) |->
        name[CHOOSE i \in kept : Cardinality({j \in kept : j <= i}) = k]]

StorageAccountName(prefix, name) ==
  LET pre == Head8(prefix, 8)
  IN pre \o Head8(Plain(name), 24 - (Len(pre) + Len(Use))) \o Use

Start ==
  /\ phase = "idle"
  /\ docs' = [NoDocs EXCEPT !.account = StorageAccountName(file.prefix, file.name)]
  /\ phase' = "build" /\ index' = 1 /\ nsg' = None
  /\ UNCHANGED <<file, copied>>

(* The group of the interfaces of component c: in the code, the variable   *)
(* after the component's subnet has been found or made.                    *)
GroupOfComponent(c, known) ==   \* slip: named after the component at hand
  IF file.groups THEN c ELSE None

GroupInUse(c, known) ==
  IF ~file.groups THEN None ELSE IF known = {} THEN c ELSE nsg

Machines(c) == {<<c, i>> : i \in 1..file.components[c].count}

(* get_availability_set(): a name without a document is no set at all. *)
SetOf(c) ==
  LET wish == file.components[c].set
  IN IF wish \in file.documented THEN wish ELSE None

(* The body of the loop of run().  A subnet is named after the component   *)
(* that it was made for, and so are its group and the association.         *)
Built(c) ==
  LET wish  == file.components[c]
      pool  == Head(wish.pools)
      known == {s \in docs.subnets : s.pool = pool}
      subnet == IF known = {} THEN [name |-> c, pool |-> pool] ELSE CHOOSE s \in known : TRUE
      new(S) == IF known = {} /\ file.groups THEN S ELSE {}
  IN [docs EXCEPT
        !.subnets = @ \cup {subnet},
        !.groups = @ \cup new({[name |-> c, rules |-> wish.rules]}),
        !.associations = @ \cup new({[subnet |-> c, group |-> c]}),
        !.sets = @ \cup ({SetOf(c)} \ {None}),
        !.addresses = IF file.public THEN @ \cup Machines(c) ELSE @,
        !.interfaces = @ \cup {[name |-> m, subnet |-> subnet.name, group |-> GroupInUse(c, known),
                                address |-> IF file.public THEN m ELSE None] : m \in Machines(c)},
        !.machines = @ \o [i \in 1..wish.count |->
                             [name |-> <<c, i>>, interface |-> <<c, i>>, set |-> SetOf(c),
                              distro |-> wish.distro]]]

BuildComponent ==
  /\ phase = "build" /\ index <= Len(Order)
  /\ LET c == Order[index]
         made == ~\E s \in docs.subnets : s.pool = Head(file.components[c].pools)
     IN IF file.components[c].count < 1
        THEN UNCHANGED <<nsg, docs>>
        ELSE /\ docs' = Built(c)
             /\ nsg' = IF made /\ file.groups THEN c ELSE nsg
  /\ index' = index + 1
  /\ UNCHANGED <<file, phase, copied>>

(* The document of cloud-init is for the distribution of the first machine. *)
FinishBuild ==
  /\ phase = "build" /\ index > Len(Order)
  /\ docs' = IF docs.machines = <<>> THEN docs ELSE [docs EXCEPT !.custom = docs.machines[1].distro]
  /\ phase' = "files"
  /\ UNCHANGED <<file, index, nsg, copied>>

(* Terraform's files, once the distributions have been found to be one.    *)
(* What is enabled is copied where there is a file for the distribution.   *)
CopyFiles ==
  /\ phase = "files"
  /\ \A i, j \in DOMAIN docs.machines : docs.machines[i].distro = docs.machines[j].distro
  /\ copied' = IF file.cloudInit /\ docs.custom \in WithCloudConfig THEN docs.custom ELSE None
  /\ phase' = "terraform"
  /\ UNCHANGED <<file, index, nsg, docs>>

(* The SSH key is not where the input file says, the machine is one of     *)
(* Windows, a document is not valid: nothing of the build is kept.         *)
Fail ==
  /\ phase \in {"build", "files"}
  /\ phase' = "idle" /\ docs' = NoDocs /\ nsg' = None /\ index' = 1
  /\ UNCHANGED <<file, copied>>

Edit ==
  /\ phase \in {"idle", "terraform"}
  /\ file' \in InputFiles
  /\ phase' = "idle" /\ docs' = NoDocs /\ nsg' = None /\ index' = 1
  /\ UNCHANGED copied

Next == Start \/ BuildComponent \/ FinishBuild \/ CopyFiles \/ Fail \/ Edit

Spec == Init /\ [][Next]_vars

---------------------------------------------------------------------------
(* Properties *)

MachineName == Components \X (Nat \ {0})

TypeOK ==
  /\ file \in InputFiles
  /\ phase \in {"idle", "build", "files", "terraform"}
  /\ index \in 1..Len(Order) + 1
  /\ nsg \in Components \cup {None}
  /\ copied \in Distros \cup {None}
  /\ docs.subnets \subseteq [name : Components, pool : Pools]
  /\ docs.groups \subseteq [name : Components, rules : SUBSET Rules]
  /\ docs.associations \subseteq [subnet : Components, group : Components]
  /\ docs.sets \subseteq Sets
  /\ docs.addresses \subseteq MachineName
  /\ docs.interfaces \subseteq [name : MachineName, subnet : Components, group : Components \cup {None},
                               address : MachineName \cup {None}]
  /\ docs.machines \in Seq([name : MachineName, interface : MachineName, set : Sets \cup {None},
                            distro : Distros])
  /\ docs.custom \in Distros \cup {None}

ToApply == phase = "terraform"
NamesIn(S) == {d.name : d \in S}
Active == {i \in DOMAIN Order : file.components[Order[i]].count >= 1}
Pool(i) == Head(file.components[Order[i]].pools)

(* Components of one pool stand side by side, but for components without   *)
(* machines.                                                               *)
SideBySide == \A i, j, k \in Active : i < j /\ j < k /\ Pool(i) = Pool(k) => Pool(j) = Pool(i)

(* The group of an interface is that of its subnet if components of one    *)
(* pool stand side by side; nsg is then the group made for the pool.       *)
InterfacesInGroup ==
  ToApply /\ file.groups /\ SideBySide =>
    \A n \in docs.interfaces : [subnet |-> n.subnet, group |-> n.group] \in docs.associations

(* What a document refers to by name is built, whatever order components   *)
(* come in and whatever is switched off; nsg is never used before it is    *)
(* set, and no machine goes into a set that has no document.               *)
ReferencesResolve ==
  ToApply =>
    /\ \A n \in docs.interfaces :
         /\ n.subnet \in NamesIn(docs.subnets)
         /\ n.group \in NamesIn(docs.groups) \/ (~file.groups /\ n.group = None)
         /\ n.address \in docs.addresses \/ (~file.public /\ n.address = None)
    /\ \A i \in DOMAIN docs.machines :
         /\ docs.machines[i].interface \in NamesIn(docs.interfaces)
         /\ docs.machines[i].set \in docs.sets \cup {None}
         /\ docs.machines[i].set \in file.documented \cup {None}
    /\ \A s, t \in docs.subnets : s.name = t.name \/ s.pool = t.pool => s = t

(* Azure takes 3 to 24 letters and digits as the name of a storage account: *)
(* so many there are, and a dash only if the prefix of the cluster has one. *)
AccountNameFits ==
  ToApply =>
    /\ Len(docs.account) \in 3..24
    /\ Dash \notin ToSet(file.prefix) => Dash \notin ToSet(docs.account)
    /\ \E n \in 1..22 : SubSeq(docs.account, n, n + 2) = Use

(* A machine that reads cloud-config.yml when it starts finds it, that of  *)
(* its distribution, also when an earlier input file left another or none. *)
CustomDataThere ==
  ToApply /\ file.cloudInit =>
    \A i \in DOMAIN docs.machines :
      docs.machines[i].distro \in WithCloudConfig => copied = docs.machines[i].distro
=============================================================================
