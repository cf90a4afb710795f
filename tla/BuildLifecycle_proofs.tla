----------------------- MODULE BuildLifecycle_proofs -----------------------
(***************************************************************************)
(* Proofs about BuildLifecycle, for every value of its constants: the type *)
(* invariant and NoOrphans whatever mishaps occur, and under Mishaps = {}  *)
(* the inductive invariant IInv with what follows from it.                 *)
(***************************************************************************)
EXTENDS BuildLifecycle, FiniteSetTheorems, TLAPS

(***************************************************************************)
(* The values of state that actions build stay in their types.             *)
(***************************************************************************)
LEMMA NoMembersType == NoMembers \in Membership
  BY DEF NoMembers, Membership

LEMMA InventoryOfType ==
  ASSUME NEW c, NEW hosts \in SUBSET Machine
  PROVE  InventoryOf(c, hosts) \in Membership
  BY DEF InventoryOf, Membership

LEMMA TypeInit == Init => TypeOK
<1> SUFFICES ASSUME Init PROVE TypeOK
  OBVIOUS
<1>1. backup \in [present : BOOLEAN, inventory : Membership, manifest : BOOLEAN]
  BY NoMembersType DEF Init, NoBackup
<1>2. run \in [cfg : Configs, noInfra : BOOLEAN, skipConfig : BOOLEAN]
  BY DEF Init
<1> QED
  BY <1>1, <1>2, NoMembersType DEF Init, TypeOK

LEMMA TypeStep == TypeOK /\ [Next]_vars => TypeOK'
<1> SUFFICES ASSUME TypeOK, [Next]_vars PROVE TypeOK'
  OBVIOUS
<1> USE DEF TypeOK, ApplyPC, UpgradePC, DeletePC, files
<1>1. ASSUME NEW c \in Configs, EditConfig(c) PROVE TypeOK'
  BY <1>1 DEF EditConfig
<1>2. ASSUME NEW command \in {"apply", "upgrade"}, SettleOn(command) PROVE TypeOK'
  BY <1>2 DEF SettleOn
<1>3. ASSUME NEW noInfra \in BOOLEAN, NEW skipConfig \in BOOLEAN,
             StartApply(noInfra, skipConfig)
      PROVE TypeOK'
  BY <1>3, NoMembersType DEF StartApply, NoBackup
<1>4. CASE StartUpgrade
  BY <1>4, NoMembersType DEF StartUpgrade, NoBackup, Files
<1>5. CASE StartDelete
  BY <1>5 DEF StartDelete
<1>6. CASE SaveManifest
  BY <1>6 DEF SaveManifest
<1>7. ASSUME NEW m \in Machine, TerraformCreate(m) PROVE TypeOK'
  BY <1>7 DEF TerraformCreate
<1>8. ASSUME NEW m \in Machine, TerraformDestroy(m) PROVE TypeOK'
  BY <1>8 DEF TerraformDestroy, Lose, Membership
<1>9. CASE TerraformDone
  BY <1>9 DEF TerraformDone
<1>10. CASE CollectInfrastructureConfig
  BY <1>10 DEF CollectInfrastructureConfig
<1>11. CASE CreateInventory
  BY <1>11, InventoryOfType DEF CreateInventory
<1>12. ASSUME NEW g \in Groups, NEW m \in Machine, Provision(g, m) PROVE TypeOK'
  BY <1>12 DEF Provision, Membership
<1>13. CASE FinishApply
  BY <1>13 DEF FinishApply
<1>14. ASSUME NEW f \in Files, BackupFile(f) PROVE TypeOK'
  BY <1>14 DEF BackupFile
<1>15. CASE BackupDone
  BY <1>15 DEF BackupDone
<1>16. CASE UpgradeInventory
  BY <1>16 DEF UpgradeInventory
<1>17. CASE FinishUpgrade
  BY <1>17 DEF FinishUpgrade
<1>18. ASSUME NEW m \in Machine, DestroyMachine(m) PROVE TypeOK'
  BY <1>18 DEF DestroyMachine, Lose, Membership
<1>19. CASE DestroyDone
  BY <1>19 DEF DestroyDone
<1>20. ASSUME NEW f \in Files, RemoveFile(f) PROVE TypeOK'
  BY <1>20, NoMembersType DEF RemoveFile, NoBackup
<1>21. CASE FinishDelete
  BY <1>21 DEF FinishDelete
<1>22. CASE Crash
  BY <1>22, NoMembersType DEF Crash
<1>23. CASE UNCHANGED vars
  BY <1>23 DEF vars
<1> QED
  BY <1>1, <1>2, <1>3, <1>4, <1>5, <1>6, <1>7, <1>8, <1>9, <1>10, <1>11, <1>12,
     <1>13, <1>14, <1>15, <1>16, <1>17, <1>18, <1>19, <1>20, <1>21, <1>22, <1>23
     DEF Next, Operator, ApplyStep, UpgradeStep, DeleteStep

(***************************************************************************)
(* Every variable keeps its type, whatever the operator, the environment   *)
(* and the crashes do.                                                     *)
(***************************************************************************)
THEOREM TypeCorrect == Spec => []TypeOK
  BY TypeInit, TypeStep, PTL DEF Spec
-----------------------------------------------------------------------------
(***************************************************************************)
(* The first n hosts of a component number n: this is what lets a          *)
(* comparison of counts stand for an inclusion of sets.                    *)
(***************************************************************************)
LEMMA FirstCardinality ==
  ASSUME NEW g \in Components, NEW n \in 0..MaxCount
  PROVE  Cardinality(First(g, n)) = n
<1> DEFINE f == [i \in 1..n |-> <<g, i - 1>>]
<1>1. n \in Nat
  BY MaxCountAssumption
<1>2. f \in [1..n -> First(g, n)]
  BY <1>1, MaxCountAssumption DEF First, Machine
<1>3. \A i, j \in 1..n : f[i] = f[j] => i = j
  OBVIOUS
<1>4. \A m \in First(g, n) : \E i \in 1..n : f[i] = m
  <2> SUFFICES ASSUME NEW m \in First(g, n) PROVE \E i \in 1..n : f[i] = m
    OBVIOUS
  <2>1. m[2] \in Nat /\ m[2] < n /\ m = <<g, m[2]>>
    BY <1>1, MaxCountAssumption DEF First, Machine
  <2>2. m[2] + 1 \in 1..n /\ (m[2] + 1) - 1 = m[2]
    BY <1>1, <2>1
  <2>3. f[m[2] + 1] = <<g, (m[2] + 1) - 1>>
    BY <2>2
  <2>4. f[m[2] + 1] = m
    BY <2>1, <2>2, <2>3
  <2> QED
    BY <2>2, <2>4
<1>5. ExistsBijection(1..n, First(g, n))
  BY <1>2, <1>3, <1>4
     DEF ExistsBijection, Bijection, Injection, Surjection, IsInjective
<1> QED
  BY <1>1, <1>5, FS_CountingElements

LEMMA FirstMonotonic ==
  ASSUME NEW g, NEW n \in 0..MaxCount, NEW k \in 0..MaxCount, n <= k
  PROVE  First(g, n) \subseteq First(g, k)
  BY MaxCountAssumption DEF First, Machine

LEMMA FirstConfigured ==
  ASSUME NEW c \in Configs, NEW g \in Components
  PROVE  First(g, c[g]) \subseteq Target(c)
  BY ConfigsAssumption, MaxCountAssumption DEF First, Target, Machine, Components

(***************************************************************************)
(* The inventory written from the configured machines lists the first      *)
(* hosts of each group.                                                    *)
(***************************************************************************)
LEMMA InventoryOfTarget ==
  ASSUME NEW c \in Configs, NEW g \in Groups
  PROVE  InventoryOf(c, Target(c))[g] =
            IF IsSingle(c) THEN First("single_machine", 1) ELSE First(g, c[g])
<1>1. /\ c \in [Components -> 0..MaxCount]
      /\ IF IsSingle(c) THEN /\ c["single_machine"] = 1
                             /\ c["kubernetes_master"] = 0
                             /\ c["postgresql"] = 0
                        ELSE c["single_machine"] = 0
  BY ConfigsAssumption, MaxCountAssumption DEF IsSingle, Components
<1>2. \A m \in Machine : m[1] \in Components /\ m[2] \in Nat
  BY MaxCountAssumption DEF Machine
<1>3. CASE IsSingle(c)
  BY <1>1, <1>2, <1>3 DEF InventoryOf, Target, First, RolesMapping, Components, Groups
<1>4. CASE ~IsSingle(c)
  BY <1>1, <1>2, <1>4 DEF InventoryOf, Target, First, RolesMapping, Components, Groups
<1> QED
  BY <1>3, <1>4

(***************************************************************************)
(* What the two assertions of apply establish: when they let a             *)
(* configuration pass, every host of the inventory is configured.          *)
(***************************************************************************)
LEMMA AcceptedHosts ==
  ASSUME TypeOK, FirstHosts(inventory), Accepts(config), NEW g \in Groups
  PROVE  inventory[g] \subseteq Target(config)
<1>1. config \in Configs /\ config \in [Components -> 0..MaxCount] /\ g \in Components
  BY ConfigsAssumption DEF TypeOK, Groups, Components
<1>2. CASE IsSingle(config)
  <2>1. config["single_machine"] = 1
    BY <1>1, <1>2, ConfigsAssumption
  <2> QED
    BY <1>1, <1>2, <2>1, FirstConfigured DEF FirstHosts, Components
<1>3. CASE ~IsSingle(config)
  <2>1. PICK n \in 0..MaxCount : inventory[g] = First(g, n)
    BY <1>3 DEF FirstHosts
  <2>2. Cardinality(inventory[g]) = n
    BY <1>1, <2>1, FirstCardinality
  <2>3. inventory[g] = {} \/ n <= config[g]
    BY <1>1, <1>3, <2>2, MaxCountAssumption
       DEF Accepts, AssertNoMasterDownscale, AssertNoPostgresNodesNumberChange, Groups, Components
  <2>4. n <= config[g] => inventory[g] \subseteq First(g, config[g])
    BY <1>1, <2>1, FirstMonotonic
  <2> QED
    BY <1>1, <2>3, <2>4, FirstConfigured
<1> QED
  BY <1>2, <1>3
-----------------------------------------------------------------------------
LEMMA NoOrphansStep ==
  TypeOK /\ NoOrphans /\ RemovesAfterDestroy /\ [Next]_vars
     => NoOrphans' /\ RemovesAfterDestroy'
<1> SUFFICES ASSUME TypeOK, NoOrphans, RemovesAfterDestroy, [Next]_vars
             PROVE  NoOrphans' /\ RemovesAfterDestroy'
  OBVIOUS
<1> USE DEF NoOrphans, RemovesAfterDestroy, files
<1>1. CASE Operator
  BY <1>1 DEF Operator, EditConfig, SettleOn, StartApply, StartUpgrade, StartDelete
<1>2. CASE ApplyStep
  <2>1. ASSUME NEW m \in Machine, TerraformCreate(m) \/ TerraformDestroy(m)
        PROVE  NoOrphans' /\ RemovesAfterDestroy'
    BY <2>1 DEF TerraformCreate, TerraformDestroy, Lose
  <2>2. CASE ~\E m \in Machine : TerraformCreate(m) \/ TerraformDestroy(m)
    BY <1>2, <2>2 DEF ApplyStep, SaveManifest, TerraformDone, CollectInfrastructureConfig,
                      CreateInventory, Provision, FinishApply
  <2> QED
    BY <2>1, <2>2
<1>3. CASE UpgradeStep
  BY <1>3 DEF UpgradeStep, BackupFile, BackupDone, UpgradeInventory, FinishUpgrade
<1>4. CASE DeleteStep
  BY <1>4 DEF DeleteStep, DestroyMachine, Lose, DestroyDone, RemoveFile, FinishDelete
<1>5. CASE Crash
  BY <1>5 DEF Crash
<1>6. CASE UNCHANGED vars
  BY <1>6 DEF vars
<1> QED
  BY <1>1, <1>2, <1>3, <1>4, <1>5, <1>6 DEF Next

(***************************************************************************)
(* A machine in the cloud is always recorded in a Terraform state, also    *)
(* when `delete` is killed between two of the files it removes.            *)
(***************************************************************************)
THEOREM NoOrphansCorrect == Spec => []NoOrphans
<1>1. Init => NoOrphans /\ RemovesAfterDestroy
  BY DEF Init, NoOrphans, RemovesAfterDestroy
<1> QED
  BY <1>1, NoOrphansStep, TypeCorrect, PTL DEF Spec
-----------------------------------------------------------------------------
LEMMA NoMembersFirst ==
  ASSUME NEW g \in Groups
  PROVE  /\ NoMembers[g] = {}
         /\ NoMembers[g] \subseteq First("single_machine", 1)
         /\ \E n \in 0..MaxCount : NoMembers[g] = First(g, n)
<1>1. First(g, 0) = {}
  BY MaxCountAssumption DEF First, Machine
<1> QED
  BY <1>1, MaxCountAssumption DEF NoMembers

LEMMA IInvInit == Init => IInv
<1> SUFFICES ASSUME Init PROVE IInv
  OBVIOUS
<1>1. TypeOK
  BY TypeInit
<1>2. MembersAlive /\ InventoryKnowsMembers /\ BackupKnowsMembers /\ HostsConfigured
  BY DEF Init, MembersAlive, InventoryKnowsMembers, BackupKnowsMembers, HostsConfigured,
         NoMembers, NoBackup, ApplyPC
<1>3. FirstHosts(inventory) /\ FirstHosts(backup.inventory)
  BY NoMembersFirst DEF Init, FirstHosts, NoBackup
<1> QED
  BY <1>1, <1>2, <1>3 DEF IInv, Init

(***************************************************************************)
(* Every step keeps IInv when no mishap occurs.                            *)
(***************************************************************************)
LEMMA IInvStep ==
  ASSUME Mishaps = {}, IInv, RemovesAfterDestroy, [Next]_vars
  PROVE  IInv'
<1> DEFINE Rest == /\ IsSingle(run.cfg) = IsSingle(config)
                   /\ MembersAlive
                   /\ InventoryKnowsMembers
                   /\ BackupKnowsMembers
                   /\ HostsConfigured
                   /\ FirstHosts(inventory)
                   /\ FirstHosts(backup.inventory)
<1> USE DEF IInv
<1> SUFFICES Rest'
  BY TypeStep
<1>1. ASSUME NEW c \in Configs, EditConfig(c) PROVE Rest'
  BY <1>1 DEF EditConfig, MembersAlive, InventoryKnowsMembers, BackupKnowsMembers,
              HostsConfigured, FirstHosts, ApplyPC, files
<1>2. ASSUME NEW command \in {"apply", "upgrade"}, SettleOn(command) PROVE Rest'
  BY <1>2 DEF SettleOn, MembersAlive, InventoryKnowsMembers, BackupKnowsMembers,
              HostsConfigured, FirstHosts, files
<1>3. ASSUME NEW noInfra \in BOOLEAN, NEW skipConfig \in BOOLEAN,
             StartApply(noInfra, skipConfig)
      PROVE  Rest'
  <2>1. run'.cfg = config /\ run'.noInfra = noInfra /\ pc' = "save_manifest"
    BY <1>3 DEF StartApply
  <2>2. backup'.inventory = NoMembers
    BY <1>3 DEF StartApply, NoBackup
  <2>3. HostsConfigured'
    BY <1>3, <2>1, AcceptedHosts DEF StartApply, HostsConfigured
  <2>4. BackupKnowsMembers'
    BY <2>2 DEF BackupKnowsMembers
  <2>5. FirstHosts(inventory)' /\ FirstHosts(backup.inventory)'
    BY <1>3, <2>2, NoMembersFirst DEF StartApply, FirstHosts
  <2> QED
    BY <1>3, <2>1, <2>3, <2>4, <2>5 DEF StartApply, MembersAlive, InventoryKnowsMembers
<1>4. CASE StartUpgrade
  <2>1. backup'.inventory = NoMembers \/ backup' = backup
    BY <1>4 DEF StartUpgrade, NoBackup
  <2>2. BackupKnowsMembers'
    BY <1>4, <2>1 DEF StartUpgrade, BackupKnowsMembers, ApplyPC
  <2>3. FirstHosts(inventory)' /\ FirstHosts(backup.inventory)'
    BY <1>4, <2>1, NoMembersFirst DEF StartUpgrade, FirstHosts
  <2> QED
    BY <1>4, <2>2, <2>3 DEF StartUpgrade, MembersAlive, InventoryKnowsMembers, HostsConfigured
<1>5. CASE StartDelete
  BY <1>5 DEF StartDelete, MembersAlive, InventoryKnowsMembers, BackupKnowsMembers,
              HostsConfigured, FirstHosts, ApplyPC, files
<1>6. CASE SaveManifest
  BY <1>6 DEF SaveManifest, MembersAlive, InventoryKnowsMembers, BackupKnowsMembers,
              HostsConfigured, FirstHosts, ApplyPC
<1>7. ASSUME NEW m \in Machine, TerraformCreate(m) PROVE Rest'
  BY <1>7 DEF TerraformCreate, MembersAlive, InventoryKnowsMembers, BackupKnowsMembers,
              HostsConfigured, FirstHosts
<1>8. ASSUME NEW m \in Machine, TerraformDestroy(m) PROVE Rest'
  <2>1. \A g \in Groups : m \notin provisioned[g]
    BY <1>8 DEF TerraformDestroy, HostsConfigured, InventoryKnowsMembers
  <2>2. \A g \in Groups : provisioned'[g] = provisioned[g]
    BY <1>8, <2>1 DEF TerraformDestroy, Lose
  <2> QED
    BY <1>8, <2>1, <2>2 DEF TerraformDestroy, Lose, MembersAlive, InventoryKnowsMembers,
                            BackupKnowsMembers, HostsConfigured, FirstHosts, files
<1>9. CASE TerraformDone
  BY <1>9 DEF TerraformDone, MembersAlive, InventoryKnowsMembers, BackupKnowsMembers,
              HostsConfigured, FirstHosts, ApplyPC, files
<1>10. CASE CollectInfrastructureConfig
  BY <1>10 DEF CollectInfrastructureConfig, MembersAlive, InventoryKnowsMembers,
               BackupKnowsMembers, HostsConfigured, FirstHosts, ApplyPC
<1>11. CASE CreateInventory
  <2>1. /\ run.cfg \in Configs
        /\ run.cfg \in [Components -> 0..MaxCount]
        /\ cloud = Target(run.cfg)
        /\ inventory' = InventoryOf(run.cfg, Target(run.cfg))
    BY <1>11, ConfigsAssumption DEF CreateInventory, HostsConfigured, TypeOK
  <2>2. \A g \in Groups : inventory[g] \subseteq inventory'[g]
    <3> SUFFICES ASSUME NEW g \in Groups, NEW m \in inventory[g]
                 PROVE  m \in inventory'[g]
      OBVIOUS
    <3>1. m \in Target(run.cfg)
      BY <1>11 DEF CreateInventory, HostsConfigured
    <3>2. IF IsSingle(run.cfg) THEN m \in First("single_machine", 1) ELSE m[1] = g
      BY DEF FirstHosts, First
    <3>3. ~IsSingle(run.cfg) => m \in First(g, run.cfg[g])
      BY <3>1, <3>2 DEF Target, First
    <3> QED
      BY <2>1, <3>2, <3>3, InventoryOfTarget
  <2>3. FirstHosts(inventory)'
    BY <1>11, <2>1, InventoryOfTarget DEF CreateInventory, FirstHosts, Components, Groups
  <2> QED
    BY <1>11, <2>2, <2>3 DEF CreateInventory, MembersAlive, InventoryKnowsMembers,
                             BackupKnowsMembers, HostsConfigured, FirstHosts, ApplyPC
<1>12. ASSUME NEW g \in Groups, NEW m \in Machine, Provision(g, m) PROVE Rest'
  BY <1>12 DEF Provision, MembersAlive, InventoryKnowsMembers, BackupKnowsMembers,
               HostsConfigured, FirstHosts, TypeOK, Membership, ApplyPC, files
<1>13. CASE FinishApply
  BY <1>13 DEF FinishApply, MembersAlive, InventoryKnowsMembers, BackupKnowsMembers,
               HostsConfigured, FirstHosts, ApplyPC, files
<1>14. ASSUME NEW f \in Files, BackupFile(f) PROVE Rest'
  <2>1. backup'.inventory = inventory \/ backup'.inventory = backup.inventory
    BY <1>14 DEF BackupFile, TypeOK
  <2> QED
    BY <1>14, <2>1 DEF BackupFile, MembersAlive, InventoryKnowsMembers, BackupKnowsMembers,
                       HostsConfigured, FirstHosts, ApplyPC
<1>15. CASE BackupDone
  BY <1>15 DEF BackupDone, MembersAlive, InventoryKnowsMembers, BackupKnowsMembers,
               HostsConfigured, FirstHosts, ApplyPC, files
<1>16. CASE UpgradeInventory
  BY <1>16 DEF UpgradeInventory, Restorable, MembersAlive, InventoryKnowsMembers,
               BackupKnowsMembers, HostsConfigured, FirstHosts, ApplyPC
<1>17. CASE FinishUpgrade
  BY <1>17 DEF FinishUpgrade, MembersAlive, InventoryKnowsMembers, BackupKnowsMembers,
               HostsConfigured, FirstHosts, ApplyPC, files
<1>18. ASSUME NEW m \in Machine, DestroyMachine(m) PROVE Rest'
  BY <1>18 DEF DestroyMachine, Lose, MembersAlive, InventoryKnowsMembers,
               BackupKnowsMembers, HostsConfigured, FirstHosts, files
<1>19. CASE DestroyDone
  BY <1>19 DEF DestroyDone, MembersAlive, InventoryKnowsMembers, BackupKnowsMembers,
               HostsConfigured, FirstHosts, ApplyPC, files
<1>20. ASSUME NEW f \in Files, RemoveFile(f) PROVE Rest'
  <2>1. \A g \in Groups : provisioned'[g] = {}
    BY <1>20 DEF RemoveFile, RemovesAfterDestroy, MembersAlive
  <2>2. inventory' = NoMembers \/ inventory' = inventory
    BY <1>20 DEF RemoveFile
  <2>3. backup'.inventory = NoMembers \/ backup' = backup
    BY <1>20 DEF RemoveFile, NoBackup
  <2>4. FirstHosts(inventory)' /\ FirstHosts(backup.inventory)'
    BY <1>20, <2>2, <2>3, NoMembersFirst DEF RemoveFile, FirstHosts
  <2> QED
    BY <1>20, <2>1, <2>4 DEF RemoveFile, MembersAlive, InventoryKnowsMembers,
                             BackupKnowsMembers, HostsConfigured, ApplyPC
<1>21. CASE FinishDelete
  BY <1>21 DEF FinishDelete, MembersAlive, InventoryKnowsMembers, BackupKnowsMembers,
               HostsConfigured, FirstHosts, ApplyPC, files
<1>22. CASE Crash
  BY <1>22 DEF Crash, MembersAlive, InventoryKnowsMembers, BackupKnowsMembers,
               HostsConfigured, FirstHosts, ApplyPC
<1>23. CASE UNCHANGED vars
  BY <1>23 DEF vars, MembersAlive, InventoryKnowsMembers, BackupKnowsMembers,
               HostsConfigured, FirstHosts, files
<1> QED
  BY <1>1, <1>2, <1>3, <1>4, <1>5, <1>6, <1>7, <1>8, <1>9, <1>10, <1>11, <1>12,
     <1>13, <1>14, <1>15, <1>16, <1>17, <1>18, <1>19, <1>20, <1>21, <1>22, <1>23
     DEF Next, Operator, ApplyStep, UpgradeStep, DeleteStep

(***************************************************************************)
(* Without mishaps the invariant holds for any number of machines, of      *)
(* input files and of runs that stop half way.                             *)
(***************************************************************************)
THEOREM IInvCorrect ==
  ASSUME Mishaps = {}
  PROVE  Spec => []IInv
<1>1. IInv /\ NoOrphans /\ RemovesAfterDestroy /\ [Next]_vars
         => IInv' /\ NoOrphans' /\ RemovesAfterDestroy'
  BY IInvStep, NoOrphansStep DEF IInv
<1>2. Init => NoOrphans /\ RemovesAfterDestroy
  BY DEF Init, NoOrphans, RemovesAfterDestroy
<1> QED
  BY IInvInit, <1>1, <1>2, PTL DEF Spec

(***************************************************************************)
(* The inventory the two assertions of apply consult knows every member.   *)
(***************************************************************************)
THEOREM InventoryKnowsMembersCorrect ==
  ASSUME Mishaps = {}
  PROVE  Spec => []InventoryKnowsMembers
<1>1. IInv => InventoryKnowsMembers
  BY DEF IInv
<1> QED
  BY IInvCorrect, <1>1, PTL

(***************************************************************************)
(* What Terraform destroys during an apply is no member: the assertions    *)
(* made the inventory a part of the configured machines, and the members   *)
(* are in the inventory.                                                   *)
(***************************************************************************)
LEMMA DestroyedIsNoMember ==
  ASSUME IInv, NEW m \in Machine, TerraformDestroy(m)
  PROVE  /\ \A g \in Groups : m \notin provisioned[g]
         /\ provisioned' = provisioned
<1>1. \A g \in Groups : m \notin provisioned[g]
  BY DEF IInv, TerraformDestroy, HostsConfigured, InventoryKnowsMembers
<1>2. provisioned \in [Groups -> SUBSET Machine]
  BY DEF IInv, TypeOK, Membership
<1>3. provisioned' = [g \in Groups |-> provisioned[g] \ {m}]
  BY DEF TerraformDestroy, Lose
<1>4. \A g \in Groups : provisioned[g] \ {m} = provisioned[g]
  BY <1>1
<1>5. provisioned' = [g \in Groups |-> provisioned[g]]
  BY <1>3, <1>4
<1> QED
  BY <1>1, <1>2, <1>5

(***************************************************************************)
(* Every step of the three commands is a step of the promise, or changes   *)
(* nothing the promise speaks of.                                          *)
(***************************************************************************)
LEMMA PromiseStep ==
  ASSUME IInv, [Next]_vars
  PROVE  [Promise!AbsNext]_(Promise!absVars)
<1> USE DEF Promise!absVars, files
<1>1. CASE Operator
  <2>1. CASE StartDelete
    <3>1. Promise!BeginTearDown
      BY <2>1 DEF StartDelete, Promise!BeginTearDown
    <3> QED
      BY <3>1 DEF Promise!AbsNext
  <2>2. CASE ~StartDelete
    BY <1>1, <2>2 DEF Operator, EditConfig, SettleOn, StartApply, StartUpgrade
  <2> QED
    BY <2>1, <2>2
<1>2. CASE ApplyStep
  <2>1. ASSUME NEW m \in Machine, TerraformCreate(m)
        PROVE  [Promise!AbsNext]_(Promise!absVars)
    <3>1. Promise!Create(m)
      BY <2>1 DEF TerraformCreate, Promise!Create
    <3> QED
      BY <3>1 DEF Promise!AbsNext
  <2>2. ASSUME NEW m \in Machine, TerraformDestroy(m)
        PROVE  [Promise!AbsNext]_(Promise!absVars)
    <3>1. Promise!Retire(m)
      BY <2>2, DestroyedIsNoMember DEF TerraformDestroy, Lose, Promise!Retire
    <3> QED
      BY <3>1 DEF Promise!AbsNext
  <2>3. ASSUME NEW g \in Groups, NEW m \in Machine, Provision(g, m)
        PROVE  [Promise!AbsNext]_(Promise!absVars)
    <3>1. Promise!Join(g, m)
      BY <2>3 DEF Provision, Promise!Join
    <3> QED
      BY <3>1 DEF Promise!AbsNext
  <2>4. CASE \/ SaveManifest \/ TerraformDone \/ CollectInfrastructureConfig
             \/ CreateInventory \/ FinishApply
    BY <2>4 DEF SaveManifest, TerraformDone, CollectInfrastructureConfig,
                CreateInventory, FinishApply
  <2> QED
    BY <1>2, <2>1, <2>2, <2>3, <2>4 DEF ApplyStep
<1>3. CASE UpgradeStep
  BY <1>3 DEF UpgradeStep, BackupFile, BackupDone, UpgradeInventory, FinishUpgrade
<1>4. CASE DeleteStep
  <2>1. ASSUME NEW m \in Machine, DestroyMachine(m)
        PROVE  [Promise!AbsNext]_(Promise!absVars)
    <3>1. Promise!TearDown(m)
      BY <2>1 DEF DestroyMachine, Lose, Promise!TearDown
    <3> QED
      BY <3>1 DEF Promise!AbsNext
  <2>2. CASE DestroyDone
    <3>1. Promise!EndTearDown
      BY <2>2 DEF DestroyDone, Promise!EndTearDown
    <3> QED
      BY <3>1 DEF Promise!AbsNext
  <2>3. CASE (\E f \in Files : RemoveFile(f)) \/ FinishDelete
    BY <2>3 DEF RemoveFile, FinishDelete
  <2> QED
    BY <1>4, <2>1, <2>2, <2>3 DEF DeleteStep
<1>5. CASE Crash
  <2>1. pc = "destroy" => Promise!EndTearDown
    BY <1>5 DEF Crash, Promise!EndTearDown
  <2>2. pc # "destroy" => UNCHANGED Promise!absVars
    BY <1>5 DEF Crash
  <2> QED
    BY <2>1, <2>2 DEF Promise!AbsNext
<1>6. CASE UNCHANGED vars
  BY <1>6 DEF vars
<1> QED
  BY <1>1, <1>2, <1>3, <1>4, <1>5, <1>6 DEF Next

(***************************************************************************)
(* Without mishaps, apply, upgrade and delete keep the promise of          *)
(* ScaleOutCluster: each detailed behaviour is one of the abstract         *)
(* specification under the refinement mapping of BuildLifecycle.           *)
(***************************************************************************)
THEOREM RefinementCorrect ==
  ASSUME Mishaps = {}
  PROVE  Spec => KeepsPromise
<1>1. Init => Promise!AbsInit
  BY DEF Init, Promise!AbsInit, NoMembers
<1>2. IInv /\ [Next]_vars => [Promise!AbsNext]_(Promise!absVars)
  BY PromiseStep
<1> QED
  BY IInvCorrect, <1>1, <1>2, PTL DEF Spec, KeepsPromise, Promise!AbsSpec

(***************************************************************************)
(* Without mishaps, no step but those of `delete` takes a member away.     *)
(***************************************************************************)
THEOREM MembersStayCorrect ==
  ASSUME Mishaps = {}
  PROVE  Spec => MembersStay
<1> DEFINE Stays == pc # "destroy" => \A g \in Groups : provisioned[g] \subseteq provisioned'[g]
<1>1. ASSUME IInv, [Next]_vars PROVE [Stays]_vars
  <2>1. ASSUME NEW m \in Machine, TerraformDestroy(m) PROVE Stays
    BY <1>1, <2>1, DestroyedIsNoMember
  <2>2. ASSUME NEW g \in Groups, NEW m \in Machine, Provision(g, m) PROVE Stays
    BY <1>1, <2>2 DEF Provision, IInv, TypeOK, Membership
  <2>3. ASSUME NEW m \in Machine, DestroyMachine(m) PROVE Stays
    BY <2>3 DEF DestroyMachine
  <2>4. CASE UNCHANGED provisioned
    BY <2>4
  <2>5. \/ \E m \in Machine : TerraformDestroy(m) \/ DestroyMachine(m)
        \/ \E g \in Groups, m \in Machine : Provision(g, m)
        \/ UNCHANGED provisioned
    BY <1>1 DEF Next, Operator, ApplyStep, UpgradeStep, DeleteStep, EditConfig, SettleOn,
                StartApply, StartUpgrade, StartDelete, SaveManifest, TerraformCreate,
                TerraformDone, CollectInfrastructureConfig, CreateInventory, FinishApply,
                BackupFile, BackupDone, UpgradeInventory, FinishUpgrade, DestroyDone,
                RemoveFile, FinishDelete, Crash, vars, files
  <2> QED
    BY <2>1, <2>2, <2>3, <2>4, <2>5
<1> QED
  BY IInvCorrect, <1>1, PTL DEF Spec, MembersStay
-----------------------------------------------------------------------------
(***************************************************************************)
(* Why a re-run is accepted: while an accepted apply runs, its input is    *)
(* the configuration the history remembers, no other command comes in      *)
(* between, and the one inventory it writes has just the hosts it counts.  *)
(***************************************************************************)
ApplyRemembered ==
    /\ pc \in ApplyPC => attempted = run.cfg
    /\ pc \in UpgradePC \cup DeletePC => attempted = NoConfig

(***************************************************************************)
(* The inventory written from the configured machines has the hosts the    *)
(* configuration counts, so the two assertions let it pass again.          *)
(***************************************************************************)
LEMMA OwnInventoryAccepted ==
  ASSUME NEW c \in Configs, ~IsSingle(c), inventory' = InventoryOf(c, Target(c))
  PROVE  Accepts(c)'
<1>1. c \in [Components -> 0..MaxCount]
  BY ConfigsAssumption
<1>2. ASSUME NEW g \in Groups PROVE Cardinality(inventory'[g]) = c[g]
  <2>1. g \in Components /\ c[g] \in 0..MaxCount
    BY <1>1 DEF Groups, Components
  <2>2. inventory'[g] = First(g, c[g])
    BY InventoryOfTarget
  <2> QED
    BY <2>1, <2>2, FirstCardinality
<1>3. /\ Cardinality(inventory'["kubernetes_master"]) = c["kubernetes_master"]
      /\ Cardinality(inventory'["postgresql"]) = c["postgresql"]
  BY <1>2 DEF Groups
<1>4. c["kubernetes_master"] \in 0..MaxCount
  BY <1>1 DEF Components
<1>5. c["kubernetes_master"] <= c["kubernetes_master"]
  BY <1>4, MaxCountAssumption
<1> QED
  BY <1>3, <1>5 DEF Accepts, AssertNoMasterDownscale, AssertNoPostgresNodesNumberChange

LEMMA ApplyRememberedStep ==
  ASSUME ApplyRemembered, [Next]_vars
  PROVE  ApplyRemembered'
<1> USE DEF ApplyRemembered, ApplyPC, UpgradePC, DeletePC
<1>1. CASE Operator
  BY <1>1 DEF Operator, EditConfig, SettleOn, StartApply, StartUpgrade, StartDelete
<1>2. CASE ApplyStep
  BY <1>2 DEF ApplyStep, SaveManifest, TerraformCreate, TerraformDestroy, TerraformDone,
              CollectInfrastructureConfig, CreateInventory, Provision, FinishApply
<1>3. CASE UpgradeStep
  BY <1>3 DEF UpgradeStep, BackupFile, BackupDone, UpgradeInventory, FinishUpgrade
<1>4. CASE DeleteStep
  BY <1>4 DEF DeleteStep, DestroyMachine, DestroyDone, RemoveFile, FinishDelete
<1>5. CASE Crash
  BY <1>5 DEF Crash
<1>6. CASE UNCHANGED vars
  BY <1>6 DEF vars
<1> QED
  BY <1>1, <1>2, <1>3, <1>4, <1>5, <1>6 DEF Next

(***************************************************************************)
(* What the steps may do to the inventory and to the memory of an apply.   *)
(***************************************************************************)
LEMMA RerunStep ==
  ASSUME Mishaps = {}, IInv, ApplyRemembered, RerunAccepted, [Next]_vars
  PROVE  RerunAccepted'
<1> DEFINE Kept      == inventory' = inventory /\ attempted' = attempted
           Forgotten == attempted' = NoConfig
<1>1. Kept => RerunAccepted'
  BY DEF RerunAccepted, Accepts, AssertNoMasterDownscale, AssertNoPostgresNodesNumberChange
<1>2. Forgotten => RerunAccepted'
  BY DEF RerunAccepted
<1>3. ASSUME NEW noInfra \in BOOLEAN, NEW skipConfig \in BOOLEAN,
             StartApply(noInfra, skipConfig)
      PROVE  RerunAccepted'
  BY <1>3 DEF StartApply, RerunAccepted, Accepts, AssertNoMasterDownscale,
              AssertNoPostgresNodesNumberChange
<1>4. CASE CreateInventory
  <2>1. PICK c \in Configs : c = run.cfg
    BY DEF IInv, TypeOK
  <2>2. attempted = c /\ attempted' = c /\ inventory' = InventoryOf(c, Target(c))
    BY <1>4, <2>1 DEF CreateInventory, ApplyRemembered, ApplyPC, IInv, HostsConfigured
  <2>3. ~IsSingle(c) => Accepts(c)'
    BY <2>2, OwnInventoryAccepted
  <2> QED
    BY <2>2, <2>3 DEF RerunAccepted, Accepts, IsSingle, AssertNoMasterDownscale,
                      AssertNoPostgresNodesNumberChange
<1>5. CASE UpgradeInventory
  BY <1>2, <1>5 DEF UpgradeInventory, ApplyRemembered, UpgradePC
<1>6. ASSUME NEW f \in Files, RemoveFile(f) PROVE RerunAccepted'
  BY <1>2, <1>6 DEF RemoveFile, ApplyRemembered, DeletePC
<1>7. CASE Crash
  BY <1>1, <1>7 DEF Crash
<1>8. Kept \/ Forgotten \/ (\E noInfra, skipConfig \in BOOLEAN : StartApply(noInfra, skipConfig))
       \/ CreateInventory \/ UpgradeInventory \/ (\E f \in Files : RemoveFile(f)) \/ Crash
  <2>1. CASE Operator
    BY <2>1 DEF Operator, EditConfig, SettleOn, StartUpgrade, StartDelete, files
  <2>2. CASE ApplyStep
    BY <2>2 DEF ApplyStep, SaveManifest, TerraformCreate, TerraformDestroy, TerraformDone,
                CollectInfrastructureConfig, Provision, FinishApply, files
  <2>3. CASE UpgradeStep
    BY <2>3 DEF UpgradeStep, BackupFile, BackupDone, FinishUpgrade, files
  <2>4. CASE DeleteStep
    BY <2>4 DEF DeleteStep, DestroyMachine, DestroyDone, FinishDelete, files
  <2>5. CASE UNCHANGED vars
    BY <2>5 DEF vars, files
  <2> QED
    BY <2>1, <2>2, <2>3, <2>4, <2>5 DEF Next
<1> QED
  BY <1>1, <1>2, <1>3, <1>4, <1>5, <1>6, <1>7, <1>8

(***************************************************************************)
(* Without mishaps, the configuration of an accepted apply of several      *)
(* machines is accepted again, whatever stopped the first run.             *)
(***************************************************************************)
THEOREM RerunCorrect ==
  ASSUME Mishaps = {}
  PROVE  Spec => []RerunAccepted
<1>1. Init => ApplyRemembered /\ RerunAccepted
  BY DEF Init, ApplyRemembered, RerunAccepted, ApplyPC, UpgradePC, DeletePC
<1>2. IInv /\ ApplyRemembered /\ RerunAccepted /\ [Next]_vars
         => ApplyRemembered' /\ RerunAccepted'
  BY ApplyRememberedStep, RerunStep
<1> QED
  BY IInvCorrect, <1>1, <1>2, PTL DEF Spec
=============================================================================
