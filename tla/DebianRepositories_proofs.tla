--------------------- MODULE DebianRepositories_proofs ----------------------
(***************************************************************************)
(* Proofs about DebianRepositories, for any machines and bounds: types,    *)
(* that no list of a machine is ever lost, that the roles install from     *)
(* lsrepo alone, and that a finished run gives each machine its own lists  *)
(* back and nothing besides.                                               *)
(***************************************************************************)
EXTENDS DebianRepositories, TLAPS

(***************************************************************************)
(* Which number a task has that matters to the invariants.                 *)
(***************************************************************************)
LEMMA TaskNumbers ==
  ASSUME NEW i \in DOMAIN Tasks
  PROVE  /\ i \in 1..21
         /\ Tasks[i] \in {"mask", "unmask", "copy", "bootstrap", "back_up", "disable_system",
                          "check_flag", "clean_up", "restore", "add_repositories", "download",
                          "touch_flag", "create_repository", "add_lsrepo", "roles"} <=> i <= 15
         /\ Tasks[i] = "mask" <=> i = 4
         /\ Tasks[i] = "unmask" <=> i = 7
         /\ Tasks[i] = "enable_system" <=> i = 16
  BY DEF Tasks

(***************************************************************************)
(* What a task does to the run, whatever it does to the machines.          *)
(***************************************************************************)
LEMMA RunControl ==
  ASSUME TypeOK, NEW name, NEW D \in SUBSET active, Run(name, D)
  PROVE  /\ status = "running" /\ Tasks[task] = name
         /\ D \subseteq Takes(name)
         /\ \A m \in D : ~CannotRun(m)
         /\ offline' = offline /\ settled' = settled
         /\ status' \in {"running", "failed", "finished"}
         /\ task' \in DOMAIN Tasks
         /\ active' \subseteq active
         /\ status' = "running" => active' # {}
         /\ status' = "running" => task' = task + 1
         /\ \A m \in active' : m \in Takes(name) => m \in D
<1> DEFINE takes == active \cap Takes(name)
           A == active \ (takes \ D)
<1>1. status = "running" /\ Tasks[task] = name /\ D \subseteq {m \in takes : ~CannotRun(m)}
      /\ offline' = offline /\ settled' = settled /\ Proceed(A)
  BY DEF Run, At
<1>2. /\ status' \in {"running", "failed", "finished"}
      /\ task' \in DOMAIN Tasks
      /\ active' \subseteq A
      /\ status' = "running" => active' # {} /\ task' = task + 1
  BY <1>1 DEF Proceed, EndRun, TypeOK, Tasks
<1> QED
  BY <1>1, <1>2

(***************************************************************************)
(* The type invariant.                                                     *)
(***************************************************************************)
LEMMA TypeInit == Init => TypeOK
<1> SUFFICES ASSUME Init PROVE TypeOK
  OBVIOUS
<1>1. task \in DOMAIN Tasks
  BY DEF Init, Tasks
<1>2. own \in [Machines -> SUBSET {"main", "custom"}] /\ lists \in [Machines -> SUBSET Lists]
  BY DEF Init, Lists
<1>3. /\ masked \in [Machines -> SUBSET Lists] /\ backup \in [Machines -> SUBSET Lists]
      /\ mishap \in [Machines -> SUBSET Mishaps]
  BY DEF Init
<1> QED
  BY <1>1, <1>2, <1>3 DEF Init, TypeOK

LEMMA TypePlay ==
  ASSUME TypeOK, NEW D \in SUBSET active, Provide(D) \/ Switch(D) \/ SwitchBack(D)
  PROVE  TypeOK'
<1> USE DEF disk, lsrepo, run, Where, Befall, Mishaps
<1>0. ASSUME NEW name, Run(name, D)
      PROVE  /\ offline' = offline /\ settled' = settled
             /\ status' \in {"running", "failed", "finished"}
             /\ task' \in DOMAIN Tasks
             /\ active' \subseteq active
             /\ status' = "running" => active' # {}
  BY <1>0, RunControl
<1>1. CASE CheckWhetherToRunDownload(D)
  BY <1>0, <1>1 DEF CheckWhetherToRunDownload, TypeOK
<1>2. CASE CleanUpLsrepo(D)
  BY <1>0, <1>2 DEF CleanUpLsrepo, TypeOK
<1>3. CASE RestoreMissing(D)
  BY <1>0, <1>3 DEF RestoreMissing, TypeOK
<1>4. CASE Mask(D)
  BY <1>0, <1>4 DEF Mask, TypeOK, Lists
<1>5. CASE AddRepositories(D)
  BY <1>0, <1>5 DEF AddRepositories, TypeOK, Lists
<1>6. CASE Download(D)
  BY <1>0, <1>6 DEF Download, TypeOK
<1>7. CASE Unmask(D)
  BY <1>0, <1>7 DEF Unmask, TypeOK
<1>8. CASE TouchFlag(D)
  BY <1>0, <1>8 DEF TouchFlag, TypeOK
<1>9. CASE CopyRequirements(D)
  BY <1>0, <1>9 DEF CopyRequirements, TypeOK
<1>10. CASE Bootstrap(D)
  BY <1>0, <1>10 DEF Bootstrap, TypeOK, Lists
<1>11. CASE CreateRepository(D)
  BY <1>0, <1>11 DEF CreateRepository, TypeOK
<1>12. CASE CreateEnabledSystemReposList(D)
  BY <1>0, <1>12 DEF CreateEnabledSystemReposList, TypeOK
<1>13. CASE DisableSystemRepos(D)
  BY <1>0, <1>13 DEF DisableSystemRepos, TypeOK
<1>14. CASE AddLsrepoClient(D)
  BY <1>0, <1>14 DEF AddLsrepoClient, TypeOK, Lists
<1>15. CASE Roles(D)
  BY <1>0, <1>15 DEF Roles, TypeOK
<1>16. CASE EnableSystemRepos(D)
  BY <1>0, <1>16 DEF EnableSystemRepos, TypeOK
<1>17. CASE DisableLsrepoClient(D)
  BY <1>0, <1>17 DEF DisableLsrepoClient, TypeOK
<1>18. CASE RemovePackages(D)
  BY <1>0, <1>18 DEF RemovePackages, TypeOK
<1>19. CASE DisableRepositoryServer(D)
  BY <1>0, <1>19 DEF DisableRepositoryServer, TypeOK
<1>20. CASE ForgetDownload(D)
  BY <1>0, <1>20 DEF ForgetDownload, TypeOK
<1>21. CASE RemoveBackup(D)
  BY <1>0, <1>21 DEF RemoveBackup, TypeOK
<1> QED
  BY <1>1, <1>2, <1>3, <1>4, <1>5, <1>6, <1>7, <1>8, <1>9, <1>10, <1>11, <1>12, <1>13,
     <1>14, <1>15, <1>16, <1>17, <1>18, <1>19, <1>20, <1>21
  DEF Provide, Switch, SwitchBack

LEMMA TypeStep == TypeOK /\ [Next]_vars => TypeOK'
<1> SUFFICES ASSUME TypeOK, [Next]_vars PROVE TypeOK'
  OBVIOUS
<1> USE DEF disk, lsrepo, run, Where, Befall
<1>1. CASE StartRun
  BY <1>1, ServerAssumption DEF StartRun, TypeOK, Tasks
<1>2. CASE Play
  BY <1>2, TypePlay DEF Play
<1>3. CASE Abort
  BY <1>3 DEF Abort, EndRun, TypeOK, Tasks
<1>4. CASE Settle
  BY <1>4 DEF Settle, TypeOK
<1>5. ASSUME NEW m \in Machines, CutBackup(m) PROVE TypeOK'
  <2>1. /\ offline' = offline /\ settled' = settled
        /\ status' \in {"running", "failed", "finished"}
        /\ task' \in DOMAIN Tasks
        /\ active' \subseteq active
        /\ status' = "running" => active' # {}
    BY <1>5, RunControl DEF CutBackup
  <2> QED
    BY <1>5, <2>1 DEF CutBackup, TypeOK, Mishaps
<1>6. ASSUME NEW m \in Machines, RestoreByHand(m) PROVE TypeOK'
  BY <1>6 DEF RestoreByHand, TypeOK
<1>7. ASSUME NEW m \in Machines, EditLists(m) PROVE TypeOK'
  BY <1>7 DEF EditLists, TypeOK, Lists, Mishaps
<1>8. CASE UNCHANGED vars
  BY <1>8 DEF vars, TypeOK
<1> QED
  BY <1>1, <1>2, <1>3, <1>4, <1>5, <1>6, <1>7, <1>8 DEF Next

(***************************************************************************)
(* The state keeps its types, wherever runs are cut off (TypeOK).          *)
(***************************************************************************)
THEOREM TypeCorrect == Spec => []TypeOK
  BY TypeInit, TypeStep, PTL DEF Spec

(***************************************************************************)
(* The invariant behind NothingLost.  A task of a playbook changes masked  *)
(* lists on the server only, and only with a download to come or done.     *)
(***************************************************************************)
Inv == TypeOK /\ NothingLost /\ NeverLost

LEMMA InvInit == Init => Inv
<1> SUFFICES ASSUME Init PROVE NothingLost /\ NeverLost
  BY TypeInit DEF Inv
<1> QED
  BY ServerAssumption DEF Init, NothingLost, NeverLost, Unmasked, BackupKnows, Enabled

\* A task before the teardown leaves nothing to show of Enabled.
LEMMA EnabledEarly ==
  ASSUME TypeOK, NEW name, NEW D \in SUBSET active, Run(name, D),
         name \in {"mask", "unmask", "copy", "bootstrap", "back_up", "disable_system",
                   "check_flag", "clean_up", "restore", "add_repositories", "download",
                   "touch_flag", "create_repository", "add_lsrepo", "roles"}
  PROVE  Enabled'
<1>1. task \in DOMAIN Tasks /\ Tasks[task] = name /\ (status' = "running" => task' = task + 1)
  BY RunControl DEF TypeOK
<1>2. task <= 15 /\ task \in 1..21
  BY <1>1, TaskNumbers
<1> QED
  BY <1>1, <1>2 DEF Enabled

\* A task that leaves masked and flagged alone, and is not "unmask", keeps Unmasked.
LEMMA UnmaskedKept ==
  ASSUME Inv, NEW name, NEW D \in SUBSET active, Run(name, D), name # "unmask",
         masked' = masked, flagged' => flagged
  PROVE  Unmasked'
<1>1. /\ task \in DOMAIN Tasks /\ Tasks[task] = name /\ (status' = "running" => task' = task + 1)
      /\ status = "running" /\ active' \subseteq active /\ offline' = offline
  BY RunControl DEF TypeOK, Inv
<1>2. task # 7 /\ task \in 1..21
  BY <1>1, TaskNumbers
<1> QED
  BY <1>1, <1>2 DEF Inv, NeverLost, Unmasked, TypeOK

\* The same for both, as most tasks of the setup need it.
LEMMA InvEarly ==
  ASSUME Inv, NEW name, NEW D \in SUBSET active, Run(name, D),
         name \in {"copy", "back_up", "disable_system", "check_flag", "clean_up", "restore",
                   "add_repositories", "download", "create_repository", "add_lsrepo", "roles"},
         masked' = masked, flagged' => flagged
  PROVE  Enabled' /\ Unmasked'
<1>1. Enabled'
  BY EnabledEarly DEF Inv
<1>2. Unmasked'
  BY UnmaskedKept
<1> QED
  BY <1>1, <1>2

\* Lists that grow, or lose only what no machine owns, lose nothing.
LEMMA NothingLostKept ==
  ASSUME Inv, own' = own, masked' = masked, backedUp' = backedUp, backup' = backup,
         \A m \in Machines : Spoilt(m)' = Spoilt(m),
         \A m \in Machines : lists[m] \cap {"main", "custom"} \subseteq lists'[m]
  PROVE  NothingLost' /\ BackupKnows'
<1>1. \A m \in Machines : own[m] \subseteq {"main", "custom"}
  BY DEF Inv, TypeOK
<1>2. backedUp \subseteq Machines
  BY DEF Inv, TypeOK
<1>3. NothingLost'
  BY <1>1 DEF Inv, NothingLost
<1>4. BackupKnows'
  BY <1>2 DEF Inv, NeverLost, BackupKnows
<1> QED
  BY <1>3, <1>4

\* Downloads, and the bootstrap of an airgapped server, concern the server only.
LEMMA TakesServer ==
  /\ \A name \in DownloadTasks : \A m \in Takes(name) : m = Server /\ ~offline /\ ~flagged
  /\ ~offline /\ ~flagged => \A name \in DownloadTasks : Server \in Takes(name)
  /\ \A m \in Takes("bootstrap") : m = Server /\ offline
  BY ServerAssumption DEF Takes, DownloadTasks

LEMMA InvProvide ==
  ASSUME Inv, NEW D \in SUBSET active, Provide(D)
  PROVE  NothingLost' /\ NeverLost'
<1>0. TypeOK /\ NothingLost /\ Unmasked /\ BackupKnows
  BY DEF Inv, NeverLost
<1>a. (mishap' = mishap) => \A m \in Machines : Spoilt(m)' = Spoilt(m)
  BY DEF Spoilt
<1>b. (lists' = lists) => \A m \in Machines : lists[m] \cap {"main", "custom"} \subseteq lists'[m]
  OBVIOUS
<1>1. CASE CheckWhetherToRunDownload(D)
  <2>1. Run("check_flag", D) /\ masked' = masked /\ (flagged' => flagged)
    BY <1>0, <1>1 DEF CheckWhetherToRunDownload, disk, lsrepo, TypeOK
  <2>2. \A m \in Machines : Spoilt(m)' = Spoilt(m)
    BY <1>0, <1>1 DEF CheckWhetherToRunDownload, Befall, Where, Spoilt, TypeOK
  <2>3. \A m \in Machines : lists[m] \cap {"main", "custom"} \subseteq lists'[m]
    BY <1>1, <1>b DEF CheckWhetherToRunDownload
  <2>4. NothingLost' /\ BackupKnows'
    BY <1>1, <2>2, <2>3, NothingLostKept DEF CheckWhetherToRunDownload, disk
  <2> QED
    BY <2>1, <2>4, InvEarly DEF NeverLost
<1>2. CASE CleanUpLsrepo(D)
  <2>1. Run("clean_up", D) /\ masked' = masked /\ (flagged' => flagged)
    BY <1>0, <1>2 DEF CleanUpLsrepo, disk, lsrepo, TypeOK
  <2>2. \A m \in Machines : Spoilt(m)' = Spoilt(m)
    BY <1>2, <1>a DEF CleanUpLsrepo
  <2>3. \A m \in Machines : lists[m] \cap {"main", "custom"} \subseteq lists'[m]
    BY <1>2, <1>b DEF CleanUpLsrepo
  <2>4. NothingLost' /\ BackupKnows'
    BY <1>2, <2>2, <2>3, NothingLostKept DEF CleanUpLsrepo, disk
  <2> QED
    BY <2>1, <2>4, InvEarly DEF NeverLost
<1>3. CASE RestoreMissing(D)
  <2>1. Run("restore", D) /\ masked' = masked /\ (flagged' => flagged)
    BY <1>0, <1>3 DEF RestoreMissing, disk, lsrepo, TypeOK
  <2>2. \A m \in Machines : Spoilt(m)' = Spoilt(m)
    BY <1>3, <1>a DEF RestoreMissing
  <2>3. \A m \in Machines : lists[m] \cap {"main", "custom"} \subseteq lists'[m]
    BY <1>3, <1>0 DEF RestoreMissing, Where, TypeOK
  <2>4. NothingLost' /\ BackupKnows'
    BY <1>3, <2>2, <2>3, NothingLostKept DEF RestoreMissing, disk
  <2> QED
    BY <2>1, <2>4, InvEarly DEF NeverLost
<1>5. CASE AddRepositories(D)
  <2>1. Run("add_repositories", D) /\ masked' = masked /\ (flagged' => flagged)
    BY <1>0, <1>5 DEF AddRepositories, disk, lsrepo, TypeOK
  <2>2. \A m \in Machines : Spoilt(m)' = Spoilt(m)
    BY <1>5, <1>a DEF AddRepositories
  <2>3. \A m \in Machines : lists[m] \cap {"main", "custom"} \subseteq lists'[m]
    BY <1>5, <1>0 DEF AddRepositories, Where, TypeOK
  <2>4. NothingLost' /\ BackupKnows'
    BY <1>5, <2>2, <2>3, NothingLostKept DEF AddRepositories, disk
  <2> QED
    BY <2>1, <2>4, InvEarly DEF NeverLost
<1>6. CASE Download(D)
  <2>1. Run("download", D) /\ masked' = masked /\ (flagged' => flagged)
    BY <1>0, <1>6 DEF Download, disk, lsrepo, TypeOK
  <2>2. \A m \in Machines : Spoilt(m)' = Spoilt(m)
    BY <1>6, <1>a DEF Download
  <2>3. \A m \in Machines : lists[m] \cap {"main", "custom"} \subseteq lists'[m]
    BY <1>6, <1>0 DEF Download, Where, TypeOK
  <2>4. NothingLost' /\ BackupKnows'
    BY <1>6, <2>2, <2>3, NothingLostKept DEF Download, disk
  <2> QED
    BY <2>1, <2>4, InvEarly DEF NeverLost
<1>9. CASE CopyRequirements(D)
  <2>1. Run("copy", D) /\ masked' = masked /\ (flagged' => flagged)
    BY <1>0, <1>9 DEF CopyRequirements, disk, lsrepo, TypeOK
  <2>2. \A m \in Machines : Spoilt(m)' = Spoilt(m)
    BY <1>9, <1>a DEF CopyRequirements
  <2>3. \A m \in Machines : lists[m] \cap {"main", "custom"} \subseteq lists'[m]
    BY <1>9, <1>b DEF CopyRequirements
  <2>4. NothingLost' /\ BackupKnows'
    BY <1>9, <2>2, <2>3, NothingLostKept DEF CopyRequirements, disk
  <2> QED
    BY <2>1, <2>4, InvEarly DEF NeverLost
<1>11. CASE CreateRepository(D)
  <2>1. Run("create_repository", D) /\ masked' = masked /\ (flagged' => flagged)
    BY <1>0, <1>11 DEF CreateRepository, disk, lsrepo, TypeOK
  <2>2. \A m \in Machines : Spoilt(m)' = Spoilt(m)
    BY <1>11, <1>a DEF CreateRepository
  <2>3. \A m \in Machines : lists[m] \cap {"main", "custom"} \subseteq lists'[m]
    BY <1>11, <1>0 DEF CreateRepository, Where, TypeOK
  <2>4. NothingLost' /\ BackupKnows'
    BY <1>11, <2>2, <2>3, NothingLostKept DEF CreateRepository, disk
  <2> QED
    BY <2>1, <2>4, InvEarly DEF NeverLost
<1>4. CASE Mask(D)
  <2>1. /\ Run("mask", D) /\ own' = own /\ backup' = backup /\ backedUp' = backedUp
        /\ flagged' = flagged
        /\ lists' = [m \in Machines |-> lists[m] \ (IF m \in D THEN Lists \ {"main"} ELSE {})]
        /\ masked' = [m \in Machines |->
                        masked[m] \cup (IF m \in D THEN lists[m] \ {"main"} ELSE {})]
    BY <1>4 DEF Mask, Where, lsrepo
  <2>2. /\ Tasks[task] = "mask" /\ task \in DOMAIN Tasks /\ task = 4 /\ D \subseteq Takes("mask")
        /\ offline' = offline /\ active' \subseteq active
        /\ (status' = "running" => task' = 5)
    BY <1>0, <2>1, RunControl, TaskNumbers DEF TypeOK
  <2>3. D \subseteq {Server} /\ (D = {} \/ (~offline /\ ~flagged))
    BY <2>2, TakesServer DEF DownloadTasks
  <2>4. \A m \in Machines : Spoilt(m)' = Spoilt(m)
    BY <1>4, <1>0 DEF Mask, Befall, Where, Spoilt, TypeOK
  <2>5. \A m \in Machines : masked[m] \subseteq masked'[m]
                            /\ lists[m] \cup masked[m] \subseteq lists'[m] \cup masked'[m]
    BY <2>1
  <2>6. NothingLost'
    BY <1>0, <2>1, <2>4, <2>5 DEF NothingLost
  <2>7. BackupKnows'
    BY <1>0, <2>1, <2>4, <2>5 DEF BackupKnows, TypeOK
  <2>8. Unmasked'
    <3>1. \A m \in Machines \ {Server} : masked'[m] = {}
      BY <1>0, <2>1, <2>3 DEF Unmasked
    <3>2. CASE D = {}
      BY <1>0, <2>1, <2>2, <3>1, <3>2, ServerAssumption DEF Unmasked
    <3>3. CASE ~offline /\ ~flagged
      BY <2>1, <2>2, <3>1, <3>3 DEF Unmasked
    <3> QED
      BY <2>3, <3>2, <3>3
  <2>9. Enabled'
    BY <1>0, <2>1, EnabledEarly
  <2> QED
    BY <2>6, <2>7, <2>8, <2>9 DEF NeverLost
<1>7. CASE Unmask(D)
  <2>1. /\ Run("unmask", D) /\ own' = own /\ backup' = backup /\ backedUp' = backedUp
        /\ flagged' = flagged
        /\ lists' = [m \in Machines |->
                        lists[m] \cup (IF m \in D THEN masked[m] \ {"main"} ELSE {})]
        /\ masked' = [m \in Machines |->
                        masked[m] \ (IF m \in D THEN Lists \ {"main"} ELSE {})]
    BY <1>7 DEF Unmask, Where, lsrepo
  <2>2. /\ D \subseteq Takes("unmask") /\ offline' = offline /\ active' \subseteq active
        /\ \A m \in active' : m \in Takes("unmask") => m \in D
    BY <1>0, <2>1, RunControl
  <2>3. D \subseteq {Server} /\ (Server \in active' /\ ~offline /\ ~flagged => Server \in D)
    BY <2>2, TakesServer DEF DownloadTasks
  <2>4. \A m \in Machines : Spoilt(m)' = Spoilt(m)
    BY <1>7, <1>a DEF Unmask
  <2>5. \A m \in Machines : masked[m] \cap {"main"} \subseteq masked'[m]
                            /\ lists[m] \cup masked[m] \subseteq lists'[m] \cup masked'[m]
    BY <2>1
  <2>6. NothingLost'
    BY <1>0, <2>1, <2>4, <2>5 DEF NothingLost
  <2>7. BackupKnows'
    BY <1>0, <2>1, <2>4, <2>5 DEF BackupKnows, TypeOK
  <2>8. \A m \in Machines : masked'[m] \subseteq masked[m]
    BY <2>1
  <2>9. masked[Server] \subseteq Lists /\ Server \in Machines
    BY <1>0, ServerAssumption DEF TypeOK
  <2>10. Server \in D => masked'[Server] \subseteq {"main"}
    BY <2>1, <2>9
  <2>11. Unmasked'
    BY <1>0, <2>1, <2>2, <2>3, <2>8, <2>9, <2>10 DEF Unmasked
  <2>12. Enabled'
    BY <1>0, <2>1, EnabledEarly
  <2> QED
    BY <2>6, <2>7, <2>11, <2>12 DEF NeverLost
<1>8. CASE TouchFlag(D)
  <2>1. /\ Run("touch_flag", D) /\ flagged' = (flagged \/ D # {}) /\ lists' = lists
        /\ masked' = masked /\ mishap' = mishap
    BY <1>8 DEF TouchFlag, disk
  <2>2. /\ Tasks[task] = "touch_flag" /\ status = "running" /\ D \subseteq Takes("touch_flag")
        /\ offline' = offline /\ active' \subseteq active
    BY <1>0, <2>1, RunControl
  <2>3. task = 8
    BY <1>0, <2>2 DEF TypeOK, Tasks
  <2>4. D \subseteq {Server}
    BY <2>2, TakesServer DEF DownloadTasks
  <2>5. Unmasked'
    <3>1. flagged' => flagged \/ Server \in active
      BY <2>1, <2>4
    <3>2. offline \/ flagged \/ Server \in active => masked[Server] \subseteq {"main"}
      BY <1>0, <2>2, <2>3 DEF Unmasked
    <3> QED
      BY <1>0, <2>1, <2>2, <3>1, <3>2 DEF Unmasked
  <2>6. NothingLost' /\ BackupKnows'
    BY <1>8, <2>1, <1>a, <1>b, NothingLostKept DEF TouchFlag, disk
  <2>7. Enabled'
    BY <1>0, <2>1, EnabledEarly
  <2> QED
    BY <2>5, <2>6, <2>7 DEF NeverLost
<1>10. CASE Bootstrap(D)
  <2>1. /\ Run("bootstrap", D) /\ own' = own /\ backup' = backup /\ backedUp' = backedUp
        /\ flagged' = flagged /\ mishap' = mishap
        /\ lists' = [m \in Machines |-> IF m \in D THEN (lists[m] \ {"main"}) \cup {"local"}
                                        ELSE lists[m]]
        /\ masked' = [m \in Machines |->
                        masked[m] \cup (IF m \in D THEN lists[m] \cap {"main"} ELSE {})]
    BY <1>10 DEF Bootstrap, Where, lsrepo
  <2>2. /\ Tasks[task] = "bootstrap" /\ status = "running" /\ D \subseteq Takes("bootstrap")
        /\ offline' = offline /\ active' \subseteq active
    BY <1>0, <2>1, RunControl
  <2>3. task = 10
    BY <1>0, <2>2 DEF TypeOK, Tasks
  <2>4. D \subseteq {Server}
    BY <2>2, TakesServer
  <2>5. \A m \in Machines : /\ masked[m] \subseteq masked'[m]
                            /\ masked'[m] \subseteq masked[m] \cup {"main"}
                            /\ lists[m] \cup masked[m] \subseteq lists'[m] \cup masked'[m]
                            /\ m \notin D => masked'[m] = masked[m]
    BY <2>1
  <2>6. NothingLost'
    BY <1>0, <1>a, <2>1, <2>5 DEF NothingLost
  <2>7. BackupKnows'
    BY <1>0, <1>a, <2>1, <2>5 DEF BackupKnows, TypeOK
  <2>8. Unmasked'
    BY <1>0, <2>1, <2>2, <2>3, <2>4, <2>5, ServerAssumption DEF Unmasked
  <2>9. Enabled'
    BY <1>0, <2>1, EnabledEarly
  <2> QED
    BY <2>6, <2>7, <2>8, <2>9 DEF NeverLost
<1> QED
  BY <1>1, <1>2, <1>3, <1>4, <1>5, <1>6, <1>7, <1>8, <1>9, <1>10, <1>11 DEF Provide

\* After enable_system, a task that takes no list away keeps Enabled.
LEMMA EnabledKept ==
  ASSUME Inv, NEW name, NEW D \in SUBSET active, Run(name, D), name # "enable_system",
         own' = own, masked' = masked,
         \A m \in Machines : Spoilt(m)' = Spoilt(m),
         \A m \in Machines : lists[m] \cap {"main", "custom"} \subseteq lists'[m]
  PROVE  Enabled'
<1>1. /\ task \in DOMAIN Tasks /\ Tasks[task] = name /\ (status' = "running" => task' = task + 1)
      /\ status = "running" /\ active' \subseteq active
  BY RunControl DEF TypeOK, Inv
<1>2. task # 16 /\ task \in 1..21
  BY <1>1, TaskNumbers
<1>3. \A m \in Machines : own[m] \subseteq {"main", "custom"}
  BY DEF Inv, TypeOK
<1>4. active \subseteq Machines
  BY DEF Inv, TypeOK
<1> QED
  BY <1>1, <1>2, <1>3, <1>4 DEF Inv, NeverLost, Enabled

LEMMA InvSwitch ==
  ASSUME Inv, NEW D \in SUBSET active, Switch(D)
  PROVE  NothingLost' /\ NeverLost'
<1>0. TypeOK /\ NothingLost /\ Unmasked /\ BackupKnows
  BY DEF Inv, NeverLost
<1>a. (mishap' = mishap) => \A m \in Machines : Spoilt(m)' = Spoilt(m)
  BY DEF Spoilt
<1>1. CASE CreateEnabledSystemReposList(D)
  <2>1. /\ Run("back_up", D) /\ own' = own /\ lists' = lists /\ masked' = masked
        /\ flagged' = flagged /\ mishap' = mishap /\ backedUp' = backedUp \cup D
        /\ backup' = [m \in Machines |-> IF m \in D \ backedUp THEN lists[m] ELSE backup[m]]
    BY <1>1 DEF CreateEnabledSystemReposList, lsrepo
  <2>2. Tasks[task] = "back_up" /\ status = "running"
    BY <1>0, <2>1, RunControl
  <2>3. task = 12
    BY <1>0, <2>2 DEF TypeOK, Tasks
  <2>4. \A m \in D : masked[m] \subseteq {"main"}
    BY <1>0, <2>2, <2>3 DEF Unmasked, TypeOK
  <2>5. \A m \in D \ backedUp : backup[m] = {}
    BY <1>0 DEF TypeOK
  <2>6. \A m \in D \ backedUp :
            ~Spoilt(m) => own[m] \subseteq lists[m] \cup (masked[m] \cap {"main"})
    BY <1>0, <2>4, <2>5 DEF NothingLost, TypeOK
  <2>7. NothingLost'
    BY <1>0, <1>a, <2>1, <2>5 DEF NothingLost
  <2>8. BackupKnows'
    BY <1>0, <1>a, <2>1, <2>6 DEF BackupKnows, TypeOK
  <2> QED
    BY <2>1, <2>7, <2>8, InvEarly DEF NeverLost
<1>2. CASE DisableSystemRepos(D)
  <2>1. /\ Run("disable_system", D) /\ own' = own /\ masked' = masked /\ mishap' = mishap
        /\ backup' = backup /\ backedUp' = backedUp /\ flagged' = flagged
        /\ \A m \in Machines \ backedUp : lists'[m] = lists[m]
    BY <1>0, <1>2 DEF DisableSystemRepos, disk, lsrepo, Where, TypeOK
  <2>2. NothingLost'
    BY <1>0, <1>a, <2>1 DEF NothingLost, BackupKnows
  <2>3. BackupKnows'
    BY <1>0, <1>a, <2>1 DEF BackupKnows, TypeOK
  <2> QED
    BY <2>1, <2>2, <2>3, InvEarly DEF NeverLost
<1>3. CASE AddLsrepoClient(D)
  <2>1. Run("add_lsrepo", D) /\ masked' = masked /\ flagged' = flagged
    BY <1>3 DEF AddLsrepoClient, disk, lsrepo
  <2>2. \A m \in Machines : lists[m] \cap {"main", "custom"} \subseteq lists'[m]
    BY <1>0, <1>3 DEF AddLsrepoClient, Where, TypeOK
  <2>3. NothingLost' /\ BackupKnows'
    BY <1>3, <1>a, <2>2, NothingLostKept DEF AddLsrepoClient, disk
  <2> QED
    BY <2>1, <2>3, InvEarly DEF NeverLost
<1>4. CASE Roles(D)
  <2>1. Run("roles", D) /\ masked' = masked /\ flagged' = flagged /\ lists' = lists
    BY <1>4 DEF Roles, disk, lsrepo
  <2>2. NothingLost' /\ BackupKnows'
    BY <1>4, <1>a, <2>1, NothingLostKept DEF Roles, disk
  <2> QED
    BY <2>1, <2>2, InvEarly DEF NeverLost
<1> QED
  BY <1>1, <1>2, <1>3, <1>4 DEF Switch

LEMMA InvSwitchBack ==
  ASSUME Inv, NEW D \in SUBSET active, SwitchBack(D)
  PROVE  NothingLost' /\ NeverLost'
<1>0. TypeOK /\ NothingLost /\ Unmasked /\ BackupKnows /\ Enabled
  BY DEF Inv, NeverLost
<1>1. /\ own' = own /\ masked' = masked /\ mishap' = mishap /\ (flagged' => flagged)
      /\ \A m \in Machines : Spoilt(m)' = Spoilt(m)
      /\ \A m \in Machines : lists[m] \cap {"main", "custom"} \subseteq lists'[m]
  BY <1>0 DEF SwitchBack, EnableSystemRepos, DisableLsrepoClient, RemovePackages,
              DisableRepositoryServer, ForgetDownload, RemoveBackup, Spoilt, disk, lsrepo,
              Where, TypeOK
<1>2. CASE EnableSystemRepos(D)
  <2>1. /\ Run("enable_system", D) /\ backup' = backup /\ backedUp' = backedUp
        /\ \A m \in D : backup[m] \subseteq lists'[m]
    BY <1>0, <1>2 DEF EnableSystemRepos, Unpacked, disk, Where, TypeOK
  <2>2. NothingLost' /\ BackupKnows'
    BY <1>1, <2>1, NothingLostKept
  <2>3. Unmasked'
    BY <1>1, <2>1, UnmaskedKept
  <2>4. active' \subseteq active /\ (\A m \in D : ~CannotRun(m))
        /\ \A m \in active' : m \in Takes("enable_system") => m \in D
    BY <1>0, <2>1, RunControl
  <2>5. \A m \in active' : m \in Machines /\ m \in D
    BY <1>0, <2>4 DEF Takes, DownloadTasks, TypeOK
  <2>6. \A m \in D : m \in backedUp
    BY <2>1, <2>4 DEF CannotRun, Run
  <2>7. Enabled'
    BY <1>0, <1>1, <2>1, <2>5, <2>6 DEF Enabled, BackupKnows
  <2> QED
    BY <2>2, <2>3, <2>7 DEF NeverLost
<1>3. CASE \/ DisableLsrepoClient(D) \/ RemovePackages(D) \/ DisableRepositoryServer(D)
           \/ ForgetDownload(D)
  <2>1. /\ backup' = backup /\ backedUp' = backedUp
        /\ \E name \in {"disable_lsrepo", "remove_packages", "stop_server", "forget_download"} :
              Run(name, D)
    BY <1>3 DEF DisableLsrepoClient, RemovePackages, DisableRepositoryServer, ForgetDownload, disk
  <2>2. NothingLost' /\ BackupKnows'
    BY <1>1, <2>1, NothingLostKept
  <2> QED
    BY <1>1, <2>1, <2>2, UnmaskedKept, EnabledKept DEF NeverLost
<1>4. CASE RemoveBackup(D)
  <2>1. /\ Run("remove_backup", D) /\ lists' = lists /\ backedUp' = backedUp \ D
        /\ \A m \in Machines \ D : backup'[m] = backup[m]
    BY <1>0, <1>4 DEF RemoveBackup, Where, TypeOK
  <2>2. Tasks[task] = "remove_backup" /\ status = "running"
    BY <1>0, <2>1, RunControl
  <2>3. task = 21
    BY <1>0, <2>2 DEF TypeOK, Tasks
  <2>4. \A m \in D : ~Spoilt(m) => own[m] \subseteq lists[m] \cup masked[m]
    BY <1>0, <2>2, <2>3 DEF Enabled
  <2>5. NothingLost'
    BY <1>0, <1>1, <2>1, <2>4 DEF NothingLost
  <2>6. BackupKnows'
    BY <1>0, <1>1, <2>1 DEF BackupKnows, TypeOK
  <2> QED
    BY <1>1, <2>1, <2>5, <2>6, UnmaskedKept, EnabledKept DEF NeverLost
<1> QED
  BY <1>2, <1>3, <1>4 DEF SwitchBack

LEMMA InvStep == Inv /\ [Next]_vars => Inv'
<1> SUFFICES ASSUME Inv, [Next]_vars PROVE NothingLost' /\ NeverLost'
  BY TypeStep DEF Inv
<1>0. TypeOK /\ NothingLost /\ Unmasked /\ BackupKnows
  BY DEF Inv, NeverLost
<1>a. (mishap' = mishap) => \A m \in Machines : Spoilt(m)' = Spoilt(m)
  BY DEF Spoilt
<1>1. CASE StartRun
  <2>1. NothingLost' /\ BackupKnows'
    BY <1>1, <1>a, NothingLostKept DEF StartRun, disk
  <2>2. Unmasked' /\ Enabled'
    BY <1>0, <1>1 DEF StartRun, disk, lsrepo, Unmasked, Enabled
  <2> QED
    BY <2>1, <2>2 DEF NeverLost
<1>2. CASE Play
  BY <1>2, InvProvide, InvSwitch, InvSwitchBack DEF Play
<1>3. CASE Abort
  <2>1. NothingLost' /\ BackupKnows'
    BY <1>3, <1>a, NothingLostKept DEF Abort, disk
  <2>2. Unmasked' /\ Enabled'
    BY <1>0, <1>3 DEF Abort, EndRun, disk, lsrepo, Unmasked, Enabled
  <2> QED
    BY <2>1, <2>2 DEF NeverLost
<1>4. CASE Settle \/ UNCHANGED vars
  <2>1. NothingLost' /\ BackupKnows'
    BY <1>4, <1>a, NothingLostKept DEF Settle, disk, vars
  <2>2. UNCHANGED <<own, lists, masked, flagged, offline, status, task, active, mishap>>
    BY <1>4 DEF Settle, vars, disk, lsrepo, run
  <2>3. Unmasked'
    BY <1>0, <2>2 DEF Unmasked
  <2>4. Enabled
    BY DEF Inv, NeverLost
  <2>5. Enabled'
    BY <1>0, <1>a, <2>2, <2>4 DEF Enabled, TypeOK
  <2> QED
    BY <2>1, <2>3, <2>5 DEF NeverLost
<1>5. ASSUME NEW m \in Machines, CutBackup(m) PROVE NothingLost' /\ NeverLost'
  <2>1. /\ Run("back_up", {}) /\ own' = own /\ lists' = lists /\ masked' = masked
        /\ flagged' = flagged /\ backedUp' = backedUp \cup {m}
        /\ \A n \in Machines \ {m} : backup'[n] = backup[n]
    BY <1>0, <1>5 DEF CutBackup, lsrepo, TypeOK
  <2>2. Spoilt(m)' /\ \A n \in Machines \ {m} : Spoilt(n)' = Spoilt(n)
    BY <1>0, <1>5 DEF CutBackup, Befall, Where, Spoilt, TypeOK
  <2>3. NothingLost'
    BY <1>0, <2>1, <2>2 DEF NothingLost
  <2>4. BackupKnows'
    BY <1>0, <2>1, <2>2 DEF BackupKnows, TypeOK
  <2> QED
    BY <2>1, <2>3, <2>4, InvEarly DEF NeverLost
<1>6. ASSUME NEW m \in Machines, RestoreByHand(m) PROVE NothingLost' /\ NeverLost'
  <2>1. \A n \in Machines : lists[n] \cap {"main", "custom"} \subseteq lists'[n]
    BY <1>0, <1>6 DEF RestoreByHand, TypeOK
  <2>2. NothingLost' /\ BackupKnows'
    BY <1>6, <1>a, <2>1, NothingLostKept DEF RestoreByHand, disk
  <2>3. Unmasked' /\ Enabled'
    BY <1>0, <1>6 DEF RestoreByHand, disk, lsrepo, run, Unmasked, Enabled
  <2> QED
    BY <2>2, <2>3 DEF NeverLost
<1>7. ASSUME NEW m \in Machines, EditLists(m) PROVE NothingLost' /\ NeverLost'
  <2>1. /\ status # "running" /\ masked' = masked /\ backedUp' = backedUp /\ backup' = backup
        /\ flagged' = flagged /\ offline' = offline /\ status' = status
    BY <1>7 DEF EditLists, lsrepo, run
  <2>2. \A n \in Machines \ {m} : /\ Spoilt(n)' = Spoilt(n) /\ own'[n] = own[n]
                                  /\ lists'[n] = lists[n]
    BY <1>0, <1>7 DEF EditLists, Befall, Where, Spoilt, TypeOK
  <2>3. Spoilt(m) => Spoilt(m)'
    BY <1>0, <1>7 DEF EditLists, Befall, Where, Spoilt, TypeOK
  <2>4. m \in backedUp => Spoilt(m)'
    BY <1>0, <1>7 DEF EditLists, Befall, Where, Spoilt, TypeOK
  <2>5. \/ own'[m] = own[m] \ {"custom"} /\ lists'[m] = lists[m] \ {"custom"}
        \/ own'[m] = own[m] \cup {"custom"} /\ lists'[m] = lists[m] \cup {"custom"}
    BY <1>0, <1>7 DEF EditLists, TypeOK
  <2>6. NothingLost'
    BY <1>0, <2>1, <2>2, <2>3, <2>5 DEF NothingLost
  <2>7. BackupKnows'
    BY <1>0, <2>1, <2>2, <2>4 DEF BackupKnows, TypeOK
  <2>8. Unmasked' /\ Enabled'
    BY <1>0, <2>1 DEF Unmasked, Enabled
  <2> QED
    BY <2>6, <2>7, <2>8 DEF NeverLost
<1> QED
  BY <1>1, <1>2, <1>3, <1>4, <1>5, <1>6, <1>7 DEF Next

(***************************************************************************)
(* No list of a machine's own is lost, wherever runs are cut off and on    *)
(* whichever machines a task fails, but by a spoilt backup (NothingLost).  *)
(***************************************************************************)
THEOREM NothingLostCorrect == Spec => []NothingLost
<1>1. Inv => NothingLost
  BY DEF Inv
<1> QED
  BY InvInit, InvStep, <1>1, PTL DEF Spec
-----------------------------------------------------------------------------
(***************************************************************************)
(* Which machines a task leaves in the playbook: the last task of one ends *)
(* the run if it has lost any, so the roles and the teardown begin with    *)
(* all machines, and so ends a run that finishes.                          *)
(***************************************************************************)
LEMMA RunLeaves ==
  ASSUME TypeOK, NEW name, NEW D \in SUBSET active, Run(name, D)
  PROVE  /\ status' = "running" =>
               /\ task' = task + 1
               /\ active' = active \ ((active \cap Takes(name)) \ D)
               /\ task \in {14, 15} => active = Machines /\ active' = Machines
         /\ status' = "finished" => /\ task = 21
                                    /\ active = Machines
                                    /\ Machines \cap Takes(name) \subseteq D
<1> DEFINE A == active \ ((active \cap Takes(name)) \ D)
<1>1. Proceed(A) /\ status = "running" /\ task \in 1..21 /\ A \subseteq active /\ active \subseteq Machines
  BY DEF Run, At, TypeOK, Tasks
<1>2. Len(Tasks) = 21
  BY DEF Tasks
<1>3. task \in {14, 15, 21} => Tasks[task] \in LastOfPlaybook
  BY DEF Tasks, LastOfPlaybook
<1>4. status' = "running" => /\ task' = task + 1 /\ active' = A
                             /\ task \in {14, 15} => A = Machines
  BY <1>1, <1>2, <1>3 DEF Proceed, EndRun
<1>5. status' = "finished" => task = 21 /\ A = Machines
  BY <1>1, <1>2, <1>3 DEF Proceed, EndRun
<1> QED
  BY <1>1, <1>4, <1>5

\* A machine that is left has taken the task, if the task was for it.
LEMMA LeftHasRun ==
  ASSUME TypeOK, NEW name, NEW D \in SUBSET active, Run(name, D),
         NEW m \in active', m \in Takes(name)
  PROVE  m \in D
  BY RunControl

(***************************************************************************)
(* Which machines the tasks are for, as far as the invariants need it.     *)
(***************************************************************************)
LEMMA TakesAll ==
  ASSUME NEW name \in {"back_up", "disable_system", "add_lsrepo", "roles", "enable_system",
                       "disable_lsrepo", "remove_backup"},
         NEW m \in Machines
  PROVE  m \in Takes(name)
  BY DEF Takes, DownloadTasks

LEMMA ServerTakes ==
  /\ ~offline => Server \in Takes("check_flag")
  /\ ~offline /\ ~flagged => Server \in Takes("download")
  /\ offline => Server \in Takes("copy")
  /\ Server \in Takes("create_repository")
<1> USE ServerAssumption DEF Takes, DownloadTasks
<1>1. ~offline => Server \in Takes("check_flag")
  OBVIOUS
<1>2. ~offline /\ ~flagged => Server \in Takes("download")
  OBVIOUS
<1>3. offline => Server \in Takes("copy")
  OBVIOUS
<1>4. Server \in Takes("create_repository")
  OBVIOUS
<1> QED
  BY <1>1, <1>2, <1>3, <1>4

(***************************************************************************)
(* The switch to lsrepo: only the tasks from "back_up" to "add_lsrepo"     *)
(* have anything to do for SwitchedOver.                                   *)
(***************************************************************************)
LEMMA SwitchedOverRun ==
  ASSUME TypeOK, NEW name, NEW D \in SUBSET active, Run(name, D), task \notin {12, 13, 14}
  PROVE  SwitchedOver'
<1>1. task \in 1..21 /\ (status' = "running" => task' = task + 1)
  BY RunLeaves DEF TypeOK, Tasks
<1> QED
  BY <1>1 DEF SwitchedOver

LEMMA SwitchedOverPlay ==
  ASSUME TypeOK, SwitchedOver, NEW D \in SUBSET active, Provide(D) \/ Switch(D) \/ SwitchBack(D)
  PROVE  SwitchedOver'
<1>1. CASE CreateEnabledSystemReposList(D)
  <2>1. Run("back_up", D) /\ backedUp' = backedUp \cup D
    BY <1>1 DEF CreateEnabledSystemReposList
  <2>2. Tasks[task] = "back_up" /\ task \in DOMAIN Tasks
    BY <2>1 DEF Run, At, TypeOK
  <2>3. task = 12
    BY <2>2 DEF Tasks
  <2>4. \A m \in active' : m \in D
    BY <2>1, LeftHasRun, RunControl, TakesAll DEF TypeOK
  <2>5. status' = "running" => task' = 13
    BY <2>1, <2>3, RunLeaves
  <2> QED
    BY <2>1, <2>4, <2>5 DEF SwitchedOver
<1>2. CASE DisableSystemRepos(D)
  <2>1. /\ Run("disable_system", D) /\ backedUp' = backedUp
        /\ lists' = [m \in Machines |-> lists[m] \ (IF m \in D \cap backedUp THEN Lists ELSE {})]
    BY <1>2 DEF DisableSystemRepos, Where, disk
  <2>2. Tasks[task] = "disable_system" /\ task \in DOMAIN Tasks /\ status = "running"
    BY <2>1 DEF Run, At, TypeOK
  <2>3. task = 13
    BY <2>2 DEF Tasks
  <2>4. \A m \in active' : m \in D /\ m \in Machines /\ m \in backedUp
    BY <2>1, <2>2, <2>3, LeftHasRun, RunControl, TakesAll DEF TypeOK, SwitchedOver
  <2>5. \A m \in active' : lists'[m] = {}
    BY <2>1, <2>4 DEF TypeOK
  <2>6. status' = "running" => task' = 14
    BY <2>1, <2>3, RunLeaves
  <2> QED
    BY <2>1, <2>4, <2>5, <2>6 DEF SwitchedOver
<1>3. CASE AddLsrepoClient(D)
  <2>1. /\ Run("add_lsrepo", D)
        /\ lists' = [m \in Machines |-> lists[m] \cup (IF m \in D THEN {"lsrepo"} ELSE {})]
    BY <1>3 DEF AddLsrepoClient, Where
  <2>2. Tasks[task] = "add_lsrepo" /\ task \in DOMAIN Tasks /\ status = "running"
    BY <2>1 DEF Run, At, TypeOK
  <2>3. task = 14
    BY <2>2 DEF Tasks
  <2>4. status' = "running" => task' = 15 /\ active' = Machines /\ active = Machines
    BY <2>1, <2>3, RunLeaves
  <2>5. \A m \in active' : m \in D /\ m \in Machines
    BY <2>1, LeftHasRun, RunControl, TakesAll DEF TypeOK
  <2>6. status' = "running" => \A m \in Machines : lists'[m] = {"lsrepo"}
    BY <2>1, <2>2, <2>3, <2>4, <2>5 DEF SwitchedOver
  <2> QED
    BY <2>4, <2>6 DEF SwitchedOver
<1>4. CASE Provide(D) \/ Roles(D) \/ SwitchBack(D)
  <2>1. PICK name : Run(name, D) /\ name \notin {"back_up", "disable_system", "add_lsrepo"}
    BY <1>4 DEF Provide, SwitchBack, CheckWhetherToRunDownload, CleanUpLsrepo, RestoreMissing,
                Mask, AddRepositories, Download, Unmask, TouchFlag, CopyRequirements, Bootstrap,
                CreateRepository, Roles, EnableSystemRepos, DisableLsrepoClient, RemovePackages,
                DisableRepositoryServer, ForgetDownload, RemoveBackup
  <2>2. task \notin {12, 13, 14}
    BY <2>1 DEF Run, At, Tasks
  <2> QED
    BY <2>1, <2>2, SwitchedOverRun
<1> QED
  BY <1>1, <1>2, <1>3, <1>4 DEF Switch
-----------------------------------------------------------------------------
(***************************************************************************)
(* The supply: a task that takes neither packages nor the HTTP server away *)
(* keeps Supplied, and a task after the roles has nothing to keep.         *)
(***************************************************************************)
LEMMA SuppliedLate ==
  ASSUME TypeOK, NEW name, NEW D \in SUBSET active, Run(name, D), task > 14
  PROVE  Supplied'
<1>1. task \in 1..21 /\ (status' = "running" => task' = task + 1)
  BY RunLeaves DEF TypeOK, Tasks
<1> QED
  BY <1>1 DEF Supplied

LEMMA SuppliedKept ==
  ASSUME TypeOK, Supplied, NEW name, NEW D \in SUBSET active, Run(name, D),
         task \notin {1, 6, 9, 11},
         serving => serving', stocked => stocked',
         mishap[Server] \subseteq mishap'[Server],
         flagged' => flagged \/ task > 6
  PROVE  Supplied'
<1>1. /\ task \in 1..21 /\ (status' = "running" => task' = task + 1)
      /\ status = "running" /\ active' \subseteq active /\ offline' = offline
  BY RunLeaves, RunControl DEF TypeOK, Tasks
<1> QED
  BY <1>1 DEF Supplied, TypeOK

LEMMA SuppliedPlay ==
  ASSUME TypeOK, Supplied, NEW D \in SUBSET active, Provide(D) \/ Switch(D) \/ SwitchBack(D)
  PROVE  Supplied'
<1>0. ASSUME NEW name, Run(name, D)
      PROVE  /\ task \in 1..21 /\ Tasks[task] = name /\ status = "running"
             /\ (status' = "running" => task' = task + 1)
             /\ active' \subseteq active /\ offline' = offline
             /\ (Server \in active' /\ Server \in Takes(name) => Server \in D)
  BY <1>0, RunLeaves, RunControl DEF TypeOK, Tasks
<1>a. Server \in Machines
  BY ServerAssumption
<1>1. CASE CheckWhetherToRunDownload(D)
  <2>1. /\ Run("check_flag", D) /\ serving' = serving /\ stocked' = stocked
        /\ flagged' \in {flagged, flagged /\ D = {}}
        /\ mishap' = [m \in Machines |-> mishap[m] \cup
              (IF m \in D THEN (IF flagged' /\ ~stocked THEN {"stale_flag"} ELSE {}) ELSE {})]
    BY <1>1 DEF CheckWhetherToRunDownload, Befall, Where
  <2>2. task \in 1..21 /\ Tasks[task] = "check_flag" /\ (status' = "running" => task' = task + 1)
        /\ offline' = offline
    BY <1>0, <2>1
  <2>3. task = 1
    BY <2>2 DEF Tasks
  <2>4. ~offline /\ Server \in active' => Server \in D
    BY <1>0, <2>1, ServerTakes
  <2>5. ~offline /\ Server \in active' /\ flagged' => stocked' \/ "stale_flag" \in mishap'[Server]
    BY <1>a, <2>1, <2>4 DEF TypeOK
  <2> QED
    BY <2>2, <2>3, <2>5 DEF Supplied
<1>2. CASE CleanUpLsrepo(D)
  <2>1. /\ Run("clean_up", D) /\ serving' = serving /\ flagged' = flagged /\ mishap' = mishap
        /\ stocked' \in {stocked, stocked /\ D = {}}
    BY <1>2 DEF CleanUpLsrepo
  <2>2. /\ task \in 1..21 /\ Tasks[task] = "clean_up" /\ status = "running"
        /\ (status' = "running" => task' = task + 1) /\ offline' = offline /\ active' \subseteq active
    BY <1>0, <2>1
  <2>3. task = 2
    BY <2>2 DEF Tasks
  <2>4. D \subseteq Takes("clean_up")
    BY <2>1, RunControl
  <2>5. ~offline /\ flagged => D = {}
    BY <2>4 DEF Takes
  <2> QED
    BY <2>1, <2>2, <2>3, <2>5 DEF Supplied, TypeOK
<1>3. CASE Download(D)
  <2>1. /\ Run("download", D) /\ flagged' = flagged /\ stocked' = (stocked \/ D # {})
        /\ mishap' = mishap
    BY <1>3 DEF Download
  <2>2. /\ task \in 1..21 /\ Tasks[task] = "download" /\ status = "running"
        /\ (status' = "running" => task' = task + 1) /\ offline' = offline /\ active' \subseteq active
    BY <1>0, <2>1
  <2>3. task = 6
    BY <2>2 DEF Tasks
  <2>4. ~offline /\ ~flagged /\ Server \in active' => stocked'
    BY <1>0, <2>1, ServerTakes
  <2> QED
    BY <2>1, <2>2, <2>3, <2>4 DEF Supplied, TypeOK
<1>4. CASE CopyRequirements(D)
  <2>1. /\ Run("copy", D) /\ flagged' = flagged /\ stocked' = (stocked \/ D # {})
        /\ mishap' = mishap /\ serving' = serving
    BY <1>4 DEF CopyRequirements
  <2>2. /\ task \in 1..21 /\ Tasks[task] = "copy" /\ status = "running"
        /\ (status' = "running" => task' = task + 1) /\ offline' = offline /\ active' \subseteq active
    BY <1>0, <2>1
  <2>3. task = 9
    BY <2>2 DEF Tasks
  <2>4. offline /\ Server \in active' => stocked'
    BY <1>0, <2>1, ServerTakes
  <2> QED
    BY <2>1, <2>2, <2>3, <2>4 DEF Supplied, TypeOK
<1>5. CASE CreateRepository(D)
  <2>1. /\ Run("create_repository", D) /\ flagged' = flagged /\ stocked' = stocked
        /\ mishap' = mishap /\ serving' = (serving \/ D # {})
    BY <1>5 DEF CreateRepository
  <2>2. /\ task \in 1..21 /\ Tasks[task] = "create_repository" /\ status = "running"
        /\ (status' = "running" => task' = task + 1) /\ offline' = offline /\ active' \subseteq active
    BY <1>0, <2>1
  <2>3. task = 11
    BY <2>2 DEF Tasks
  <2>4. Server \in active' => serving'
    BY <1>0, <2>1, ServerTakes
  <2> QED
    BY <2>1, <2>2, <2>3, <2>4 DEF Supplied, TypeOK
<1>6. CASE Mask(D)
  <2>1. Run("mask", D) /\ serving' = serving /\ stocked' = stocked /\ flagged' = flagged
        /\ mishap[Server] \subseteq mishap'[Server]
    BY <1>6, <1>a DEF Mask, Befall, Where, lsrepo, TypeOK
  <2>2. task \notin {1, 6, 9, 11}
    BY <2>1, <1>0 DEF Tasks
  <2> QED
    BY <2>1, <2>2, SuppliedKept
<1>7. CASE TouchFlag(D)
  <2>1. Run("touch_flag", D) /\ serving' = serving /\ stocked' = stocked /\ mishap' = mishap
    BY <1>7 DEF TouchFlag
  <2>2. task = 8
    BY <2>1, <1>0 DEF Tasks
  <2> QED
    BY <2>1, <2>2, SuppliedKept
<1>8. CASE RestoreMissing(D) \/ AddRepositories(D) \/ Unmask(D) \/ Bootstrap(D)
           \/ CreateEnabledSystemReposList(D) \/ DisableSystemRepos(D) \/ AddLsrepoClient(D)
  <2>1. PICK name \in {"restore", "add_repositories", "unmask", "bootstrap", "back_up",
                       "disable_system", "add_lsrepo"} : Run(name, D)
    BY <1>8 DEF RestoreMissing, AddRepositories, Unmask, Bootstrap,
                CreateEnabledSystemReposList, DisableSystemRepos, AddLsrepoClient
  <2>2. serving' = serving /\ stocked' = stocked /\ flagged' = flagged /\ mishap' = mishap
    BY <1>8 DEF RestoreMissing, AddRepositories, Unmask, Bootstrap, lsrepo,
                CreateEnabledSystemReposList, DisableSystemRepos, AddLsrepoClient
  <2>3. task \notin {1, 6, 9, 11}
    BY <2>1, <1>0 DEF Tasks
  <2> QED
    BY <2>1, <2>2, <2>3, SuppliedKept
<1>9. CASE Roles(D) \/ SwitchBack(D)
  <2>1. PICK name \in {"roles", "enable_system", "disable_lsrepo", "remove_packages",
                       "stop_server", "forget_download", "remove_backup"} : Run(name, D)
    BY <1>9 DEF SwitchBack, Roles, EnableSystemRepos, DisableLsrepoClient, RemovePackages,
                DisableRepositoryServer, ForgetDownload, RemoveBackup
  <2>2. task > 14
    BY <2>1, <1>0 DEF Tasks
  <2> QED
    BY <2>1, <2>2, SuppliedLate
<1> QED
  BY <1>1, <1>2, <1>3, <1>4, <1>5, <1>6, <1>7, <1>8, <1>9 DEF Provide, Switch
-----------------------------------------------------------------------------
(***************************************************************************)
(* What is on a machine and not its own: the tasks that rename nothing, do *)
(* not touch the backup and add no list but of the machine's own keep      *)
(* Foreign, but for the three after which it says more.                    *)
(***************************************************************************)
LEMMA UnaffectedBefore ==
  ASSUME offline' = offline, NEW m \in Machines, mishap[m] \subseteq mishap'[m], Unaffected(m)'
  PROVE  Unaffected(m) /\ mishap'[m] = {} /\ (m = Server => ~offline)
  BY DEF Unaffected

LEMMA ForeignKept ==
  ASSUME TypeOK, Foreign, NEW name, NEW D \in SUBSET active, Run(name, D),
         task \notin {4, 6, 17},
         own' = own, masked' = masked, backedUp' = backedUp, backup' = backup,
         flagged' => flagged,
         \A m \in Machines : mishap[m] \subseteq mishap'[m],
         \A m \in Machines : Unaffected(m) => lists'[m] \subseteq lists[m] \cup own[m]
  PROVE  Foreign'
<1>1. /\ task \in 1..21 /\ (status' = "running" => task' = task + 1)
      /\ status = "running" /\ active' \subseteq active /\ offline' = offline
  BY RunLeaves, RunControl DEF TypeOK, Tasks
<1> SUFFICES ASSUME NEW m \in Machines, Unaffected(m)' PROVE OnlyOwn(m)'
  BY DEF Foreign
<1>2. Unaffected(m)
  BY <1>1, UnaffectedBefore
<1>3. OnlyOwn(m) /\ lists'[m] \subseteq lists[m] \cup own[m] /\ own[m] \subseteq {"main", "custom"}
  BY <1>2 DEF Foreign, TypeOK
<1>4. "added" \in lists'[m] => "added" \in lists[m]
  BY <1>3
<1>5. "lsrepo" \in lists'[m] => "lsrepo" \in lists[m]
  BY <1>3
<1>6. lists'[m] \subseteq own[m] \cup {"added", "lsrepo"}
  BY <1>3 DEF OnlyOwn
<1>7. \/ status' # "running"
      \/ /\ task \in {1, 2, 3, 4, 6} => task' \in {1, 2, 3, 4, 6}
         /\ task' > 17 => task > 17
  BY <1>1
<1> QED
  BY <1>1, <1>3, <1>4, <1>5, <1>6, <1>7 DEF OnlyOwn

LEMMA ForeignProvide ==
  ASSUME TypeOK, Unmasked, Foreign, NEW D \in SUBSET active, Provide(D)
  PROVE  Foreign'
<1>0. ASSUME NEW name, Run(name, D)
      PROVE  /\ task \in 1..21 /\ Tasks[task] = name /\ status = "running"
             /\ (status' = "running" => task' = task + 1)
             /\ active' \subseteq active /\ offline' = offline
             /\ D \subseteq Takes(name) /\ D \subseteq Machines
             /\ \A m \in active' : m \in Takes(name) => m \in D
  BY <1>0, RunLeaves, RunControl DEF TypeOK, Tasks
<1>m. mishap' = mishap => \A m \in Machines : mishap[m] \subseteq mishap'[m]
  OBVIOUS
<1>l. lists' = lists => \A m \in Machines : lists'[m] \subseteq lists[m] \cup own[m]
  OBVIOUS
<1>1. CASE CheckWhetherToRunDownload(D)
  <2>1. /\ Run("check_flag", D) /\ (flagged' => flagged) /\ lists' = lists
        /\ \A m \in Machines : mishap[m] \subseteq mishap'[m]
    BY <1>1 DEF CheckWhetherToRunDownload, Befall, Where, TypeOK
  <2>2. task \notin {4, 6, 17}
    BY <1>0, <2>1 DEF Tasks
  <2> QED
    BY <1>1, <1>l, <2>1, <2>2, ForeignKept DEF CheckWhetherToRunDownload, disk
<1>2. CASE CleanUpLsrepo(D)
  <2>1. Run("clean_up", D) /\ task \notin {4, 6, 17}
    BY <1>0, <1>2 DEF CleanUpLsrepo, Tasks
  <2> QED
    BY <1>2, <1>m, <1>l, <2>1, ForeignKept DEF CleanUpLsrepo, disk
<1>3. CASE RestoreMissing(D)
  <2>1. Run("restore", D) /\ task \notin {4, 6, 17}
    BY <1>0, <1>3 DEF RestoreMissing, Tasks
  <2>2. \A m \in Machines : Unaffected(m) => lists'[m] \subseteq lists[m] \cup own[m]
    BY <1>3 DEF RestoreMissing, Foreign, OnlyOwn
  <2> QED
    BY <1>3, <1>m, <2>1, <2>2, ForeignKept DEF RestoreMissing, disk, lsrepo
<1>4. CASE Mask(D)
  <2>1. /\ Run("mask", D) /\ own' = own /\ backup' = backup /\ backedUp' = backedUp
        /\ flagged' = flagged
        /\ lists' = [m \in Machines |-> lists[m] \ (IF m \in D THEN Lists \ {"main"} ELSE {})]
        /\ masked' = [m \in Machines |->
                        masked[m] \cup (IF m \in D THEN lists[m] \ {"main"} ELSE {})]
        /\ mishap' = [m \in Machines |-> mishap[m] \cup
              (IF m \in D /\ "added" \in lists[m] THEN {"masked_leftovers"} ELSE {})]
    BY <1>4 DEF Mask, Befall, Where, lsrepo
  <2>2. /\ task = 4 /\ status = "running" /\ offline' = offline /\ active' \subseteq active
        /\ (status' = "running" => task' = 5) /\ D \subseteq Machines
        /\ (~offline /\ ~flagged /\ Server \in active' => Server \in D)
    <3>1. task = 4
      BY <1>0, <2>1 DEF Tasks
    <3> QED
      BY <1>0, <2>1, <3>1, TakesServer DEF DownloadTasks
  <2>3. \A m \in Machines : lists[m] \subseteq Lists
    BY DEF TypeOK
  <2> SUFFICES ASSUME NEW m \in Machines, Unaffected(m)' PROVE OnlyOwn(m)'
    BY DEF Foreign
  <2>4. mishap[m] \subseteq mishap'[m]
    BY <2>1
  <2>5. Unaffected(m) /\ mishap'[m] = {} /\ (m = Server => ~offline)
    BY <2>2, <2>4, UnaffectedBefore
  <2>6. OnlyOwn(m) /\ own[m] \subseteq {"main", "custom"}
    BY <2>5 DEF Foreign, TypeOK
  <2>7. CASE m \in D
    <3>1. "added" \notin lists[m]
      BY <2>1, <2>5, <2>7
    <3>2. /\ lists'[m] = lists[m] \cap {"main"}
          /\ masked'[m] = masked[m] \cup (lists[m] \ {"main"})
      BY <2>1, <2>3, <2>7
    <3> QED
      BY <2>1, <2>6, <3>1, <3>2 DEF OnlyOwn
  <2>8. CASE m \notin D
    <3>1. lists'[m] = lists[m] /\ masked'[m] = masked[m]
      BY <2>1, <2>8
    <3>2. "added" \in lists[m] /\ status' = "running" => m \notin active'
      BY <2>2, <2>5, <2>6, <2>8 DEF OnlyOwn
    <3>3. status' = "running" /\ task' > 17 => FALSE
      BY <2>2
    <3> QED
      BY <2>1, <2>2, <2>6, <3>1, <3>2, <3>3 DEF OnlyOwn
  <2> QED
    BY <2>7, <2>8
<1>5. CASE AddRepositories(D)
  <2>1. /\ Run("add_repositories", D) /\ own' = own /\ backup' = backup /\ backedUp' = backedUp
        /\ flagged' = flagged /\ masked' = masked /\ mishap' = mishap
        /\ lists' = [m \in Machines |-> lists[m] \cup (IF m \in D THEN {"added"} ELSE {})]
    BY <1>5 DEF AddRepositories, Where, lsrepo, disk
  <2>2. /\ task = 5 /\ status = "running" /\ offline' = offline /\ active' \subseteq active
        /\ (status' = "running" => task' = 6)
        /\ \A m \in D : m = Server /\ ~offline /\ ~flagged
    <3>1. task = 5
      BY <1>0, <2>1 DEF Tasks
    <3> QED
      BY <1>0, <2>1, <3>1, TakesServer DEF DownloadTasks
  <2> SUFFICES ASSUME NEW m \in Machines, Unaffected(m)' PROVE OnlyOwn(m)'
    BY DEF Foreign
  <2>3. Unaffected(m)
    BY <2>1, <2>2, UnaffectedBefore
  <2>4. OnlyOwn(m)
    BY <2>3 DEF Foreign
  <2>5. /\ lists'[m] = lists[m] \cup (IF m \in D THEN {"added"} ELSE {})
        /\ status' = "running" /\ task' > 17 => FALSE
    BY <2>1, <2>2
  <2> QED
    BY <2>1, <2>2, <2>4, <2>5 DEF OnlyOwn
<1>6. CASE Download(D)
  <2>1. /\ Run("download", D) /\ own' = own /\ backup' = backup /\ backedUp' = backedUp
        /\ flagged' = flagged /\ masked' = masked /\ mishap' = mishap
        /\ lists' = [m \in Machines |-> lists[m] \ (IF m \in D THEN {"added"} ELSE {})]
    BY <1>6 DEF Download, Where, disk
  <2>2. /\ task = 6 /\ status = "running" /\ offline' = offline /\ active' \subseteq active
        /\ (status' = "running" => task' = 7)
        /\ (~offline /\ ~flagged /\ Server \in active' => Server \in D)
    <3>1. task = 6
      BY <1>0, <2>1 DEF Tasks
    <3> QED
      BY <1>0, <2>1, <3>1, TakesServer DEF DownloadTasks
  <2> SUFFICES ASSUME NEW m \in Machines, Unaffected(m)' PROVE OnlyOwn(m)'
    BY DEF Foreign
  <2>3. Unaffected(m) /\ (m = Server => ~offline)
    BY <2>1, <2>2, UnaffectedBefore
  <2>4. OnlyOwn(m)
    BY <2>3 DEF Foreign
  <2>5. /\ lists'[m] = lists[m] \ (IF m \in D THEN {"added"} ELSE {})
        /\ status' = "running" /\ task' > 17 => FALSE
    BY <2>1, <2>2
  <2>6. "added" \in lists'[m] => m = Server /\ ~flagged /\ m \notin D
    BY <2>4, <2>5 DEF OnlyOwn
  <2> QED
    BY <2>1, <2>2, <2>3, <2>4, <2>5, <2>6 DEF OnlyOwn
<1>7. CASE Unmask(D)
  <2>1. /\ Run("unmask", D) /\ own' = own /\ backup' = backup /\ backedUp' = backedUp
        /\ flagged' = flagged /\ mishap' = mishap
        /\ lists' = [m \in Machines |->
                        lists[m] \cup (IF m \in D THEN masked[m] \ {"main"} ELSE {})]
        /\ masked' = [m \in Machines |->
                        masked[m] \ (IF m \in D THEN Lists \ {"main"} ELSE {})]
    BY <1>7 DEF Unmask, Where, lsrepo
  <2>2. /\ task = 7 /\ status = "running" /\ offline' = offline /\ active' \subseteq active
        /\ (status' = "running" => task' = 8)
    <3>1. task = 7
      BY <1>0, <2>1 DEF Tasks
    <3> QED
      BY <1>0, <2>1, <3>1
  <2> SUFFICES ASSUME NEW m \in Machines, Unaffected(m)' PROVE OnlyOwn(m)'
    BY DEF Foreign
  <2>3. Unaffected(m)
    BY <2>1, <2>2, UnaffectedBefore
  <2>4. OnlyOwn(m) /\ own[m] \subseteq {"main", "custom"}
    BY <2>3 DEF Foreign, TypeOK
  <2>5. /\ lists'[m] \subseteq lists[m] \cup masked[m] /\ masked'[m] \subseteq masked[m]
        /\ "added" \in lists'[m] => "added" \in lists[m]
        /\ status' = "running" /\ task' > 17 => FALSE
    BY <2>1, <2>2, <2>4 DEF OnlyOwn
  <2> QED
    BY <2>1, <2>2, <2>4, <2>5 DEF OnlyOwn
<1>8. CASE TouchFlag(D)
  <2>1. /\ Run("touch_flag", D) /\ own' = own /\ backup' = backup /\ backedUp' = backedUp
        /\ flagged' = (flagged \/ D # {}) /\ masked' = masked /\ mishap' = mishap
        /\ lists' = lists
    BY <1>8 DEF TouchFlag, disk
  <2>2. /\ task = 8 /\ status = "running" /\ offline' = offline /\ active' \subseteq active
        /\ (status' = "running" => task' = 9)
        /\ \A m \in D : m = Server
    <3>1. task = 8
      BY <1>0, <2>1 DEF Tasks
    <3> QED
      BY <1>0, <2>1, <3>1, TakesServer DEF DownloadTasks
  <2> SUFFICES ASSUME NEW m \in Machines, Unaffected(m)' PROVE OnlyOwn(m)'
    BY DEF Foreign
  <2>3. Unaffected(m)
    BY <2>1, <2>2, UnaffectedBefore
  <2>4. OnlyOwn(m)
    BY <2>3 DEF Foreign
  <2>5. "added" \in lists[m] => m = Server /\ ~flagged /\ m \notin active
    BY <2>2, <2>4 DEF OnlyOwn
  <2>6. "added" \in lists[m] => D = {} /\ m \notin active' /\ ~flagged'
    BY <2>1, <2>2, <2>5
  <2>7. status' = "running" /\ task' > 17 => FALSE
    BY <2>2
  <2> QED
    BY <2>1, <2>4, <2>5, <2>6, <2>7 DEF OnlyOwn
<1>9. CASE CopyRequirements(D)
  <2>1. Run("copy", D) /\ task \notin {4, 6, 17}
    BY <1>0, <1>9 DEF CopyRequirements, Tasks
  <2> QED
    BY <1>9, <1>m, <1>l, <2>1, ForeignKept DEF CopyRequirements, disk
<1>10. CASE Bootstrap(D)
  <2>1. /\ Run("bootstrap", D) /\ own' = own /\ backup' = backup /\ backedUp' = backedUp
        /\ flagged' = flagged /\ mishap' = mishap
        /\ \A m \in Machines \ D : lists'[m] = lists[m] /\ masked'[m] = masked[m]
    BY <1>10 DEF Bootstrap, Where, lsrepo, TypeOK
  <2>2. /\ task = 10 /\ status = "running" /\ offline' = offline /\ active' \subseteq active
        /\ (status' = "running" => task' = 11)
        /\ \A m \in D : m = Server /\ offline
    <3>1. task = 10
      BY <1>0, <2>1 DEF Tasks
    <3> QED
      BY <1>0, <2>1, <3>1, TakesServer
  <2> SUFFICES ASSUME NEW m \in Machines, Unaffected(m)' PROVE OnlyOwn(m)'
    BY DEF Foreign
  <2>3. Unaffected(m) /\ (m = Server => ~offline)
    BY <2>1, <2>2, UnaffectedBefore
  <2>4. OnlyOwn(m) /\ m \notin D
    BY <2>2, <2>3 DEF Foreign
  <2> QED
    BY <2>1, <2>2, <2>4 DEF OnlyOwn
<1>11. CASE CreateRepository(D)
  <2>1. Run("create_repository", D) /\ task \notin {4, 6, 17}
    BY <1>0, <1>11 DEF CreateRepository, Tasks
  <2>2. \A m \in Machines : lists'[m] \subseteq lists[m] \cup own[m]
    BY <1>11 DEF CreateRepository
  <2> QED
    BY <1>11, <1>m, <2>1, <2>2, ForeignKept DEF CreateRepository, disk
<1> QED
  BY <1>1, <1>2, <1>3, <1>4, <1>5, <1>6, <1>7, <1>8, <1>9, <1>10, <1>11 DEF Provide

LEMMA ForeignSwitch ==
  ASSUME TypeOK, SwitchedOver, Foreign, NEW D \in SUBSET active, Switch(D)
  PROVE  Foreign'
<1>0. ASSUME NEW name, Run(name, D)
      PROVE  /\ task \in 1..21 /\ Tasks[task] = name /\ status = "running"
             /\ (status' = "running" => task' = task + 1)
             /\ active' \subseteq active /\ offline' = offline /\ D \subseteq Machines
  BY <1>0, RunLeaves, RunControl DEF TypeOK, Tasks
<1>m. mishap' = mishap => \A m \in Machines : mishap[m] \subseteq mishap'[m]
  OBVIOUS
<1>1. CASE CreateEnabledSystemReposList(D)
  <2>1. /\ Run("back_up", D) /\ own' = own /\ lists' = lists /\ masked' = masked
        /\ flagged' = flagged /\ mishap' = mishap /\ backedUp' = backedUp \cup D
        /\ backup' = [m \in Machines |-> IF m \in D \ backedUp THEN lists[m] ELSE backup[m]]
    BY <1>1 DEF CreateEnabledSystemReposList, lsrepo
  <2>2. /\ task = 12 /\ status = "running" /\ offline' = offline /\ active' \subseteq active
        /\ (status' = "running" => task' = 13)
    <3>1. task = 12
      BY <1>0, <2>1 DEF Tasks
    <3> QED
      BY <1>0, <2>1, <3>1
  <2> SUFFICES ASSUME NEW m \in Machines, Unaffected(m)' PROVE OnlyOwn(m)'
    BY DEF Foreign
  <2>3. Unaffected(m)
    BY <2>1, <2>2, UnaffectedBefore
  <2>4. OnlyOwn(m)
    BY <2>3 DEF Foreign
  <2>5. "added" \in lists[m] => m \notin active
    BY <2>2, <2>4 DEF OnlyOwn
  <2>6. m \in D \ backedUp => lists[m] \subseteq own[m]
    BY <2>4, <2>5 DEF OnlyOwn
  <2>7. backup'[m] \subseteq own[m]
    BY <2>1, <2>4, <2>6 DEF OnlyOwn
  <2>8. status' = "running" /\ task' > 17 => FALSE
    BY <2>2
  <2> QED
    BY <2>1, <2>2, <2>4, <2>5, <2>7, <2>8 DEF OnlyOwn
<1>2. CASE DisableSystemRepos(D)
  <2>1. Run("disable_system", D) /\ task \notin {4, 6, 17}
    BY <1>0, <1>2 DEF DisableSystemRepos, Tasks
  <2>2. \A m \in Machines : lists'[m] \subseteq lists[m] \cup own[m]
    BY <1>2 DEF DisableSystemRepos
  <2> QED
    BY <1>2, <1>m, <2>1, <2>2, ForeignKept DEF DisableSystemRepos, disk, lsrepo
<1>3. CASE AddLsrepoClient(D)
  <2>1. /\ Run("add_lsrepo", D) /\ own' = own /\ masked' = masked
        /\ flagged' = flagged /\ mishap' = mishap /\ backedUp' = backedUp /\ backup' = backup
        /\ lists' = [m \in Machines |-> lists[m] \cup (IF m \in D THEN {"lsrepo"} ELSE {})]
    BY <1>3 DEF AddLsrepoClient, Where, disk, lsrepo
  <2>2. /\ task = 14 /\ status = "running" /\ offline' = offline /\ active' \subseteq active
        /\ (status' = "running" => task' = 15)
    <3>1. task = 14
      BY <1>0, <2>1 DEF Tasks
    <3> QED
      BY <1>0, <2>1, <3>1
  <2> SUFFICES ASSUME NEW m \in Machines, Unaffected(m)' PROVE OnlyOwn(m)'
    BY DEF Foreign
  <2>3. Unaffected(m)
    BY <2>1, <2>2, UnaffectedBefore
  <2>4. OnlyOwn(m)
    BY <2>3 DEF Foreign
  <2>5. lists'[m] = lists[m] \cup (IF m \in D THEN {"lsrepo"} ELSE {})
    BY <2>1
  <2>6. m \in D => m \in backedUp
    BY <2>2 DEF SwitchedOver
  <2>7. "added" \in lists'[m] => "added" \in lists[m] /\ m \notin active'
    BY <2>2, <2>4, <2>5 DEF OnlyOwn
  <2>8. status' = "running" /\ task' > 17 => FALSE
    BY <2>2
  <2> QED
    BY <2>1, <2>4, <2>5, <2>6, <2>7, <2>8 DEF OnlyOwn
<1>4. CASE Roles(D)
  <2>1. Run("roles", D) /\ task \notin {4, 6, 17}
    BY <1>0, <1>4 DEF Roles, Tasks
  <2>2. \A m \in Machines : lists'[m] \subseteq lists[m] \cup own[m]
    BY <1>4 DEF Roles
  <2> QED
    BY <1>4, <1>m, <2>1, <2>2, ForeignKept DEF Roles, disk, lsrepo
<1> QED
  BY <1>1, <1>2, <1>3, <1>4 DEF Switch

(***************************************************************************)
(* In the teardown a machine loses lsrepo before it loses its backup.      *)
(***************************************************************************)
LEMMA ForeignSwitchBack ==
  ASSUME TypeOK, Unmasked, Foreign, NEW D \in SUBSET active, SwitchBack(D)
  PROVE  Foreign'
<1>0. ASSUME NEW name, Run(name, D)
      PROVE  /\ task \in 1..21 /\ Tasks[task] = name /\ status = "running"
             /\ (status' = "running" => task' = task + 1)
             /\ active' \subseteq active /\ offline' = offline /\ D \subseteq Machines
             /\ \A m \in active' : m \in Takes(name) => m \in D
  BY <1>0, RunLeaves, RunControl DEF TypeOK, Tasks
<1>m. mishap' = mishap => \A m \in Machines : mishap[m] \subseteq mishap'[m]
  OBVIOUS
<1>1. CASE EnableSystemRepos(D)
  <2>1. Run("enable_system", D) /\ task \notin {4, 6, 17}
    BY <1>0, <1>1 DEF EnableSystemRepos, Tasks
  <2>2. \A m \in Machines : Unaffected(m) => lists'[m] \subseteq lists[m] \cup own[m]
    BY <1>1 DEF EnableSystemRepos, Where, Foreign, OnlyOwn
  <2> QED
    BY <1>1, <1>m, <2>1, <2>2, ForeignKept DEF EnableSystemRepos, disk, lsrepo
<1>2. CASE DisableLsrepoClient(D)
  <2>1. /\ Run("disable_lsrepo", D) /\ own' = own /\ masked' = masked
        /\ flagged' = flagged /\ mishap' = mishap /\ backedUp' = backedUp /\ backup' = backup
        /\ lists' = [m \in Machines |-> lists[m] \ (IF m \in D THEN {"lsrepo"} ELSE {})]
    BY <1>2 DEF DisableLsrepoClient, Where, disk, lsrepo
  <2>2. /\ task = 17 /\ status = "running" /\ offline' = offline /\ active' \subseteq active
        /\ (status' = "running" => task' = 18)
    <3>1. task = 17
      BY <1>0, <2>1 DEF Tasks
    <3> QED
      BY <1>0, <2>1, <3>1
  <2> SUFFICES ASSUME NEW m \in Machines, Unaffected(m)' PROVE OnlyOwn(m)'
    BY DEF Foreign
  <2>3. Unaffected(m)
    BY <2>1, <2>2, UnaffectedBefore
  <2>4. OnlyOwn(m)
    BY <2>3 DEF Foreign
  <2>5. lists'[m] = lists[m] \ (IF m \in D THEN {"lsrepo"} ELSE {})
    BY <2>1
  <2>6. m \in active' => m \in D
    BY <1>0, <2>1, TakesAll
  <2>7. "added" \in lists'[m] => "added" \in lists[m] /\ m \notin active'
    BY <2>2, <2>4, <2>5 DEF OnlyOwn
  <2> QED
    BY <2>1, <2>4, <2>5, <2>6, <2>7 DEF OnlyOwn
<1>3. CASE \/ RemovePackages(D) \/ DisableRepositoryServer(D) \/ ForgetDownload(D)
  <2>1. PICK name \in {"remove_packages", "stop_server", "forget_download"} : Run(name, D)
    BY <1>3 DEF RemovePackages, DisableRepositoryServer, ForgetDownload
  <2>2. task \notin {4, 6, 17}
    BY <1>0, <2>1 DEF Tasks
  <2>3. lists' = lists /\ (flagged' => flagged) /\ mishap' = mishap
    BY <1>3 DEF RemovePackages, DisableRepositoryServer, ForgetDownload, TypeOK
  <2>4. own' = own /\ masked' = masked /\ backedUp' = backedUp /\ backup' = backup
    BY <1>3 DEF RemovePackages, DisableRepositoryServer, ForgetDownload, disk
  <2>5. \A m \in Machines : lists'[m] \subseteq lists[m] \cup own[m]
    BY <2>3
  <2> QED
    BY <1>m, <2>1, <2>2, <2>3, <2>4, <2>5, ForeignKept
<1>4. CASE RemoveBackup(D)
  <2>1. /\ Run("remove_backup", D) /\ own' = own /\ masked' = masked /\ lists' = lists
        /\ flagged' = flagged /\ mishap' = mishap /\ backedUp' = backedUp \ D
        /\ backup' = [m \in Machines |-> backup[m] \ (IF m \in D THEN Lists ELSE {})]
    BY <1>4 DEF RemoveBackup, Where, disk, lsrepo
  <2>2. /\ task = 21 /\ status = "running" /\ offline' = offline /\ active' \subseteq active
        /\ status' # "running"
    <3>1. task = 21
      BY <1>0, <2>1 DEF Tasks
    <3>2. task' = 22 => task' \notin DOMAIN Tasks
      BY DEF Tasks
    <3> QED
      BY <1>0, <2>1, <3>1, <3>2, RunControl
  <2> SUFFICES ASSUME NEW m \in Machines, Unaffected(m)' PROVE OnlyOwn(m)'
    BY DEF Foreign
  <2>3. Unaffected(m) /\ (m = Server => ~offline)
    BY <2>1, <2>2, UnaffectedBefore
  <2>4. OnlyOwn(m)
    BY <2>3 DEF Foreign
  <2>5. m \in D => masked[m] = {}
    BY <2>2, <2>4 DEF Unmasked, OnlyOwn
  <2>6. m \in D => "lsrepo" \notin lists[m]
    BY <2>2, <2>4 DEF OnlyOwn
  <2> QED
    BY <2>1, <2>2, <2>4, <2>5, <2>6 DEF OnlyOwn
<1> QED
  BY <1>1, <1>2, <1>3, <1>4 DEF SwitchBack

(***************************************************************************)
(* A run that finishes has just removed the backups of all machines.       *)
(***************************************************************************)
LEMMA FinishedPlay ==
  ASSUME Inv, Foreign, NEW D \in SUBSET active, Provide(D) \/ Switch(D) \/ SwitchBack(D)
  PROVE  Finished'
<1>0. TypeOK /\ Unmasked /\ Enabled
  BY DEF Inv, NeverLost
<1>1. CASE RemoveBackup(D)
  <2> SUFFICES ASSUME status' = "finished" PROVE backedUp' = {} /\ OwnListsRestored'
    BY DEF Finished
  <2>1. /\ Run("remove_backup", D) /\ own' = own /\ masked' = masked /\ lists' = lists
        /\ mishap' = mishap /\ backedUp' = backedUp \ D
    BY <1>1 DEF RemoveBackup
  <2>2. /\ task = 21 /\ active = Machines /\ status = "running" /\ offline' = offline
        /\ Machines \subseteq D
    BY <1>0, <2>1, RunLeaves, RunControl, TakesAll
  <2>3. backedUp' = {}
    BY <1>0, <2>1, <2>2 DEF TypeOK
  <2>4. ASSUME NEW m \in Machines, Unaffected(m)' PROVE Restored(m)'
    <3>1. Unaffected(m) /\ (m = Server => ~offline) /\ mishap[m] = {}
      BY <2>1, <2>2, <2>4, UnaffectedBefore
    <3>2. OnlyOwn(m) /\ own[m] \subseteq {"main", "custom"}
      BY <1>0, <3>1 DEF Foreign, TypeOK
    <3>3. masked[m] = {}
      BY <1>0, <2>2, <3>2 DEF Unmasked, OnlyOwn
    <3>4. own[m] \subseteq lists[m]
      BY <1>0, <2>2, <3>1, <3>3 DEF Enabled, Spoilt
    <3>5. lists[m] \subseteq own[m]
      BY <2>2, <3>2 DEF OnlyOwn
    <3> QED
      BY <2>1, <3>3, <3>4, <3>5 DEF Restored
  <2> QED
    BY <2>3, <2>4 DEF OwnListsRestored
<1>2. CASE ~RemoveBackup(D)
  <2>1. PICK name \in {"check_flag", "clean_up", "restore", "mask", "add_repositories", "download",
                       "unmask", "touch_flag", "copy", "bootstrap", "create_repository",
                       "back_up", "disable_system", "add_lsrepo", "roles", "enable_system",
                       "disable_lsrepo", "remove_packages", "stop_server",
                       "forget_download"} : Run(name, D)
    BY <1>2 DEF Provide, Switch, SwitchBack, CheckWhetherToRunDownload, CleanUpLsrepo,
                RestoreMissing, Mask, AddRepositories, Download, Unmask, TouchFlag,
                CopyRequirements, Bootstrap, CreateRepository, CreateEnabledSystemReposList,
                DisableSystemRepos, AddLsrepoClient, Roles, EnableSystemRepos,
                DisableLsrepoClient, RemovePackages, DisableRepositoryServer, ForgetDownload
  <2>2. task # 21
    BY <2>1 DEF Run, At, Tasks
  <2> QED
    BY <1>0, <2>1, <2>2, RunLeaves DEF Finished
<1> QED
  BY <1>1, <1>2

(***************************************************************************)
(* The whole invariant, under every step.                                  *)
(***************************************************************************)
FullInv == Inv /\ IInv

LEMMA FullInvInit == Init => FullInv
<1> SUFFICES ASSUME Init PROVE FullInv
  OBVIOUS
<1>1. Inv
  BY InvInit
<1>2. SwitchedOver /\ Supplied /\ Finished
  BY DEF Init, SwitchedOver, Supplied, Finished
<1>3. Foreign
  BY DEF Init, Foreign, OnlyOwn
<1> QED
  BY <1>1, <1>2, <1>3 DEF FullInv, IInv, Inv

LEMMA FullInvStep == FullInv /\ [Next]_vars => FullInv'
<1> SUFFICES ASSUME FullInv, [Next]_vars
             PROVE  SwitchedOver' /\ Supplied' /\ Foreign' /\ Finished'
  BY InvStep DEF FullInv, IInv, Inv
<1>0. /\ TypeOK /\ Unmasked /\ SwitchedOver /\ Supplied /\ Foreign /\ Finished /\ Inv
      /\ active \subseteq Machines /\ Server \in Machines
  BY ServerAssumption DEF FullInv, IInv, Inv, NeverLost, TypeOK
<1>1. CASE StartRun
  <2>1. /\ status' = "running" /\ task' = 1 /\ flagged' = flagged /\ offline' = offline
        /\ own' = own /\ lists' = lists /\ masked' = masked /\ backedUp' = backedUp
        /\ backup' = backup /\ mishap' = mishap
    BY <1>1 DEF StartRun, disk, lsrepo
  <2>2. SwitchedOver' /\ Supplied' /\ Finished'
    BY <2>1 DEF SwitchedOver, Supplied, Finished
  <2>3. Foreign'
    BY <1>0, <2>1 DEF Foreign, OnlyOwn, Unaffected
  <2> QED
    BY <2>2, <2>3
<1>2. CASE Play
  <2>1. PICK D \in SUBSET active : Provide(D) \/ Switch(D) \/ SwitchBack(D)
    BY <1>2 DEF Play
  <2> QED
    BY <1>0, <2>1, SwitchedOverPlay, SuppliedPlay, ForeignProvide, ForeignSwitch,
       ForeignSwitchBack, FinishedPlay
<1>3. CASE Abort
  <2>1. /\ status' = "failed" /\ flagged' = flagged /\ offline' = offline
        /\ own' = own /\ lists' = lists /\ masked' = masked /\ backedUp' = backedUp
        /\ backup' = backup /\ mishap' = mishap
    BY <1>3 DEF Abort, EndRun, disk, lsrepo
  <2>2. SwitchedOver' /\ Supplied' /\ Finished'
    BY <2>1 DEF SwitchedOver, Supplied, Finished
  <2>3. Foreign'
    BY <1>0, <2>1 DEF Foreign, OnlyOwn, Unaffected
  <2> QED
    BY <2>2, <2>3
<1>4. CASE Settle \/ UNCHANGED vars
  <2>1. /\ status' = status /\ task' = task /\ active' = active /\ flagged' = flagged
        /\ offline' = offline /\ stocked' = stocked /\ serving' = serving
        /\ own' = own /\ lists' = lists /\ masked' = masked /\ backedUp' = backedUp
        /\ backup' = backup /\ mishap' = mishap
    BY <1>4 DEF Settle, vars, disk, lsrepo, run
  <2>2. SwitchedOver' /\ Supplied'
    BY <1>0, <2>1 DEF SwitchedOver, Supplied
  <2>3. Foreign' /\ Finished'
    BY <1>0, <2>1 DEF Foreign, OnlyOwn, Unaffected, Finished, OwnListsRestored, Restored
  <2> QED
    BY <2>2, <2>3
<1>5. ASSUME NEW m \in Machines, CutBackup(m)
      PROVE  SwitchedOver' /\ Supplied' /\ Foreign' /\ Finished'
  <2>1. /\ Run("back_up", {}) /\ own' = own /\ lists' = lists /\ masked' = masked
        /\ flagged' = flagged /\ backedUp' = backedUp \cup {m}
        /\ \A n \in Machines \ {m} : backup'[n] = backup[n] /\ mishap'[n] = mishap[n]
        /\ mishap'[m] # {}
    BY <1>0, <1>5 DEF CutBackup, Befall, Where, lsrepo, TypeOK
  <2>2. /\ task = 12 /\ status = "running" /\ offline' = offline
        /\ (status' = "running" => active' # {} /\ \A n \in active' : n \in {})
        /\ status' # "finished"
    <3>1. Tasks[task] = "back_up" /\ task \in DOMAIN Tasks
      BY <1>0, <2>1 DEF Run, At, TypeOK
    <3>2. task = 12
      BY <3>1 DEF Tasks
    <3>3. \A n \in active' : n \in {}
      BY <1>0, <2>1, RunControl, TakesAll DEF TypeOK
    <3> QED
      BY <1>0, <2>1, <3>2, <3>3, RunControl, RunLeaves
  <2>3. status' # "running"
    BY <2>2
  <2>4. SwitchedOver' /\ Supplied' /\ Finished'
    BY <2>2, <2>3 DEF SwitchedOver, Supplied, Finished
  <2>5. Foreign'
    <3> SUFFICES ASSUME NEW n \in Machines, Unaffected(n)' PROVE OnlyOwn(n)'
      BY DEF Foreign
    <3>1. n # m
      BY <2>1 DEF Unaffected
    <3>2. OnlyOwn(n)
      BY <1>0, <2>1, <2>2, <3>1 DEF Foreign, Unaffected
    <3> QED
      BY <2>1, <2>3, <3>1, <3>2 DEF OnlyOwn
  <2> QED
    BY <2>4, <2>5
<1>6. ASSUME NEW m \in Machines, RestoreByHand(m)
      PROVE  SwitchedOver' /\ Supplied' /\ Foreign' /\ Finished'
  <2>1. /\ status # "running" /\ status' = status /\ flagged' = flagged /\ offline' = offline
        /\ own' = own /\ masked' = masked /\ backedUp' = backedUp /\ m \in backedUp
        /\ backup' = backup /\ mishap' = mishap
        /\ lists'[m] = (lists[m] \cup backup[m]) \ {"lsrepo"}
        /\ \A n \in Machines \ {m} : lists'[n] = lists[n]
    BY <1>0, <1>6 DEF RestoreByHand, disk, lsrepo, run, TypeOK
  <2>2. SwitchedOver' /\ Supplied' /\ Finished'
    BY <1>0, <2>1 DEF SwitchedOver, Supplied, Finished
  <2>3. Foreign'
    <3> SUFFICES ASSUME NEW n \in Machines, Unaffected(n)' PROVE OnlyOwn(n)'
      BY DEF Foreign
    <3>1. OnlyOwn(n) /\ own[n] \subseteq {"main", "custom"}
      BY <1>0, <2>1 DEF Foreign, Unaffected, TypeOK
    <3>2. /\ lists'[n] \subseteq lists[n] \cup own[n]
          /\ "added" \in lists'[n] => "added" \in lists[n]
      BY <2>1, <3>1 DEF OnlyOwn
    <3> QED
      BY <2>1, <3>1, <3>2 DEF OnlyOwn
  <2> QED
    BY <2>2, <2>3
<1>7. ASSUME NEW m \in Machines, EditLists(m)
      PROVE  SwitchedOver' /\ Supplied' /\ Foreign' /\ Finished'
  <2>1. /\ status # "running" /\ status' = status /\ flagged' = flagged /\ offline' = offline
        /\ masked' = masked /\ backedUp' = backedUp /\ backup' = backup
        /\ \A n \in Machines \ {m} :
              lists'[n] = lists[n] /\ own'[n] = own[n] /\ mishap'[n] = mishap[n]
        /\ mishap[m] \subseteq mishap'[m]
        /\ m \in backedUp \/ masked[m] # {} => mishap'[m] # {}
    BY <1>0, <1>7 DEF EditLists, Befall, Where, lsrepo, run, TypeOK
  <2>2. \/ own'[m] = own[m] \ {"custom"} /\ lists'[m] = lists[m] \ {"custom"}
        \/ own'[m] = own[m] \cup {"custom"} /\ lists'[m] = lists[m] \cup {"custom"}
    BY <1>0, <1>7 DEF EditLists, TypeOK
  <2>3. ASSUME NEW n \in Machines, Unaffected(n)'
        PROVE  /\ Unaffected(n)
               /\ n = m => masked[n] = {} /\ backup[n] = {}
    <3>1. mishap[n] \subseteq mishap'[n]
      BY <2>1
    <3>2. Unaffected(n) /\ mishap'[n] = {}
      BY <2>1, <2>3, <3>1, UnaffectedBefore
    <3> QED
      BY <1>0, <2>1, <3>2 DEF TypeOK
  <2>4. SwitchedOver' /\ Supplied'
    BY <2>1 DEF SwitchedOver, Supplied
  <2>5. Foreign'
    <3> SUFFICES ASSUME NEW n \in Machines, Unaffected(n)' PROVE OnlyOwn(n)'
      BY DEF Foreign
    <3>1. OnlyOwn(n)
      BY <1>0, <2>3 DEF Foreign
    <3>2. CASE n = m
      <4>1. /\ lists'[n] \subseteq own'[n] \cup {"added", "lsrepo"}
            /\ "added" \in lists'[n] => "added" \in lists[n]
            /\ "lsrepo" \in lists'[n] => "lsrepo" \in lists[n]
        BY <2>2, <3>1, <3>2 DEF OnlyOwn
      <4> QED
        BY <2>1, <2>3, <3>1, <3>2, <4>1 DEF OnlyOwn
    <3>3. CASE n # m
      BY <2>1, <3>1, <3>3 DEF OnlyOwn
    <3> QED
      BY <3>2, <3>3
  <2>6. Finished'
    BY <1>0, <2>1, <2>2, <2>3 DEF Finished, OwnListsRestored, Restored
  <2> QED
    BY <2>4, <2>5, <2>6
<1> QED
  BY <1>1, <1>2, <1>3, <1>4, <1>5, <1>6, <1>7 DEF Next

(***************************************************************************)
(* Types, NothingLost and IInv are inductive together.                     *)
(***************************************************************************)
THEOREM FullInvCorrect == Spec => []FullInv
  BY FullInvInit, FullInvStep, PTL DEF Spec

(***************************************************************************)
(* The invariant of the repository scripts itself, which a change to them  *)
(* has to keep (IInv).                                                     *)
(***************************************************************************)
THEOREM IInvCorrect == Spec => []IInv
<1>1. FullInv => IInv
  BY DEF FullInv
<1> QED
  BY FullInvCorrect, <1>1, PTL

(***************************************************************************)
(* On all machines the roles find lsrepo and nothing else, served and, but *)
(* for a stale done flag, filled, however many runs have failed before     *)
(* (InstallsFromLsrepo).                                                   *)
(***************************************************************************)
THEOREM InstallsFromLsrepoCorrect == Spec => []InstallsFromLsrepo
<1>1. ASSUME FullInv PROVE InstallsFromLsrepo
  <2> SUFFICES ASSUME At("roles")
               PROVE  /\ serving
                      /\ stocked \/ "stale_flag" \in mishap[Server]
                      /\ \A m \in Machines : lists[m] = {"lsrepo"}
    BY DEF InstallsFromLsrepo
  <2>1. status = "running" /\ task = 15
    BY <1>1 DEF At, Tasks, FullInv, Inv, TypeOK
  <2> QED
    BY <1>1, <2>1, ServerAssumption
    DEF FullInv, IInv, SwitchedOver, Supplied
<1> QED
  BY FullInvCorrect, <1>1, PTL

(***************************************************************************)
(* A finished run has given each machine its own lists back, and nothing   *)
(* besides, whatever earlier runs were cut off, unless a mishap of the     *)
(* machine's own stood in the way (OwnListsRestored).                      *)
(***************************************************************************)
THEOREM OwnListsRestoredCorrect == Spec => []OwnListsRestored
<1>1. FullInv => OwnListsRestored
  BY DEF FullInv, IInv, Finished, OwnListsRestored
<1> QED
  BY FullInvCorrect, <1>1, PTL
=============================================================================
