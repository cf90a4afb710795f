------------------------- MODULE DebianRepositories -------------------------
(***************************************************************************)
(* What a run of `lambdastack apply` or `upgrade` does to the package      *)
(* lists (/etc/apt) of the Debian machines of a cluster: repository_setup  *)
(* replaces them by the one list of lsrepo, the repository of the cluster, *)
(* the roles install from it, and repository_teardown brings the machines' *)
(* own lists back (docs/home/howto/REPOSITORY.md:14-27).                   *)
(*                                                                         *)
(* A task is finished on all machines before the next one starts; one on   *)
(* which a task has failed drops out of the playbook; a playbook that lost *)
(* a machine ends the run, and what would come after it, the teardown      *)
(* included, is left to the next run.  A task concerns the machine it runs *)
(* on and no other, so it runs here on all machines in one step, failing   *)
(* on any of them.                                                         *)
(***************************************************************************)
EXTENDS Naturals, FiniteSets, Sequences

CONSTANTS
    Machines,
    Server,         \* the machine that downloads the packages and serves them
    Edited,         \* bound: the machines whose lists the operator changes
    MaxMishaps      \* bound: torn and stale backups there may be in all

ASSUME ServerAssumption == Server \in Machines
ASSUME EditedAssumption == Edited \subseteq Machines
ASSUME MaxMishapsAssumption == MaxMishaps \in Nat

Lists ==
    {"main",        \* /etc/apt/sources.list
     "custom",      \* a list of the operator in /etc/apt/sources.list.d
     "added",       \* the lists the download needs for a while
     "local",       \* packages as files, while the HTTP server is installed
     "lsrepo"}

\* The tasks of repository_setup, the roles, and the tasks of repository_teardown.
Tasks == <<"check_flag", "clean_up", "restore", "mask", "add_repositories", "download",
           "unmask", "touch_flag", "copy", "bootstrap", "create_repository",
           "back_up", "disable_system", "add_lsrepo",
           "roles",
           "enable_system", "disable_lsrepo", "remove_packages", "stop_server",
           "forget_download", "remove_backup">>
LastOfPlaybook == {"add_lsrepo", "roles", "remove_backup"}

Mishaps ==
    {"torn_backup",         \* tar was cut off, and the file counts as the backup
     "stale_backup",        \* the operator changed lists a backup or mask would bring back
     "masked_leftovers",    \* lists added by a cut off download, masked as if custom
     "stale_flag"}          \* packages removed, but their download counts as done

VARIABLES
    own,            \* machine -> the lists that are its own, as its operator keeps them
    lists,          \* machine -> the lists apt uses
    masked,         \* machine -> the lists renamed to *.bak
    backedUp,       \* machines with /var/tmp/enabled-system-repos.tar
    backup,         \* machine -> the lists in it
    flagged,        \* download-requirements-done.flag is there
    stocked,        \* lsrepo has its packages
    serving,        \* the HTTP server runs
    offline,        \* packages come with the operator (airgapped cluster)
    status,         \* of the current run, or of the last one
    task,           \* index of the task that is next
    active,         \* machines that have not dropped out
    mishap,         \* history: machine -> what happened to it
    settled         \* nothing fails by itself any more

disk   == <<own, masked, backedUp, backup>>
lsrepo == <<flagged, stocked, serving>>
run    == <<status, task, active>>
vars   == <<lists, disk, lsrepo, offline, run, mishap, settled>>

TypeOK ==
    /\ own \in [Machines -> SUBSET {"main", "custom"}]
    /\ lists \in [Machines -> SUBSET Lists]
    /\ masked \in [Machines -> SUBSET Lists]
    /\ backedUp \subseteq Machines
    /\ backup \in [Machines -> SUBSET Lists]
    /\ \A m \in Machines \ backedUp : backup[m] = {}
    /\ flagged \in BOOLEAN /\ stocked \in BOOLEAN /\ serving \in BOOLEAN
    /\ offline \in BOOLEAN /\ settled \in BOOLEAN
    /\ status \in {"none", "running", "failed", "finished"}
    /\ task \in DOMAIN Tasks
    /\ active \subseteq Machines
    /\ status = "running" => active # {}
    /\ mishap \in [Machines -> SUBSET Mishaps]

Init ==
    /\ own = [m \in Machines |-> {"main"}]
    /\ lists = own
    /\ masked = [m \in Machines |-> {}]
    /\ backedUp = {}
    /\ backup = [m \in Machines |-> {}]
    /\ flagged = FALSE /\ stocked = FALSE /\ serving = FALSE
    /\ offline \in BOOLEAN
    /\ status = "none"
    /\ task = 1
    /\ active = {}
    /\ mishap = [m \in Machines |-> {}]
    /\ settled = FALSE
-----------------------------------------------------------------------------
(***************************************************************************)
(* Runs, playbooks and tasks (AnsibleRunner.py).                           *)
(***************************************************************************)
DownloadTasks == {"restore", "mask", "add_repositories", "download", "unmask", "touch_flag"}

\* The machines on which a task is not skipped.
Takes(name) ==
    {m \in Machines :
        CASE name = "check_flag"        -> m = Server /\ ~offline
          [] name = "clean_up"          -> m = Server /\ (offline \/ ~flagged)
          [] name \in DownloadTasks     -> m = Server /\ ~offline /\ ~flagged
          [] name \in {"copy", "bootstrap"} -> m = Server /\ offline
          [] name \in {"create_repository", "remove_packages", "stop_server",
                       "forget_download"} -> m = Server
          [] OTHER                      -> TRUE}

StartRun ==
    /\ status # "running"
    /\ status' = "running"
    /\ task' = 1
    /\ active' = Machines
    /\ UNCHANGED <<lists, disk, lsrepo, offline, mishap, settled>>

At(name) == status = "running" /\ Tasks[task] = name

EndRun(how) ==
    /\ status' = how
    /\ task' = 1
    /\ active' = {}

\* The task has run, and A are the machines left.
Proceed(A) ==
    IF A = {} \/ (Tasks[task] \in LastOfPlaybook /\ A # Machines) THEN EndRun("failed")
    ELSE IF task = Len(Tasks) THEN EndRun("finished")
    ELSE task' = task + 1 /\ active' = A /\ UNCHANGED status

\* What makes a task fail by what it finds.  check_connection has apt read all
\* lists there are, that of lsrepo among them; most packages come from "main".
Supplying == serving /\ stocked
Installable(m) == lists[m] # {} /\ Supplying
Torn(m) == "torn_backup" \in mishap[m]
CannotRun(m) ==
    \/ At("restore") /\ "main" \notin lists[m] /\ Torn(m)
    \/ At("mask") /\ "lsrepo" \in lists[m] /\ ~Supplying
    \/ At("download") /\ "main" \notin lists[m]
    \/ At("roles") /\ ~Installable(m)
    \/ At("enable_system") /\ (m \notin backedUp \/ Torn(m))

\* The task runs, and succeeds on the machines D only.
Run(name, D) ==
    LET takes == active \cap Takes(name)
    IN  /\ At(name)
        /\ D \subseteq {m \in takes : ~CannotRun(m)}
        /\ settled => \A m \in takes \ D : CannotRun(m)
        /\ Proceed(active \ (takes \ D))
        /\ UNCHANGED <<offline, settled>>

\* The process is killed, or a playbook that touches no package list fails.
Abort ==
    /\ status = "running" /\ ~settled
    /\ EndRun("failed")
    /\ UNCHANGED <<lists, disk, lsrepo, offline, mishap, settled>>

\* enable-system-repos.sh unpacks what there is of a torn backup, and fails.
Unpacked(D) == D \cup {m \in active \cap Takes(Tasks[task]) : Torn(m)}

Where(condition, S) == IF condition THEN S ELSE {}
Befall(D, what) == mishap' = [m \in Machines |-> mishap[m] \cup Where(m \in D, what)]
-----------------------------------------------------------------------------
(***************************************************************************)
(* Setup: getting the packages, on the server.                             *)
(***************************************************************************)
\* The flag may have expired (after 120 minutes).
CheckWhetherToRunDownload(D) ==
    /\ Run("check_flag", D)
    /\ flagged' \in {flagged, flagged /\ D = {}}
    /\ Befall(D, IF flagged' /\ ~stocked THEN {"stale_flag"} ELSE {})
    /\ UNCHANGED <<lists, disk, stocked, serving>>

\* Only an upgrade cleans up.
CleanUpLsrepo(D) ==
    /\ Run("clean_up", D)
    /\ stocked' \in {stocked, stocked /\ D = {}}
    /\ UNCHANGED <<lists, disk, flagged, serving, mishap>>

RestoreNothing(D) ==            \* slip: lists an interrupted run took away stay away
    /\ Run("restore", D)
    /\ UNCHANGED <<lists, disk, lsrepo, mishap>>

\* An interrupted run may have left the server without the lists the download needs.
RestoreMissing(D) ==
    /\ Run("restore", D)
    /\ lists' = [m \in Machines |->
                    IF m \in Unpacked(D) /\ "main" \notin lists[m]
                    THEN lists[m] \cup backup[m]
                    ELSE lists[m]]
    /\ UNCHANGED <<disk, lsrepo, mishap>>

\* check_connection; then all of sources.list.d is renamed.
Mask(D) ==
    /\ Run("mask", D)
    /\ lists' = [m \in Machines |-> lists[m] \ Where(m \in D, Lists \ {"main"})]
    /\ masked' = [m \in Machines |-> masked[m] \cup Where(m \in D, lists[m] \ {"main"})]
    /\ Befall({m \in D : "added" \in lists[m]}, {"masked_leftovers"})
    /\ UNCHANGED <<own, backedUp, backup, lsrepo>>

AddRepositories(D) ==
    /\ Run("add_repositories", D)
    /\ lists' = [m \in Machines |-> lists[m] \cup Where(m \in D, {"added"})]
    /\ UNCHANGED <<disk, lsrepo, mishap>>

\* Everything is fetched, then the added lists are removed.
Download(D) ==
    /\ Run("download", D)
    /\ stocked' = (stocked \/ D # {})
    /\ lists' = [m \in Machines |-> lists[m] \ Where(m \in D, {"added"})]
    /\ UNCHANGED <<disk, flagged, serving, mishap>>

UnmaskNothing(D) ==             \* slip: *.bak files stay
    /\ Run("unmask", D)
    /\ UNCHANGED <<lists, disk, lsrepo, mishap>>

Unmask(D) ==
    /\ Run("unmask", D)
    /\ lists' = [m \in Machines |-> lists[m] \cup Where(m \in D, masked[m] \ {"main"})]
    /\ masked' = [m \in Machines |-> masked[m] \ Where(m \in D, Lists \ {"main"})]
    /\ UNCHANGED <<own, backedUp, backup, lsrepo, mishap>>

TouchFlag(D) ==
    /\ Run("touch_flag", D)
    /\ flagged' = (flagged \/ D # {})
    /\ UNCHANGED <<lists, disk, stocked, serving, mishap>>

\* Offline: files that are not there yet are copied.
CopyRequirements(D) ==
    /\ Run("copy", D)
    /\ stocked' = (stocked \/ D # {})
    /\ UNCHANGED <<lists, disk, flagged, serving, mishap>>

\* Offline, create-repository.sh: sources.list gives way to the files it serves.
Bootstrap(D) ==
    /\ Run("bootstrap", D)
    /\ lists' = [m \in Machines |->
                    IF m \in D THEN (lists[m] \ {"main"}) \cup {"local"} ELSE lists[m]]
    /\ masked' = [m \in Machines |-> masked[m] \cup Where(m \in D, lists[m] \cap {"main"})]
    /\ UNCHANGED <<own, backedUp, backup, lsrepo, mishap>>

CreateRepository(D) ==
    /\ Run("create_repository", D)
    /\ serving' = (serving \/ D # {})
    /\ lists' = [m \in Machines |-> lists[m] \ Where(m \in D, {"local"})]
    /\ UNCHANGED <<disk, flagged, stocked, mishap>>
-----------------------------------------------------------------------------
(***************************************************************************)
(* Setup: switching every machine over to lsrepo.                          *)
(***************************************************************************)
BackUpAgain(D) ==               \* slip: the backup of an interrupted run is overwritten
    /\ Run("back_up", D)
    /\ backedUp' = backedUp \cup D
    /\ backup' = [m \in Machines |-> IF m \in D THEN lists[m] ELSE backup[m]]
    /\ UNCHANGED <<lists, own, masked, lsrepo, mishap>>

CreateEnabledSystemReposList(D) ==
    /\ Run("back_up", D)
    /\ backedUp' = backedUp \cup D
    /\ backup' = [m \in Machines |-> IF m \in D \ backedUp THEN lists[m] ELSE backup[m]]
    /\ UNCHANGED <<lists, own, masked, lsrepo, mishap>>

\* On machine m tar is cut off, and leaves a file with some of the lists.
Spoilt(m) == mishap[m] \cap {"torn_backup", "stale_backup"} # {}
SpoiltBackups == Cardinality({m \in Machines : Spoilt(m)})
CutBackup(m) ==
    /\ ~settled /\ SpoiltBackups < MaxMishaps
    /\ m \in active \ backedUp
    /\ Run("back_up", {})
    /\ backedUp' = backedUp \cup {m}
    /\ \E part \in SUBSET lists[m] \ {lists[m]} : backup' = [backup EXCEPT ![m] = part]
    /\ Befall({m}, {"torn_backup"})
    /\ UNCHANGED <<lists, own, masked, lsrepo>>

DisableMainOnly(D) ==           \* slip: sources.list.d is forgotten
    /\ Run("disable_system", D)
    /\ lists' = [m \in Machines |-> lists[m] \ Where(m \in D \cap backedUp, {"main"})]
    /\ UNCHANGED <<disk, lsrepo, mishap>>

DisableSystemRepos(D) ==
    /\ Run("disable_system", D)
    /\ lists' = [m \in Machines |-> lists[m] \ Where(m \in D \cap backedUp, Lists)]
    /\ UNCHANGED <<disk, lsrepo, mishap>>

AddLsrepoClient(D) ==
    /\ Run("add_lsrepo", D)
    /\ lists' = [m \in Machines |-> lists[m] \cup Where(m \in D, {"lsrepo"})]
    /\ UNCHANGED <<disk, lsrepo, mishap>>

\* The roles install packages.
Roles(D) ==
    /\ Run("roles", D)
    /\ UNCHANGED <<lists, disk, lsrepo, mishap>>
-----------------------------------------------------------------------------
(***************************************************************************)
(* Teardown.                                                               *)
(***************************************************************************)
EnableMainOnly(D) ==            \* slip: only sources.list is taken from the backup
    /\ Run("enable_system", D)
    /\ lists' = [m \in Machines |->
                    lists[m] \cup Where(m \in Unpacked(D), backup[m] \cap {"main"})]
    /\ UNCHANGED <<disk, lsrepo, mishap>>

EnableSystemRepos(D) ==
    /\ Run("enable_system", D)
    /\ lists' = [m \in Machines |-> lists[m] \cup Where(m \in Unpacked(D), backup[m])]
    /\ UNCHANGED <<disk, lsrepo, mishap>>

DisableLsrepoClient(D) ==
    /\ Run("disable_lsrepo", D)
    /\ lists' = [m \in Machines |-> lists[m] \ Where(m \in D, {"lsrepo"})]
    /\ UNCHANGED <<disk, lsrepo, mishap>>

\* If specification.teardown.remove.packages says so.
RemovePackages(D) ==
    /\ Run("remove_packages", D)
    /\ stocked' \in {stocked, stocked /\ D = {}}
    /\ UNCHANGED <<lists, disk, flagged, serving, mishap>>

\* If specification.teardown.disable_http_server says so.
DisableRepositoryServer(D) ==
    /\ Run("stop_server", D)
    /\ serving' \in {serving, serving /\ D = {}}
    /\ UNCHANGED <<lists, disk, flagged, stocked, mishap>>

\* /tmp/ls-download-requirements is removed, and the flag with it.
ForgetDownload(D) ==
    /\ Run("forget_download", D)
    /\ flagged' = (flagged /\ D = {})
    /\ UNCHANGED <<lists, disk, stocked, serving, mishap>>

RemoveBackup(D) ==
    /\ Run("remove_backup", D)
    /\ backedUp' = backedUp \ D
    /\ backup' = [m \in Machines |-> backup[m] \ Where(m \in D, Lists)]
    /\ UNCHANGED <<lists, own, masked, lsrepo, mishap>>
-----------------------------------------------------------------------------
(***************************************************************************)
(* The operator, between runs: the two scripts that REPOSITORY.md:80-86    *)
(* names, and changes to the lists of a machine.                           *)
(***************************************************************************)
\* The scripts are there with the backup; a teardown cut off between the two has run them.
RestoreByHand(m) ==
    /\ status # "running" /\ ~settled
    /\ m \in backedUp
    /\ lists' = [lists EXCEPT ![m] = (@ \cup backup[m]) \ {"lsrepo"}]
    /\ UNCHANGED <<disk, lsrepo, offline, run, mishap, settled>>

EditLists(m) ==
    LET spoils == m \in backedUp \/ masked[m] # {}
    IN  /\ status # "running" /\ ~settled
        /\ m \in Edited
        /\ spoils => SpoiltBackups < MaxMishaps
        /\ IF "custom" \in own[m]
           THEN /\ own' = [own EXCEPT ![m] = @ \ {"custom"}]
                /\ lists' = [lists EXCEPT ![m] = @ \ {"custom"}]
           ELSE /\ own' = [own EXCEPT ![m] = @ \cup {"custom"}]
                /\ lists' = [lists EXCEPT ![m] = @ \cup {"custom"}]
        /\ Befall({m}, IF spoils THEN {"stale_backup"} ELSE {})
        /\ UNCHANGED <<masked, backedUp, backup, lsrepo, offline, run, settled>>

Settle ==
    /\ ~settled
    /\ settled' = TRUE
    /\ UNCHANGED <<lists, disk, lsrepo, offline, run, mishap>>
-----------------------------------------------------------------------------
Provide(D) ==
    \/ CheckWhetherToRunDownload(D) \/ CleanUpLsrepo(D) \/ RestoreMissing(D) \/ Mask(D)
    \/ AddRepositories(D) \/ Download(D) \/ Unmask(D) \/ TouchFlag(D)
    \/ CopyRequirements(D) \/ Bootstrap(D) \/ CreateRepository(D)

Switch(D) ==
    CreateEnabledSystemReposList(D) \/ DisableSystemRepos(D) \/ AddLsrepoClient(D) \/ Roles(D)

SwitchBack(D) ==
    \/ EnableSystemRepos(D) \/ DisableLsrepoClient(D) \/ RemovePackages(D)
    \/ DisableRepositoryServer(D) \/ ForgetDownload(D) \/ RemoveBackup(D)

Play == \E D \in SUBSET active : Provide(D) \/ Switch(D) \/ SwitchBack(D)

Next ==
    \/ StartRun \/ Play \/ Abort \/ Settle
    \/ \E m \in Machines : CutBackup(m) \/ RestoreByHand(m) \/ EditLists(m)

Spec == Init /\ [][Next]_vars

\* A playbook that runs goes on; the operator repeats a run that failed.
FairSpec == Spec /\ WF_vars(Play) /\ WF_vars(StartRun) /\ WF_vars(Settle)
-----------------------------------------------------------------------------
(***************************************************************************)
(* Wherever runs are cut off and however they are repeated, each list of   *)
(* a machine's own is still on it: in use, renamed, or in its backup.      *)
(* Only a torn backup, or one older than the operator's last change, can   *)
(* lose lists.                                                             *)
(***************************************************************************)
NothingLost ==
    \A m \in Machines :
        ~Spoilt(m) => own[m] \subseteq lists[m] \cup masked[m] \cup backup[m]

(***************************************************************************)
(* Why nothing is lost: only a download masks lists of the operator, and   *)
(* no run gets past it leaving them masked; so a backup, taken later, has  *)
(* them all; and when the teardown removes it, they are back in use.       *)
(***************************************************************************)
Unmasked ==
    /\ \A m \in Machines \ {Server} : masked[m] = {}
    /\ offline \/ flagged \/ (status = "running" /\ task > 7 /\ Server \in active) =>
          masked[Server] \subseteq {"main"}

BackupKnows ==
    \A m \in backedUp :
        ~Spoilt(m) => own[m] \subseteq backup[m] \cup (masked[m] \cap {"main"})

Enabled ==
    status = "running" /\ task > 16 =>
        \A m \in active :
            ~Spoilt(m) => own[m] \subseteq lists[m] \cup (masked[m] \cap {"main"})

NeverLost == Unmasked /\ BackupKnows /\ Enabled

(***************************************************************************)
(* The roles see lsrepo and no other repository, on all machines, and find *)
(* it served and filled, unless a done flag has outlived the packages      *)
(* ("Back up and disable system package repositories", "Enable the         *)
(* LambdaStack repository", REPOSITORY.md:21-22).                          *)
(***************************************************************************)
InstallsFromLsrepo ==
    At("roles") =>
        /\ serving
        /\ stocked \/ "stale_flag" \in mishap[Server]
        /\ \A m \in Machines : lists[m] = {"lsrepo"}

(***************************************************************************)
(* A finished run leaves the machines with their own lists again ("Restore *)
(* original package repositories from the backup", REPOSITORY.md:26), also *)
(* when it repeats runs that failed, unless one of the mishaps has befallen*)
(* the machine, or it is the server of an airgapped cluster.               *)
(***************************************************************************)
Unaffected(m) == mishap[m] = {} /\ ~(offline /\ m = Server)
Restored(m) == lists[m] = own[m] /\ masked[m] = {}
OwnListsRestored ==
    status = "finished" => \A m \in Machines : Unaffected(m) => Restored(m)

(***************************************************************************)
(* When failures stop, repeating the command gets a run to its end, with   *)
(* no restoring by hand: the scripts provide for a server that an          *)
(* interrupted run has left switched over ("in case they're missing if     *)
(* ansible role gets interrupted", download-requirements.sh:56).  They do  *)
(* not provide for an upgrade that has emptied lsrepo while the server     *)
(* still has it among its lists: no download gets past its first check,    *)
(* and only disable-lsrepo-client.sh helps ("re-running lambdastack apply  *)
(* impossible", REPOSITORY.md:78).                                         *)
(***************************************************************************)
NeedsHand == ~offline /\ ~flagged /\ "lsrepo" \in lists[Server] /\ ~Supplying
Blocked == NeedsHand \/ \E m \in Machines : mishap[m] \cap {"torn_backup", "stale_flag"} # {}
EventuallyFinished == settled ~> (status = "finished" \/ Blocked)
-----------------------------------------------------------------------------
(***************************************************************************)
(* Why the roles find lsrepo and nothing else: a run gets to them only     *)
(* with all machines, each of which has a backup and so lost all its       *)
(* lists, and with a server that was stocked before the HTTP server began. *)
(***************************************************************************)
SwitchedOver ==
    status = "running" =>
        /\ task \in 13..14 => active \subseteq backedUp
        /\ task = 14 => \A m \in active : lists[m] = {}
        /\ task = 15 => active = Machines /\ \A m \in Machines : lists[m] = {"lsrepo"}

Supplied ==
    status = "running" /\ task <= 15 /\ Server \in active =>
        /\ task > 11 => serving
        /\ offline /\ task > 9 => stocked
        /\ ~offline /\ (task > 6 \/ (task > 1 /\ flagged)) =>
              stocked \/ "stale_flag" \in mishap[Server]

(***************************************************************************)
(* Why a finished run leaves no list that is not the machine's own: lsrepo *)
(* is only on machines that have a backup, renamed or not, and a run takes *)
(* it from a machine before it removes the backup; what a cut off download *)
(* has added is there only while no download counts as done.               *)
(***************************************************************************)
OnlyOwn(m) ==
    /\ lists[m] \subseteq own[m] \cup {"added", "lsrepo"}
    /\ masked[m] \subseteq (own[m] \ {"main"}) \cup {"lsrepo"}
    /\ backup[m] \subseteq own[m]
    /\ "lsrepo" \in lists[m] \cup masked[m] => m \in backedUp
    /\ "added" \in lists[m] =>
          /\ m = Server
          /\ ~flagged
          /\ status = "running" /\ m \in active => task \in {1, 2, 3, 4, 6}
    /\ status = "running" /\ task > 17 /\ m \in active => "lsrepo" \notin lists[m]
Foreign == \A m \in Machines : Unaffected(m) => OnlyOwn(m)

Finished == status = "finished" => backedUp = {} /\ OwnListsRestored

(***************************************************************************)
(* The inductive invariant of the three properties above.                  *)
(***************************************************************************)
IInv == NeverLost /\ SwitchedOver /\ Supplied /\ Foreign /\ Finished
=============================================================================
