------------------------------ MODULE Session ------------------------------
(***************************************************************************)
(* The command line of LambdaStack: one session is one run of              *)
(* cli/lambdastack.py, from the parsing of the arguments through the       *)
(* question, the paths, the vault password and the engine of the command   *)
(* to the handler registered with atexit.  Sessions of one user share the  *)
(* file with the vault password, ~/.lambdastack/vault.cfg, the build       *)
(* directories and the machines in the cloud, and nothing serialises them. *)
(*                                                                         *)
(* A build directory is known by its place, <<parent, base name>>.  The    *)
(* engines are modelled as far as they touch what sessions share; what     *)
(* apply, upgrade and delete do inside one build is BuildLifecycle.        *)
(***************************************************************************)
EXTENDS Naturals, FiniteSets

CONSTANTS
  Sessions,       \* runs of the program; each brings its own vault password
  Dirs,           \* directories that may hold build directories
  Cwd,            \* the working directory of every session
  Names,          \* cluster names, and base names of build directories
  CommandLines,   \* what the user may type in each session, see CommandLine
  DockerOutputs,  \* output directories the docker image may impose, or NoDir
  MaxLive,        \* how many sessions may run at once
  None            \* no directory, no session, no name

ASSUME CwdAssumption  == Cwd \in Dirs
ASSUME NoneAssumption == None \notin Dirs \cup Sessions \cup Names

Places == Dirs \X Names

Engines == {"init", "prepare", "apply", "upgrade", "delete", "test", "backup", "recovery"}

(* A command line: --output if given; the directory the paths of the input *)
(* file lead to and the cluster it configures (None: there is no such      *)
(* file); the build directory; the playbooks the engine is going to run    *)
(* and whether it runs Terraform; log: the log file these options ask for  *)
(* can be opened (with --log-count it cannot where a log is already, as    *)
(* the count stays a string, nor where the directory is not writable).     *)
CommandLine ==
  [engine : Engines, output : Dirs \cup {None}, fileDir : Dirs \cup {None},
   name : Names, build : Places, playbooks : Nat, infra : BOOLEAN, log : BOOLEAN]

ASSUME CommandLinesAssumption ==
  CommandLines \in [Sessions -> SUBSET CommandLine] /\ \A s \in Sessions : CommandLines[s] # {}
ASSUME DockerAssumption == DockerOutputs \subseteq Dirs \cup {None}

VARIABLES
  docker,     \* the output directory of the docker image, or None
  vault,      \* the session whose password is in vault.cfg, or None
  builds,     \* the build directories by place
  cloud,      \* the deployments whose machines exist, by their first apply
  session,    \* the sessions
  overlapped  \* history: sessions that did not run alone

vars == <<docker, vault, builds, cloud, session, overlapped>>

(* A build directory: the cluster its manifest describes and the           *)
(* deployment its Terraform state knows.                                   *)
NoBuild == [there |-> FALSE, manifest |-> None, state |-> None]
Build == [there : BOOLEAN, manifest : Names \cup {None}, state : Sessions \cup {None}]

(* A session is "gone" when its exit handler has run to its end, and "cut" *)
(* when it has not: a signal has killed the session before or in it, or a  *)
(* further Ctrl-C has ended the handler.                                   *)
Running == {"confirm", "paths", "vault", "engine", "playbooks", "remove", "dump", "exit", "clean"}
Phases  == {"new", "gone", "cut"} \cup Running

(* A session: unlogged says that it failed and could not report it, keys    *)
(* collects the owners of the passwords its role playbooks were run with.  *)
Fresh(c) == [phase |-> "new", line |-> c, output |-> None, todo |-> 0,
             keys |-> {}, unlogged |-> FALSE]

Live == {s \in Sessions : session[s].phase \in Running}

TypeOK ==
  /\ docker \in Dirs \cup {None}
  /\ vault \in Sessions \cup {None}
  /\ builds \in [Places -> Build]
  /\ cloud \subseteq Sessions
  /\ overlapped \subseteq Sessions
  /\ session \in [Sessions -> [phase : Phases, line : CommandLine, output : Dirs \cup {None},
                               todo : Nat, keys : SUBSET Sessions, unlogged : BOOLEAN]]

Init ==
  /\ docker \in DockerOutputs
  /\ vault = None
  /\ builds = [p \in Places |-> NoBuild]
  /\ cloud = {}
  /\ session = [s \in Sessions |-> Fresh(CHOOSE c \in CommandLines[s] : TRUE)]
  /\ overlapped = {}

---------------------------------------------------------------------------
Line(s) == session[s].line

(* Where the engines put what belongs to a cluster: output_dir/<name>, the *)
(* name from the input file of apply and init, or from the manifest in the *)
(* directory given with --build.                                           *)
Target(s)  == <<session[s].output, Line(s).name>>
Working(s) == <<session[s].output, builds[Line(s).build].manifest>>

(* Config().output_dir: fixed by the image, else the setter ignores None. *)
OutputDir(old, new) ==
  IF docker # None THEN docker ELSE IF new # None THEN new ELSE old

(* main() catches an exception, logs it and writes a dump.  The first      *)
(* Log() opens the log file in the output directory: where it cannot, the  *)
(* exception is lost in another.                                           *)
CanLog(r) == r.output # None /\ r.line.log

Raised(r) ==
  IF CanLog(r) THEN [r EXCEPT !.phase = "dump"]
               ELSE [r EXCEPT !.phase = "exit", !.unlogged = TRUE]

Become(s, r) == session' = [session EXCEPT ![s] = r]
Raise(s)     == Become(s, Raised(session[s]))
Go(s, phase) == Become(s, [session[s] EXCEPT !.phase = phase])
End(s, phase) == Become(s, [Fresh(CHOOSE c \in CommandLines[s] : TRUE) EXCEPT
                              !.phase = phase, !.keys = session[s].keys])
Return(s)    == Go(s, "exit")

Make(place) == builds' = [builds EXCEPT ![place].there = TRUE]

Asking == {"delete", "upgrade", "test", "recovery"}

(* main(): the arguments and the Config. *)
Parse(s) ==
  /\ session[s].phase = "new"
  /\ Cardinality(Live) < MaxLive
  /\ overlapped' = IF Live = {} THEN overlapped ELSE overlapped \cup Live \cup {s}
  /\ UNCHANGED <<docker, vault, builds, cloud>>

Configured(c) == [Fresh(c) EXCEPT !.output = OutputDir(None, c.output)]

Start(s) ==
  /\ Parse(s)
  /\ \E c \in CommandLines[s] :
       Become(s, [Configured(c) EXCEPT !.phase = IF c.engine \in Asking THEN "confirm" ELSE "paths"])

(* The options without a command pass argparse, and raise at args.func. *)
NoCommand(s) ==
  /\ Parse(s)
  /\ \E c \in CommandLines[s] : Become(s, Raised(Configured(c)))

(* Arguments argparse refuses, and a directory with offline requirements   *)
(* that does not exist, end the session outside the try of main().         *)
Reject(s) ==
  /\ Parse(s)
  /\ \E c \in CommandLines[s] : Become(s, [Configured(c) EXCEPT !.phase = "exit"])

(* query_yes_no(); a closed standard input raises. *)
Confirm(s) ==
  /\ session[s].phase = "confirm"
  /\ \/ Go(s, "paths")
     \/ Return(s)
     \/ Raise(s)
  /\ UNCHANGED <<docker, vault, builds, cloud, overlapped>>

AdjustPathsFromFileLate(s) ==   \* slip: the output directory is set when the file was found
  /\ Line(s).engine \in {"apply", "backup", "recovery"}
  /\ IF Line(s).fileDir = None
     THEN Raise(s)
     ELSE Become(s, [session[s] EXCEPT
            !.output = IF @ = None THEN Line(s).fileDir ELSE @,
            !.phase = IF Line(s).engine = "apply" THEN "vault" ELSE "engine"])

AdjustPathsFromFile(s) ==
  /\ Line(s).engine \in {"apply", "backup", "recovery"}
  /\ IF Line(s).fileDir = None
     THEN Become(s, Raised([session[s] EXCEPT !.output = OutputDir(@, Cwd)]))
     ELSE Become(s, [session[s] EXCEPT
            !.output = IF @ = None THEN Line(s).fileDir ELSE @,
            !.phase = IF Line(s).engine = "apply" THEN "vault" ELSE "engine"])

AdjustPathsFromBuild(s) ==
  /\ Line(s).engine \in {"upgrade", "delete", "test"}
  /\ IF ~builds[Line(s).build].there
     THEN Become(s, Raised([session[s] EXCEPT !.output = OutputDir(@, Cwd)]))
     ELSE Become(s, [session[s] EXCEPT
            !.output = IF @ = None THEN Line(s).build[1] ELSE @, !.phase = "engine"])

(* init always works in the current directory, prepare unless told else. *)
AdjustPathsToCwd(s) ==
  /\ Line(s).engine \in {"init", "prepare"}
  /\ Become(s, [session[s] EXCEPT
       !.output = IF @ = None \/ Line(s).engine = "init" THEN OutputDir(@, Cwd) ELSE @,
       !.phase = "engine"])

AdjustPaths(s) ==
  /\ session[s].phase = "paths"
  /\ AdjustPathsFromFile(s) \/ AdjustPathsFromBuild(s) \/ AdjustPathsToCwd(s)
  /\ UNCHANGED <<docker, vault, builds, cloud, overlapped>>

(* ensure_vault_password_is_set(): whatever is in vault.cfg is overwritten; *)
(* the prompt for a password that was not given may be cut off.            *)
EnsureVaultOnce(s) ==   \* slip: a password that is there is kept
  /\ session[s].phase = "vault"
  /\ \/ vault' = (IF vault = None THEN s ELSE vault) /\ Go(s, "engine")
     \/ vault' = vault /\ Raise(s)
  /\ UNCHANGED <<docker, builds, cloud, overlapped>>

EnsureVault(s) ==
  /\ session[s].phase = "vault"
  /\ \/ vault' = s /\ Go(s, "engine")
     \/ vault' = vault /\ Raise(s)
  /\ UNCHANGED <<docker, builds, cloud, overlapped>>

---------------------------------------------------------------------------
(* The engines *)

InitEngine(s) ==
  /\ Line(s).engine = "init"
  /\ Make(Target(s))
  /\ Return(s) \/ Raise(s)
  /\ UNCHANGED cloud

PrepareEngine(s) ==
  /\ Line(s).engine = "prepare"
  /\ Return(s) \/ Raise(s)
  /\ UNCHANGED <<builds, cloud>>

(* apply saves the manifest, has Terraform create what its state does not  *)
(* know, and goes on with the playbooks; it may fail behind each of them.  *)
ApplyEngine(s) ==
  /\ Line(s).engine = "apply"
  /\ \E saved, created, done \in BOOLEAN :
       /\ created => saved /\ Line(s).infra
       /\ done => saved /\ (created <=> Line(s).infra)
       /\ LET old == builds[Target(s)]
              deployed == created /\ old.state = None
          IN /\ builds' = [builds EXCEPT ![Target(s)] =
                  [old EXCEPT !.there = TRUE,
                              !.manifest = IF saved THEN Line(s).name ELSE @,
                              !.state = IF deployed THEN s ELSE @]]
             /\ cloud' = IF deployed THEN cloud \cup {s} ELSE cloud
       /\ IF done THEN Become(s, [session[s] EXCEPT !.phase = "playbooks",
                                                    !.todo = Line(s).playbooks])
                  ELSE Raise(s)

(* upgrade, test, backup and recovery need the manifest and go on with     *)
(* their playbooks.  upgrade looks for the vault in the build directory    *)
(* that is named after the cluster.  backup and recovery fail when the     *)
(* input file holds the same kind of document twice.                       *)
AnsibleEngine(s) ==
  /\ Line(s).engine \in {"upgrade", "test", "backup", "recovery"}
  /\ \/ /\ builds[Line(s).build].manifest # None
        /\ IF Line(s).engine = "upgrade" THEN Make(Working(s)) ELSE UNCHANGED builds
        /\ Become(s, [session[s] EXCEPT !.phase = "playbooks", !.todo = Line(s).playbooks])
     \/ Raise(s) /\ UNCHANGED builds
  /\ UNCHANGED cloud

(* delete runs terraform destroy with the state in the directory that is   *)
(* named after the cluster, and then removes the directory it was given.   *)
DeleteEngineAnyway(s) ==   \* slip: removes when terraform destroy has failed
  /\ Line(s).engine = "delete"
  /\ \/ /\ builds[Line(s).build].manifest # None
        /\ \E destroyed \in BOOLEAN :
             /\ builds' = [builds EXCEPT ![Working(s)].there = TRUE,
                                         ![Working(s)].state = IF destroyed THEN None ELSE @]
             /\ cloud' = IF destroyed THEN cloud \ {builds[Working(s)].state} ELSE cloud
             /\ Go(s, "remove")
     \/ Raise(s) /\ UNCHANGED <<builds, cloud>>

DeleteEngine(s) ==
  /\ Line(s).engine = "delete"
  /\ \/ /\ builds[Line(s).build].manifest # None
        /\ \E destroyed \in BOOLEAN :
             /\ builds' = [builds EXCEPT ![Working(s)].there = TRUE,
                                         ![Working(s)].state = IF destroyed THEN None ELSE @]
             /\ cloud' = IF destroyed THEN cloud \ {builds[Working(s)].state} ELSE cloud
             /\ (destroyed /\ Go(s, "remove")) \/ Raise(s)
     \/ Raise(s) /\ UNCHANGED <<builds, cloud>>

(* An engine opens the log as it is made, before it does anything else.    *)
NoEngine(s) == Raise(s) /\ UNCHANGED <<builds, cloud>>

Engine(s) ==
  /\ session[s].phase = "engine"
  /\ IF CanLog(session[s])
     THEN InitEngine(s) \/ PrepareEngine(s) \/ ApplyEngine(s) \/ AnsibleEngine(s) \/ DeleteEngine(s)
     ELSE NoEngine(s)
  /\ UNCHANGED <<docker, vault, overlapped>>

RemoveBuild(s) ==
  /\ session[s].phase = "remove"
  /\ builds' = [builds EXCEPT ![Line(s).build] = NoBuild]
  /\ Return(s)
  /\ UNCHANGED <<docker, vault, cloud, overlapped>>

(* One playbook.  The role playbooks of apply read vault.cfg and encrypt   *)
(* artifacts with the password in it; they fail when it is gone.           *)
Playbook(s) ==
  /\ session[s].phase = "playbooks" /\ session[s].todo > 0
  /\ \/ /\ Line(s).engine = "apply" => vault # None
        /\ Become(s, [session[s] EXCEPT
             !.todo = @ - 1, !.keys = IF Line(s).engine = "apply" THEN @ \cup {vault} ELSE @])
     \/ Raise(s)
  /\ UNCHANGED <<docker, vault, builds, cloud, overlapped>>

Finish(s) ==
  /\ session[s].phase = "playbooks" /\ session[s].todo = 0
  /\ Return(s)
  /\ UNCHANGED <<docker, vault, builds, cloud, overlapped>>

(* dump_debug_info(), which may itself fail. *)
Dump(s) ==
  /\ session[s].phase = "dump"
  /\ Go(s, "exit")
  /\ UNCHANGED <<docker, vault, builds, cloud, overlapped>>

---------------------------------------------------------------------------
(* exit_handler(): ensure_vault_password_is_cleaned() looks for vault.cfg  *)
(* and removes it in two calls; in between another session may do so.      *)
ExitAfterSuccess(s) ==   \* slip: cleans up after success only
  /\ session[s].phase = "exit"
  /\ IF vault = None \/ session[s].todo > 0 THEN End(s, "gone") ELSE Go(s, "clean")
  /\ UNCHANGED <<docker, vault, builds, cloud, overlapped>>

Exit(s) ==
  /\ session[s].phase = "exit"
  /\ IF vault = None THEN End(s, "gone") ELSE Go(s, "clean")
  /\ UNCHANGED <<docker, vault, builds, cloud, overlapped>>

Clean(s) ==
  /\ session[s].phase = "clean"
  /\ vault' = None
  /\ End(s, "gone")
  /\ UNCHANGED <<docker, builds, cloud, overlapped>>

(* Ctrl-C passes by the handler of exceptions, not by the one of atexit. *)
InterruptHard(s) ==   \* slip: Ctrl-C ends the process at once
  /\ session[s].phase \in Running \ {"exit", "clean"}
  /\ End(s, "gone")
  /\ UNCHANGED <<docker, vault, builds, cloud, overlapped>>

Interrupt(s) ==
  /\ session[s].phase \in Running \ {"exit", "clean"}
  /\ Go(s, "exit")
  /\ UNCHANGED <<docker, vault, builds, cloud, overlapped>>

(* Ctrl-C in the handler of atexit itself ends the handler. *)
InterruptExit(s) ==
  /\ session[s].phase \in {"exit", "clean"}
  /\ End(s, "cut")
  /\ UNCHANGED <<docker, vault, builds, cloud, overlapped>>

(* A signal that Python does not handle ends the session without atexit. *)
Kill(s) ==
  /\ session[s].phase \in Running
  /\ End(s, "cut")
  /\ UNCHANGED <<docker, vault, builds, cloud, overlapped>>

(* The user renames a build directory while nothing runs. *)
MoveBuild(p, q) ==
  /\ Live = {}
  /\ builds[p].there /\ ~builds[q].there
  /\ builds' = [builds EXCEPT ![p] = NoBuild, ![q] = builds[p]]
  /\ UNCHANGED <<docker, vault, cloud, session, overlapped>>

(* What a session does by itself, without waiting for the user. *)
Work(s) == AdjustPaths(s) \/ Engine(s) \/ RemoveBuild(s) \/ Playbook(s) \/ Finish(s)
           \/ Dump(s) \/ Exit(s) \/ Clean(s)

Next ==
  \/ \E s \in Sessions : Start(s) \/ NoCommand(s) \/ Reject(s) \/ Confirm(s) \/ EnsureVault(s)
                         \/ Work(s) \/ Interrupt(s) \/ InterruptExit(s) \/ Kill(s)
  \/ \E p, q \in Places : MoveBuild(p, q)

(* The program goes on by itself, and playbooks end; prompts may wait for  *)
(* ever, and nothing obliges the user to start, interrupt or kill.         *)
Fairness == \A s \in Sessions : WF_vars(Work(s))

Spec == Init /\ [][Next]_vars /\ Fairness

---------------------------------------------------------------------------
(* Properties *)

(* The vault password is on disk only while the session that wrote it      *)
(* runs, unless that session was killed or interrupted in its exit         *)
(* handler: whoever else leaves, is cut off in his own handler, or looks   *)
(* for the file at the same time (the exit handlers race).                 *)
VaultOwned == vault # None => session[vault].phase \in Running \cup {"cut"}

(* An apply that ran alone used its own password for every artifact, also  *)
(* when a killed session had left its password in vault.cfg.               *)
OwnPassword == \A s \in Sessions : s \notin overlapped => session[s].keys \subseteq {s}

(* A session that ran alone and was given a directory that is the cluster's *)
(* own removes it only when Terraform has destroyed the machines.          *)
DeletesOwn ==
  [][\A s \in Sessions :
       RemoveBuild(s) /\ s \notin overlapped /\ Working(s) = Line(s).build
         => builds[Line(s).build].state = None]_vars

(* A failure that goes unlogged is one of a session that has done nothing  *)
(* yet: no directory, machine or playbook was touched before the log was   *)
(* open.  And where a log can be opened, failures are lost only before the *)
(* path functions, at the question or for want of a command: each of these *)
(* functions finds an output directory before it, or what is behind it,    *)
(* can fail.                                                               *)
FailureLogged ==
  [][\A s \in Sessions :
       session'[s].unlogged /\ ~session[s].unlogged =>
         /\ session[s].phase \in {"new", "confirm", "paths", "vault", "engine"}
         /\ UNCHANGED <<builds, cloud>>
         /\ session'[s].line.log => session[s].phase \in {"new", "confirm"}]_vars

(* A password that was written is removed again, by its session or by      *)
(* another, unless its session is killed or its exit handler interrupted.  *)
PasswordForgotten ==
  vault # None ~> (vault = None \/ session[vault].phase = "cut")

(* What "delete a cluster" says: no machines without a Terraform state.    *)
DeletedMeansGone ==
  [][\A s \in Sessions :
       RemoveBuild(s) /\ s \notin overlapped => builds[Line(s).build].state = None]_vars
=============================================================================
