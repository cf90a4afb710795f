--------------------------- MODULE Session_proofs ---------------------------
(***************************************************************************)
(* Proofs about Session, for any number of sessions, directories, names    *)
(* and command lines, and any number of sessions at once.                  *)
(***************************************************************************)
EXTENDS Session, TLAPS

(* The type of a session.                                                  *)
SessionType ==
  [phase : Phases, line : CommandLine, output : Dirs \cup {None},
   todo : Nat, keys : SUBSET Sessions, unlogged : BOOLEAN]

-----------------------------------------------------------------------------
(* The helpers that make a session out of a session.                       *)

LEMMA FreshType ==
  ASSUME NEW s \in Sessions, NEW c \in CommandLines[s]
  PROVE  c \in CommandLine /\ Fresh(c) \in SessionType
  BY CommandLinesAssumption DEF Fresh, SessionType, Phases

LEMMA ChosenType ==
  ASSUME NEW s \in Sessions
  PROVE  (CHOOSE c \in CommandLines[s] : TRUE) \in CommandLines[s]
  BY CommandLinesAssumption

LEMMA ConfiguredType ==
  ASSUME TypeOK, NEW s \in Sessions, NEW c \in CommandLines[s]
  PROVE  /\ Configured(c) \in SessionType
         /\ Configured(c).keys = {} /\ Configured(c).unlogged = FALSE
<1>1. Fresh(c) \in SessionType /\ c.output \in Dirs \cup {None}
  BY FreshType DEF CommandLine
<1>2. OutputDir(None, c.output) \in Dirs \cup {None}
  BY <1>1 DEF OutputDir, TypeOK
<1> QED
  BY <1>1, <1>2 DEF Configured, Fresh, SessionType

LEMMA OutputDirType ==
  ASSUME TypeOK, NEW old \in Dirs \cup {None}, NEW new \in Dirs \cup {None}
  PROVE  OutputDir(old, new) \in Dirs \cup {None}
  BY DEF OutputDir, TypeOK

LEMMA RaisedType ==
  ASSUME NEW r \in SessionType
  PROVE  /\ Raised(r) \in SessionType
         /\ Raised(r).phase \in {"dump", "exit"}
         /\ Raised(r).keys = r.keys /\ Raised(r).line = r.line
  BY DEF Raised, SessionType, Phases, Running

LEMMA BecomeType ==
  ASSUME TypeOK, NEW s \in Sessions, NEW r \in SessionType, Become(s, r)
  PROVE  /\ session' \in [Sessions -> SessionType]
         /\ session'[s] = r
         /\ \A t \in Sessions \ {s} : session'[t] = session[t]
  BY DEF Become, TypeOK, SessionType

(* What changes in a session: its phase and output, and what goes with it. *)
LEMMA GoType ==
  ASSUME TypeOK, NEW s \in Sessions, NEW phase \in Phases, Go(s, phase)
  PROVE  /\ session' \in [Sessions -> SessionType]
         /\ session'[s] = [session[s] EXCEPT !.phase = phase]
         /\ session'[s].phase = phase
         /\ session'[s].keys = session[s].keys /\ session'[s].line = session[s].line
         /\ \A t \in Sessions \ {s} : session'[t] = session[t]
<1>1. session[s] \in SessionType
  BY DEF TypeOK, SessionType
<1>2. [session[s] EXCEPT !.phase = phase] \in SessionType
  BY <1>1 DEF SessionType
<1> QED
  BY <1>1, <1>2, BecomeType DEF Go, SessionType

LEMMA RaiseType ==
  ASSUME TypeOK, NEW s \in Sessions, Raise(s)
  PROVE  /\ session' \in [Sessions -> SessionType]
         /\ session'[s].phase \in {"dump", "exit"}
         /\ session'[s].keys = session[s].keys /\ session'[s].line = session[s].line
         /\ \A t \in Sessions \ {s} : session'[t] = session[t]
<1>1. session[s] \in SessionType
  BY DEF TypeOK, SessionType
<1> QED
  BY <1>1, RaisedType, BecomeType DEF Raise

LEMMA EndType ==
  ASSUME TypeOK, NEW s \in Sessions, NEW phase \in Phases, End(s, phase)
  PROVE  /\ session' \in [Sessions -> SessionType]
         /\ session'[s].phase = phase /\ session'[s].keys = session[s].keys
         /\ \A t \in Sessions \ {s} : session'[t] = session[t]
<1> DEFINE f == Fresh(CHOOSE c \in CommandLines[s] : TRUE)
           r == [f EXCEPT !.phase = phase, !.keys = session[s].keys]
<1>1. f \in SessionType
  BY FreshType, ChosenType
<1>2. session[s].keys \in SUBSET Sessions
  BY DEF TypeOK
<1>3. r \in SessionType /\ r.phase = phase /\ r.keys = session[s].keys
  BY <1>1, <1>2 DEF SessionType
<1>4. Become(s, r)
  BY DEF End
<1> HIDE DEF r
<1> QED
  BY <1>3, <1>4, BecomeType

-----------------------------------------------------------------------------
(* What a step of a live session does to it and to the sessions beside it. *)

Moved(s) ==
  /\ session[s].phase \in Running
  /\ session' \in [Sessions -> SessionType]
  /\ \A t \in Sessions \ {s} : session'[t] = session[t]
  /\ session'[s].phase \in Running \cup {"gone", "cut"}
  /\ overlapped' = overlapped /\ docker' = docker

(* An apply whose playbooks are still to come, or are running.             *)
NeedsVault(s) == Line(s).engine = "apply" /\ session[s].phase \in {"engine", "playbooks"}

(* A step that leaves the vault alone, and the session no more in need of  *)
(* it than before.                                                         *)
Quiet(s) ==
  /\ Moved(s)
  /\ vault' = vault
  /\ session'[s].phase # "gone"
  /\ session'[s].keys = session[s].keys
  /\ NeedsVault(s)' => NeedsVault(s)

LEMMA QuietGo ==
  ASSUME TypeOK, NEW s \in Sessions, session[s].phase \in Running,
         NEW phase \in Running \ {"engine", "playbooks"},
         Go(s, phase) \/ Raise(s), UNCHANGED <<docker, vault, overlapped>>
  PROVE  Quiet(s)
<1>1. Go(s, phase) => Quiet(s)
  BY GoType DEF Quiet, Moved, NeedsVault, Phases, Running
<1>2. Raise(s) => Quiet(s)
  BY RaiseType DEF Quiet, Moved, NeedsVault, Running
<1> QED
  BY <1>1, <1>2

LEMMA QuietBecome ==
  ASSUME TypeOK, NEW s \in Sessions, session[s].phase \in Running,
         NEW r \in SessionType, Become(s, r), r.phase \in Running, r.keys = session[s].keys,
         r.line = session[s].line,
         r.line.engine = "apply" /\ r.phase \in {"engine", "playbooks"}
           => session[s].phase \in {"engine", "playbooks"},
         UNCHANGED <<docker, vault, overlapped>>
  PROVE  Quiet(s)
<1>1. /\ session' \in [Sessions -> SessionType]
      /\ session'[s] = r
      /\ \A t \in Sessions \ {s} : session'[t] = session[t]
  BY BecomeType
<1> QED
  BY <1>1 DEF Quiet, Moved, NeedsVault, Line, Running

LEMMA SetType ==
  ASSUME NEW r \in SessionType, NEW output \in Dirs \cup {None}, NEW phase \in Phases,
         NEW todo \in Nat
  PROVE  /\ [r EXCEPT !.output = output] \in SessionType
         /\ [r EXCEPT !.output = output, !.phase = phase] \in SessionType
         /\ [r EXCEPT !.phase = phase, !.todo = todo] \in SessionType
  BY DEF SessionType

LEMMA AdjustPathsQuiet ==
  ASSUME TypeOK, NEW s \in Sessions, AdjustPaths(s)
  PROVE  Quiet(s) /\ UNCHANGED <<builds, cloud>>
<1> SUFFICES Quiet(s)
  BY DEF AdjustPaths
<1> DEFINE r0 == session[s]
<1>1. /\ r0 \in SessionType /\ r0.phase = "paths" /\ r0.phase \in Running
      /\ r0.line \in CommandLine /\ r0.output \in Dirs \cup {None}
      /\ r0.line.fileDir \in Dirs \cup {None} /\ r0.line.build[1] \in Dirs
      /\ Cwd \in Dirs \cup {None}
  BY CwdAssumption DEF TypeOK, SessionType, AdjustPaths, Running, CommandLine, Places
<1>2. UNCHANGED <<docker, vault, builds, cloud, overlapped>>
  BY DEF AdjustPaths
<1>3. OutputDir(r0.output, Cwd) \in Dirs \cup {None}
  BY <1>1, OutputDirType
<1>4. ASSUME Become(s, Raised([r0 EXCEPT !.output = OutputDir(@, Cwd)])) PROVE Quiet(s)
  <2> DEFINE r == [r0 EXCEPT !.output = OutputDir(@, Cwd)]
  <2>1. r \in SessionType /\ r.keys = r0.keys /\ r.line = r0.line
    BY <1>1, <1>3, SetType DEF SessionType
  <2> HIDE DEF r
  <2> QED
    BY <1>1, <1>2, <1>4, <2>1, RaisedType, QuietBecome DEF r, Running
<1>5. ASSUME NEW output \in Dirs \cup {None}, NEW phase \in {"vault", "engine"},
             Become(s, [r0 EXCEPT !.output = output, !.phase = phase]),
             r0.line.engine = "apply" => phase = "vault"
      PROVE  Quiet(s)
  <2> DEFINE r == [r0 EXCEPT !.output = output, !.phase = phase]
  <2>1. phase \in Phases
    BY DEF Phases, Running
  <2>2. r \in SessionType /\ r.keys = r0.keys /\ r.line = r0.line /\ r.phase = phase
    BY <1>1, <2>1, SetType DEF SessionType
  <2> HIDE DEF r
  <2> QED
    BY <1>1, <1>2, <1>5, <2>2, QuietBecome DEF r, Running
<1>6. CASE AdjustPathsFromFile(s)
  <2>1. CASE Line(s).fileDir = None
    BY <1>4, <1>6, <2>1 DEF AdjustPathsFromFile
  <2>2. CASE Line(s).fileDir # None
    <3> DEFINE output == IF r0.output = None THEN Line(s).fileDir ELSE r0.output
               phase == IF Line(s).engine = "apply" THEN "vault" ELSE "engine"
    <3>1. output \in Dirs \cup {None} /\ phase \in {"vault", "engine"}
      BY <1>1 DEF Line
    <3>2. Become(s, [r0 EXCEPT !.output = output, !.phase = phase])
      BY <1>6, <2>2 DEF AdjustPathsFromFile
    <3>3. r0.line.engine = "apply" => phase = "vault"
      BY DEF Line
    <3> HIDE DEF output, phase
    <3> QED
      BY <1>5, <3>1, <3>2, <3>3
  <2> QED
    BY <2>1, <2>2
<1>7. CASE AdjustPathsFromBuild(s)
  <2>1. CASE ~builds[Line(s).build].there
    BY <1>4, <1>7, <2>1 DEF AdjustPathsFromBuild
  <2>2. CASE builds[Line(s).build].there
    <3> DEFINE output == IF r0.output = None THEN Line(s).build[1] ELSE r0.output
    <3>1. output \in Dirs \cup {None}
      BY <1>1 DEF Line
    <3>2. Become(s, [r0 EXCEPT !.output = output, !.phase = "engine"])
      BY <1>7, <2>2 DEF AdjustPathsFromBuild
    <3>3. r0.line.engine # "apply"
      BY <1>7 DEF AdjustPathsFromBuild, Line
    <3> HIDE DEF output
    <3> QED
      BY <1>5, <3>1, <3>2, <3>3
  <2> QED
    BY <2>1, <2>2
<1>8. CASE AdjustPathsToCwd(s)
  <2> DEFINE output == IF r0.output = None \/ Line(s).engine = "init"
                       THEN OutputDir(r0.output, Cwd) ELSE r0.output
  <2>1. output \in Dirs \cup {None}
    BY <1>1, <1>3
  <2>2. Become(s, [r0 EXCEPT !.output = output, !.phase = "engine"])
    BY <1>8 DEF AdjustPathsToCwd
  <2>3. r0.line.engine # "apply"
    BY <1>8 DEF AdjustPathsToCwd, Line
  <2> HIDE DEF output
  <2> QED
    BY <1>5, <2>1, <2>2, <2>3
<1> QED
  BY <1>2, <1>6, <1>7, <1>8 DEF AdjustPaths

(* What the engines do to the build directories.                           *)
LEMMA BuildsType ==
  ASSUME TypeOK, NEW p, NEW b, p \in Places => b \in Build
  PROVE  [builds EXCEPT ![p] = b] \in [Places -> Build]
  BY DEF TypeOK

LEMMA MakeType ==
  ASSUME TypeOK, NEW p, Make(p)
  PROVE  builds' \in [Places -> Build]
<1>1. p \in Places => [builds[p] EXCEPT !.there = TRUE] \in Build
  BY DEF TypeOK, Build
<1> QED
  BY <1>1, BuildsType DEF Make

LEMMA EngineQuiet ==
  ASSUME TypeOK, NEW s \in Sessions, Engine(s)
  PROVE  Quiet(s) /\ builds' \in [Places -> Build] /\ cloud' \subseteq Sessions
<1> DEFINE r0 == session[s]
<1>1. /\ r0 \in SessionType /\ r0.phase = "engine" /\ r0.phase \in Running
      /\ r0.line \in CommandLine /\ r0.line.playbooks \in Nat /\ r0.line.name \in Names
      /\ Line(s) = r0.line
      /\ builds \in [Places -> Build] /\ cloud \subseteq Sessions
  BY DEF TypeOK, SessionType, Engine, Running, CommandLine, Line
<1>2. UNCHANGED <<docker, vault, overlapped>>
  BY DEF Engine
<1>3. ASSUME Return(s) \/ Raise(s) \/ Go(s, "remove") PROVE Quiet(s)
  BY <1>1, <1>2, <1>3, QuietGo DEF Return, Running
<1>4. ASSUME Become(s, [r0 EXCEPT !.phase = "playbooks", !.todo = Line(s).playbooks])
      PROVE  Quiet(s)
  <2> DEFINE r == [r0 EXCEPT !.phase = "playbooks", !.todo = Line(s).playbooks]
  <2>1. "playbooks" \in Phases
    BY DEF Phases, Running
  <2>2. r \in SessionType /\ r.keys = r0.keys /\ r.line = r0.line /\ r.phase = "playbooks"
    BY <1>1, <2>1, SetType DEF SessionType
  <2> HIDE DEF r
  <2> QED
    BY <1>1, <1>2, <1>4, <2>2, QuietBecome DEF r, Running
<1>5. CASE InitEngine(s)
  BY <1>1, <1>3, <1>5, MakeType DEF InitEngine
<1>6. CASE PrepareEngine(s)
  BY <1>1, <1>3, <1>6 DEF PrepareEngine
<1>7. CASE ApplyEngine(s)
  <2> DEFINE b(saved, deployed) ==
        [builds[Target(s)] EXCEPT !.there = TRUE,
                                  !.manifest = IF saved THEN Line(s).name ELSE @,
                                  !.state = IF deployed THEN s ELSE @]
  <2>1. ASSUME NEW saved \in BOOLEAN, NEW deployed \in BOOLEAN, Target(s) \in Places
        PROVE  b(saved, deployed) \in Build
    BY <1>1, <2>1 DEF Build
  <2>2. \E saved, created \in BOOLEAN :
          LET deployed == created /\ builds[Target(s)].state = None
          IN  /\ builds' = [builds EXCEPT ![Target(s)] = b(saved, deployed)]
              /\ cloud' = IF deployed THEN cloud \cup {s} ELSE cloud
    BY <1>7 DEF ApplyEngine
  <2>3. builds' \in [Places -> Build] /\ cloud' \subseteq Sessions
    <3>1. PICK saved \in BOOLEAN, deployed \in BOOLEAN :
            /\ builds' = [builds EXCEPT ![Target(s)] = b(saved, deployed)]
            /\ cloud' = IF deployed THEN cloud \cup {s} ELSE cloud
      BY <2>2
    <3> HIDE DEF b
    <3> QED
      BY <1>1, <2>1, <3>1, BuildsType
  <2>4. Quiet(s)
    BY <1>3, <1>4, <1>7 DEF ApplyEngine
  <2> QED
    BY <2>3, <2>4
<1>8. CASE AnsibleEngine(s)
  <2>1. Quiet(s)
    BY <1>3, <1>4, <1>8 DEF AnsibleEngine
  <2>2. builds' \in [Places -> Build] /\ cloud' = cloud
    BY <1>1, <1>8, MakeType DEF AnsibleEngine
  <2> QED
    BY <1>1, <2>1, <2>2
<1>9. CASE DeleteEngine(s)
  <2>1. Quiet(s)
    BY <1>3, <1>9 DEF DeleteEngine
  <2>2. cloud' \subseteq Sessions
    BY <1>1, <1>9 DEF DeleteEngine
  <2>3. builds' \in [Places -> Build]
    <3>1. CASE UNCHANGED builds
      BY <1>1, <3>1
    <3>2. ASSUME NEW destroyed \in BOOLEAN,
                 builds' = [builds EXCEPT ![Working(s)].there = TRUE,
                                          ![Working(s)].state = IF destroyed THEN None ELSE @]
          PROVE  builds' \in [Places -> Build]
      <4>1. ASSUME NEW p \in Places PROVE builds'[p] \in Build
        <5>1. CASE p = Working(s)
          BY <1>1, <3>2, <5>1 DEF Build
        <5>2. CASE p # Working(s)
          BY <1>1, <3>2, <5>2
        <5> QED
          BY <5>1, <5>2
      <4> QED
        BY <1>1, <3>2, <4>1
    <3> QED
      BY <1>9, <3>1, <3>2 DEF DeleteEngine
  <2> QED
    BY <2>1, <2>2, <2>3
<1>10. CASE NoEngine(s)
  BY <1>1, <1>3, <1>10 DEF NoEngine
<1> QED
  BY <1>5, <1>6, <1>7, <1>8, <1>9, <1>10 DEF Engine

(* Every step but those that start a session, write or remove the password *)
(* or read it.                                                             *)
LEMMA QuietSteps ==
  ASSUME TypeOK, NEW s \in Sessions,
         \/ Confirm(s) \/ AdjustPaths(s) \/ Engine(s) \/ RemoveBuild(s) \/ Finish(s)
         \/ Dump(s) \/ Interrupt(s) \/ InterruptExit(s) \/ Kill(s)
  PROVE  Quiet(s) /\ builds' \in [Places -> Build] /\ cloud' \subseteq Sessions
<1>0. builds \in [Places -> Build] /\ cloud \subseteq Sessions
  BY DEF TypeOK
<1> USE DEF Running
<1>1. CASE Confirm(s)
  BY <1>0, <1>1, QuietGo DEF Confirm, Return
<1>2. CASE AdjustPaths(s)
  BY <1>0, <1>2, AdjustPathsQuiet
<1>3. CASE Engine(s)
  BY <1>3, EngineQuiet
<1>4. CASE RemoveBuild(s)
  <2>1. NoBuild \in Build
    BY DEF NoBuild, Build
  <2>2. builds' \in [Places -> Build]
    BY <1>4, <2>1, BuildsType DEF RemoveBuild
  <2>3. Quiet(s)
    BY <1>4, QuietGo DEF RemoveBuild, Return
  <2> QED
    BY <1>0, <1>4, <2>2, <2>3 DEF RemoveBuild
<1>5. CASE Finish(s)
  BY <1>0, <1>5, QuietGo DEF Finish, Return
<1>6. CASE Dump(s)
  BY <1>0, <1>6, QuietGo DEF Dump
<1>7. CASE Interrupt(s)
  BY <1>0, <1>7, QuietGo DEF Interrupt
<1>8. CASE Kill(s) \/ InterruptExit(s)
  <2>1. /\ session' \in [Sessions -> SessionType]
        /\ session'[s].phase = "cut" /\ session'[s].keys = session[s].keys
        /\ \A t \in Sessions \ {s} : session'[t] = session[t]
    BY <1>8, EndType DEF Kill, InterruptExit, Phases
  <2>2. session[s].phase \in Running /\ UNCHANGED <<docker, vault, builds, cloud, overlapped>>
    BY <1>8 DEF Kill, InterruptExit
  <2>3. Quiet(s)
    BY <2>1, <2>2 DEF Quiet, Moved, NeedsVault
  <2> QED
    BY <1>0, <2>2, <2>3
<1> QED
  BY <1>1, <1>2, <1>3, <1>4, <1>5, <1>6, <1>7, <1>8

(* The steps that have to do with the password.                            *)
LEMMA EnsureVaultStep ==
  ASSUME TypeOK, NEW s \in Sessions, EnsureVault(s)
  PROVE  /\ UNCHANGED <<builds, cloud>>
         /\ Quiet(s) \/ (Moved(s) /\ vault' = s /\ session'[s].phase = "engine"
                                  /\ session'[s].keys = session[s].keys)
<1>1. CASE vault' = s /\ Go(s, "engine")
  BY <1>1, GoType DEF EnsureVault, Moved, Phases, Running
<1>2. CASE vault' = vault /\ Raise(s)
  BY <1>2, QuietGo DEF EnsureVault, Running
<1> QED
  BY <1>1, <1>2 DEF EnsureVault

LEMMA PlaybookStep ==
  ASSUME TypeOK, NEW s \in Sessions, Playbook(s)
  PROVE  /\ UNCHANGED <<builds, cloud>>
         /\ \/ Quiet(s)
            \/ /\ Moved(s) /\ vault' = vault /\ session'[s].phase = "playbooks"
               /\ NeedsVault(s) /\ vault \in Sessions
               /\ session'[s].keys = session[s].keys \cup {vault}
<1> DEFINE r0 == session[s]
<1>1. /\ r0 \in SessionType /\ r0.phase = "playbooks" /\ r0.phase \in Running
      /\ r0.todo \in Nat /\ r0.todo > 0 /\ r0.keys \subseteq Sessions
      /\ vault \in Sessions \cup {None}
      /\ UNCHANGED <<docker, vault, builds, cloud, overlapped>>
  BY DEF TypeOK, SessionType, Playbook, Running
<1>2. CASE Raise(s)
  BY <1>1, <1>2, QuietGo DEF Running
<1>3. CASE Line(s).engine # "apply" /\ Become(s, [r0 EXCEPT !.todo = @ - 1, !.keys = @])
  <2> DEFINE r == [r0 EXCEPT !.todo = @ - 1, !.keys = @]
  <2>1. /\ r \in SessionType /\ r.phase = r0.phase /\ r.keys = r0.keys /\ r.line = r0.line
    <3> DEFINE todo == r0.todo - 1
               keys == r0.keys
    <3>1. todo \in Nat /\ keys \in SUBSET Sessions
      BY <1>1
    <3>2. r = [r0 EXCEPT !.todo = todo, !.keys = keys]
      OBVIOUS
    <3>3. r0 \in SessionType
      BY <1>1
    <3> HIDE DEF todo, keys, r, r0
    <3>4. r \in SessionType /\ r.phase = r0.phase /\ r.keys = keys /\ r.line = r0.line
      BY <3>1, <3>2, <3>3 DEF SessionType
    <3> QED
      BY <3>4 DEF keys
  <2>2. Become(s, r)
    BY <1>3
  <2> HIDE DEF r
  <2> QED
    BY <1>1, <2>1, <2>2, QuietBecome
<1>4. CASE Line(s).engine = "apply" /\ vault # None
           /\ Become(s, [r0 EXCEPT !.todo = @ - 1, !.keys = @ \cup {vault}])
  <2> DEFINE r == [r0 EXCEPT !.todo = @ - 1, !.keys = @ \cup {vault}]
  <2>1. vault \in Sessions
    BY <1>1, <1>4
  <2>2. /\ r \in SessionType /\ r.phase = r0.phase /\ r.keys = r0.keys \cup {vault}
    <3> DEFINE todo == r0.todo - 1
               keys == r0.keys \cup {vault}
    <3>1. todo \in Nat /\ keys \in SUBSET Sessions
      BY <1>1, <2>1
    <3>2. r = [r0 EXCEPT !.todo = todo, !.keys = keys]
      OBVIOUS
    <3>3. r0 \in SessionType
      BY <1>1
    <3> HIDE DEF todo, keys, r, r0
    <3>4. r \in SessionType /\ r.phase = r0.phase /\ r.keys = keys
      BY <3>1, <3>2, <3>3 DEF SessionType
    <3> QED
      BY <3>4 DEF keys
  <2>3. Become(s, r)
    BY <1>4
  <2> HIDE DEF r
  <2>4. /\ session' \in [Sessions -> SessionType] /\ session'[s] = r
        /\ \A t \in Sessions \ {s} : session'[t] = session[t]
    BY <2>2, <2>3, BecomeType
  <2> QED
    BY <1>1, <1>4, <2>1, <2>2, <2>4 DEF Moved, NeedsVault
<1> QED
  BY <1>2, <1>3, <1>4 DEF Playbook

LEMMA LeaveStep ==
  ASSUME TypeOK, NEW s \in Sessions, Exit(s) \/ Clean(s)
  PROVE  /\ UNCHANGED <<builds, cloud>>
         /\ Quiet(s) \/ (Moved(s) /\ vault' = None /\ session'[s].phase = "gone"
                                  /\ session'[s].keys = session[s].keys)
<1> USE DEF Running, Phases
<1>1. CASE End(s, "gone") /\ vault' = None
  BY <1>1, EndType DEF Exit, Clean, Moved
<1>2. CASE Go(s, "clean") /\ vault' = vault
  BY <1>2, QuietGo DEF Exit, Clean
<1> QED
  BY <1>1, <1>2 DEF Exit, Clean

Begin(s) == Start(s) \/ NoCommand(s) \/ Reject(s)

LEMMA BeginStep ==
  ASSUME TypeOK, NEW s \in Sessions, Begin(s)
  PROVE  /\ UNCHANGED <<docker, vault, builds, cloud>>
         /\ session[s].phase = "new"
         /\ session' \in [Sessions -> SessionType]
         /\ \A t \in Sessions \ {s} : session'[t] = session[t]
         /\ session'[s].phase \in {"confirm", "paths", "dump", "exit"} /\ session'[s].keys = {}
         /\ overlapped' = IF Live = {} THEN overlapped ELSE overlapped \cup Live \cup {s}
<1>1. PICK r \in SessionType :
        /\ Become(s, r) /\ r.keys = {}
        /\ r.phase \in {"confirm", "paths", "dump", "exit"}
  <2>1. ASSUME NEW c \in CommandLines[s], NEW phase \in {"confirm", "paths", "exit"},
               Become(s, [Configured(c) EXCEPT !.phase = phase])
        PROVE  \E r \in SessionType :
                 /\ Become(s, r) /\ r.keys = {}
                 /\ r.phase \in {"confirm", "paths", "dump", "exit"}
    <3> DEFINE r == [Configured(c) EXCEPT !.phase = phase]
    <3>1. r \in SessionType /\ r.keys = {} /\ r.phase = phase
      BY ConfiguredType DEF SessionType, Phases, Running
    <3> HIDE DEF r
    <3> QED
      BY <2>1, <3>1 DEF r
  <2>2. ASSUME NEW c \in CommandLines[s], Become(s, Raised(Configured(c)))
        PROVE  \E r \in SessionType :
                 /\ Become(s, r) /\ r.keys = {}
                 /\ r.phase \in {"confirm", "paths", "dump", "exit"}
    BY <2>2, ConfiguredType, RaisedType
  <2> QED
    BY <2>1, <2>2 DEF Begin, Start, NoCommand, Reject
<1>2. /\ session' \in [Sessions -> SessionType] /\ session'[s] = r
      /\ \A t \in Sessions \ {s} : session'[t] = session[t]
  BY <1>1, BecomeType
<1>3. Parse(s)
  BY DEF Begin, Start, NoCommand, Reject
<1> QED
  BY <1>1, <1>2, <1>3 DEF Parse

-----------------------------------------------------------------------------
(***************************************************************************)
(* The inductive invariant: sessions that run at once know of each other   *)
(* (the history variable does), and an apply that runs alone finds its own *)
(* password where its playbooks look for it.                               *)
(***************************************************************************)
Alone ==
  \A s, t \in Sessions :
    s # t /\ session[s].phase \in Running /\ session[t].phase \in Running => s \in overlapped

OwnVault == \A s \in Sessions : s \notin overlapped /\ NeedsVault(s) => vault = s

IInv == TypeOK /\ VaultOwned /\ Alone /\ OwnVault /\ OwnPassword

LEMMA InvInit == Init => IInv
<1> SUFFICES ASSUME Init PROVE IInv
  OBVIOUS
<1>1. \A s \in Sessions : session[s] \in SessionType /\ session[s].phase = "new" /\ session[s].keys = {}
  BY FreshType, ChosenType DEF Init, Fresh
<1>2. session \in [Sessions -> SessionType]
  BY <1>1 DEF Init
<1>3. builds \in [Places -> Build]
  BY DEF Init, NoBuild, Build
<1>4. TypeOK
  BY <1>2, <1>3, DockerAssumption DEF Init, TypeOK, SessionType
<1> QED
  BY <1>1, <1>4, NoneAssumption
     DEF Init, IInv, VaultOwned, Alone, OwnVault, OwnPassword, NeedsVault, Running

(* A step that is quiet keeps the invariant.                               *)
LEMMA InvQuiet ==
  ASSUME IInv, NEW s \in Sessions, Quiet(s), builds' \in [Places -> Build], cloud' \subseteq Sessions
  PROVE  IInv'
<1>1. TypeOK'
  BY DEF IInv, TypeOK, Quiet, Moved, SessionType
<1>2. VaultOwned'
  BY DEF IInv, TypeOK, VaultOwned, Quiet, Moved
<1>3. Alone'
  BY DEF IInv, Alone, Quiet, Moved
<1>4. OwnVault'
  BY DEF IInv, OwnVault, Quiet, Moved, NeedsVault, Line
<1>5. OwnPassword'
  BY DEF IInv, OwnPassword, Quiet, Moved
<1> QED
  BY <1>1, <1>2, <1>3, <1>4, <1>5 DEF IInv

(* Another session that runs beside s and has not overlapped cannot be.    *)
LEMMA InvPassword ==
  ASSUME IInv, NEW s \in Sessions, Moved(s), UNCHANGED <<builds, cloud>>,
         \/ vault' = s /\ session'[s].phase = "engine" /\ session'[s].keys = session[s].keys
         \/ vault' = None /\ session'[s].phase = "gone" /\ session'[s].keys = session[s].keys
         \/ /\ vault' = vault /\ session'[s].phase = "playbooks"
            /\ NeedsVault(s) /\ vault \in Sessions
            /\ session'[s].keys = session[s].keys \cup {vault}
  PROVE  IInv'
<1>1. TypeOK'
  BY DEF IInv, TypeOK, Moved, SessionType
<1>2. VaultOwned'
  BY DEF IInv, TypeOK, VaultOwned, Moved, Running
<1>3. Alone'
  BY DEF IInv, Alone, Moved
<1>4. \A t \in Sessions \ {s} : t \notin overlapped => session[t].phase \notin Running
  BY DEF IInv, Alone, Moved
<1>5. OwnVault'
  <2>1. ASSUME NEW t \in Sessions \ {s}, t \notin overlapped', NeedsVault(t)' PROVE FALSE
    BY <1>4, <2>1 DEF Moved, NeedsVault, Line, Running
  <2>2. s \notin overlapped' /\ NeedsVault(s)' => vault' = s
    BY DEF IInv, OwnVault, Moved, NeedsVault
  <2> QED
    BY <2>1, <2>2 DEF OwnVault
<1>6. OwnPassword'
  BY DEF IInv, OwnVault, OwnPassword, Moved
<1> QED
  BY <1>1, <1>2, <1>3, <1>5, <1>6 DEF IInv

LEMMA InvStart ==
  ASSUME IInv, NEW s \in Sessions, Begin(s)
  PROVE  IInv'
<1>1. TypeOK
  BY DEF IInv
<1>2. /\ UNCHANGED <<docker, vault, builds, cloud>>
      /\ session[s].phase = "new"
      /\ session' \in [Sessions -> SessionType]
      /\ \A t \in Sessions \ {s} : session'[t] = session[t]
      /\ session'[s].phase \in {"confirm", "paths", "dump", "exit"} /\ session'[s].keys = {}
      /\ overlapped' = IF Live = {} THEN overlapped ELSE overlapped \cup Live \cup {s}
  BY <1>1, BeginStep
<1>3. TypeOK'
  BY <1>1, <1>2 DEF TypeOK, SessionType, Live
<1>4. VaultOwned'
  BY <1>2 DEF IInv, TypeOK, VaultOwned, Running
<1>5. Alone'
  <2>1. Live = {} => \A t \in Sessions \ {s} : session'[t].phase \notin Running
    BY <1>2 DEF Live
  <2>2. Live # {} => \A t \in Sessions : session'[t].phase \in Running => t \in overlapped'
    BY <1>2 DEF Live
  <2> QED
    BY <2>1, <2>2 DEF Alone
<1>6. OwnVault' /\ OwnPassword'
  BY <1>2 DEF IInv, OwnVault, OwnPassword, NeedsVault, Line
<1> QED
  BY <1>3, <1>4, <1>5, <1>6 DEF IInv

LEMMA InvNext == IInv /\ [Next]_vars => IInv'
<1> SUFFICES ASSUME IInv, [Next]_vars PROVE IInv'
  OBVIOUS
<1>0. TypeOK
  BY DEF IInv
<1>1. ASSUME NEW s \in Sessions, Begin(s) PROVE IInv'
  BY <1>1, InvStart
<1>2. ASSUME NEW s \in Sessions,
             \/ Confirm(s) \/ AdjustPaths(s) \/ Engine(s) \/ RemoveBuild(s) \/ Finish(s)
             \/ Dump(s) \/ Interrupt(s) \/ InterruptExit(s) \/ Kill(s)
      PROVE  IInv'
  BY <1>0, <1>2, QuietSteps, InvQuiet
<1>3. ASSUME NEW s \in Sessions, EnsureVault(s) PROVE IInv'
  BY <1>0, <1>3, EnsureVaultStep, InvQuiet, InvPassword DEF TypeOK
<1>4. ASSUME NEW s \in Sessions, Playbook(s) PROVE IInv'
  BY <1>0, <1>4, PlaybookStep, InvQuiet, InvPassword DEF TypeOK
<1>5. ASSUME NEW s \in Sessions, Exit(s) \/ Clean(s) PROVE IInv'
  BY <1>0, <1>5, LeaveStep, InvQuiet, InvPassword DEF TypeOK
<1>6. ASSUME NEW p \in Places, NEW q \in Places, MoveBuild(p, q) PROVE IInv'
  <2>1. UNCHANGED <<docker, vault, cloud, session, overlapped>>
    BY <1>6 DEF MoveBuild
  <2>2. builds' \in [Places -> Build]
    BY <1>0, <1>6 DEF MoveBuild, TypeOK, NoBuild, Build
  <2> QED
    BY <2>1, <2>2 DEF IInv, TypeOK, VaultOwned, Alone, OwnVault, OwnPassword, NeedsVault, Line
<1>7. CASE UNCHANGED vars
  BY <1>7 DEF vars, IInv, TypeOK, VaultOwned, Alone, OwnVault, OwnPassword, NeedsVault, Line
<1> QED
  BY <1>1, <1>2, <1>3, <1>4, <1>5, <1>6, <1>7 DEF Next, Work, Begin

LEMMA InvCorrect == Spec => []IInv
<1>1. Init => IInv
  BY InvInit
<1>2. IInv /\ [Next]_vars => IInv'
  BY InvNext
<1> QED
  BY <1>1, <1>2, PTL DEF Spec

(* Every session, build directory and deployment is one the code knows.    *)
THEOREM TypeCorrect == Spec => []TypeOK
<1>1. IInv => TypeOK
  BY DEF IInv
<1> QED
  BY <1>1, InvCorrect, PTL

(* The vault password is on disk only while the session that wrote it      *)
(* runs, or after it was killed or its exit handler interrupted, however   *)
(* many sessions leave, are interrupted or are killed at once.             *)
THEOREM VaultOwnedCorrect == Spec => []VaultOwned
<1>1. IInv => VaultOwned
  BY DEF IInv
<1> QED
  BY <1>1, InvCorrect, PTL

(* An apply that ran alone encrypted with its own password, whatever       *)
(* sessions before it have left behind.                                    *)
THEOREM OwnPasswordCorrect == Spec => []OwnPassword
<1>1. IInv => OwnPassword
  BY DEF IInv
<1> QED
  BY <1>1, InvCorrect, PTL

-----------------------------------------------------------------------------
(***************************************************************************)
(* Failures that are reported, and deletes: what a session's own step does *)
(* to its output directory, and how it gets to removing a build directory. *)
(***************************************************************************)

(* Behind the paths a session has an output directory to log to; behind    *)
(* the making of its engine it has opened the log there.                   *)
HasOutput(r) ==
  /\ r.phase \in {"vault", "engine"} => r.output \in Dirs
  /\ r.phase \in {"playbooks", "remove"} => CanLog(r)

(* Where a failure may be lost, with a log that can be opened or without.  *)
Early == {"new", "confirm", "paths", "vault", "engine"}
May(r, phase) == phase \in Early /\ (r.line.log => phase \in {"new", "confirm"})

(* A step of session s: it keeps to that, loses failures there only and    *)
(* with nothing done, and goes on to remove a directory from DeleteEngine. *)
Reported(s) ==
  /\ \A t \in Sessions \ {s} : session'[t] = session[t]
  /\ HasOutput(session'[s])
  /\ session'[s].unlogged =>
       session[s].unlogged \/ (May(session'[s], session[s].phase) /\ UNCHANGED <<builds, cloud>>)
  /\ session'[s].phase = "remove" => session[s].phase = "engine" /\ DeleteEngine(s)

LEMMA ReportedBecome ==
  ASSUME TypeOK, NEW s \in Sessions, NEW r \in SessionType, Become(s, r),
         HasOutput(r),
         r.unlogged => \/ session[s].unlogged
                       \/ May(r, session[s].phase) /\ UNCHANGED <<builds, cloud>>,
         r.phase # "remove"
  PROVE  Reported(s)
<1>1. session'[s] = r /\ \A t \in Sessions \ {s} : session'[t] = session[t]
  BY BecomeType
<1> QED
  BY <1>1 DEF Reported

LEMMA ReportedRaise ==
  ASSUME TypeOK, NEW s \in Sessions, NEW r \in SessionType, Become(s, Raised(r)),
         r.unlogged = FALSE \/ r.unlogged = session[s].unlogged,
         CanLog(r) \/ (May(r, session[s].phase) /\ UNCHANGED <<builds, cloud>>)
  PROVE  Reported(s)
<1>1. Raised(r) \in SessionType /\ Raised(r).phase \in {"dump", "exit"} /\ Raised(r).line = r.line
  BY RaisedType
<1>2. Raised(r).unlogged => r.unlogged \/ ~CanLog(r)
  BY DEF Raised, SessionType
<1>3. r.unlogged \in BOOLEAN
  BY DEF SessionType
<1> QED
  BY <1>1, <1>2, <1>3, ReportedBecome DEF HasOutput, May

LEMMA ReportedGo ==
  ASSUME TypeOK, NEW s \in Sessions, NEW phase \in Phases \ {"playbooks", "remove"}, Go(s, phase),
         phase \in {"vault", "engine"} => session[s].output \in Dirs
  PROVE  Reported(s)
<1> DEFINE r == [session[s] EXCEPT !.phase = phase]
<1>1. session[s] \in SessionType
  BY DEF TypeOK, SessionType
<1>2. r \in SessionType /\ r.phase = phase /\ r.output = session[s].output
      /\ r.unlogged = session[s].unlogged
  BY <1>1 DEF SessionType
<1>3. Become(s, r)
  BY DEF Go
<1> HIDE DEF r
<1> QED
  BY <1>2, <1>3, ReportedBecome DEF HasOutput

LEMMA ReportedEnd ==
  ASSUME TypeOK, NEW s \in Sessions, NEW phase \in {"gone", "cut"}, End(s, phase)
  PROVE  Reported(s)
<1> DEFINE f == Fresh(CHOOSE c \in CommandLines[s] : TRUE)
           r == [f EXCEPT !.phase = phase, !.keys = session[s].keys]
<1>1. f \in SessionType /\ f.unlogged = FALSE
  BY FreshType, ChosenType DEF Fresh
<1>2. session[s].keys \in SUBSET Sessions
  BY DEF TypeOK
<1>3. r \in SessionType /\ r.phase = phase /\ r.unlogged = FALSE
  BY <1>1, <1>2 DEF SessionType, Phases
<1>4. Become(s, r)
  BY DEF End
<1> HIDE DEF r
<1> QED
  BY <1>3, <1>4, ReportedBecome DEF HasOutput

(* The paths functions find an output directory, or raise with one.        *)
LEMMA AdjustPathsReported ==
  ASSUME TypeOK, NEW s \in Sessions, AdjustPaths(s)
  PROVE  Reported(s)
<1> DEFINE r0 == session[s]
<1>1. /\ r0 \in SessionType /\ r0.phase = "paths" /\ Line(s) = r0.line
      /\ r0.line \in CommandLine /\ r0.output \in Dirs \cup {None}
      /\ r0.line.fileDir \in Dirs \cup {None} /\ r0.line.build[1] \in Dirs
  BY DEF TypeOK, SessionType, AdjustPaths, CommandLine, Places, Line
<1>2. OutputDir(r0.output, Cwd) \in Dirs
  BY CwdAssumption, NoneAssumption DEF OutputDir, TypeOK
<1>3. ASSUME Become(s, Raised([r0 EXCEPT !.output = OutputDir(@, Cwd)])) PROVE Reported(s)
  <2> DEFINE r == [r0 EXCEPT !.output = OutputDir(@, Cwd)]
  <2>1. r \in SessionType /\ r.unlogged = r0.unlogged /\ r.output \in Dirs
    BY <1>1, <1>2, SetType DEF SessionType
  <2>2. CanLog(r) \/ May(r, r0.phase)
    BY <1>1, <2>1, NoneAssumption DEF CanLog, May, Early
  <2>3. UNCHANGED <<builds, cloud>>
    BY DEF AdjustPaths
  <2> HIDE DEF r
  <2> QED
    BY <1>3, <2>1, <2>2, <2>3, ReportedRaise DEF r
<1>4. ASSUME NEW output \in Dirs, NEW phase \in {"vault", "engine"},
             Become(s, [r0 EXCEPT !.output = output, !.phase = phase])
      PROVE  Reported(s)
  <2> DEFINE r == [r0 EXCEPT !.output = output, !.phase = phase]
  <2>1. r \in SessionType /\ r.output = output /\ r.unlogged = r0.unlogged /\ r.phase = phase
    BY <1>1 DEF SessionType, Phases, Running
  <2> HIDE DEF r
  <2> QED
    BY <1>4, <2>1, ReportedBecome DEF r, HasOutput
<1>5. CASE AdjustPathsFromFile(s)
  <2>1. CASE Line(s).fileDir = None
    BY <1>3, <1>5, <2>1 DEF AdjustPathsFromFile
  <2>2. CASE Line(s).fileDir # None
    <3> DEFINE output == IF r0.output = None THEN Line(s).fileDir ELSE r0.output
               phase == IF Line(s).engine = "apply" THEN "vault" ELSE "engine"
    <3>1. output \in Dirs /\ phase \in {"vault", "engine"}
      BY <1>1, <2>2
    <3>2. Become(s, [r0 EXCEPT !.output = output, !.phase = phase])
      BY <1>5, <2>2 DEF AdjustPathsFromFile
    <3> HIDE DEF output, phase
    <3> QED
      BY <1>4, <3>1, <3>2
  <2> QED
    BY <2>1, <2>2
<1>6. CASE AdjustPathsFromBuild(s)
  <2>1. CASE ~builds[Line(s).build].there
    BY <1>3, <1>6, <2>1 DEF AdjustPathsFromBuild
  <2>2. CASE builds[Line(s).build].there
    <3> DEFINE output == IF r0.output = None THEN Line(s).build[1] ELSE r0.output
    <3>1. output \in Dirs
      BY <1>1
    <3>2. Become(s, [r0 EXCEPT !.output = output, !.phase = "engine"])
      BY <1>6, <2>2 DEF AdjustPathsFromBuild
    <3> HIDE DEF output
    <3> QED
      BY <1>4, <3>1, <3>2
  <2> QED
    BY <2>1, <2>2
<1>7. CASE AdjustPathsToCwd(s)
  <2> DEFINE output == IF r0.output = None \/ Line(s).engine = "init"
                       THEN OutputDir(r0.output, Cwd) ELSE r0.output
  <2>1. output \in Dirs
    BY <1>1, <1>2
  <2>2. Become(s, [r0 EXCEPT !.output = output, !.phase = "engine"])
    BY <1>7 DEF AdjustPathsToCwd
  <2> HIDE DEF output
  <2> QED
    BY <1>4, <2>1, <2>2
<1> QED
  BY <1>5, <1>6, <1>7 DEF AdjustPaths

LEMMA EngineReported ==
  ASSUME TypeOK, NEW s \in Sessions, HasOutput(session[s]), Engine(s)
  PROVE  Reported(s)
<1> DEFINE r0 == session[s]
<1>1. /\ r0 \in SessionType /\ r0.phase = "engine" /\ r0.output \in Dirs
      /\ Line(s).playbooks \in Nat
  BY DEF TypeOK, SessionType, Engine, CommandLine, Line, HasOutput
<1>2. CASE ~CanLog(r0)
  <2>1. Raise(s) /\ UNCHANGED <<builds, cloud>>
    BY <1>2 DEF Engine, NoEngine
  <2>2. May(r0, r0.phase)
    BY <1>1, <1>2, NoneAssumption DEF CanLog, May, Early
  <2> QED
    BY <1>1, <2>1, <2>2, ReportedRaise DEF Raise
<1>3. CASE CanLog(r0)
  <2>2. ASSUME Return(s) PROVE Reported(s)
    BY <2>2, ReportedGo DEF Return, Phases, Running
  <2>3. ASSUME Raise(s) PROVE Reported(s)
    BY <1>1, <1>3, <2>3, ReportedRaise DEF Raise
  <2>4. ASSUME Become(s, [r0 EXCEPT !.phase = "playbooks", !.todo = Line(s).playbooks])
        PROVE  Reported(s)
    <3> DEFINE r == [r0 EXCEPT !.phase = "playbooks", !.todo = Line(s).playbooks]
    <3>1. /\ r \in SessionType /\ r.output = r0.output /\ r.unlogged = r0.unlogged
          /\ r.line = r0.line /\ r.phase = "playbooks"
      BY <1>1 DEF SessionType, Phases, Running
    <3> HIDE DEF r
    <3>2. HasOutput(r)
      BY <1>3, <3>1 DEF HasOutput, CanLog
    <3> QED
      BY <2>4, <3>1, <3>2, ReportedBecome DEF r
  <2>5. ASSUME Go(s, "remove"), DeleteEngine(s) PROVE Reported(s)
    <3>1. /\ session'[s] = [r0 EXCEPT !.phase = "remove"]
          /\ \A t \in Sessions \ {s} : session'[t] = session[t]
      BY <2>5, GoType DEF Phases, Running
    <3> QED
      BY <1>1, <1>3, <2>5, <3>1 DEF Reported, HasOutput, CanLog, SessionType
  <2> QED
    BY <1>3, <2>2, <2>3, <2>4, <2>5
       DEF Engine, InitEngine, PrepareEngine, ApplyEngine, AnsibleEngine, DeleteEngine
<1> QED
  BY <1>2, <1>3

LEMMA PlaybookReported ==
  ASSUME TypeOK, NEW s \in Sessions, HasOutput(session[s]), Playbook(s)
  PROVE  Reported(s)
<1> DEFINE r0 == session[s]
<1>1. /\ r0 \in SessionType /\ r0.phase = "playbooks" /\ CanLog(r0)
      /\ r0.todo \in Nat /\ r0.todo > 0 /\ r0.keys \subseteq Sessions
      /\ vault \in Sessions \cup {None}
  BY DEF TypeOK, SessionType, Playbook, HasOutput
<1>2. CASE Raise(s)
  BY <1>1, <1>2, ReportedRaise DEF Raise
<1>3. CASE ~Raise(s)
  <2> DEFINE todo == r0.todo - 1
             keys == IF Line(s).engine = "apply" THEN r0.keys \cup {vault} ELSE r0.keys
             r == [r0 EXCEPT !.todo = todo, !.keys = keys]
  <2>1. Become(s, r) /\ (Line(s).engine = "apply" => vault # None)
    BY <1>3 DEF Playbook
  <2>2. todo \in Nat /\ keys \in SUBSET Sessions
    BY <1>1, <2>1
  <2> HIDE DEF todo, keys
  <2>3. /\ r \in SessionType /\ r.output = r0.output /\ r.unlogged = r0.unlogged
        /\ r.line = r0.line /\ r.phase = "playbooks"
    BY <1>1, <2>2 DEF SessionType
  <2> HIDE DEF r
  <2>4. HasOutput(r)
    BY <1>1, <2>3 DEF HasOutput, CanLog
  <2> QED
    BY <2>1, <2>3, <2>4, ReportedBecome
<1> QED
  BY <1>2, <1>3

LEMMA BeginReported ==
  ASSUME TypeOK, NEW s \in Sessions, Begin(s)
  PROVE  Reported(s)
<1>1. Parse(s) /\ session[s].phase = "new" /\ UNCHANGED <<builds, cloud>>
  BY DEF Begin, Start, NoCommand, Reject, Parse
<1>2. ASSUME NEW c \in CommandLines[s], NEW phase \in {"confirm", "paths", "exit"},
             Become(s, [Configured(c) EXCEPT !.phase = phase])
      PROVE  Reported(s)
  <2> DEFINE r == [Configured(c) EXCEPT !.phase = phase]
  <2>1. r \in SessionType /\ r.phase = phase /\ r.unlogged = FALSE
    BY ConfiguredType DEF SessionType, Phases, Running
  <2> HIDE DEF r
  <2> QED
    BY <1>2, <2>1, ReportedBecome DEF r, HasOutput
<1>3. ASSUME NEW c \in CommandLines[s], Become(s, Raised(Configured(c))) PROVE Reported(s)
  <2>1. May(Configured(c), session[s].phase)
    BY <1>1 DEF May, Early
  <2> QED
    BY <1>1, <1>3, <2>1, ConfiguredType, ReportedRaise
<1> QED
  BY <1>2, <1>3 DEF Begin, Start, NoCommand, Reject

(* The steps of a session, one by one.                                     *)
Steps(s) ==
  \/ Begin(s) \/ Confirm(s) \/ EnsureVault(s) \/ Work(s)
  \/ Interrupt(s) \/ InterruptExit(s) \/ Kill(s)

LEMMA StepReported ==
  ASSUME TypeOK, NEW s \in Sessions, HasOutput(session[s]), Steps(s)
  PROVE  Reported(s)
<1> USE DEF Phases, Running
<1>1. session[s] \in SessionType
  BY DEF TypeOK, SessionType
<1>2. CASE Begin(s)
  BY <1>2, BeginReported
<1>3. CASE Confirm(s)
  <2>1. May(session[s], session[s].phase) /\ UNCHANGED <<builds, cloud>>
    BY <1>3 DEF Confirm, May, Early
  <2> QED
    BY <1>1, <1>3, <2>1, ReportedGo, ReportedRaise DEF Confirm, Return, Raise
<1>4. CASE EnsureVault(s)
  <2>1. session[s].output \in Dirs /\ UNCHANGED <<builds, cloud>>
    BY <1>4 DEF EnsureVault, HasOutput
  <2>2. CanLog(session[s]) \/ May(session[s], session[s].phase)
    BY <1>4, <2>1, NoneAssumption DEF EnsureVault, CanLog, May, Early
  <2> QED
    BY <1>1, <1>4, <2>1, <2>2, ReportedGo, ReportedRaise DEF EnsureVault, Raise
<1>5. CASE AdjustPaths(s)
  BY <1>5, AdjustPathsReported
<1>6. CASE Engine(s)
  BY <1>6, EngineReported
<1>7. CASE Playbook(s)
  BY <1>7, PlaybookReported
<1>8. CASE RemoveBuild(s) \/ Finish(s) \/ Dump(s) \/ Interrupt(s)
  BY <1>8, ReportedGo DEF RemoveBuild, Finish, Dump, Interrupt, Return
<1>9. CASE Exit(s) \/ Clean(s) \/ InterruptExit(s) \/ Kill(s)
  BY <1>9, ReportedGo, ReportedEnd DEF Exit, Clean, InterruptExit, Kill
<1> QED
  BY <1>2, <1>3, <1>4, <1>5, <1>6, <1>7, <1>8, <1>9 DEF Steps, Work

LEMMA NextSteps ==
  ASSUME [Next]_vars
  PROVE  \/ \E s \in Sessions : Steps(s)
         \/ \E p, q \in Places : MoveBuild(p, q)
         \/ UNCHANGED vars
  BY DEF Next, Steps, Begin

Outputs == \A s \in Sessions : HasOutput(session[s])

LEMMA OutputsNext == TypeOK /\ Outputs /\ [Next]_vars => Outputs'
<1> SUFFICES ASSUME TypeOK, Outputs, [Next]_vars PROVE Outputs'
  OBVIOUS
<1>1. ASSUME NEW s \in Sessions, Steps(s) PROVE Outputs'
  BY <1>1, StepReported DEF Outputs, Reported
<1>2. session' = session => Outputs'
  BY DEF Outputs, HasOutput
<1> QED
  BY <1>1, <1>2, NextSteps DEF MoveBuild, vars

(* A failure is lost only while nothing has been done, and where the log   *)
(* can be opened only at the question or for want of a command: wherever   *)
(* else a session may fail, it has an output directory by then, and its    *)
(* engine has opened the log.                                              *)
THEOREM FailureLoggedCorrect == Spec => FailureLogged
<1>1. Init => Outputs
  <2>1. ASSUME Init, NEW s \in Sessions PROVE HasOutput(session[s])
    BY <2>1 DEF Init, Fresh, HasOutput
  <2> QED
    BY <2>1 DEF Outputs
<1>2. TypeOK /\ Outputs /\ [Next]_vars
        => [\A s \in Sessions :
              session'[s].unlogged /\ ~session[s].unlogged =>
                /\ session[s].phase \in {"new", "confirm", "paths", "vault", "engine"}
                /\ UNCHANGED <<builds, cloud>>
                /\ session'[s].line.log => session[s].phase \in {"new", "confirm"}]_vars
  <2> SUFFICES ASSUME TypeOK, Outputs, [Next]_vars, NEW s \in Sessions,
                      session'[s].unlogged, ~session[s].unlogged
               PROVE  May(session'[s], session[s].phase) /\ UNCHANGED <<builds, cloud>>
    BY DEF May, Early
  <2>1. ASSUME NEW t \in Sessions, Steps(t)
        PROVE  May(session'[s], session[s].phase) /\ UNCHANGED <<builds, cloud>>
    BY <2>1, StepReported DEF Outputs, Reported
  <2> QED
    BY <2>1, NextSteps DEF MoveBuild, vars
<1> QED
  BY <1>1, <1>2, OutputsNext, TypeCorrect, PTL DEF Spec, FailureLogged

-----------------------------------------------------------------------------
(* A delete that has not overlapped and is about to remove its cluster's   *)
(* own directory has destroyed the machines: nobody else can have touched  *)
(* the directory since.                                                    *)
Removes(s) ==
  /\ session[s].phase = "remove" /\ s \notin overlapped
  /\ Working(s) = Line(s).build

OwnDelete == \A s \in Sessions : Removes(s) => builds[Line(s).build].state = None

(* Who steps beside a session that runs alone is one that starts.          *)
LEMMA BesideAlone ==
  ASSUME IInv, NEW s \in Sessions, session[s].phase \in Running, s \notin overlapped',
         NEW t \in Sessions \ {s}, Steps(t)
  PROVE  FALSE
<1>1. CASE Begin(t)
  <2>1. s \in Live
    BY DEF Live
  <2>2. s \in overlapped'
    BY <1>1, <2>1 DEF Begin, Start, NoCommand, Reject, Parse
  <2> QED
    BY <2>2
<1>2. CASE ~Begin(t)
  <2>1. session[t].phase \in Running /\ overlapped' = overlapped
    BY <1>2 DEF Steps, Work, Confirm, EnsureVault, AdjustPaths, Engine, RemoveBuild, Playbook,
                Finish, Dump, Exit, Clean, Interrupt, InterruptExit, Kill, Running
  <2> QED
    BY <2>1 DEF IInv, Alone
<1> QED
  BY <1>1, <1>2

LEMMA DeleteDestroys ==
  ASSUME TypeOK, NEW s \in Sessions, session[s].phase = "engine", DeleteEngine(s),
         session'[s].phase = "remove", Removes(s)'
  PROVE  builds'[Line(s)'.build].state = None
<1>1. ~Raise(s)
  BY RaiseType
<1>2. builds' = [builds EXCEPT ![Working(s)].there = TRUE, ![Working(s)].state = None]
      /\ Go(s, "remove")
  BY <1>1 DEF DeleteEngine
<1>3. session'[s] = [session[s] EXCEPT !.phase = "remove"]
  BY <1>2, GoType DEF Phases, Running
<1>4. session[s] \in SessionType
  BY DEF TypeOK, SessionType
<1>5. Line(s)' = Line(s) /\ session'[s].output = session[s].output
  BY <1>3, <1>4 DEF Line, SessionType
<1>6. Line(s).build \in Places /\ builds \in [Places -> Build]
  BY <1>4 DEF Line, SessionType, CommandLine, TypeOK
<1>7. builds'[Line(s).build].manifest = builds[Line(s).build].manifest
  <2>1. CASE Working(s) = Line(s).build
    BY <1>2, <1>6, <2>1 DEF Build
  <2>2. CASE Working(s) # Line(s).build
    BY <1>2, <1>6, <2>2
  <2> QED
    BY <2>1, <2>2
<1>8. Working(s)' = Working(s)
  BY <1>5, <1>7 DEF Working
<1>9. Working(s) = Line(s).build
  BY <1>5, <1>8 DEF Removes
<1> QED
  BY <1>2, <1>5, <1>6, <1>9 DEF Build

LEMMA OwnDeleteNext == IInv /\ Outputs /\ OwnDelete /\ [Next]_vars => OwnDelete'
<1> SUFFICES ASSUME IInv, Outputs, OwnDelete, [Next]_vars, NEW s \in Sessions, Removes(s)'
             PROVE  builds'[Line(s)'.build].state = None
  BY DEF OwnDelete
<1>0. TypeOK
  BY DEF IInv
<1>1. CASE Steps(s)
  <2>1. session[s].phase = "engine" /\ DeleteEngine(s)
    BY <1>0, <1>1, StepReported DEF Reported, Removes, Outputs
  <2> QED
    BY <1>0, <2>1, DeleteDestroys DEF Removes
<1>2. ASSUME NEW t \in Sessions \ {s}, Steps(t) PROVE FALSE
  <2>1. session'[s] = session[s]
    BY <1>0, <1>2, StepReported DEF Reported, Outputs
  <2>2. session[s].phase \in Running /\ s \notin overlapped'
    BY <2>1 DEF Removes, Running
  <2> QED
    BY <1>2, <2>2, BesideAlone
<1>3. ASSUME NEW p \in Places, NEW q \in Places, MoveBuild(p, q) PROVE FALSE
  BY <1>3 DEF MoveBuild, Live, Removes, Running
<1>4. CASE UNCHANGED vars
  BY <1>4 DEF vars, Removes, OwnDelete, Working, Line
<1> QED
  BY <1>1, <1>2, <1>3, <1>4, NextSteps

(* A session that ran alone, for the directory that is the cluster's own,  *)
(* removes it when Terraform has destroyed the machines, and not before.   *)
THEOREM DeletesOwnCorrect == Spec => DeletesOwn
<1>1. Init => Outputs /\ OwnDelete
  <2>1. ASSUME Init, NEW s \in Sessions PROVE session[s].phase = "new"
    BY <2>1 DEF Init, Fresh
  <2> QED
    BY <2>1 DEF Outputs, HasOutput, OwnDelete, Removes
<1>2. OwnDelete /\ [Next]_vars
        => [\A s \in Sessions :
              RemoveBuild(s) /\ s \notin overlapped /\ Working(s) = Line(s).build
                => builds[Line(s).build].state = None]_vars
  BY DEF OwnDelete, Removes, RemoveBuild
<1>3. IInv => TypeOK
  BY DEF IInv
<1> QED
  BY <1>1, <1>2, <1>3, OutputsNext, OwnDeleteNext, InvCorrect, PTL DEF Spec, DeletesOwn
=============================================================================
