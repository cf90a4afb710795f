---------------------- MODULE ZookeeperUpgrade_proofs -----------------------
(***************************************************************************)
(* Proofs about ZookeeperUpgrade, for any number of servers and failures   *)
(* at any task, unpacking that is cut off included.                        *)
(***************************************************************************)
EXTENDS ZookeeperUpgrade, TLAPS

(***************************************************************************)
(* What holds of every server all the time, and of the one whose turn it   *)
(* is.                                                                     *)
(***************************************************************************)

(* The old version is there until the link leads to the new one, which is  *)
(* then there, at least in part, with the server's own configuration.      *)
Kept(s) ==
    /\ conf[s]["old"]
    /\ link[s] = "old" => installed[s]["old"] = "whole"
    /\ link[s] = "new" => installed[s]["new"] # "none" /\ conf[s]["new"]

(* A server without a flag runs, unless its unpacking was cut off.         *)
Served(s) == ~flag[s] => up[s] \/ Half(s)

Finished(s)  == ~flag[s] /\ link[s] = "new"
Untouched(s) == ~flag[s] /\ link[s] = "old"

(* The server that is being upgraded, task by task.                        *)
InWork(s) ==
    /\ task = 2        => flag[s] \/ link[s] = "old"
    /\ task \in 3..10  => flag[s]
    /\ task \in 4..9   => ~up[s]
    /\ task \in 5..10  => installed[s]["new"] # "none"
    /\ task = 6        => conf[s]["new"]
    /\ task \in 7..11  => link[s] = "new"
    /\ task \in 8..10  => unit[s] = "link"
    /\ task \in 9..10  => snapshot[s]
    /\ task \in 10..11 => up[s] \/ Half(s)

(* Upgrades reach the servers in their order: where one is not finished,   *)
(* those behind it are untouched.                                          *)
InOrder ==
    /\ \A s \in Servers : cur # 0 /\ s < cur => Finished(s)
    /\ \A s, t \in Servers : s < t => Finished(s) \/ Untouched(t)

IInv ==
    /\ TypeOK
    /\ cur = 0 => task = 1
    /\ \A s \in Servers : Kept(s) /\ Served(s)
    /\ cur # 0 => InWork(cur)
    /\ InOrder

-----------------------------------------------------------------------------
LEMMA TaskNames ==
  ASSUME NEW i \in 1..11
  PROVE  /\ Step(i) = "probe" <=> i = 1
         /\ Step(i) = "flag" <=> i = 2
         /\ Step(i) = "stop" <=> i = 3
         /\ Step(i) = "unarchive" <=> i = 4
         /\ Step(i) = "copy_conf" <=> i = 5
         /\ Step(i) = "link" <=> i = 6
         /\ Step(i) = "unit" <=> i = 7
         /\ Step(i) = "snapshot" <=> i = 8
         /\ Step(i) = "start" <=> i = 9
         /\ Step(i) = "remove_old" <=> i = 10
         /\ Step(i) = "unflag" <=> i = 11
  BY DEF Step, Steps

LEMMA InvInit ==
  ASSUME Assumption, Init
  PROVE  IInv
<1>1. /\ cur = 0 /\ task = 1 /\ before = "old" /\ settled = FALSE
      /\ flag = [s \in Servers |-> FALSE] /\ up = [s \in Servers |-> TRUE]
      /\ link = [s \in Servers |-> "old"]
      /\ unit \in [Servers -> {"link", "old"}] /\ snapshot \in [Servers -> BOOLEAN]
  BY DEF Init
<1>2. installed \in [Servers -> [Versions -> {"none", "part", "whole"}]]
  BY DEF Init, Versions
<1>3. conf \in [Servers -> [Versions -> BOOLEAN]]
  <2> DEFINE f == [v \in Versions |-> v = "old"]
  <2>1. f \in [Versions -> BOOLEAN]
    OBVIOUS
  <2>2. conf = [s \in Servers |-> f]
    BY DEF Init
  <2> HIDE DEF f
  <2> QED
    BY <2>1, <2>2
<1>4. flag \in [Servers -> BOOLEAN] /\ up \in [Servers -> BOOLEAN]
  BY <1>1
<1>5. link \in [Servers -> Versions]
  BY <1>1 DEF Versions
<1>6. cur \in 0..N /\ task \in 1..11
  BY <1>1 DEF Assumption
<1>7. before \in Versions /\ settled \in BOOLEAN
  BY <1>1 DEF Versions
<1>8. TypeOK
  BY <1>1, <1>2, <1>3, <1>4, <1>5, <1>6, <1>7 DEF TypeOK
<1>9. \A s \in Servers : Kept(s) /\ Served(s) /\ Untouched(s)
  BY DEF Init, Kept, Served, Untouched, Versions
<1> QED
  BY <1>1, <1>8, <1>9 DEF IInv, InOrder

(* What a task of an upgrade leaves alone: the run, but for the task, and  *)
(* all other servers.                                                      *)
OnlyCurrent ==
    /\ \A s \in Servers \ {cur} :
         /\ flag'[s] = flag[s] /\ up'[s] = up[s] /\ link'[s] = link[s]
         /\ installed'[s] = installed[s] /\ conf'[s] = conf[s]
    /\ UNCHANGED <<cur, before, settled>>

LEMMA TaskStep ==
  ASSUME Assumption, IInv, cur # 0, task \in 2..10, task' = task + 1,
         OnlyCurrent, TypeOK', Kept(cur)', Served(cur)', InWork(cur)'
  PROVE  IInv'
<1>1. cur \in Servers /\ cur' = cur /\ task' \in 3..11
  BY DEF IInv, TypeOK, Assumption, Servers, OnlyCurrent
<1>2. \A s \in Servers \ {cur} :
        /\ Kept(s)' = Kept(s) /\ Served(s)' = Served(s)
        /\ Finished(s)' = Finished(s) /\ Untouched(s)' = Untouched(s)
  BY DEF OnlyCurrent, Kept, Served, Half, Finished, Untouched
<1>3. \A s \in Servers : Kept(s)' /\ Served(s)'
  BY <1>1, <1>2 DEF IInv
<1>4. \A s \in Servers : s < cur => Finished(s)'
  BY <1>1, <1>2 DEF IInv, InOrder, Servers
<1>5. ~Finished(cur)
  BY DEF IInv, InWork, Finished
<1>6. \A s, t \in Servers : s < t => (Finished(s) \/ Untouched(t))'
  <2> SUFFICES ASSUME NEW s \in Servers, NEW t \in Servers, s < t
               PROVE  Finished(s)' \/ Untouched(t)'
    OBVIOUS
  <2>1. CASE t = cur
    BY <2>1, <1>4
  <2>2. CASE s = cur
    <3>1. Untouched(t) /\ t # cur
      BY <2>2, <1>5 DEF IInv, InOrder, Servers
    <3> QED
      BY <3>1, <1>2
  <2>3. CASE s # cur /\ t # cur
    BY <2>3, <1>2 DEF IInv, InOrder
  <2> QED
    BY <2>1, <2>2, <2>3
<1>7. InOrder'
  BY <1>1, <1>4, <1>6 DEF InOrder
<1> QED
  BY <1>1, <1>3, <1>7 DEF IInv

LEMMA InvTasks ==
  ASSUME Assumption, IInv,
         \/ CreateFlag \/ StopService \/ Unarchive \/ CopyConfiguration \/ Link
         \/ ReconfigureService \/ CopySnapshot \/ StartService \/ RemovePrevious
  PROVE  IInv'
<1> USE DEF At, Proceed, Versions
<1>0. TypeOK /\ cur # 0 /\ cur \in Servers /\ task \in 1..11
  BY DEF IInv, TypeOK, Assumption, Servers, CreateFlag, StopService, Unarchive,
         CopyConfiguration, Link, ReconfigureService, CopySnapshot, StartService, RemovePrevious
<1>1. Kept(cur) /\ Served(cur) /\ InWork(cur)
  BY <1>0 DEF IInv
<1>2. CASE CreateFlag
  <2>1. task = 2 /\ task' = 3
    BY <1>0, <1>2, TaskNames DEF CreateFlag
  <2>2. TypeOK' /\ OnlyCurrent
    BY <1>0, <1>2, <2>1 DEF CreateFlag, TypeOK, OnlyCurrent
  <2>3. Kept(cur)' /\ Served(cur)' /\ InWork(cur)'
    BY <1>0, <1>1, <1>2, <2>1 DEF CreateFlag, TypeOK, Kept, Served, Half, InWork
  <2> QED
    BY <1>0, <2>1, <2>2, <2>3, TaskStep
<1>3. CASE StopService
  <2>1. task = 3 /\ task' = 4
    BY <1>0, <1>3, TaskNames DEF StopService
  <2>2. TypeOK' /\ OnlyCurrent
    BY <1>0, <1>3, <2>1 DEF StopService, TypeOK, OnlyCurrent
  <2>3. Kept(cur)' /\ Served(cur)' /\ InWork(cur)'
    BY <1>0, <1>1, <1>3, <2>1 DEF StopService, TypeOK, Kept, Served, Half, InWork
  <2> QED
    BY <1>0, <2>1, <2>2, <2>3, TaskStep
<1>4. CASE Unarchive
  <2>1. task = 4 /\ task' = 5
    BY <1>0, <1>4, TaskNames DEF Unarchive
  <2>2. TypeOK' /\ OnlyCurrent
    <3>1. CASE installed[cur]["new"] = "none"
      <4>1. /\ installed' = [installed EXCEPT ![cur]["new"] = "whole"]
            /\ conf' = [conf EXCEPT ![cur]["new"] = FALSE]
            /\ UNCHANGED <<flag, up, link, unit, snapshot, cur, before, settled>>
        BY <1>4, <3>1 DEF Unarchive
      <4>2. installed' \in [Servers -> [Versions -> {"none", "part", "whole"}]]
        BY <1>0, <4>1 DEF TypeOK
      <4>3. conf' \in [Servers -> [Versions -> BOOLEAN]]
        <5> DEFINE c == [conf[cur] EXCEPT !["new"] = FALSE]
        <5>1. c \in [Versions -> BOOLEAN]
          BY <1>0 DEF TypeOK
        <5>2. conf' = [conf EXCEPT ![cur] = c]
          BY <4>1
        <5> HIDE DEF c
        <5> QED
          BY <1>0, <5>1, <5>2 DEF TypeOK
      <4>4. OnlyCurrent
        BY <1>0, <4>1 DEF TypeOK, OnlyCurrent
      <4> QED
        BY <1>0, <2>1, <4>1, <4>2, <4>3, <4>4 DEF TypeOK
    <3>2. CASE installed[cur]["new"] # "none"
      BY <1>0, <1>4, <2>1, <3>2 DEF Unarchive, TypeOK, OnlyCurrent
    <3> QED
      BY <3>1, <3>2
  <2>3. Kept(cur)' /\ Served(cur)' /\ InWork(cur)'
    BY <1>0, <1>1, <1>4, <2>1 DEF Unarchive, TypeOK, Kept, Served, Half, InWork
  <2> QED
    BY <1>0, <2>1, <2>2, <2>3, TaskStep
<1>5. CASE CopyConfiguration
  <2>1. task = 5 /\ task' = 6
    BY <1>0, <1>5, TaskNames DEF CopyConfiguration
  <2>2. TypeOK' /\ OnlyCurrent
    BY <1>0, <1>5, <2>1 DEF CopyConfiguration, TypeOK, OnlyCurrent
  <2>3. Kept(cur)' /\ Served(cur)' /\ InWork(cur)'
    BY <1>0, <1>1, <1>5, <2>1 DEF CopyConfiguration, TypeOK, Kept, Served, Half, InWork
  <2> QED
    BY <1>0, <2>1, <2>2, <2>3, TaskStep
<1>6. CASE Link
  <2>1. task = 6 /\ task' = 7
    BY <1>0, <1>6, TaskNames DEF Link
  <2>2. TypeOK' /\ OnlyCurrent
    BY <1>0, <1>6, <2>1 DEF Link, TypeOK, OnlyCurrent
  <2>3. Kept(cur)' /\ Served(cur)' /\ InWork(cur)'
    BY <1>0, <1>1, <1>6, <2>1 DEF Link, TypeOK, Kept, Served, Half, InWork
  <2> QED
    BY <1>0, <2>1, <2>2, <2>3, TaskStep
<1>7. CASE ReconfigureService
  <2>1. task = 7 /\ task' = 8
    BY <1>0, <1>7, TaskNames DEF ReconfigureService
  <2>2. TypeOK' /\ OnlyCurrent
    BY <1>0, <1>7, <2>1 DEF ReconfigureService, TypeOK, OnlyCurrent
  <2>3. Kept(cur)' /\ Served(cur)' /\ InWork(cur)'
    BY <1>0, <1>1, <1>7, <2>1 DEF ReconfigureService, TypeOK, Kept, Served, Half, InWork
  <2> QED
    BY <1>0, <2>1, <2>2, <2>3, TaskStep
<1>8. CASE CopySnapshot
  <2>1. task = 8 /\ task' = 9
    BY <1>0, <1>8, TaskNames DEF CopySnapshot
  <2>2. TypeOK' /\ OnlyCurrent
    BY <1>0, <1>8, <2>1 DEF CopySnapshot, TypeOK, OnlyCurrent
  <2>3. Kept(cur)' /\ Served(cur)' /\ InWork(cur)'
    BY <1>0, <1>1, <1>8, <2>1 DEF CopySnapshot, TypeOK, Kept, Served, Half, InWork
  <2> QED
    BY <1>0, <2>1, <2>2, <2>3, TaskStep
<1>9. CASE StartService
  <2>1. task = 9 /\ task' = 10
    BY <1>0, <1>9, TaskNames DEF StartService
  <2>2. TypeOK' /\ OnlyCurrent
    BY <1>0, <1>9, <2>1 DEF StartService, TypeOK, OnlyCurrent, ComesUp, Runs
  <2>3. Kept(cur)' /\ Served(cur)' /\ InWork(cur)'
    BY <1>0, <1>1, <1>9, <2>1 DEF StartService, TypeOK, Kept, Served, Half, InWork, ComesUp, Runs
  <2> QED
    BY <1>0, <2>1, <2>2, <2>3, TaskStep
<1>10. CASE RemovePrevious
  <2>1. task = 10 /\ task' = 11
    BY <1>0, <1>10, TaskNames DEF RemovePrevious
  <2>2. TypeOK' /\ OnlyCurrent
    BY <1>0, <1>10, <2>1 DEF RemovePrevious, TypeOK, OnlyCurrent
  <2>3. Kept(cur)' /\ Served(cur)' /\ InWork(cur)'
    BY <1>0, <1>1, <1>10, <2>1 DEF RemovePrevious, TypeOK, Kept, Served, Half, InWork
  <2> QED
    BY <1>0, <2>1, <2>2, <2>3, TaskStep
<1> QED
  BY <1>2, <1>3, <1>4, <1>5, <1>6, <1>7, <1>8, <1>9, <1>10

(* A run begins, finds out about a server, or goes on without failures.    *)
LEMMA InvRun ==
  ASSUME Assumption, IInv, StartUpgrade \/ Probe \/ Settle
  PROVE  IInv'
<1>0. TypeOK /\ task \in 1..11 /\ (cur # 0 => cur \in Servers) /\ N \in Nat \ {0}
  BY DEF IInv, TypeOK, Assumption, Servers
<1>1. UNCHANGED host
  BY DEF StartUpgrade, Probe, Settle
<1>2. \A s \in Servers :
        /\ Kept(s)' = Kept(s) /\ Served(s)' = Served(s)
        /\ Finished(s)' = Finished(s) /\ Untouched(s)' = Untouched(s)
  BY <1>1 DEF host, Kept, Served, Half, Finished, Untouched
<1>3. \A s \in Servers : Kept(s)' /\ Served(s)'
  BY <1>2 DEF IInv
<1>4. CASE StartUpgrade
  <2>1. TypeOK'
    BY <1>0, <1>4 DEF StartUpgrade, TypeOK, host
  <2>2. InWork(cur)' /\ InOrder'
    BY <1>0, <1>2, <1>4 DEF StartUpgrade, InWork, InOrder, IInv, Servers
  <2> QED
    BY <1>3, <1>4, <2>1, <2>2 DEF StartUpgrade, IInv
<1>5. CASE Probe
  <2>1. cur \in Servers /\ cur' = cur /\ cur # 0 /\ task = 1
    BY <1>0, <1>5, TaskNames DEF Probe, At
  <2>2. TypeOK'
    BY <1>0, <1>5, <2>1 DEF Probe, TypeOK, host
  <2>3. CASE flag[cur] \/ link[cur] = "old"
    <3>1. task' = 2 /\ ~Finished(cur)
      BY <1>5, <2>1, <2>3 DEF Probe, Finished
    <3>2. InWork(cur)' /\ InOrder'
      BY <1>1, <1>2, <2>1, <2>3, <3>1 DEF InWork, InOrder, IInv, host
    <3> QED
      BY <1>3, <2>1, <2>2, <3>2 DEF IInv
  <2>4. CASE ~(flag[cur] \/ link[cur] = "old")
    <3>1. task' = 11 /\ link[cur] = "new" /\ ~flag[cur]
      BY <1>0, <1>5, <2>1, <2>4 DEF Probe, TypeOK, Versions
    <3>2. up[cur] \/ Half(cur)
      BY <2>1, <3>1 DEF IInv, Served
    <3>3. InWork(cur)' /\ InOrder'
      BY <1>1, <1>2, <2>1, <3>1, <3>2 DEF InWork, Half, InOrder, IInv, host
    <3> QED
      BY <1>3, <2>1, <2>2, <3>3 DEF IInv
  <2> QED
    BY <2>3, <2>4
<1>6. CASE Settle
  <2>1. TypeOK'
    BY <1>0, <1>6 DEF Settle, TypeOK, host
  <2>2. UNCHANGED <<cur, task, before, host>>
    BY <1>6 DEF Settle, host
  <2>3. InOrder' /\ (cur # 0 => InWork(cur)')
    BY <1>2, <2>2 DEF IInv, InOrder, InWork, Half, host
  <2> QED
    BY <1>3, <2>1, <2>2, <2>3 DEF IInv
<1> QED
  BY <1>4, <1>5, <1>6

(* A task fails: at the unpacking, it may leave half an installation.      *)
LEMMA InvFail ==
  ASSUME Assumption, IInv, Fail
  PROVE  IInv'
<1> PICK k \in Servers : k = cur
  BY DEF IInv, TypeOK, Assumption, Servers, Fail
<1>0. TypeOK /\ task \in 1..11 /\ N \in Nat \ {0} /\ InWork(k) /\ cur' = 0 /\ task' = 1
  BY DEF IInv, TypeOK, Assumption, Fail
<1>1. UNCHANGED <<flag, up, link, conf, unit, snapshot>>
  BY DEF Fail
<1>2. \A s \in Servers :
        /\ installed'[s]["old"] = installed[s]["old"]
        /\ installed'[s]["new"] = installed[s]["new"]
             \/ (s = k /\ installed[s]["new"] = "none" /\ installed'[s]["new"] = "part")
  BY <1>0 DEF Fail, TypeOK, Versions
<1>3. installed' \in [Servers -> [Versions -> {"none", "part", "whole"}]]
  <2>1. CASE installed' = installed
    BY <1>0, <2>1 DEF TypeOK
  <2>2. CASE installed' = [installed EXCEPT ![cur]["new"] = "part"]
    BY <1>0, <2>2 DEF TypeOK, Versions
  <2> QED
    BY <2>1, <2>2 DEF Fail
<1>4. TypeOK'
  BY <1>0, <1>1, <1>3 DEF Fail, TypeOK
<1>5. \A s \in Servers : Kept(s)' /\ Served(s)'
  BY <1>1, <1>2 DEF IInv, Kept, Served, Half
<1>6. \A s \in Servers : Finished(s)' = Finished(s) /\ Untouched(s)' = Untouched(s)
  BY <1>1 DEF Finished, Untouched
<1> QED
  BY <1>0, <1>4, <1>5, <1>6 DEF IInv, InOrder

(* A server's turn ends.                                                   *)
LEMMA InvRemoveFlag ==
  ASSUME Assumption, IInv, RemoveFlag
  PROVE  IInv'
<1> PICK k \in Servers : k = cur
  BY DEF IInv, TypeOK, Assumption, Servers, RemoveFlag, At
<1>0. TypeOK /\ task = 11 /\ N \in Nat \ {0} /\ InWork(k)
  BY TaskNames DEF IInv, TypeOK, Assumption, RemoveFlag, At
<1>1. TypeOK' /\ task' = 1
  BY <1>0 DEF RemoveFlag, NextServer, TypeOK, Servers
<1>2. Finished(k)' /\ Served(k)'
  BY <1>0 DEF RemoveFlag, InWork, TypeOK, Finished, Served, Half
<1>3. \A s \in Servers \ {k} :
        Finished(s)' = Finished(s) /\ Untouched(s)' = Untouched(s) /\ Served(s)' = Served(s)
  BY <1>0 DEF RemoveFlag, TypeOK, Finished, Untouched, Served, Half
<1>4. \A s \in Servers : Kept(s)' /\ Served(s)'
  <2>1. \A s \in Servers : Kept(s)' = Kept(s)
    BY DEF RemoveFlag, Kept
  <2> QED
    BY <2>1, <1>2, <1>3 DEF IInv
<1>5. InWork(cur)'
  BY <1>1 DEF InWork
<1>6. \A s \in Servers : s <= k => Finished(s)'
  <2>1. \A s \in Servers : s < k => Finished(s)
    BY <1>0 DEF IInv, InOrder, Servers
  <2> QED
    BY <2>1, <1>2, <1>3 DEF Servers
<1>7. \A s, t \in Servers : s < t => (Finished(s) \/ Untouched(t))'
  <2> SUFFICES ASSUME NEW s \in Servers, NEW t \in Servers, s < t
               PROVE  Finished(s)' \/ Untouched(t)'
    OBVIOUS
  <2>1. CASE s <= k
    BY <2>1, <1>6
  <2>2. CASE ~(s <= k)
    <3>1. s # k /\ t # k
      BY <2>2 DEF Servers
    <3> QED
      BY <3>1, <1>3 DEF IInv, InOrder
  <2> QED
    BY <2>1, <2>2
<1>8. \A s \in Servers : cur' # 0 /\ s < cur' => Finished(s)'
  BY <1>0, <1>6 DEF RemoveFlag, NextServer, Servers
<1> QED
  BY <1>1, <1>4, <1>5, <1>7, <1>8 DEF IInv, InOrder

LEMMA InvNext ==
  ASSUME Assumption, IInv, [Next]_vars
  PROVE  IInv'
<1>1. CASE UNCHANGED vars
  BY <1>1 DEF vars, IInv, TypeOK, Kept, Served, Half, InWork, InOrder, Finished, Untouched
<1> QED
  BY <1>1, InvTasks, InvRun, InvFail, InvRemoveFlag DEF Next, Tasks

LEMMA InvCorrect ==
  ASSUME Assumption
  PROVE  Spec => []IInv
<1>1. Init => IInv
  BY InvInit
<1>2. IInv /\ [Next]_vars => IInv'
  BY InvNext
<1> QED
  BY <1>1, <1>2, PTL DEF Spec

-----------------------------------------------------------------------------
(* Whichever tasks fail, a server keeps a whole installation with its own  *)
(* configuration that it can be started from, or its unpacking was cut     *)
(* off.                                                                    *)
THEOREM AlwaysStartableCorrect ==
  ASSUME Assumption
  PROVE  Spec => []AlwaysStartable
<1>1. IInv => AlwaysStartable
  <2> SUFFICES ASSUME IInv, NEW s \in Servers
               PROVE  \/ Half(s)
                      \/ \E v \in Versions : /\ installed[s][v] = "whole"
                                             /\ conf[s][v]
                                             /\ (v = "old" \/ link[s] = "new")
    BY DEF AlwaysStartable
  <2>1. Kept(s) /\ link[s] \in Versions /\ installed[s]["new"] \in {"none", "part", "whole"}
    BY DEF IInv, TypeOK, Versions
  <2> QED
    BY <2>1 DEF Kept, Half, Versions
<1> QED
  BY <1>1, InvCorrect, PTL

(* Nor does a server ever run with the stock configuration of an archive.  *)
THEOREM OwnConfigurationCorrect ==
  ASSUME Assumption
  PROVE  Spec => []OwnConfiguration
<1>1. IInv => OwnConfiguration
  <2> SUFFICES ASSUME IInv, NEW s \in Servers
               PROVE  conf[s][Runs(s)]
    BY DEF OwnConfiguration
  <2>1. Kept(s) /\ link[s] \in {"old", "new"}
    BY DEF IInv, TypeOK, Versions
  <2> QED
    BY <2>1 DEF Kept, Runs
<1> QED
  BY <1>1, InvCorrect, PTL

(* The play leaves no dead server behind: where the flag is gone, the      *)
(* server runs, or its unpacking was cut off.                              *)
THEOREM FinishedRunsCorrect ==
  ASSUME Assumption
  PROVE  Spec => []FinishedRuns
<1>1. IInv => FinishedRuns
  BY DEF IInv, Served, FinishedRuns
<1> QED
  BY <1>1, InvCorrect, PTL

-----------------------------------------------------------------------------
(* A step of the play is one of the rolling upgrade, or changes neither    *)
(* versions nor what runs, as long as no unpacking was cut off.            *)
LEMMA RollingStep ==
  ASSUME Assumption, IInv, [Next]_vars
  PROVE  [Rolling!UpgradeNext \/ \E s \in Servers : Half(s)]_<<link, up>>
<1> SUFFICES ASSUME \A s \in Servers : ~Half(s)
             PROVE  [Rolling!UpgradeNext]_<<link, up>>
  OBVIOUS
<1> USE DEF Rolling!UpgradeNext, At
<1>0. TypeOK /\ task \in 1..11 /\ (cur # 0 => cur \in Servers /\ InWork(cur))
  BY DEF IInv, TypeOK, Assumption, Servers
<1>1. CASE StopService
  <2>1. cur \in Servers /\ task = 3 /\ flag[cur]
    BY <1>0, <1>1, TaskNames DEF StopService, InWork
  <2>2. \A other \in Servers \ {cur} : ~flag[other]
    BY <2>1 DEF IInv, InOrder, Finished, Untouched, Servers
  <2>3. \A other \in Servers \ {cur} : up[other]
    BY <2>2 DEF IInv, Served
  <2>4. Rolling!TakeDown(cur)
    BY <1>1, <2>3 DEF StopService, Rolling!TakeDown
  <2> QED
    BY <2>1, <2>4
<1>2. CASE Link
  <2>1. cur \in Servers /\ task = 6 /\ ~up[cur]
    BY <1>0, <1>2, TaskNames DEF Link, InWork
  <2>2. Rolling!Replace(cur)
    BY <1>2, <2>1 DEF Link, Rolling!Replace
  <2> QED
    BY <2>1, <2>2
<1>3. CASE StartService
  <2>1. cur \in Servers /\ task = 9 /\ ~up[cur] /\ link[cur] = "new"
    BY <1>0, <1>3, TaskNames DEF StartService, InWork
  <2>2. CASE ComesUp
    <3>1. Rolling!BringUp(cur)
      BY <1>3, <2>1, <2>2 DEF StartService, Rolling!BringUp
    <3> QED
      BY <2>1, <3>1
  <2>3. CASE ~ComesUp
    <3>1. up' = [up EXCEPT ![cur] = ComesUp] /\ link' = link
      BY <1>3 DEF StartService
    <3>2. up' \in [Servers -> BOOLEAN] /\ up \in [Servers -> BOOLEAN] /\ ComesUp = FALSE
      BY <1>0, <2>3, <3>1 DEF TypeOK, ComesUp
    <3>3. \A s \in Servers : up'[s] = up[s]
      BY <2>1, <3>1, <3>2
    <3>4. up' = up
      BY <3>2, <3>3
    <3> QED
      BY <3>1, <3>4
  <2> QED
    BY <2>2, <2>3
<1>4. CASE UNCHANGED <<link, up>>
  BY <1>4
<1>5. StopService \/ Link \/ StartService \/ UNCHANGED <<link, up>>
  BY DEF Next, Tasks, vars, host, StartUpgrade, Probe, CreateFlag, Unarchive,
         CopyConfiguration, ReconfigureService, CopySnapshot, RemovePrevious, RemoveFlag, Fail,
         Settle
<1> QED
  BY <1>1, <1>2, <1>3, <1>4, <1>5

(* The play implements RollingUpgrade, through any failures and new        *)
(* starts, until an unpacking was cut off.                                 *)
THEOREM KeepsRollingCorrect ==
  ASSUME Assumption
  PROVE  Spec => KeepsRolling
<1>1. Init => Rolling!UpgradeInit
  BY DEF Init, Rolling!UpgradeInit
<1>2. IInv /\ [Next]_vars => [Rolling!UpgradeNext \/ \E s \in Servers : Half(s)]_<<link, up>>
  BY RollingStep
<1> QED
  BY InvCorrect, <1>1, <1>2, PTL DEF Spec, KeepsRolling
=============================================================================
