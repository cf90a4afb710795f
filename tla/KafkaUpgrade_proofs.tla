------------------------ MODULE KafkaUpgrade_proofs -------------------------
(***************************************************************************)
(* Proofs about KafkaUpgrade, for any number of brokers and whichever      *)
(* tasks fail: up to the link to the new directory, where starting over    *)
(* repairs everything, and behind it, where it removes the binaries.       *)
(***************************************************************************)
EXTENDS KafkaUpgrade, TLAPS

(***************************************************************************)
(* What holds of a broker between its turns, and what of the broker whose  *)
(* turn it is.                                                             *)
(***************************************************************************)

(* A broker that has had its turn, and one that no turn has touched.       *)
Finished(b)  == up[b] /\ ~flag[b] /\ link[b] = "new"
Untouched(b) == up[b] /\ ~flag[b] /\ link[b] = "old"

(* What it runs from is there, and its own; it keeps the old binaries, its *)
(* configuration in them and their protocol until the link leaves them.    *)
Kept(b) ==
    /\ up[b] => link[b] \in installed[b] /\ config[b][link[b]].own
    /\ link[b] = "old" => /\ "old" \in installed[b]
                         /\ config[b]["old"].own
                         /\ config[b]["old"].protocol # "new"

(* A broker that is down has its flag.                                     *)
AtRest(b) == ~up[b] => flag[b]

BeforeLink == {"flag", "stop", "properties", "unarchive", "copy_config", "link"}
BehindLink == {"remove_old", "log_dirs", "set_version", "start"}
Unpacked   == {"copy_config", "link", "remove_old"}

(* The broker that is being upgraded, task by task.  Of a link that leads  *)
(* to the new directory already, the play takes the new version for the    *)
(* old one, and gets no further than log_dirs.                             *)
InWork(b) ==
    /\ step \in BeforeLink => oldVersion = link[b] /\ AtRest(b)
    /\ step \in (BeforeLink \ {"flag"}) \cup BehindLink => flag[b]
    /\ step \in (BeforeLink \ {"flag", "stop"}) \cup BehindLink => ~up[b]
    /\ step \in Unpacked => "new" \in installed[b]
    /\ step = "link" /\ oldVersion = "old" => config[b]["new"].own
    /\ step \in BehindLink \cup {"unflag"} => link[b] = "new"
    /\ step \in BehindLink /\ oldVersion = "old" => "new" \in installed[b] /\ config[b]["new"].own
    /\ step = "log_dirs" /\ oldVersion = "new" => "new" \notin installed[b]
    /\ step \in {"set_version", "start"} => oldVersion = "old"
    /\ step = "unflag" => up[b]

(* Upgrades reach the brokers in their order: where one is not untouched,  *)
(* all before it are finished.                                             *)
InOrder ==
    /\ \A b \in Brokers : cur # 0 /\ b < cur => Finished(b)
    /\ \A b, c \in Brokers :
         b < c /\ (b # cur \/ step = "probe") => Finished(b) \/ Untouched(c)
    /\ cur # 0 /\ step \in BeforeLink \cup BehindLink =>
         \A c \in Brokers : cur < c => Untouched(c)
    /\ cur # 0 /\ step = "unflag" =>
         Finished(cur) \/ \A c \in Brokers : cur < c => Untouched(c)

IInv ==
    /\ TypeOK
    /\ cur = 0 => step = "probe"
    /\ \A b \in Brokers : Kept(b)
    /\ \A b \in Brokers : b # cur \/ step = "probe" => AtRest(b)
    /\ cur # 0 => InWork(cur)
    /\ InOrder

-----------------------------------------------------------------------------
LEMMA TaskAfterTask ==
    /\ TaskAfter("flag") = "stop"
    /\ TaskAfter("stop") = "properties"
    /\ TaskAfter("properties") = "unarchive"
    /\ TaskAfter("unarchive") = "copy_config"
    /\ TaskAfter("copy_config") = "link"
    /\ TaskAfter("link") = "remove_old"
    /\ TaskAfter("remove_old") = "log_dirs"
    /\ TaskAfter("log_dirs") = "set_version"
    /\ TaskAfter("set_version") = "start"
    /\ TaskAfter("start") = "unflag"
  BY DEF TaskAfter

LEMMA InvInit ==
  ASSUME Assumption, Init
  PROVE  IInv
<1>0. \A v \in Versions : [Stock EXCEPT !.own = (v = "old")] \in Properties
  BY DEF Stock, Properties, Versions
<1>1. config \in [Brokers -> [Versions -> Properties]]
  <2> DEFINE f == [v \in Versions |-> [Stock EXCEPT !.own = (v = "old")]]
  <2>1. f \in [Versions -> Properties]
    BY <1>0
  <2>2. config = [b \in Brokers |-> f]
    BY DEF Init
  <2> HIDE DEF f
  <2> QED
    BY <2>1, <2>2
<1>2. /\ cur \in 0..N /\ step \in Steps /\ oldVersion \in Versions /\ settled \in BOOLEAN
      /\ flag \in [Brokers -> BOOLEAN] /\ up \in [Brokers -> BOOLEAN]
      /\ link \in [Brokers -> Versions] /\ installed \in [Brokers -> SUBSET Versions]
  <2>1. N \in Nat
    BY DEF Assumption
  <2>2. /\ cur = 0 /\ step = "probe" /\ oldVersion = "old" /\ settled = FALSE
        /\ flag = [b \in Brokers |-> FALSE] /\ up = [b \in Brokers |-> TRUE]
        /\ link = [b \in Brokers |-> "old"] /\ installed = [b \in Brokers |-> {"old"}]
    BY DEF Init
  <2>3. flag \in [Brokers -> BOOLEAN] /\ up \in [Brokers -> BOOLEAN]
    BY <2>2
  <2>4. link \in [Brokers -> Versions] /\ installed \in [Brokers -> SUBSET Versions]
    BY <2>2 DEF Versions
  <2>5. cur \in 0..N
    BY <2>1, <2>2
  <2>6. step \in Steps /\ oldVersion \in Versions /\ settled \in BOOLEAN
    BY <2>2 DEF Steps, Versions
  <2> QED
    BY <2>3, <2>4, <2>5, <2>6
<1>3. \A b \in Brokers : Kept(b) /\ AtRest(b) /\ Untouched(b)
  BY DEF Init, Kept, AtRest, Untouched, Versions, Stock
<1>4. TypeOK
  BY <1>1, <1>2 DEF TypeOK
<1> QED
  BY <1>3, <1>4 DEF Init, IInv, InOrder

(* What a task of an upgrade leaves alone: the run, but for the task, and  *)
(* all other brokers.                                                      *)
OnlyCurrent ==
    /\ \A b \in Brokers \ {cur} :
         /\ flag'[b] = flag[b] /\ up'[b] = up[b] /\ link'[b] = link[b]
         /\ installed'[b] = installed[b] /\ config'[b] = config[b]
    /\ UNCHANGED <<cur, oldVersion, settled>>

LEMMA TaskStep ==
  ASSUME Assumption, IInv, cur # 0, step \in BeforeLink \cup BehindLink, step' = TaskAfter(step),
         OnlyCurrent, TypeOK', Kept(cur)', InWork(cur)'
  PROVE  IInv'
<1>1. cur \in Brokers
  BY DEF IInv, TypeOK, Assumption, Brokers
<1>2. step' \in BeforeLink \cup BehindLink \cup {"unflag"} /\ step' # "probe"
  BY TaskAfterTask DEF BeforeLink, BehindLink
<1>3. \A b \in Brokers \ {cur} :
        /\ Kept(b)' = Kept(b) /\ AtRest(b)' = AtRest(b)
        /\ Finished(b)' = Finished(b) /\ Untouched(b)' = Untouched(b)
  BY DEF OnlyCurrent, Kept, AtRest, Finished, Untouched
<1>4. \A b \in Brokers : Kept(b)'
  BY <1>1, <1>3 DEF IInv, OnlyCurrent
<1>5. \A b \in Brokers : b # cur => AtRest(b)'
  BY <1>3 DEF IInv
<1>6. \A b \in Brokers : b < cur => Finished(b)'
  BY <1>1, <1>3 DEF IInv, InOrder, Brokers
<1>7. \A c \in Brokers : cur < c => Untouched(c)'
  BY <1>1, <1>3 DEF IInv, InOrder, Brokers
<1>8. \A b, c \in Brokers : b < c /\ b # cur => (Finished(b) \/ Untouched(c))'
  <2> SUFFICES ASSUME NEW b \in Brokers, NEW c \in Brokers, b < c, b # cur
               PROVE  Finished(b)' \/ Untouched(c)'
    OBVIOUS
  <2>1. CASE c = cur
    BY <2>1, <1>6
  <2>2. CASE c # cur
    BY <2>2, <1>3 DEF IInv, InOrder
  <2> QED
    BY <2>1, <2>2
<1>9. InOrder'
  BY <1>2, <1>6, <1>7, <1>8 DEF InOrder, OnlyCurrent
<1> QED
  BY <1>2, <1>4, <1>5, <1>9 DEF IInv, OnlyCurrent

(* The tasks before the link to the new directory.                         *)
LEMMA InvBeforeLink ==
  ASSUME Assumption, IInv,
         CreateFlag \/ StopService \/ UpdateProperties \/ Unarchive \/ CopyConfiguration
  PROVE  IInv'
<1> USE DEF At, Proceed, BeforeLink, BehindLink, Unpacked, Steps, Versions, Properties, Stock
<1>0. TypeOK /\ cur # 0 /\ cur \in Brokers
  BY DEF IInv, TypeOK, Assumption, Brokers, CreateFlag, StopService,
         UpdateProperties, Unarchive, CopyConfiguration
<1>1. Kept(cur) /\ InWork(cur)
  BY <1>0 DEF IInv
<1>2. CASE CreateFlag
  <2>1. TypeOK' /\ OnlyCurrent
    BY <1>0, <1>2, TaskAfterTask DEF CreateFlag, TypeOK, OnlyCurrent
  <2>2. Kept(cur)' /\ InWork(cur)'
    BY <1>0, <1>1, <1>2, TaskAfterTask DEF CreateFlag, TypeOK, Kept, InWork, AtRest
  <2> QED
    BY <1>0, <1>2, <2>1, <2>2, TaskStep DEF CreateFlag
<1>3. CASE StopService
  <2>1. TypeOK' /\ OnlyCurrent
    BY <1>0, <1>3, TaskAfterTask DEF StopService, TypeOK, OnlyCurrent
  <2>2. Kept(cur)' /\ InWork(cur)'
    BY <1>0, <1>1, <1>3, TaskAfterTask DEF StopService, TypeOK, Kept, InWork, AtRest
  <2> QED
    BY <1>0, <1>3, <2>1, <2>2, TaskStep DEF StopService
<1>4. CASE UpdateProperties
  <2>1. TypeOK' /\ OnlyCurrent
    BY <1>0, <1>4, TaskAfterTask DEF UpdateProperties, TypeOK, OnlyCurrent
  <2>2. Kept(cur)' /\ InWork(cur)'
    BY <1>0, <1>1, <1>4, TaskAfterTask DEF UpdateProperties, TypeOK, Kept, InWork, AtRest
  <2> QED
    BY <1>0, <1>4, <2>1, <2>2, TaskStep DEF UpdateProperties
<1>5. CASE Unarchive
  <2>1. TypeOK' /\ OnlyCurrent
    BY <1>0, <1>5, TaskAfterTask DEF Unarchive, TypeOK, OnlyCurrent
  <2>2. Kept(cur)' /\ InWork(cur)'
    BY <1>0, <1>1, <1>5, TaskAfterTask DEF Unarchive, TypeOK, Kept, InWork, AtRest
  <2> QED
    BY <1>0, <1>5, <2>1, <2>2, TaskStep DEF Unarchive
<1>6. CASE CopyConfiguration
  <2>1. TypeOK' /\ OnlyCurrent
    BY <1>0, <1>6, TaskAfterTask DEF CopyConfiguration, TypeOK, OnlyCurrent
  <2>2. Kept(cur)' /\ InWork(cur)'
    BY <1>0, <1>1, <1>6, TaskAfterTask DEF CopyConfiguration, TypeOK, Kept, InWork, AtRest
  <2> QED
    BY <1>0, <1>6, <2>1, <2>2, TaskStep DEF CopyConfiguration
<1> QED
  BY <1>2, <1>3, <1>4, <1>5, <1>6

(* The link and the tasks behind it.                                       *)
LEMMA InvBehindLink ==
  ASSUME Assumption, IInv,
         Link \/ RemovePrevious \/ LogDirs \/ SetVersion \/ StartService
  PROVE  IInv'
<1> USE DEF At, Proceed, BeforeLink, BehindLink, Unpacked, Steps, Versions, Properties, Stock
<1>0. TypeOK /\ cur # 0 /\ cur \in Brokers
  BY DEF IInv, TypeOK, Assumption, Brokers, Link, RemovePrevious, LogDirs,
         SetVersion, StartService
<1>1. Kept(cur) /\ InWork(cur)
  BY <1>0 DEF IInv
<1>2. CASE Link
  <2>1. TypeOK' /\ OnlyCurrent
    BY <1>0, <1>2, TaskAfterTask DEF Link, TypeOK, OnlyCurrent
  <2>2. Kept(cur)' /\ InWork(cur)'
    BY <1>0, <1>1, <1>2, TaskAfterTask DEF Link, TypeOK, Kept, InWork, AtRest
  <2> QED
    BY <1>0, <1>2, <2>1, <2>2, TaskStep DEF Link
<1>3. CASE RemovePrevious
  <2>1. TypeOK' /\ OnlyCurrent
    BY <1>0, <1>3, TaskAfterTask DEF RemovePrevious, TypeOK, OnlyCurrent
  <2>2. Kept(cur)' /\ InWork(cur)'
    BY <1>0, <1>1, <1>3, TaskAfterTask DEF RemovePrevious, TypeOK, Kept, InWork, AtRest
  <2> QED
    BY <1>0, <1>3, <2>1, <2>2, TaskStep DEF RemovePrevious
<1>4. CASE LogDirs
  <2>1. TypeOK' /\ OnlyCurrent
    BY <1>0, <1>4, TaskAfterTask DEF LogDirs, TypeOK, OnlyCurrent, host
  <2>2. Kept(cur)' /\ InWork(cur)'
    BY <1>0, <1>1, <1>4, TaskAfterTask DEF LogDirs, Present, TypeOK, Kept, InWork, AtRest, host
  <2> QED
    BY <1>0, <1>4, <2>1, <2>2, TaskStep DEF LogDirs
<1>5. CASE SetVersion
  <2>1. TypeOK' /\ OnlyCurrent
    BY <1>0, <1>5, TaskAfterTask DEF SetVersion, TypeOK, OnlyCurrent
  <2>2. Kept(cur)' /\ InWork(cur)'
    BY <1>0, <1>1, <1>5, TaskAfterTask DEF SetVersion, TypeOK, Kept, InWork, AtRest
  <2> QED
    BY <1>0, <1>5, <2>1, <2>2, TaskStep DEF SetVersion
<1>6. CASE StartService
  <2>1. TypeOK' /\ OnlyCurrent
    BY <1>0, <1>6, TaskAfterTask DEF StartService, TypeOK, OnlyCurrent
  <2>2. Kept(cur)' /\ InWork(cur)'
    BY <1>0, <1>1, <1>6, TaskAfterTask DEF StartService, TypeOK, Kept, InWork, AtRest
  <2> QED
    BY <1>0, <1>6, <2>1, <2>2, TaskStep DEF StartService
<1> QED
  BY <1>2, <1>3, <1>4, <1>5, <1>6

(* A run begins, finds out about a broker, or fails.                       *)
LEMMA InvRun ==
  ASSUME Assumption, IInv, StartUpgrade \/ Probe \/ Fail \/ Settle
  PROVE  IInv'
<1> USE DEF At, BeforeLink, BehindLink, Unpacked, Steps, Versions
<1>0. TypeOK /\ (cur # 0 => cur \in Brokers) /\ N \in Nat \ {0}
  BY DEF IInv, TypeOK, Assumption, Brokers
<1>1. UNCHANGED host
  BY DEF StartUpgrade, Probe, Fail, Settle
<1>2. \A b \in Brokers :
        /\ Kept(b)' = Kept(b) /\ AtRest(b)' = AtRest(b)
        /\ Finished(b)' = Finished(b) /\ Untouched(b)' = Untouched(b)
  BY <1>1 DEF host, Kept, AtRest, Finished, Untouched
<1>3. \A b \in Brokers : Kept(b)'
  BY <1>2 DEF IInv
<1>4. CASE StartUpgrade
  <2>1. TypeOK'
    BY <1>0, <1>4 DEF StartUpgrade, TypeOK, host
  <2>2. InWork(cur)' /\ InOrder'
    BY <1>0, <1>2, <1>4 DEF StartUpgrade, InWork, InOrder, IInv, Brokers
  <2> QED
    BY <1>2, <1>3, <1>4, <2>1, <2>2 DEF StartUpgrade, IInv
<1>5. CASE Probe
  <2>1. TypeOK'
    BY <1>0, <1>5 DEF Probe, TypeOK, host
  <2>2. cur \in Brokers /\ AtRest(cur) /\ Kept(cur) /\ cur' = cur /\ cur # 0 /\ step = "probe"
    BY <1>0, <1>5 DEF Probe, IInv
  <2>3. CASE flag[cur] \/ link[cur] = "old"
    <3>1. step' = "flag" /\ oldVersion' = link[cur] /\ ~Finished(cur)
      BY <1>5, <2>2, <2>3 DEF Probe, AtRest, Finished
    <3>2. InWork(cur)'
      BY <1>2, <2>2, <3>1, <1>1 DEF InWork, host
    <3>3. InOrder'
      BY <1>2, <2>2, <3>1 DEF InOrder, IInv
    <3> QED
      BY <1>2, <1>3, <2>1, <2>2, <3>2, <3>3 DEF IInv
  <2>4. CASE ~(flag[cur] \/ link[cur] = "old")
    <3>1. step' = "unflag" /\ link[cur] = "new" /\ up[cur]
      BY <1>0, <1>5, <2>2, <2>4 DEF Probe, AtRest, TypeOK
    <3>2. InWork(cur)'
      BY <2>2, <3>1, <1>1 DEF InWork, host
    <3>3. InOrder'
      BY <1>2, <2>2, <3>1 DEF InOrder, IInv
    <3> QED
      BY <1>2, <1>3, <2>1, <2>2, <3>2, <3>3 DEF IInv
  <2> QED
    BY <2>3, <2>4
<1>6. CASE Fail
  <2>1. TypeOK'
    BY <1>0, <1>6 DEF Fail, TypeOK, host
  <2>2. cur \in Brokers /\ step \in Steps
    BY <1>0, <1>6 DEF Fail, IInv, TypeOK
  <2>3. AtRest(cur)
    BY <2>2, <1>6 DEF Fail, IInv, InWork, AtRest
  <2>4. InOrder'
    BY <1>0, <1>2, <1>6, <2>2 DEF Fail, InOrder, IInv, Brokers
  <2> QED
    BY <1>2, <1>3, <1>6, <2>1, <2>3, <2>4 DEF Fail, IInv
<1>7. CASE Settle
  <2>1. TypeOK'
    BY <1>0, <1>7 DEF Settle, TypeOK, host, run
  <2>2. UNCHANGED <<cur, step, oldVersion, host>>
    BY <1>7 DEF Settle, run, host
  <2>3. InOrder' /\ (cur # 0 => InWork(cur)')
    BY <1>0, <1>2, <2>2 DEF IInv, InOrder, InWork, AtRest, host
  <2> QED
    BY <1>2, <1>3, <2>1, <2>2, <2>3 DEF IInv
<1> QED
  BY <1>4, <1>5, <1>6, <1>7

(* A broker's turn ends.                                                   *)
LEMMA InvRemoveFlag ==
  ASSUME Assumption, IInv, RemoveFlag
  PROVE  IInv'
<1>0. TypeOK /\ cur \in Brokers /\ N \in Nat \ {0} /\ InWork(cur)
  BY DEF IInv, TypeOK, Assumption, Brokers, RemoveFlag, At
<1>1. TypeOK'
  BY <1>0 DEF RemoveFlag, NextBroker, TypeOK, Steps, Brokers
<1> PICK k \in Brokers : k = cur
  BY <1>0
<1>2. up[k] /\ link[k] = "new" /\ ~flag'[k]
  BY <1>0 DEF RemoveFlag, InWork, TypeOK, At
<1>3. Finished(k)' /\ AtRest(k)'
  BY <1>2 DEF RemoveFlag, Finished, AtRest
<1>4. \A b \in Brokers \ {k} :
        AtRest(b)' = AtRest(b) /\ Finished(b)' = Finished(b) /\ Untouched(b)' = Untouched(b)
  BY <1>0 DEF RemoveFlag, AtRest, Finished, Untouched, TypeOK
<1>5. \A b \in Brokers : Kept(b)' /\ AtRest(b)'
  <2>1. \A b \in Brokers : Kept(b)' = Kept(b)
    BY DEF RemoveFlag, Kept
  <2> QED
    BY <2>1, <1>3, <1>4 DEF IInv
<1>6. cur' # 0 => InWork(cur)'
  BY DEF RemoveFlag, NextBroker, InWork, BeforeLink, BehindLink, Unpacked
<1>7. \A b \in Brokers : b <= k => Finished(b)'
  <2>1. \A b \in Brokers : b < k => Finished(b)
    BY <1>0 DEF IInv, InOrder, Brokers
  <2> QED
    BY <2>1, <1>3, <1>4 DEF Brokers
<1>8. \A b, c \in Brokers : b < c => (Finished(b) \/ Untouched(c))'
  <2> SUFFICES ASSUME NEW b \in Brokers, NEW c \in Brokers, b < c
               PROVE  Finished(b)' \/ Untouched(c)'
    OBVIOUS
  <2>1. CASE b <= k
    BY <2>1, <1>7
  <2>2. CASE ~(b <= k)
    <3>1. b # cur /\ b # k /\ c # k
      BY <2>2, <1>0 DEF Brokers
    <3> QED
      BY <3>1, <1>4 DEF IInv, InOrder
  <2> QED
    BY <2>1, <2>2
<1>9. \A b \in Brokers : cur' # 0 /\ b < cur' => Finished(b)'
  BY <1>0, <1>7 DEF RemoveFlag, NextBroker, Brokers
<1>10. InOrder' /\ step' = "probe"
  BY <1>8, <1>9 DEF InOrder, RemoveFlag, NextBroker, BeforeLink, BehindLink
<1> QED
  BY <1>1, <1>5, <1>6, <1>10 DEF IInv

LEMMA InvNext ==
  ASSUME Assumption, IInv, [Next]_vars
  PROVE  IInv'
<1>1. CASE UNCHANGED vars
  BY <1>1 DEF vars, IInv, TypeOK, Kept, AtRest, InWork, InOrder, Finished, Untouched
<1> QED
  BY <1>1, InvBeforeLink, InvBehindLink, InvRun, InvRemoveFlag DEF Next, Tasks

LEMMA InvCorrect ==
  ASSUME Assumption
  PROVE  Spec => []IInv
<1>1. Init => IInv
  BY InvInit
<1>2. IInv /\ [Next]_vars => IInv'
  BY InvNext
<1> QED
  BY <1>1, <1>2, PTL DEF Spec

-----------------------------------------------------------------------------
(* Where the upgrades reach the brokers in their order, a loss is contained.*)
LEMMA InvContains ==
  ASSUME Assumption, IInv
  PROVE  LossContained
<1> SUFFICES ASSUME NEW b \in Brokers, link[b] \notin installed[b]
             PROVE  /\ ~up[b] /\ flag[b]
                    /\ \A other \in Brokers \ {b} : up[other]
  BY DEF LossContained
<1>1. ~up[b] /\ link[b] = "new" /\ cur \in 0..N /\ step \in Steps
  BY DEF IInv, TypeOK, Kept, Versions
<1>2. ~Finished(b) /\ ~Untouched(b)
  BY <1>1 DEF Finished, Untouched
<1>3. flag[b]
  BY <1>1 DEF IInv, AtRest, InWork, Steps, BeforeLink, BehindLink
<1>4. ASSUME NEW other \in Brokers \ {b}
      PROVE  up[other]
  <2>1. CASE b < other /\ (b # cur \/ step = "probe")
    BY <1>2, <1>4, <2>1 DEF IInv, InOrder, Untouched
  <2>2. CASE b < other /\ b = cur /\ step # "probe"
    BY <1>1, <1>4, <2>2 DEF IInv, InOrder, InWork, Untouched, Steps, BeforeLink,
       BehindLink, Brokers
  <2>3. CASE other < b /\ (other # cur \/ step = "probe")
    BY <1>2, <1>4, <2>3 DEF IInv, InOrder, Finished
  <2>4. CASE other < b /\ other = cur /\ step # "probe"
    BY <1>1, <1>2, <1>4, <2>4 DEF IInv, InOrder, InWork, Steps, BeforeLink,
       BehindLink, Brokers
  <2> QED
    BY <1>4, <2>1, <2>2, <2>3, <2>4 DEF Brokers
<1> QED
  BY <1>1, <1>3, <1>4

(* Whatever tasks fail, and however often the upgrade is started over: a   *)
(* broker whose binaries are gone is down and has its flag, and all other  *)
(* brokers run, from binaries that are there.                              *)
THEOREM LossContainedCorrect ==
  ASSUME Assumption
  PROVE  Spec => []LossContained
<1>1. IInv => LossContained
  BY InvContains
<1> QED
  BY <1>1, InvCorrect, PTL

(* Nor does a broker ever run with the stock configuration of an archive.  *)
THEOREM OwnConfigurationCorrect ==
  ASSUME Assumption
  PROVE  Spec => []OwnConfiguration
<1>1. IInv => OwnConfiguration
  BY DEF IInv, Kept, OwnConfiguration
<1> QED
  BY <1>1, InvCorrect, PTL

(* Nor is it configured for a protocol that its binaries do not know.      *)
THEOREM ProtocolFitsBinariesCorrect ==
  ASSUME Assumption
  PROVE  Spec => []ProtocolFitsBinaries
<1>1. IInv => ProtocolFitsBinaries
  BY DEF IInv, Kept, ProtocolFitsBinaries, TypeOK, Versions
<1> QED
  BY <1>1, InvCorrect, PTL

-----------------------------------------------------------------------------
(* A step of the play is one of the rolling upgrade, or changes neither    *)
(* versions nor what runs.                                                 *)
LEMMA RollingStep ==
  ASSUME Assumption, IInv, [Next]_vars
  PROVE  [Rolling!UpgradeNext]_(Rolling!upgradeVars)
<1> USE DEF Rolling!upgradeVars, Rolling!UpgradeNext, At, BeforeLink, BehindLink
<1>1. CASE StopService
  <2>1. cur \in Brokers /\ step = "stop"
    BY <1>1 DEF StopService, IInv, TypeOK, Assumption, Brokers
  <2>2. \A other \in Brokers \ {cur} : up[other]
    BY <2>1 DEF IInv, InOrder, Finished, Untouched, Brokers
  <2>3. Rolling!TakeDown(cur)
    BY <1>1, <2>1, <2>2 DEF StopService, Rolling!TakeDown
  <2> QED
    BY <2>1, <2>3
<1>2. CASE Link
  <2>1. cur \in Brokers /\ ~up[cur]
    BY <1>2 DEF Link, IInv, TypeOK, Assumption, Brokers, InWork
  <2>2. Rolling!Replace(cur)
    BY <1>2, <2>1 DEF Link, Rolling!Replace
  <2> QED
    BY <2>1, <2>2
<1>3. CASE StartService
  <2>1. cur \in Brokers /\ link[cur] \in {"old", "new"}
    BY <1>3 DEF StartService, IInv, TypeOK, Assumption, Brokers, Versions
  <2>2. Rolling!BringUp(cur)
    BY <1>3, <2>1 DEF StartService, Rolling!BringUp
  <2> QED
    BY <2>1, <2>2
<1>4. CASE UNCHANGED <<link, up>>
  BY <1>4
<1>5. StopService \/ Link \/ StartService \/ UNCHANGED <<link, up>>
  BY DEF Next, Tasks, vars, host, run, StartUpgrade, Probe, CreateFlag, UpdateProperties,
         Unarchive, CopyConfiguration, RemovePrevious, LogDirs, SetVersion, RemoveFlag, Fail,
         Settle
<1> QED
  BY <1>1, <1>2, <1>3, <1>4, <1>5

(* The play implements RollingUpgrade, through any failures and any number *)
(* of new starts.                                                          *)
THEOREM KeepsRollingCorrect ==
  ASSUME Assumption
  PROVE  Spec => KeepsRolling
<1>1. Init => Rolling!UpgradeInit
  BY DEF Init, Rolling!UpgradeInit
<1>2. IInv /\ [Next]_vars => [Rolling!UpgradeNext]_(Rolling!upgradeVars)
  BY RollingStep
<1> QED
  BY InvCorrect, <1>1, <1>2, PTL DEF Spec, KeepsRolling, Rolling!UpgradeSpec
=============================================================================
