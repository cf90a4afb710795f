-------------------------- MODULE ScaleOutCluster --------------------------
(***************************************************************************)
(* What a LambdaStack cluster promises about its machines, seen from       *)
(* outside: a machine that has become a member of a stateful group (the    *)
(* Kubernetes control plane, the PostgreSQL servers) is never taken away,  *)
(* except while the whole cluster is being torn down.                      *)
(*                                                                         *)
(* README.md:34 and docs/home/howto/CLUSTER.md:984 of the repository state *)
(* the promise ("It doesn't support downscale", "master count cannot be    *)
(* decreased"); BuildLifecycle is the code that has to keep it.            *)
(***************************************************************************)
CONSTANTS
    Groups,         \* groups whose members hold state
    Machines        \* every machine that may ever exist

VARIABLES
    machines,       \* machines that exist
    members,        \* group -> machines that joined it
    tearing         \* the cluster is being torn down

absVars == <<machines, members, tearing>>

AbsInit ==
    /\ machines = {}
    /\ members = [g \in Groups |-> {}]
    /\ tearing = FALSE

Create(m) ==
    /\ ~tearing
    /\ m \in Machines \ machines
    /\ machines' = machines \cup {m}
    /\ UNCHANGED <<members, tearing>>

\* Only a machine without any state on it may go while the cluster lives.
Retire(m) ==
    /\ ~tearing
    /\ m \in machines
    /\ \A g \in Groups : m \notin members[g]
    /\ machines' = machines \ {m}
    /\ UNCHANGED <<members, tearing>>

\* Only a machine that exists can join.
Join(g, m) ==
    /\ ~tearing
    /\ m \in machines
    /\ members' = [members EXCEPT ![g] = @ \cup {m}]
    /\ UNCHANGED <<machines, tearing>>

BeginTearDown ==
    /\ ~tearing
    /\ tearing' = TRUE
    /\ UNCHANGED <<machines, members>>

TearDown(m) ==
    /\ tearing
    /\ machines' = machines \ {m}
    /\ members' = [g \in Groups |-> members[g] \ {m}]
    /\ UNCHANGED tearing

EndTearDown ==
    /\ tearing
    /\ tearing' = FALSE
    /\ UNCHANGED <<machines, members>>

AbsNext ==
    \/ \E m \in Machines :
          \/ Create(m)
          \/ Retire(m)
          \/ TearDown(m)
          \/ \E g \in Groups : Join(g, m)
    \/ BeginTearDown
    \/ EndTearDown

AbsSpec == AbsInit /\ [][AbsNext]_absVars
============================================================================
