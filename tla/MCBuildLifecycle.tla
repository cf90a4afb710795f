-------------------------- MODULE MCBuildLifecycle --------------------------
(***************************************************************************)
(* Instances of BuildLifecycle for TLC: the input files of a small         *)
(* multi-machine cluster and of the single machine cluster that            *)
(* docs/home/howto/CLUSTER.md:650 gives as a template.                     *)
(***************************************************************************)
EXTENDS BuildLifecycle

Cfg(masters, postgres, single) ==
    [c \in Components |-> CASE c = "kubernetes_master" -> masters
                            [] c = "postgresql"        -> postgres
                            [] c = "single_machine"    -> single]

SingleConfigs == {Cfg(0, 0, 1)}
MultiConfigs  == {Cfg(m, p, 0) : m \in 1..2, p \in 0..1}
FewConfigs    == {Cfg(1, 0, 0), Cfg(2, 1, 0)}
AllConfigs    == SingleConfigs \cup MultiConfigs
=============================================================================
