------------------------ MODULE MCDebianRepositories ------------------------
(***************************************************************************)
(* DebianRepositories with the server and one other machine, so that either*)
(* can drop out of a playbook while the other goes on; the operator changes*)
(* the lists of the server, where the download meddles with them too.      *)
(***************************************************************************)
EXTENDS DebianRepositories

TwoMachines == {"repository", "other"}
TheServer   == "repository"
OnlyServer  == {TheServer}
=============================================================================
