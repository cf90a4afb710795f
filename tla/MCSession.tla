----------------------------- MODULE MCSession -----------------------------
(* Session with the command lines of one cluster, typed in any order. *)
EXTENDS Session, TLC

CONSTANTS s1, s2, s3, home, other, demo, spare

Command(engine, output, fileDir, build, playbooks) ==
  [engine |-> engine, output |-> output, fileDir |-> fileDir, name |-> demo,
   build |-> build, playbooks |-> playbooks, infra |-> TRUE, log |-> TRUE]

(* The first session may type anything, the others what meets it: writers  *)
(* of vault.cfg, a session that only removes it, and a delete.  Once the   *)
(* log cannot be opened.                                                   *)
MCCommandLines ==
  LET at == <<home, demo>>
      again(playbooks) == [Command("apply", None, home, at, playbooks) EXCEPT !.infra = FALSE]
      anything ==
        {Command("init", None, None, at, 0),
         Command("prepare", None, None, at, 0),
         Command("apply", None, home, at, 2),
         [Command("apply", None, home, at, 2) EXCEPT !.log = FALSE],
         Command("apply", None, None, at, 2),
         Command("upgrade", None, None, at, 1),
         Command("delete", other, None, at, 0),
         Command("test", None, None, at, 1),
         Command("backup", None, other, at, 1),
         Command("recovery", None, home, at, 1)}
  IN (s1 :> anything @@ s2 :> {again(1), Command("delete", None, None, at, 0),
                               Command("delete", None, None, <<home, spare>>, 0)})
     @@ (s3 :> {again(1)})
=============================================================================
