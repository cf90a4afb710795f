--------------------------- MODULE MCKafkaUpgrade ---------------------------
(***************************************************************************)
(* KafkaUpgrade with failures behind the link to the new directory alone,  *)
(* which are those that lose the binaries.                                 *)
(***************************************************************************)
EXTENDS KafkaUpgrade

AfterLink == {"log_dirs", "set_version", "start"}
=============================================================================
