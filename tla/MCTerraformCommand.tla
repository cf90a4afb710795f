------------------------- MODULE MCTerraformCommand -------------------------
(***************************************************************************)
(* TerraformCommand with lines of every kind: fewer fit into the pipe than *)
(* an attempt writes, so that terraform has to wait for its reader.        *)
(***************************************************************************)
EXTENDS TerraformCommand

ApplyRetries == 3       \* TerraformRunner.apply; init, plan and destroy have one attempt
=============================================================================
