-------------------------- MODULE TerraformCommand --------------------------
(***************************************************************************)
(* One TerraformCommand.run: the main thread that starts `terraform` and   *)
(* retries it, the terraform process, and the LogPipe thread of every      *)
(* attempt, which reads the process's output from a pipe, logs it and      *)
(* keeps the lines that look like errors.  The main thread decides on a    *)
(* retry by those lines, and it does not wait for the thread: it waits for *)
(* the process only.                                                       *)
(***************************************************************************)
EXTENDS Naturals, Sequences

CONSTANTS
    AutoRetries,    \* attempts allowed: 3 for apply, 1 for the other commands
    MaxLines,       \* bound on the lines one attempt writes
    Capacity,       \* lines that fit into a pipe
    Lines           \* kinds of lines terraform writes, a subset of AllLines

AllLines == {"plain", "RetryableError", "undecodable"}

ASSUME BoundsAssumption ==
    /\ AutoRetries \in Nat \ {0}
    /\ MaxLines \in Nat
    /\ Capacity \in Nat \ {0}
    /\ Lines \subseteq AllLines

Attempts == 1..AutoRetries

VARIABLES
    pc,             \* main thread
    attempt,        \* the attempt it is at
    outcome,        \* what run() came to
    child,          \* the terraform process: "none", "running" or its exit status
    written,        \* attempt -> lines it has written
    writeEnd,       \* attempt -> the parent's copy of the pipe's write end is open
    pipe,           \* attempt -> lines in the pipe
    reader,         \* attempt -> state of its LogPipe thread
    stderrstrings   \* attempt -> error lines its thread has kept

mainVars  == <<pc, attempt, outcome>>
childVars == <<child, written>>
vars == <<pc, attempt, outcome, child, written, writeEnd, pipe, reader, stderrstrings>>

TypeOK ==
    /\ pc \in {"spawn", "close", "wait", "scan", "return", "exited"}
    /\ attempt \in Attempts
    /\ outcome \in {"none", "done", "raised"}
    /\ child \in {"none", "running", "ok", "failed"}
    /\ written \in [Attempts -> Seq(Lines)]
    /\ writeEnd \in [Attempts -> BOOLEAN]
    /\ pipe \in [Attempts -> Seq(Lines)]
    /\ reader \in [Attempts -> {"none", "reading", "ended", "dead"}]
    /\ stderrstrings \in [Attempts -> Seq({"RetryableError"})]
    /\ \A a \in Attempts : Len(written[a]) <= MaxLines /\ Len(pipe[a]) <= Capacity

Init ==
    /\ pc = "spawn"
    /\ attempt = 1
    /\ outcome = "none"
    /\ child = "none"
    /\ written = [a \in Attempts |-> <<>>]
    /\ writeEnd = [a \in Attempts |-> FALSE]
    /\ pipe = [a \in Attempts |-> <<>>]
    /\ reader = [a \in Attempts |-> "none"]
    /\ stderrstrings = [a \in Attempts |-> <<>>]
-----------------------------------------------------------------------------
(* The main thread.                                                        *)

\* LogPipe() starts its thread, Popen() the process.
Spawn ==
    /\ pc = "spawn"
    /\ pc' = "close"
    /\ child' = "running"
    /\ writeEnd' = [writeEnd EXCEPT ![attempt] = TRUE]
    /\ reader' = [reader EXCEPT ![attempt] = "reading"]
    /\ UNCHANGED <<attempt, outcome, written, pipe, stderrstrings>>

CloseNothing ==                         \* slip: the parent keeps its write end
    /\ pc = "close"
    /\ pc' = "wait"
    /\ UNCHANGED <<attempt, outcome, childVars, writeEnd, pipe, reader, stderrstrings>>

CloseWriteEnd ==
    /\ pc = "close"
    /\ pc' = "wait"
    /\ writeEnd' = [writeEnd EXCEPT ![attempt] = FALSE]
    /\ UNCHANGED <<attempt, outcome, childVars, pipe, reader, stderrstrings>>

\* Leaving the `with` block waits for the process, not for the thread.
Wait ==
    /\ pc = "wait"
    /\ child \in {"ok", "failed"}
    /\ pc' = "scan"
    /\ UNCHANGED <<attempt, outcome, childVars, writeEnd, pipe, reader, stderrstrings>>

DoRetryStale ==                         \* slip: one LogPipe serves all attempts
    \E a \in 1..attempt : stderrstrings[a] # <<>>

DoRetry == stderrstrings[attempt] # <<>>

Scan ==
    /\ pc = "scan"
    /\ IF DoRetry /\ attempt < AutoRetries
       THEN /\ pc' = "spawn"
            /\ attempt' = attempt + 1
            /\ UNCHANGED outcome
       ELSE /\ pc' = "return"
            /\ outcome' = IF child = "ok" THEN "done" ELSE "raised"
            /\ UNCHANGED attempt
    /\ UNCHANGED <<childVars, writeEnd, pipe, reader, stderrstrings>>

ExitDaemon ==                           \* slip: the threads are daemons
    /\ pc = "return"
    /\ pc' = "exited"
    /\ UNCHANGED <<attempt, outcome, childVars, writeEnd, pipe, reader, stderrstrings>>

\* The interpreter ends only when its threads have, which are no daemons.
Exit ==
    /\ pc = "return"
    /\ \A a \in Attempts : reader[a] # "reading"
    /\ pc' = "exited"
    /\ UNCHANGED <<attempt, outcome, childVars, writeEnd, pipe, reader, stderrstrings>>
-----------------------------------------------------------------------------
(* terraform; a full pipe blocks it.                                       *)

ChildWrite(line) ==
    /\ child = "running"
    /\ Len(written[attempt]) < MaxLines
    /\ Len(pipe[attempt]) < Capacity
    /\ written' = [written EXCEPT ![attempt] = Append(@, line)]
    /\ pipe' = [pipe EXCEPT ![attempt] = Append(@, line)]
    /\ UNCHANGED <<mainVars, child, writeEnd, reader, stderrstrings>>

\* It exits once it has written what it had to say.
ChildExit(status) ==
    /\ child = "running"
    /\ Len(written[attempt]) = MaxLines
    /\ child' = status
    /\ UNCHANGED <<mainVars, written, writeEnd, pipe, reader, stderrstrings>>
-----------------------------------------------------------------------------
(* The LogPipe thread of attempt a.                                        *)

ErrorLine(line) == IF line = "RetryableError" THEN <<line>> ELSE <<>>

\* A line that cannot be decoded raises in readline() and ends the thread.
ReadLine(a) ==
    /\ reader[a] = "reading"
    /\ pipe[a] # <<>>
    /\ pipe' = [pipe EXCEPT ![a] = Tail(@)]
    /\ IF Head(pipe[a]) = "undecodable"
       THEN reader' = [reader EXCEPT ![a] = "dead"] /\ UNCHANGED stderrstrings
       ELSE /\ stderrstrings' = [stderrstrings EXCEPT ![a] = @ \o ErrorLine(Head(pipe[a]))]
            /\ UNCHANGED reader
    /\ UNCHANGED <<mainVars, childVars, writeEnd>>

EndOfFile(a) ==
    /\ reader[a] = "reading"
    /\ pipe[a] = <<>>
    /\ ~writeEnd[a]
    /\ a < attempt \/ child \in {"ok", "failed"}
    /\ reader' = [reader EXCEPT ![a] = "ended"]
    /\ UNCHANGED <<mainVars, childVars, writeEnd, pipe, stderrstrings>>

Main  == Spawn \/ CloseWriteEnd \/ Wait \/ Scan \/ Exit
Child == (\E line \in Lines : ChildWrite(line)) \/ (\E s \in {"ok", "failed"} : ChildExit(s))
LogPipe(a) == ReadLine(a) \/ EndOfFile(a)

Next == Main \/ Child \/ \E a \in Attempts : LogPipe(a)

Spec == Init /\ [][Next]_vars

(***************************************************************************)
(* The threads and the process get the processor again and again; that     *)
(* terraform comes to an end is assumed, unless the pipe blocks it.        *)
(***************************************************************************)
FairSpec ==
    /\ Spec
    /\ WF_vars(Main)
    /\ WF_vars(Child)
    /\ \A a \in Attempts : WF_vars(LogPipe(a))
-----------------------------------------------------------------------------
Contains(seq, line) == \E i \in DOMAIN seq : seq[i] = line

(***************************************************************************)
(* An attempt is repeated only when it has itself written the error that   *)
(* asks for it: what an earlier attempt printed does not count.  (Whether  *)
(* it has failed is not asked.)                                            *)
(***************************************************************************)
RetriedForReason ==
    \A a \in Attempts : a < attempt => Contains(written[a], "RetryableError")

(***************************************************************************)
(* An attempt is repeated only when terraform has failed, as the message   *)
(* that announces the next one says (TerraformCommand.py:59).              *)
(***************************************************************************)
RetriedAfterFailure == pc = "spawn" /\ attempt > 1 => child = "failed"

(***************************************************************************)
(* When the process is gone its log is complete: nothing terraform wrote   *)
(* is left unread unless the thread died of it.                            *)
(***************************************************************************)
NothingUnlogged ==
    pc = "exited" => \A a \in Attempts : pipe[a] = <<>> \/ reader[a] = "dead"

(***************************************************************************)
(* The command and the CLI with it come to an end: nobody waits for the    *)
(* end of a pipe that never comes, or for room in one that nobody empties. *)
(* Only a line that ends its reader thread can leave terraform blocked.    *)
(***************************************************************************)
CommandEnds == <>(pc = "exited" \/ \E a \in Attempts : reader[a] = "dead")
=============================================================================
