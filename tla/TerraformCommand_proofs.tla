---------------------- MODULE TerraformCommand_proofs -----------------------
(***************************************************************************)
(* Proofs about TerraformCommand, for any number of attempts, any length   *)
(* of the output and any capacity of the pipes.                            *)
(***************************************************************************)
EXTENDS TerraformCommand, TLAPS

(***************************************************************************)
(* What holds of an attempt, wherever the three kinds of threads are.      *)
(***************************************************************************)

(* Nothing has happened to an attempt that was not started.                *)
Untouched(a) ==
    /\ reader[a] = "none"
    /\ written[a] = <<>> /\ pipe[a] = <<>> /\ stderrstrings[a] = <<>>

Started(a) == a < attempt \/ (a = attempt /\ pc # "spawn")

(* terraform runs while the main thread waits for it, and the thread that  *)
(* empties its pipe is there as long as it runs, unless it died.           *)
ChildInv ==
    /\ child = "running" => pc \in {"close", "wait"} /\ reader[attempt] \in {"reading", "dead"}
    /\ pc = "exited" => \A a \in Attempts : reader[a] # "reading"

(* What is in a pipe has its reader; it, and what was kept of it, were     *)
(* written in the same attempt.                                            *)
PipeInv(a) ==
    /\ pipe[a] # <<>> => reader[a] \in {"reading", "dead"}
    /\ \A i \in 1..Len(pipe[a]) : Contains(written[a], pipe[a][i])
    /\ stderrstrings[a] # <<>> => Contains(written[a], "RetryableError")

IInv ==
    /\ TypeOK
    /\ \A a \in Attempts : Started(a) \/ Untouched(a)
    /\ ChildInv
    /\ \A a \in Attempts : PipeInv(a)
    /\ RetriedForReason

-----------------------------------------------------------------------------
(* Lines of a sequence, when it grows and when it shrinks.                 *)

LEMMA AppendLines ==
  ASSUME NEW S, NEW seq \in Seq(S), NEW line \in S
  PROVE  /\ Append(seq, line) \in Seq(S)
         /\ Append(seq, line) # <<>>
         /\ Len(Append(seq, line)) = Len(seq) + 1
         /\ Contains(Append(seq, line), line)
         /\ \A l : Contains(seq, l) => Contains(Append(seq, line), l)
         /\ \A i \in 1..Len(Append(seq, line)) :
              Append(seq, line)[i] = line \/ (i \in 1..Len(seq) /\ Append(seq, line)[i] = seq[i])
<1>1. /\ Append(seq, line) \in Seq(S) /\ Append(seq, line) # <<>>
      /\ Len(Append(seq, line)) = Len(seq) + 1
      /\ DOMAIN seq = 1..Len(seq) /\ DOMAIN Append(seq, line) = 1..(Len(seq) + 1)
      /\ \A i \in 1..Len(seq) : Append(seq, line)[i] = seq[i]
      /\ Append(seq, line)[Len(seq) + 1] = line
      /\ Len(seq) \in Nat
  OBVIOUS
<1> QED
  BY <1>1 DEF Contains

LEMMA TailLines ==
  ASSUME NEW S, NEW seq \in Seq(S), seq # <<>>
  PROVE  /\ Tail(seq) \in Seq(S)
         /\ Len(Tail(seq)) = Len(seq) - 1
         /\ Len(seq) \in Nat \ {0}
         /\ Head(seq) \in S
         /\ Head(seq) = seq[1]
         /\ \A i \in 1..Len(Tail(seq)) : i + 1 \in 1..Len(seq) /\ Tail(seq)[i] = seq[i + 1]
  OBVIOUS

LEMMA KeptLines ==
  ASSUME NEW seq \in Seq({"RetryableError"}), NEW line
  PROVE  /\ seq \o ErrorLine(line) \in Seq({"RetryableError"})
         /\ line # "RetryableError" => seq \o ErrorLine(line) = seq
<1>1. CASE line = "RetryableError"
  <2>1. <<line>> \in Seq({"RetryableError"})
    BY <1>1
  <2>2. seq \o <<line>> \in Seq({"RetryableError"})
    BY <2>1
  <2> QED
    BY <1>1, <2>2 DEF ErrorLine
<1>2. CASE line # "RetryableError"
  <2>1. seq \o <<>> = seq
    OBVIOUS
  <2> QED
    BY <1>2, <2>1 DEF ErrorLine
<1> QED
  BY <1>1, <1>2

-----------------------------------------------------------------------------
(***************************************************************************)
(* The type invariant.                                                     *)
(***************************************************************************)
LEMMA TypeInit == Init => TypeOK
  BY BoundsAssumption DEF Init, TypeOK, Attempts

LEMMA TypeNext == TypeOK /\ [Next]_vars => TypeOK'
<1> SUFFICES ASSUME TypeOK, [Next]_vars PROVE TypeOK'
  OBVIOUS
<1> USE BoundsAssumption DEF mainVars, childVars
<1>1. CASE Spawn
  BY <1>1 DEF Spawn, TypeOK
<1>2. CASE CloseWriteEnd
  BY <1>2 DEF CloseWriteEnd, TypeOK
<1>3. CASE Wait
  BY <1>3 DEF Wait, TypeOK
<1>4. CASE Scan
  <2>1. attempt' \in Attempts
    BY <1>4 DEF Scan, TypeOK, Attempts
  <2>2. UNCHANGED <<childVars, writeEnd, pipe, reader, stderrstrings>>
    BY <1>4 DEF Scan
  <2>3. /\ pc' \in {"spawn", "return"}
        /\ outcome' \in {outcome, "done", "raised"}
    BY <1>4 DEF Scan
  <2> QED
    BY <2>1, <2>2, <2>3 DEF TypeOK
<1>5. CASE Exit
  BY <1>5 DEF Exit, TypeOK
<1>6. ASSUME NEW line \in Lines, ChildWrite(line) PROVE TypeOK'
  <2>1. /\ Append(written[attempt], line) \in Seq(Lines)
        /\ Len(Append(written[attempt], line)) = Len(written[attempt]) + 1
        /\ Append(pipe[attempt], line) \in Seq(Lines)
        /\ Len(Append(pipe[attempt], line)) = Len(pipe[attempt]) + 1
    BY AppendLines DEF TypeOK
  <2>2. /\ Len(written[attempt]) \in Nat /\ Len(pipe[attempt]) \in Nat
        /\ attempt \in Attempts
    BY DEF TypeOK
  <2>3. /\ written' \in [Attempts -> Seq(Lines)]
        /\ pipe' \in [Attempts -> Seq(Lines)]
    BY <1>6, <2>1 DEF ChildWrite, TypeOK
  <2>4. \A a \in Attempts : Len(written'[a]) <= MaxLines /\ Len(pipe'[a]) <= Capacity
    BY <1>6, <2>1, <2>2 DEF ChildWrite, TypeOK
  <2> QED
    BY <1>6, <2>3, <2>4 DEF ChildWrite, TypeOK
<1>7. ASSUME NEW status \in {"ok", "failed"}, ChildExit(status) PROVE TypeOK'
  BY <1>7 DEF ChildExit, TypeOK
<1>8. ASSUME NEW a \in Attempts, ReadLine(a) PROVE TypeOK'
  <2>1. /\ Tail(pipe[a]) \in Seq(Lines)
        /\ Len(Tail(pipe[a])) = Len(pipe[a]) - 1
        /\ Len(pipe[a]) \in Nat
    BY <1>8, TailLines DEF ReadLine, TypeOK
  <2>2. pipe' \in [Attempts -> Seq(Lines)] /\ \A b \in Attempts : Len(pipe'[b]) <= Capacity
    BY <1>8, <2>1 DEF ReadLine, TypeOK
  <2>3. stderrstrings[a] \o ErrorLine(Head(pipe[a])) \in Seq({"RetryableError"})
    BY <1>8, KeptLines DEF TypeOK
  <2>4. stderrstrings' \in [Attempts -> Seq({"RetryableError"})]
    BY <1>8, <2>3 DEF ReadLine, TypeOK
  <2>5. reader' \in [Attempts -> {"none", "reading", "ended", "dead"}]
    BY <1>8 DEF ReadLine, TypeOK
  <2> QED
    BY <1>8, <2>2, <2>4, <2>5 DEF ReadLine, TypeOK
<1>9. ASSUME NEW a \in Attempts, EndOfFile(a) PROVE TypeOK'
  BY <1>9 DEF EndOfFile, TypeOK
<1>10. CASE UNCHANGED vars
  BY <1>10 DEF vars, TypeOK
<1> QED
  BY <1>1, <1>2, <1>3, <1>4, <1>5, <1>6, <1>7, <1>8, <1>9, <1>10
     DEF Next, Main, Child, LogPipe

(* The states of the command line, of terraform and of the threads are     *)
(* those the code knows, and no pipe holds more than its capacity.         *)
THEOREM TypeCorrect == Spec => []TypeOK
<1>1. Init => TypeOK
  BY TypeInit
<1>2. TypeOK /\ [Next]_vars => TypeOK'
  BY TypeNext
<1> QED
  BY <1>1, <1>2, PTL DEF Spec

-----------------------------------------------------------------------------
(***************************************************************************)
(* The inductive invariant.                                                *)
(***************************************************************************)
LEMMA InvInit == Init => IInv
<1> SUFFICES ASSUME Init PROVE IInv
  OBVIOUS
<1>1. \A a \in Attempts : Untouched(a)
  BY DEF Init, Untouched
<1>2. ChildInv /\ RetriedForReason
  BY BoundsAssumption DEF Init, ChildInv, RetriedForReason, Attempts
<1>3. \A a \in Attempts : PipeInv(a)
  BY DEF Init, PipeInv
<1> QED
  BY <1>1, <1>2, <1>3, TypeInit DEF IInv

(* The steps of the main thread touch neither pipes nor what was written.  *)
LEMMA MainKeepsLines ==
  ASSUME IInv, UNCHANGED <<written, pipe, stderrstrings>>,
         \A a \in Attempts : reader'[a] = reader[a] \/ (pipe[a] = <<>>)
  PROVE  \A a \in Attempts : PipeInv(a)'
  BY DEF IInv, PipeInv, Contains

LEMMA InvMain == IInv /\ Main => IInv'
<1> SUFFICES ASSUME IInv, Main PROVE IInv'
  OBVIOUS
<1>1. TypeOK'
  BY TypeNext DEF IInv, Next
<1>2. TypeOK
  BY DEF IInv
<1> USE BoundsAssumption DEF mainVars, childVars
<1>3. UNCHANGED <<written, pipe, stderrstrings>>
  BY DEF Main, Spawn, CloseWriteEnd, Wait, Scan, Exit
<1>4. CASE Spawn
  <2>1. pipe[attempt] = <<>>
    BY <1>2, <1>4 DEF Spawn, IInv, Started, Untouched, TypeOK, Attempts
  <2>2. \A a \in Attempts : PipeInv(a)'
    BY <1>2, <1>3, <1>4, <2>1, MainKeepsLines DEF Spawn, TypeOK
  <2>3. \A a \in Attempts : Started(a)' \/ Untouched(a)'
    BY <1>2, <1>4 DEF Spawn, IInv, Started, Untouched, TypeOK
  <2>4. ChildInv' /\ RetriedForReason'
    BY <1>2, <1>4 DEF Spawn, IInv, ChildInv, RetriedForReason, TypeOK, Contains
  <2> QED
    BY <1>1, <2>2, <2>3, <2>4 DEF IInv
<1>5. CASE CloseWriteEnd \/ Wait \/ Exit
  <2>1. /\ UNCHANGED <<attempt, child, reader>>
        /\ pc # "spawn" /\ pc' # "spawn"
    BY <1>5 DEF CloseWriteEnd, Wait, Exit
  <2>2. \A a \in Attempts : PipeInv(a)'
    BY <1>3, <2>1, MainKeepsLines
  <2>3. \A a \in Attempts : Started(a)' \/ Untouched(a)'
    BY <1>3, <2>1 DEF IInv, Started, Untouched
  <2>4. RetriedForReason'
    BY <1>3, <2>1 DEF IInv, RetriedForReason, Contains
  <2>5. ChildInv'
    BY <1>5, <2>1 DEF IInv, ChildInv, CloseWriteEnd, Wait, Exit
  <2> QED
    BY <1>1, <2>2, <2>3, <2>4, <2>5 DEF IInv
<1>6. CASE Scan
  <2>1. UNCHANGED <<child, reader>> /\ pc = "scan" /\ pc' \in {"spawn", "return"}
    BY <1>6 DEF Scan
  <2>2. \A a \in Attempts : PipeInv(a)'
    BY <1>3, <2>1, MainKeepsLines
  <2>3. \A a \in Attempts : Started(a)' \/ Untouched(a)'
    BY <1>2, <1>6 DEF Scan, IInv, Started, Untouched, TypeOK, Attempts
  <2>4. child # "running"
    BY <2>1 DEF IInv, ChildInv
  <2>5. ChildInv'
    BY <2>1, <2>4 DEF ChildInv
  <2>6. RetriedForReason'
    <3>1. CASE attempt' = attempt
      BY <1>3, <3>1 DEF IInv, RetriedForReason, Contains
    <3>2. CASE attempt' = attempt + 1 /\ stderrstrings[attempt] # <<>>
      <4>1. Contains(written[attempt], "RetryableError")
        BY <1>2, <3>2 DEF IInv, PipeInv, TypeOK
      <4>2. \A a \in Attempts : a < attempt' => a < attempt \/ a = attempt
        BY <1>2, <3>2 DEF TypeOK, Attempts
      <4> QED
        BY <1>3, <4>1, <4>2 DEF IInv, RetriedForReason, Contains
    <3> QED
      BY <1>6, <3>1, <3>2 DEF Scan, DoRetry
  <2> QED
    BY <1>1, <2>2, <2>3, <2>5, <2>6 DEF IInv
<1> QED
  BY <1>4, <1>5, <1>6 DEF Main

LEMMA InvChild == IInv /\ Child => IInv'
<1> SUFFICES ASSUME IInv, Child PROVE IInv'
  OBVIOUS
<1>1. TypeOK'
  BY TypeNext DEF IInv, Next
<1>2. TypeOK /\ child = "running"
  BY DEF IInv, Child, ChildWrite, ChildExit
<1> USE DEF mainVars, childVars
<1>3. pc \in {"close", "wait"} /\ reader[attempt] \in {"reading", "dead"}
  BY <1>2 DEF IInv, ChildInv
<1>4. ASSUME NEW line \in Lines, ChildWrite(line) PROVE IInv'
  <2>1. attempt \in Attempts /\ written[attempt] \in Seq(Lines) /\ pipe[attempt] \in Seq(Lines)
    BY <1>2 DEF TypeOK
  <2>2. /\ written'[attempt] = Append(written[attempt], line)
        /\ pipe'[attempt] = Append(pipe[attempt], line)
        /\ \A a \in Attempts \ {attempt} : written'[a] = written[a] /\ pipe'[a] = pipe[a]
        /\ UNCHANGED <<pc, attempt, child, reader, stderrstrings>>
    BY <1>2, <1>4, <2>1 DEF ChildWrite, TypeOK
  <2>3. \A a \in Attempts : \A l : Contains(written[a], l) => Contains(written'[a], l)
    <3>1. ASSUME NEW l, Contains(written[attempt], l) PROVE Contains(written'[attempt], l)
      BY <2>1, <2>2, <3>1, AppendLines
    <3>2. ASSUME NEW a \in Attempts \ {attempt}, NEW l, Contains(written[a], l)
          PROVE  Contains(written'[a], l)
      BY <2>2, <3>2 DEF Contains
    <3> QED
      BY <3>1, <3>2
  <2>4. PipeInv(attempt)'
    <3>1. Contains(written'[attempt], line)
      BY <2>1, <2>2, AppendLines
    <3>2. \A i \in 1..Len(pipe'[attempt]) :
            pipe'[attempt][i] = line \/ (i \in 1..Len(pipe[attempt]) /\ pipe'[attempt][i] = pipe[attempt][i])
      BY <2>1, <2>2, AppendLines
    <3>3. \A i \in 1..Len(pipe'[attempt]) : Contains(written'[attempt], pipe'[attempt][i])
      BY <2>1, <2>3, <3>1, <3>2 DEF IInv, PipeInv
    <3> QED
      BY <1>3, <2>1, <2>2, <2>3, <3>3 DEF IInv, PipeInv
  <2>5. \A a \in Attempts \ {attempt} : PipeInv(a)'
    BY <2>2, <2>3 DEF IInv, PipeInv
  <2>6. \A a \in Attempts : Started(a)' \/ Untouched(a)'
    BY <1>3, <2>2 DEF IInv, Started, Untouched
  <2>7. ChildInv' /\ RetriedForReason'
    BY <2>2, <2>3 DEF IInv, ChildInv, RetriedForReason
  <2> QED
    BY <1>1, <2>4, <2>5, <2>6, <2>7, <2>2 DEF IInv
<1>5. ASSUME NEW status \in {"ok", "failed"}, ChildExit(status) PROVE IInv'
  <2>1. UNCHANGED <<pc, attempt, written, pipe, reader, stderrstrings>> /\ child' # "running"
    BY <1>5 DEF ChildExit
  <2>2. \A a \in Attempts : PipeInv(a)' /\ (Started(a)' \/ Untouched(a)')
    BY <2>1 DEF IInv, PipeInv, Started, Untouched, Contains
  <2>3. ChildInv' /\ RetriedForReason'
    BY <1>3, <2>1 DEF IInv, ChildInv, RetriedForReason, Contains
  <2> QED
    BY <1>1, <2>2, <2>3 DEF IInv
<1> QED
  BY <1>4, <1>5 DEF Child

LEMMA InvLogPipe ==
  ASSUME IInv, NEW a \in Attempts, LogPipe(a)
  PROVE  IInv'
<1>1. TypeOK'
  BY TypeNext DEF IInv, Next
<1>2. TypeOK /\ reader[a] = "reading"
  BY DEF IInv, LogPipe, ReadLine, EndOfFile
<1> USE DEF mainVars, childVars
<1>3. /\ UNCHANGED <<pc, attempt, child, written>>
      /\ \A b \in Attempts \ {a} : reader'[b] = reader[b] /\ pipe'[b] = pipe[b]
                                   /\ stderrstrings'[b] = stderrstrings[b]
  BY <1>2 DEF LogPipe, ReadLine, EndOfFile, TypeOK
<1>4. \A b \in Attempts \ {a} : PipeInv(b)'
  BY <1>3 DEF IInv, PipeInv, Contains
<1>5. RetriedForReason'
  BY <1>3 DEF IInv, RetriedForReason, Contains
<1>6. Started(a) /\ \A b \in Attempts : Started(b)' \/ Untouched(b)'
  <2>1. Started(a) /\ Started(a)'
    BY <1>2, <1>3 DEF IInv, Started, Untouched
  <2> QED
    BY <1>3, <2>1 DEF IInv, Started, Untouched
<1>7. pc # "exited"
  BY <1>2 DEF IInv, ChildInv
<1>8. CASE ReadLine(a)
  <2>1. /\ pipe[a] \in Seq(Lines) /\ pipe[a] # <<>> /\ pipe'[a] = Tail(pipe[a])
        /\ stderrstrings[a] \in Seq({"RetryableError"})
        /\ reader'[a] \in {"reading", "dead"}
        /\ stderrstrings'[a] \in {stderrstrings[a], stderrstrings[a] \o ErrorLine(Head(pipe[a]))}
    BY <1>2, <1>8 DEF ReadLine, TypeOK
  <2>2. Contains(written[a], Head(pipe[a]))
    BY <2>1, TailLines DEF IInv, PipeInv
  <2>3. \A i \in 1..Len(pipe'[a]) : Contains(written[a], pipe'[a][i])
    BY <2>1, TailLines DEF IInv, PipeInv
  <2>4. stderrstrings'[a] # <<>> => Contains(written[a], "RetryableError")
    BY <2>1, <2>2, KeptLines DEF IInv, PipeInv
  <2>5. PipeInv(a)'
    BY <1>3, <2>1, <2>3, <2>4 DEF PipeInv, Contains
  <2>6. ChildInv'
    BY <1>2, <1>3, <1>7, <2>1 DEF IInv, ChildInv, TypeOK
  <2> QED
    BY <1>1, <1>4, <1>5, <1>6, <2>5, <2>6 DEF IInv
<1>9. CASE EndOfFile(a)
  <2>1. pipe'[a] = <<>> /\ stderrstrings' = stderrstrings
    BY <1>9 DEF EndOfFile
  <2>2. PipeInv(a)'
    BY <1>3, <2>1 DEF IInv, PipeInv, Contains
  <2>3. ChildInv'
    BY <1>2, <1>3, <1>7, <1>9 DEF IInv, ChildInv, EndOfFile, TypeOK, Attempts
  <2> QED
    BY <1>1, <1>4, <1>5, <1>6, <2>2, <2>3 DEF IInv
<1> QED
  BY <1>8, <1>9 DEF LogPipe

LEMMA InvNext == IInv /\ [Next]_vars => IInv'
<1> SUFFICES ASSUME IInv, [Next]_vars PROVE IInv'
  OBVIOUS
<1>1. CASE UNCHANGED vars
  BY <1>1, TypeNext DEF vars, IInv, Started, Untouched, ChildInv, PipeInv, RetriedForReason, Contains
<1> QED
  BY <1>1, InvMain, InvChild, InvLogPipe DEF Next

LEMMA InvCorrect == Spec => []IInv
<1>1. Init => IInv
  BY InvInit
<1>2. IInv /\ [Next]_vars => IInv'
  BY InvNext
<1> QED
  BY <1>1, <1>2, PTL DEF Spec

(* An attempt is repeated only for an error of its own, however the thread *)
(* that collects the errors and the main thread interleave.                *)
THEOREM RetriedForReasonCorrect == Spec => []RetriedForReason
<1>1. IInv => RetriedForReason
  BY DEF IInv
<1> QED
  BY <1>1, InvCorrect, PTL

(* When the process is gone nothing terraform wrote is unread, unless the  *)
(* thread that read it died.                                               *)
THEOREM NothingUnloggedCorrect == Spec => []NothingUnlogged
<1>1. IInv => NothingUnlogged
  BY DEF IInv, ChildInv, PipeInv, NothingUnlogged
<1> QED
  BY <1>1, InvCorrect, PTL
=============================================================================
