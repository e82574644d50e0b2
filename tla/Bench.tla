-------------------------------- MODULE Bench --------------------------------
(***************************************************************************)
(* One czarr-bench command of src/czarr/bench: run or sweep, with points   *)
(* measured in this process or, with --isolate, each in a child process    *)
(* that runs `run --emit-row` for it.  A point fixes its store, gets a     *)
(* reference, opens the store, checks one result against the reference,    *)
(* times the body and yields a row.                                        *)
(*                                                                         *)
(* What a read returns is right, wrong at its start, or late: wrong after  *)
(* its first 4 KiB.  The CPU codecs are right; gpu says what the GPU reads *)
(* make of each point.  configure_gpu changes the codecs of its process    *)
(* for good.                                                               *)
(***************************************************************************)
EXTENDS Naturals, Sequences, FiniteSets

CONSTANT NumPoints \* parameter combinations of the command

ASSUME NumPointsAssumption == NumPoints \in Nat \ {0}

Points == 1..NumPoints

\* "gpu" arms call configure_gpu (store=gpu, pipeline, kvikio), "explicit" ones
\* decode on the GPU without it (lowlevel, tier1), "local" is the CPU baseline.
Arms == {"gpu", "explicit", "local"}

\* The points of a command are of one benchmark; those of read_path decode nothing.
Benchmarks == [Points -> Arms] \cup [Points -> {"raw"}]

Answers == {"right", "wrong", "late"}

Commands == [sweep : BOOLEAN, isolate : BOOLEAN]

VARIABLES
  cmd,        \* the command line
  arm,        \* point -> its arm
  gpu,        \* point -> what the GPU reads make of it
  todo,       \* points not begun, taken in order
  now,        \* the point being measured
  configured, \* the processes in which configure_gpu has been called
  file,       \* the lines of the results file
  table,      \* the rows the command has got
  failed      \* history: points the command saw fail

benchVars == <<cmd, arm, gpu, todo, now, configured, file, table, failed>>

Rest == [pc |-> "next"]
Worker == IF cmd.isolate THEN "child" ELSE "parent"

\* What a read with the codecs in force in the worker returns.
PipelineReads(p) == IF Worker \in configured THEN gpu[p] ELSE "right"

\* What a result is compared with: the array decoded by the pipeline in force, or
\* the bytes read_path wrote itself.
ReferenceReads(p) == IF arm[p] = "raw" THEN "right" ELSE PipelineReads(p)

\* What the timed body of p returns.
BodyReads(p) == IF arm[p] \in {"explicit", "raw"} THEN gpu[p] ELSE PipelineReads(p)

\* What verify makes of a result: read_path compares 4 KiB, the others all.
Verified(p, answer) == IF arm[p] = "raw" /\ answer = "late" THEN "right" ELSE answer

-----------------------------------------------------------------------------
(* The command line *)

Command ==
  /\ now.pc = "start"
  /\ cmd' \in Commands
  /\ arm' \in Benchmarks /\ gpu' \in [Points -> Answers]
  /\ todo' = IF cmd'.sweep THEN [i \in Points |-> i] ELSE <<1>>
  /\ now' = Rest
  /\ UNCHANGED <<configured, file, table, failed>>

-----------------------------------------------------------------------------
(* A point, in its worker: Fixtures.blosc_store and run_bench *)

Moves(pc) == now' = [now EXCEPT !.pc = pc]

\* The next combination; a child starts with nothing configured.
SharedChildFault ==
  /\ now.pc = "next" /\ todo # <<>>
  /\ now' = [pc |-> "reference", point |-> Head(todo)]
  /\ todo' = Tail(todo)
  /\ UNCHANGED <<cmd, arm, gpu, configured, file, table, failed>>
Begin ==
  /\ now.pc = "next" /\ todo # <<>>
  /\ now' = [pc |-> "reference", point |-> Head(todo)]
  /\ todo' = Tail(todo)
  /\ configured' = configured \ {"child"}
  /\ UNCHANGED <<cmd, arm, gpu, file, table, failed>>

Reference ==
  /\ now.pc = "reference"
  /\ now' = [pc |-> "open", point |-> now.point, ref |-> ReferenceReads(now.point)]
  /\ UNCHANGED <<cmd, arm, gpu, todo, configured, file, table, failed>>

Open ==
  /\ now.pc = "open"
  /\ configured' = IF arm[now.point] = "gpu" THEN configured \cup {Worker} ELSE configured
  /\ Moves("gate")
  /\ UNCHANGED <<cmd, arm, gpu, todo, file, table, failed>>

\* verify(first): only an equal result is timed, see Fails.
GateSkippedFault ==
  /\ now.pc = "gate"
  /\ now' = [pc |-> "timed", point |-> now.point, result |-> BodyReads(now.point)]
  /\ UNCHANGED <<cmd, arm, gpu, todo, configured, file, table, failed>>
Gate ==
  /\ now.pc = "gate" /\ Verified(now.point, BodyReads(now.point)) = now.ref
  /\ now' = [pc |-> "timed", point |-> now.point, result |-> BodyReads(now.point)]
  /\ UNCHANGED <<cmd, arm, gpu, todo, configured, file, table, failed>>

Row == [point |-> now.point, result |-> now.result]

\* run writes its row, whether it is a child or not; a sweep only keeps it.
RunOnlyParentWritesFault == IF cmd.sweep \/ cmd.isolate THEN UNCHANGED file ELSE file' = Append(file, Row)
RunWrites == IF cmd.sweep /\ ~cmd.isolate THEN UNCHANGED file ELSE file' = Append(file, Row)

\* After the timed repetitions. A child goes on to print its row.
Timed ==
  /\ now.pc = "timed"
  /\ RunWrites
  /\ IF cmd.isolate
     THEN Moves("emit") /\ UNCHANGED table
     ELSE now' = Rest /\ table' = Append(table, Row)
  /\ UNCHANGED <<cmd, arm, gpu, todo, configured, failed>>

-----------------------------------------------------------------------------
(* The command *)

\* The child ended with code 0: the parent parses the row it printed. run
\* writes it again.
SweepWritesAgainFault ==
  /\ now.pc = "emit"
  /\ table' = Append(table, Row)
  /\ file' = Append(file, Row)
  /\ now' = Rest
  /\ UNCHANGED <<cmd, arm, gpu, todo, configured, failed>>
Adopt ==
  /\ now.pc = "emit"
  /\ table' = Append(table, Row)
  /\ file' = IF cmd.sweep THEN file ELSE Append(file, Row)
  /\ now' = Rest
  /\ UNCHANGED <<cmd, arm, gpu, todo, configured, failed>>

\* An exception (CorrectnessError among them), or an abort of the process, up
\* to the exit of a child that has printed its row. A child's failure becomes a
\* typer.Exit, which a sweep catches; any other ends the command.
AbortsSweepFault ==
  /\ now.pc \notin {"start", "next"}
  /\ now' = Rest /\ todo' = <<>>
  /\ failed' = failed \cup {now.point}
  /\ UNCHANGED <<cmd, arm, gpu, configured, file, table>>
Fails ==
  /\ now.pc \notin {"start", "next"}
  /\ now' = Rest
  /\ todo' = IF cmd.isolate THEN todo ELSE <<>>
  /\ failed' = failed \cup {now.point}
  /\ UNCHANGED <<cmd, arm, gpu, configured, file, table>>

BenchInit ==
  /\ cmd = [sweep |-> FALSE, isolate |-> FALSE]
  /\ arm = [p \in Points |-> "local"] /\ gpu = [p \in Points |-> "right"]
  /\ todo = <<>> /\ now = [pc |-> "start"] /\ configured = {}
  /\ file = <<>> /\ table = <<>> /\ failed = {}

BenchNext == Command \/ Begin \/ Reference \/ Open \/ Gate \/ Timed \/ Adopt \/ Fails

BenchSpec == BenchInit /\ [][BenchNext]_benchVars

-----------------------------------------------------------------------------
(* Properties *)

Over == now.pc = "next" /\ todo = <<>>
RowsOf(s, p) == {i \in DOMAIN s : s[i].point = p}

\* "never report fast-but-wrong": where every point has a process of its own, a
\* wrong result is in no row, because the reference is decoded before the
\* process is configured. Of read_path it speaks of the 4 KiB its verify compares.
WrongIsNeverReported ==
  cmd.isolate \/ ~cmd.sweep =>
    \A s \in {file, table} : \A i \in DOMAIN s : Verified(s[i].point, s[i].result) = "right"

\* An isolated sweep loses no row and writes none twice: a point in its table
\* has one line in the results file, any other at most one.
SweepRowsAreOnce ==
  cmd.sweep /\ cmd.isolate =>
    \A p \in Points : /\ Cardinality(RowsOf(file, p)) <= 1
                      /\ RowsOf(table, p) # {} => RowsOf(file, p) # {}

\* "can't take down the rest of a sweep": an isolated sweep that is over has a row
\* or a failure of every point, and a row of each that did not fail.
IsolatedSweepIsComplete ==
  Over /\ cmd.sweep /\ cmd.isolate =>
    \A p \in Points : p \in failed <=> RowsOf(table, p) = {}
=============================================================================
