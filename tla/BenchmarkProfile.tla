-------------------------- MODULE BenchmarkProfile --------------------------
(***************************************************************************)
(* src/scripts/benchmark_profile.sh from the moment the EXIT trap is set:  *)
(* the probe of the timeout tool, the preflights with their one retry, the *)
(* nested loops of benchmark runs, and the metadata file that the trap     *)
(* completes wherever the script ends.                                     *)
(*                                                                         *)
(* Waiting for a command and judging how it ended are two steps, and each  *)
(* assignment that the trap reads is a step of its own, because bash       *)
(* handles a signal between any two of them.  What the commands print is   *)
(* abstracted to what the script makes of it.                              *)
(***************************************************************************)
EXTENDS Integers, Sequences

CONSTANTS
  Mixes, Repeats, Protocols, Modes, \* how many there are of each
  Statuses,   \* exit statuses with which commands fail by themselves
  ProbeExits  \* exit statuses that timeout tools show when they are probed

ASSUME ProfileAssumption ==
  /\ {Mixes, Repeats, Protocols, Modes} \subseteq Nat \ {0}
  /\ Statuses \subseteq 1 .. 255 /\ ProbeExits \subseteq 0 .. 255

VARIABLES
  timeouts,  \* BENCH_TIMEOUT_ENABLED
  probe,     \* TIMEOUT_PROBE_EXIT, -1 while it is empty
  pc,        \* where the script is
  waiting,   \* is the command there still running?
  status,    \* the last status the script took: a command's, or its own
  attempt,   \* of the preflight
  at,        \* the loop variables: mix, repeat, protocol, mode
  completed, \* COMPLETED_RUNS
  stage,     \* script_stage
  started,   \* last_run_started_index and _label
  last,      \* last_run_completed_index and _label
  context,   \* failure_context
  metadata,  \* what the trap has appended to the metadata file
  ran,       \* history: the benchmark runs that came to a good end
  cut,       \* history: was the last command ended by the timeout tool?
  by         \* history: what ended the script

command  == <<waiting, status, cut, ran>>
progress == <<at, completed, stage, started, last>>
ending   == <<context, metadata, by>>
vars     == <<timeouts, probe, pc, attempt, command, progress, ending>>

TOTAL_RUNS == Mixes * Repeats * Modes * Protocols

NoCase    == <<0, 0, 0, 0>>
FirstCase == <<1, 1, 1, 1>>
LastCase  == <<Mixes, Repeats, Protocols, Modes>>
Cases     == (1 .. Mixes) \X (1 .. Repeats) \X (1 .. Protocols) \X (1 .. Modes)

Run(index, case)   == [index |-> index, case |-> case]
Stage(phase)       == [phase |-> phase, run |-> Run(0, NoCase)]
Blame(phase, case, why, s) == [phase |-> phase, case |-> case, why |-> why, status |-> s]
None == Blame("none", NoCase, "none", 0)

(* Wrong: only what the manual of GNU timeout lists is a timeout. *)
DocumentedTimeout(s) == timeouts /\ s \in {124, 137, 143}

is_timeout_status(s) == timeouts /\ s \in {124, 137, 143, probe}

ExitKind(s) ==
  CASE s = 0                -> "success"
    [] is_timeout_status(s) -> "timeout"
    [] OTHER                -> IF s >= 128 THEN "signal" ELSE "failure"
-----------------------------------------------------------------------------
(* The commands the script waits for. *)
Awaited == {"timeout_probe", "connectivity", "seed", "resp3_probe", "run"}

Init ==
  /\ timeouts \in BOOLEAN
  /\ probe = -1
  /\ pc = "start" /\ waiting = FALSE /\ status = 0
  /\ attempt = 1
  /\ at = FirstCase
  /\ completed = 0
  /\ stage = Stage("connectivity")
  /\ started = Run(0, NoCase)
  /\ last = Run(0, NoCase)
  /\ context = None
  /\ metadata = {}
  /\ ran = <<>> /\ cut = FALSE /\ by = "nothing"

(* finalize_metadata as the EXIT trap, when $? is s.  A status of 0 makes   *)
(* the stage "complete".                                                    *)
finalize_metadata(s) ==
  metadata' = {[completed |-> completed,
                remaining |-> IF completed >= TOTAL_RUNS THEN 0 ELSE TOTAL_RUNS - completed,
                state     |-> IF completed >= TOTAL_RUNS THEN "complete" ELSE "incomplete",
                kind      |-> ExitKind(s),
                status    |-> s,
                stage     |-> IF s = 0 THEN Stage("complete") ELSE stage,
                started   |-> started,
                last      |-> last,
                context   |-> context]}

Exit(s, reason) ==
  /\ finalize_metadata(s)
  /\ pc' = "ended" /\ waiting' = FALSE /\ by' = reason
  /\ UNCHANGED <<timeouts, probe, attempt, status, cut, ran, progress, context>>

(* The script has decided to exit with status s, and says why. *)
Fail(s, c) ==
  /\ context' = c /\ status' = s
  /\ pc' = "exiting"
  /\ UNCHANGED <<attempt, waiting, cut, ran, progress, metadata, by>>

(* Wrong: the stage is still the one before. *)
EnterSilently(phase) ==
  /\ pc' = phase /\ waiting' = (phase \in Awaited)
  /\ attempt' = 1
  /\ UNCHANGED <<status, cut, ran, progress, ending>>

Enter(phase) ==
  /\ stage' = Stage(phase)
  /\ pc' = phase /\ waiting' = (phase \in Awaited)
  /\ attempt' = 1
  /\ UNCHANGED <<status, cut, ran, at, completed, started, last, ending>>

Begin ==
  /\ pc = "start"
  /\ Enter(IF timeouts THEN "timeout_probe" ELSE "connectivity")
  /\ UNCHANGED <<timeouts, probe>>

(* How the command ends: by itself, or with the timeout tool's own status.  *)
(* The probe of the tool ends as the tool pleases.                          *)
Outcomes ==
  IF pc = "timeout_probe"
  THEN [status : ProbeExits, cut : {FALSE}]
  ELSE [status : Statuses \cup {0}, cut : {FALSE}] \cup
       [status : IF timeouts THEN {probe} ELSE {}, cut : {TRUE}]

CommandEnds ==
  /\ waiting
  /\ \E o \in Outcomes :
        /\ status' = o.status /\ cut' = o.cut
        /\ ran' = IF pc = "run" /\ o.status = 0 THEN Append(ran, at) ELSE ran
  /\ waiting' = FALSE
  /\ UNCHANGED <<timeouts, probe, pc, attempt, progress, ending>>

Why(s) == IF is_timeout_status(s) THEN "timeout" ELSE "failure"

(* Does the timeout tool work?  The status it ends a command with is        *)
(* remembered.                                                              *)
TimeoutVerdict ==
  /\ pc = "timeout_probe" /\ ~waiting
  /\ probe' = status
  /\ \/ status = 0 /\ Fail(1, Blame(pc, NoCase, "unexpected-success", 0))
     \/ status \in 125 .. 127 /\ Fail(1, Blame(pc, NoCase, "failure", status))
     \/ status \in 1 .. 123 /\ Fail(1, Blame(pc, NoCase, "unexpected-exit", status))
     \/ (status = 124 \/ status >= 128) /\ Enter("connectivity")
  /\ UNCHANGED timeouts

MaxAttempts == 2

(* Wrong: the attempts are not counted. *)
SameAttempt(n) == n

NextAttempt(n) == n + 1

(* run_cli_preflight_or_report once its command has ended, and the check of *)
(* the answer.  Some errors are worth a second attempt, but not a third;    *)
(* whether this is one is for its text to say.                              *)
PreflightVerdict(phase, next) ==
  /\ pc = phase /\ ~waiting
  /\ \/ status = 0 /\ Enter(next)
     \/ status = 0 /\ Fail(1, Blame(phase, NoCase, "unexpected-response", 0))
     \/ /\ status # 0 /\ attempt < MaxAttempts
        /\ attempt' = NextAttempt(attempt) /\ waiting' = TRUE
        /\ UNCHANGED <<pc, status, cut, ran, progress, ending>>
     \/ status # 0 /\ Fail(status, Blame(phase, NoCase, Why(status), status))
  /\ UNCHANGED <<timeouts, probe>>

(* The RESP3 probe has one attempt, and speaks before it says why. *)
Resp3Verdict ==
  /\ pc = "resp3_probe" /\ ~waiting
  /\ \/ status = 0 /\ Enter("runs") /\ UNCHANGED <<timeouts, probe>>
     \/ /\ status # 0 /\ Fail(status, Blame(pc, NoCase, Why(status), status))
        /\ UNCHANGED <<timeouts, probe>>
     \/ status # 0 /\ Exit(1, "output")

(* The error messages and the exit.  A preflight says it all where set -e   *)
(* does not apply; for a timeout probe or an answer it makes no difference. *)
Leave ==
  /\ pc = "exiting"
  /\ \/ Exit(status, "verdict")
     \/ stage.phase \in {"resp3_probe", "run"} /\ Exit(1, "output")
-----------------------------------------------------------------------------
(* run_case up to the benchmark command: four steps. *)
StartIndex ==
  /\ pc = "runs"
  /\ started' = Run(completed + 1, started.case)
  /\ pc' = "label"
  /\ UNCHANGED <<timeouts, probe, attempt, command, at, completed, stage, last, ending>>

StartLabel ==
  /\ pc = "label"
  /\ started' = Run(started.index, at)
  /\ pc' = "stage"
  /\ UNCHANGED <<timeouts, probe, attempt, command, at, completed, stage, last, ending>>

(* Wrong: the stage is that of the run before. *)
StartSilently ==
  /\ pc = "stage"
  /\ pc' = "echo"
  /\ UNCHANGED <<timeouts, probe, attempt, command, progress, ending>>

StartStage ==
  /\ pc = "stage"
  /\ stage' = [phase |-> "run", run |-> Run(completed + 1, at)]
  /\ pc' = "echo"
  /\ UNCHANGED <<timeouts, probe, attempt, command, at, completed, started, last, ending>>

(* The script tells which run it starts; it may find its output closed. *)
StartRun ==
  /\ pc = "echo"
  /\ \/ /\ pc' = "run" /\ waiting' = TRUE
        /\ UNCHANGED <<timeouts, probe, attempt, status, cut, ran, progress, ending>>
     \/ Exit(1, "output")

(* run_or_report once the benchmark has ended. *)
RunVerdict ==
  /\ pc = "run" /\ ~waiting
  /\ \/ /\ status = 0 /\ pc' = "count"
        /\ UNCHANGED <<attempt, command, progress, ending>>
     \/ status # 0 /\ Fail(status, Blame("run", started.case, Why(status), status))
  /\ UNCHANGED <<timeouts, probe>>

(* The rest of run_case, which a failure does not reach: three steps. *)
CountRun ==
  /\ pc = "count"
  /\ completed' = completed + 1
  /\ pc' = "last_index"
  /\ UNCHANGED <<timeouts, probe, attempt, command, at, stage, started, last, ending>>

(* Wrong: the index of the run is worked out again, after it was counted. *)
IndexAgain ==
  /\ pc = "last_index"
  /\ last' = Run(completed + 1, last.case)
  /\ pc' = "last_label"
  /\ UNCHANGED <<timeouts, probe, attempt, command, at, completed, stage, started, ending>>

LastIndex ==
  /\ pc = "last_index"
  /\ last' = Run(started.index, last.case)
  /\ pc' = "last_label"
  /\ UNCHANGED <<timeouts, probe, attempt, command, at, completed, stage, started, ending>>

(* Wrong: the protocols are the innermost loop. *)
ProtocolsFirst(c) ==
  CASE c[3] < Protocols -> [c EXCEPT ![3] = @ + 1]
    [] c[3] = Protocols /\ c[4] < Modes   -> [c EXCEPT ![4] = @ + 1, ![3] = 1]
    [] c[3] = Protocols /\ c[4] = Modes /\ c[2] < Repeats -> <<c[1], c[2] + 1, 1, 1>>
    [] OTHER -> <<c[1] + 1, 1, 1, 1>>

(* The four nested loops, "run_iteration_order=mix,repeat,protocol,mode". *)
NextCase(c) ==
  CASE c[4] < Modes -> [c EXCEPT ![4] = @ + 1]
    [] c[4] = Modes /\ c[3] < Protocols -> <<c[1], c[2], c[3] + 1, 1>>
    [] c[4] = Modes /\ c[3] = Protocols /\ c[2] < Repeats -> <<c[1], c[2] + 1, 1, 1>>
    [] OTHER -> <<c[1] + 1, 1, 1, 1>>

(* The label ends run_case; the loops turn. *)
LastLabel ==
  /\ pc = "last_label"
  /\ last' = Run(last.index, started.case)
  /\ at' = IF at = LastCase THEN at ELSE NextCase(at)
  /\ pc' = IF at = LastCase THEN "summary" ELSE "runs"
  /\ UNCHANGED <<timeouts, probe, attempt, command, completed, stage, started, ending>>

(* The closing message; it may find its output closed. *)
Summary ==
  /\ pc = "summary"
  /\ \/ Exit(0, "end")
     \/ \E s \in Statuses : Exit(s, "output")

SIGINT == 130

(* A signal ends the script, wherever it is.  What the trap takes for its   *)
(* exit status is that of the command that ended last: while the script     *)
(* waits that one was a good one, in between it may be a test that said no  *)
(* or the status just taken; and for SIGINT it may be the signal's own.     *)
Killed ==
  /\ pc # "ended"
  /\ \E s \in {0, SIGINT} \cup (IF waiting THEN {} ELSE {1, status}) : Exit(s, "signal")

(* What the script does itself, without waiting for a command. *)
Step ==
  \/ Begin \/ TimeoutVerdict
  \/ PreflightVerdict("connectivity", "seed") \/ PreflightVerdict("seed", "resp3_probe")
  \/ Resp3Verdict \/ Leave
  \/ StartIndex \/ StartLabel \/ StartStage \/ StartRun
  \/ RunVerdict \/ CountRun \/ LastIndex \/ LastLabel \/ Summary

Next == Step \/ CommandEnds \/ Killed

(* The timeout tool ends every command that does not end by itself; without *)
(* it a command may hang.                                                   *)
FairSpec ==
  Init /\ [][Next]_vars /\ WF_vars(Step) /\ WF_vars(timeouts /\ CommandEnds)
-----------------------------------------------------------------------------
Assigning == {"runs", "label", "stage", "echo", "count", "last_index", "last_label"}

TypeOK ==
  /\ timeouts \in BOOLEAN /\ waiting \in BOOLEAN
  /\ probe \in {-1} \cup ProbeExits
  /\ pc \in Awaited \cup Assigning \cup {"start", "exiting", "summary", "ended"}
  /\ status \in 0 .. 255 /\ attempt \in 1 .. MaxAttempts
  /\ at \in Cases
  /\ completed \in 0 .. TOTAL_RUNS
  /\ waiting => pc \in Awaited
  /\ pc \in Awaited => stage.phase = pc
  /\ pc = "run" => stage.run = started /\ started = Run(completed + 1, at)
  /\ metadata = {} <=> pc # "ended"

(* The place of a case in the order the metadata declares. *)
Index(c) ==
  (((c[1] - 1) * Repeats + c[2] - 1) * Protocols + c[3] - 1) * Modes + c[4]

(* The label of the n-th run that came to a good end. *)
Label(n) == IF n = 0 THEN NoCase ELSE ran[n]

(* The metadata claims no run that did not come to a good end and misses    *)
(* none, wherever the run ends and whatever ends it: these runs are the     *)
(* first ones in the order it declares, and the number completed, the last  *)
(* index and the last label are theirs.  Only a signal may leave the last   *)
(* of them uncounted, or counted and not yet named, in this order.          *)
MetadataIsTrue ==
  /\ \A i \in DOMAIN ran : Index(ran[i]) = i
  /\ \A m \in metadata :
       /\ m.remaining = TOTAL_RUNS - m.completed
       /\ m.state = "complete" <=> m.completed = TOTAL_RUNS
       /\ \E n \in 0 .. Len(ran) :
            /\ m.last.case = Label(n)
            /\ n <= m.last.index /\ m.last.index <= m.completed
            /\ m.completed <= Len(ran) /\ Len(ran) <= n + 1
            /\ by # "signal" => n = Len(ran)

(* A run that fails before its end is located three times, at different     *)
(* moments, and all say the same: script_stage, failure_context, and for a  *)
(* benchmark run last_run_started_*, which is one ahead of the last run     *)
(* that was completed.  A failure the script has judged has a context; one  *)
(* of its own output may not have one, and a signal may come before it.     *)
FailureIsLocated ==
  \A m \in metadata :
    m.status # 0 /\ m.state = "incomplete" =>
      /\ by = "verdict" => m.context # None
      /\ m.context # None => m.context.phase = m.stage.phase
      /\ m.stage.phase = "run" /\ (by # "signal" \/ m.context # None) =>
           /\ m.stage.run = m.started
           /\ m.context # None => m.context.case = m.started.case
           /\ m.started = Run(m.completed + 1, m.started.case)
           /\ Index(m.started.case) = m.started.index

(* What the timeout tool has ended is reported as a timeout, in the error   *)
(* as in the metadata, whichever status this tool uses for it; unless a     *)
(* signal, or a closed output, ends the script before it does so.           *)
TimeoutsAreReported ==
  \A m \in metadata :
    cut =>
      /\ m.context # None => m.context.why = "timeout"
      /\ by = "verdict" => m.kind = "timeout" /\ m.context # None

(* With timeouts the script ends, even if no server answers. *)
EndsWithTimeouts == timeouts ~> pc = "ended"

(* A run that reports success has done all its runs.  A script ended by a   *)
(* signal falls short of it.                                                *)
SuccessIsComplete ==
  \A m \in metadata : m.kind = "success" => m.state = "complete" /\ m.remaining = 0
=============================================================================
