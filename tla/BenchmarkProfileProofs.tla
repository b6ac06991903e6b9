----------------------- MODULE BenchmarkProfileProofs -----------------------
(***************************************************************************)
(* What the metadata of benchmark_profile.sh says is true, for any number  *)
(* of mixes, repeats, protocols and modes and any exit statuses.           *)
(***************************************************************************)
EXTENDS BenchmarkProfile, TLAPS

LEMMA Counts ==
  /\ Mixes \in Nat \ {0} /\ Repeats \in Nat \ {0}
  /\ Protocols \in Nat \ {0} /\ Modes \in Nat \ {0}
BY ProfileAssumption

(* Scaling by a positive number keeps the order. *)
LEMMA Scaled ==
  ASSUME NEW m \in Nat \ {0}, NEW a \in Int, NEW b \in Int, a <= b
  PROVE  a * m \in Int /\ a * m <= b * m
<1>1. (b - a) * m >= 0
  BY SMT
<1>2. (b - a) * m = b * m - a * m
  BY SMT
<1> QED
  BY <1>1, <1>2

(* The row of a case in the loops around the mode. *)
Row(c) == ((c[1] - 1) * Repeats + c[2] - 1) * Protocols + c[3] - 1

LEMMA IndexBounds ==
  ASSUME NEW c \in Cases
  PROVE  /\ Index(c) \in 1 .. TOTAL_RUNS
         /\ Index(c) = Row(c) * Modes + c[4]
<1> DEFINE q == (c[1] - 1) * Repeats + c[2] - 1
<1>1. /\ c[1] \in 1 .. Mixes /\ c[2] \in 1 .. Repeats
      /\ c[3] \in 1 .. Protocols /\ c[4] \in 1 .. Modes
  BY DEF Cases
<1>2. q \in Nat /\ q <= Mixes * Repeats - 1
  <2>1. (c[1] - 1) * Repeats \in Int /\ 0 * Repeats <= (c[1] - 1) * Repeats
    BY <1>1, Counts, Scaled
  <2>2. (c[1] - 1) * Repeats <= (Mixes - 1) * Repeats
    BY <1>1, Counts, Scaled
  <2>3. (Mixes - 1) * Repeats = Mixes * Repeats - Repeats
    BY Counts
  <2> QED
    BY <1>1, <2>1, <2>2, <2>3, Counts
<1>3. Row(c) = q * Protocols + c[3] - 1
  BY DEF Row
<1> HIDE DEF q
<1>4. Row(c) \in Nat /\ Row(c) <= Mixes * Repeats * Protocols - 1
  <2>1. q * Protocols \in Int /\ 0 * Protocols <= q * Protocols
    BY <1>2, Counts, Scaled
  <2>2. q * Protocols <= (Mixes * Repeats - 1) * Protocols
    BY <1>2, Counts, Scaled
  <2>3. (Mixes * Repeats - 1) * Protocols = Mixes * Repeats * Protocols - Protocols
    BY Counts
  <2> QED
    BY <1>1, <1>3, <2>1, <2>2, <2>3, Counts
<1>5. Index(c) = Row(c) * Modes + c[4]
  BY DEF Index, Row
<1> DEFINE r == Row(c)
           n == Mixes * Repeats * Protocols
<1>6. r \in Nat /\ n \in Int /\ r <= n - 1
  BY <1>4, Counts
<1>7. TOTAL_RUNS = n * Modes
  BY Counts DEF TOTAL_RUNS
<1>8. Index(c) = r * Modes + c[4]
  BY <1>5
<1> HIDE DEF r, n
<1>9. r * Modes \in Int /\ 0 * Modes <= r * Modes
  BY <1>6, Counts, Scaled
<1>10. r * Modes <= (n - 1) * Modes
  BY <1>6, Counts, Scaled
<1>11. (n - 1) * Modes = n * Modes - Modes
  BY <1>6, Counts
<1> QED
  BY <1>1, <1>5, <1>6, <1>7, <1>8, <1>9, <1>10, <1>11, Counts

(* The first case comes first and the last one last. *)
LEMMA FirstAndLast ==
  /\ FirstCase \in Cases /\ Index(FirstCase) = 1
  /\ LastCase \in Cases /\ Index(LastCase) = TOTAL_RUNS
<1>1. FirstCase \in Cases /\ LastCase \in Cases
  BY Counts DEF FirstCase, LastCase, Cases
<1>2. Index(FirstCase) = 1
  BY Counts DEF FirstCase, Index
<1>3. Index(LastCase) = TOTAL_RUNS
  <2>1. Index(LastCase) = (((Mixes - 1) * Repeats + Repeats - 1) * Protocols + Protocols - 1) * Modes + Modes
    BY DEF Index, LastCase
  <2>2. (Mixes - 1) * Repeats + Repeats = Mixes * Repeats
    BY Counts
  <2>3. (Mixes * Repeats - 1) * Protocols + Protocols = Mixes * Repeats * Protocols
    BY Counts
  <2>4. (Mixes * Repeats * Protocols - 1) * Modes + Modes = Mixes * Repeats * Protocols * Modes
    BY Counts
  <2> QED
    BY <2>1, <2>2, <2>3, <2>4, Counts DEF TOTAL_RUNS
<1> QED
  BY <1>1, <1>2, <1>3

(* The loops take the cases in the order the metadata declares. *)
LEMMA NextIndex ==
  ASSUME NEW c \in Cases, c # LastCase
  PROVE  NextCase(c) \in Cases /\ Index(NextCase(c)) = Index(c) + 1
<1>1. /\ c[1] \in 1 .. Mixes /\ c[2] \in 1 .. Repeats
      /\ c[3] \in 1 .. Protocols /\ c[4] \in 1 .. Modes
      /\ c = <<c[1], c[2], c[3], c[4]>>
  BY DEF Cases
<1>2. CASE c[4] < Modes
  <2>1. NextCase(c) = <<c[1], c[2], c[3], c[4] + 1>>
    BY <1>1, <1>2 DEF NextCase, Cases
  <2> QED
    BY <1>1, <1>2, <2>1, Counts DEF Cases, Index
<1>3. CASE c[4] = Modes /\ c[3] < Protocols
  <2>1. NextCase(c) = <<c[1], c[2], c[3] + 1, 1>>
    BY <1>1, <1>3, Counts DEF NextCase
  <2> QED
    BY <1>1, <1>3, <2>1, Counts DEF Cases, Index
<1>4. CASE c[4] = Modes /\ c[3] = Protocols /\ c[2] < Repeats
  <2>1. NextCase(c) = <<c[1], c[2] + 1, 1, 1>>
    BY <1>1, <1>4, Counts DEF NextCase
  <2> QED
    BY <1>1, <1>4, <2>1, Counts DEF Cases, Index
<1>5. CASE c[4] = Modes /\ c[3] = Protocols /\ c[2] = Repeats
  <2>1. NextCase(c) = <<c[1] + 1, 1, 1, 1>>
    BY <1>1, <1>5, Counts DEF NextCase
  <2>2. c[1] < Mixes
    BY <1>1, <1>5, Counts DEF LastCase
  <2> QED
    BY <1>1, <1>5, <2>1, <2>2, Counts DEF Cases, Index
<1> QED
  BY <1>1, <1>2, <1>3, <1>4, <1>5, Counts
-----------------------------------------------------------------------------
(* The runs that came to a good end and the loop variables, which `Index'   *)
(* turns into a counter; and how far the other counters are behind it while *)
(* the script is between the end of a run and its last assignment.          *)
Uncounted == pc = "count" \/ (pc = "run" /\ ~waiting /\ status = 0)
Unnamed   == Uncounted \/ pc \in {"last_index", "last_label"}

InOrder ==
  /\ ran \in Seq(Cases)
  /\ \A i \in DOMAIN ran : Index(ran[i]) = i

InPlace ==
  /\ at \in Cases
  /\ Unnamed => Len(ran) > 0 /\ Index(at) = Len(ran) /\ at = ran[Len(ran)]
  /\ ~Unnamed /\ pc \notin {"exiting", "summary", "ended"} => Index(at) = Len(ran) + 1

Counted ==
  /\ Len(ran) <= TOTAL_RUNS /\ completed \in 0 .. TOTAL_RUNS
  /\ pc # "ended" =>
       /\ completed = IF Uncounted THEN Len(ran) - 1 ELSE Len(ran)
       /\ last = Run(IF Uncounted \/ pc = "last_index" THEN Len(ran) - 1 ELSE Len(ran),
                     Label(IF Unnamed THEN Len(ran) - 1 ELSE Len(ran)))

Started ==
  /\ pc = "label" => started.index = completed + 1
  /\ pc \in {"stage", "echo", "run", "count"} => started = Run(completed + 1, at)
  /\ pc \in {"last_index", "last_label"} => started = Run(completed, at)

Written ==
  /\ pc # "ended" => metadata = {}
  /\ MetadataIsTrue

IInv == InOrder /\ InPlace /\ Counted /\ Started /\ Written

LEMMA TotalIsNat == TOTAL_RUNS \in Nat \ {0}
BY FirstAndLast, IndexBounds, Counts DEF TOTAL_RUNS

LEMMA InitIInv == Init => IInv
<1> SUFFICES ASSUME Init PROVE IInv
  OBVIOUS
<1> USE DEF Init
<1>1. InOrder
  BY DEF InOrder
<1>2. InPlace
  BY FirstAndLast DEF InPlace, Unnamed, Uncounted
<1>3. Counted
  BY TotalIsNat DEF Counted, Unnamed, Uncounted, Label
<1>4. Started
  BY DEF Started
<1>5. Written
  BY DEF Written, MetadataIsTrue
<1> QED
  BY <1>1, <1>2, <1>3, <1>4, <1>5 DEF IInv

(* What the trap finds is true, and exact unless a signal came between a    *)
(* run's end and its last assignment.                                       *)
LEMMA ExitWrites ==
  ASSUME IInv, pc # "ended", NEW s, NEW reason, Exit(s, reason),
         reason = "signal" \/ ~Unnamed
  PROVE  IInv'
<1> USE DEF IInv
<1>1. UNCHANGED <<at, completed, last, ran>> /\ pc' = "ended" /\ by' = reason
  BY DEF Exit, progress
<1>2. InOrder' /\ InPlace' /\ Counted' /\ Started'
  BY <1>1 DEF InOrder, InPlace, Counted, Started, Index, Unnamed, Uncounted, TOTAL_RUNS
<1>3. Written'
  <2>1. ASSUME NEW m \in metadata'
        PROVE  /\ m.remaining = TOTAL_RUNS - m.completed
               /\ m.state = "complete" <=> m.completed = TOTAL_RUNS
               /\ \E n \in 0 .. Len(ran) :
                    /\ m.last.case = Label(n)
                    /\ n <= m.last.index /\ m.last.index <= m.completed
                    /\ m.completed <= Len(ran) /\ Len(ran) <= n + 1
                    /\ reason # "signal" => n = Len(ran)
    <3>1. /\ m.completed = completed /\ m.last = last
          /\ m.remaining = IF completed >= TOTAL_RUNS THEN 0 ELSE TOTAL_RUNS - completed
          /\ m.state = IF completed >= TOTAL_RUNS THEN "complete" ELSE "incomplete"
      BY <2>1 DEF Exit, finalize_metadata
    <3>2. /\ Len(ran) \in Nat /\ Len(ran) <= TOTAL_RUNS /\ TOTAL_RUNS \in Nat
          /\ Unnamed => Len(ran) > 0
          /\ Uncounted => Unnamed
      BY TotalIsNat DEF InOrder, InPlace, Counted, Unnamed
    <3>3. completed = IF Uncounted THEN Len(ran) - 1 ELSE Len(ran)
      BY DEF Counted
    <3>4. /\ last.index = IF Uncounted \/ pc = "last_index" THEN Len(ran) - 1 ELSE Len(ran)
          /\ last.case = Label(IF Unnamed THEN Len(ran) - 1 ELSE Len(ran))
      BY DEF Counted, Run
    <3>5. pc = "last_index" => Unnamed
      BY DEF Unnamed
    <3>6. m.remaining = TOTAL_RUNS - m.completed /\ (m.state = "complete" <=> m.completed = TOTAL_RUNS)
      <4>1. completed \in Int /\ completed <= TOTAL_RUNS
        BY <3>2, <3>3
      <4>2. completed >= TOTAL_RUNS <=> completed = TOTAL_RUNS
        BY <3>2, <4>1
      <4> QED
        BY <3>1, <3>2, <4>1, <4>2
    <3> DEFINE n == IF Unnamed THEN Len(ran) - 1 ELSE Len(ran)
    <3>7. /\ n \in 0 .. Len(ran) /\ m.last.case = Label(n)
          /\ n <= m.last.index /\ m.last.index <= m.completed
          /\ m.completed <= Len(ran) /\ Len(ran) <= n + 1
          /\ reason # "signal" => n = Len(ran)
      BY <3>1, <3>2, <3>3, <3>4, <3>5
    <3> QED
      BY <3>6, <3>7
  <2>2. /\ \A i \in DOMAIN ran' : Index(ran[i])' = i
        /\ \A n : Label(n)' = Label(n)
        /\ TOTAL_RUNS' = TOTAL_RUNS
    BY <1>1 DEF InOrder, Index, Label, TOTAL_RUNS
  <2> QED
    BY <1>1, <2>1, <2>2 DEF Written, MetadataIsTrue, Index, Label
<1> QED
  BY <1>2, <1>3

(* A step that neither ends a run nor the script. *)
LEMMA Elsewhere ==
  ASSUME IInv, UNCHANGED <<at, completed, last, ran, metadata>>,
         pc # "ended", ~Unnamed, ~Unnamed', pc' \notin {"summary", "ended"},
         pc \in {"exiting", "summary"} => pc' = pc \/ pc' = "exiting",
         Started'
  PROVE  IInv'
<1> USE DEF IInv
<1>1. InOrder'
  BY DEF InOrder, Index
<1>2. InPlace'
  BY DEF InPlace, Index
<1>3. Counted'
  BY DEF Counted, Unnamed, Label, TOTAL_RUNS
<1>4. Written'
  BY DEF Written, MetadataIsTrue, InOrder, Index
<1> QED
  BY <1>1, <1>2, <1>3, <1>4

(* The command before the runs ends, or the benchmark does.                 *)
LEMMA CommandIInv == IInv /\ CommandEnds /\ (waiting => pc \in Awaited) => IInv'
<1> SUFFICES ASSUME IInv, CommandEnds, pc \in Awaited PROVE IInv'
  BY DEF CommandEnds
<1>1. /\ waiting /\ pc' = pc /\ waiting' = FALSE
      /\ UNCHANGED <<at, completed, last, started, metadata>>
      /\ ~Unnamed /\ pc \notin {"exiting", "summary", "ended"}
  BY DEF CommandEnds, progress, ending, Unnamed, Uncounted, Awaited
<1>2. CASE pc = "run" /\ status' = 0
  <2>1. ran' = Append(ran, at) /\ Unnamed' /\ Uncounted'
    BY <1>1, <1>2 DEF CommandEnds, Unnamed, Uncounted
  <2>2. ran \in Seq(Cases) /\ at \in Cases /\ Index(at) = Len(ran) + 1 /\ metadata = {}
    BY <1>1 DEF IInv, InOrder, InPlace, Written
  <2>3. /\ ran' \in Seq(Cases) /\ Len(ran') = Len(ran) + 1 /\ Len(ran) \in Nat
        /\ ran'[Len(ran) + 1] = at
        /\ \A i \in DOMAIN ran : ran'[i] = ran[i]
        /\ DOMAIN ran' = DOMAIN ran \cup {Len(ran) + 1}
        /\ DOMAIN ran = 1 .. Len(ran)
    BY <2>1, <2>2
  <2>4. InOrder'
    BY <2>2, <2>3 DEF IInv, InOrder
  <2>5. InPlace'
    BY <1>1, <2>1, <2>2, <2>3 DEF InPlace, Index
  <2>6. Counted'
    <3>1. Len(ran') <= TOTAL_RUNS
      BY <2>2, <2>3, IndexBounds, TotalIsNat
    <3>2. completed = Len(ran) /\ last = Run(Len(ran), Label(Len(ran)))
      BY <1>1, <1>2 DEF IInv, Counted, Unnamed
    <3>3. Label(Len(ran)) = Label(Len(ran) - 1)'
      BY <2>3 DEF Label
    <3>4. completed' \in 0 .. TOTAL_RUNS'
      BY <1>1 DEF IInv, Counted, TOTAL_RUNS
    <3>5. Len(ran') - 1 = Len(ran)
      BY <2>3
    <3> QED
      BY <1>1, <2>1, <3>1, <3>2, <3>3, <3>4, <3>5 DEF Counted, TOTAL_RUNS
  <2>7. Started'
    BY <1>1, <1>2 DEF IInv, Started
  <2>8. Written'
    BY <1>1, <2>2, <2>4 DEF Written, MetadataIsTrue, InOrder, Index
  <2> QED
    BY <2>4, <2>5, <2>6, <2>7, <2>8 DEF IInv
<1>3. CASE ~(pc = "run" /\ status' = 0)
  <2>1. ran' = ran
    BY <1>3 DEF CommandEnds
  <2>2. Started'
    BY <1>1 DEF IInv, Started
  <2>3. ~Unnamed'
    BY <1>1, <1>3 DEF Unnamed, Uncounted, Awaited
  <2> QED
    BY <1>1, <2>1, <2>2, <2>3, Elsewhere
<1> QED
  BY <1>2, <1>3

(* The steps from a good end to the next run. *)
LEMMA CountIInv == IInv /\ (CountRun \/ LastIndex \/ LastLabel) => IInv'
<1> SUFFICES ASSUME IInv, CountRun \/ LastIndex \/ LastLabel PROVE IInv'
  OBVIOUS
<1> USE DEF IInv
<1>1. /\ pc \in {"count", "last_index", "last_label"} /\ Unnamed
      /\ UNCHANGED <<ran, started, metadata>> /\ metadata = {}
      /\ pc' \in {"last_index", "last_label", "runs", "summary"}
      /\ ~Uncounted'
  BY DEF CountRun, LastIndex, LastLabel, Unnamed, Uncounted, command, ending, Written
<1>2. InOrder' /\ Written'
  BY <1>1 DEF InOrder, Written, MetadataIsTrue, Index
<1>3. /\ Len(ran) \in Nat \ {0} /\ Index(at) = Len(ran) /\ at = ran[Len(ran)] /\ at \in Cases
      /\ Len(ran) <= TOTAL_RUNS
  BY <1>1 DEF InOrder, InPlace, Counted
<1>4. \A n : Label(n)' = Label(n)
  BY <1>1 DEF Label
<1>5. CASE CountRun
  <2>1. pc = "count" /\ pc' = "last_index" /\ UNCHANGED <<at, last>> /\ completed' = completed + 1
    BY <1>5 DEF CountRun
  <2>2. completed = Len(ran) - 1 /\ last = Run(Len(ran) - 1, Label(Len(ran) - 1))
    BY <2>1 DEF Counted, Uncounted, Unnamed
  <2>3. InPlace'
    BY <1>1, <1>3, <2>1 DEF InPlace, Unnamed, Index
  <2>4. Counted'
    BY <1>1, <1>3, <1>4, <2>1, <2>2 DEF Counted, Unnamed, TOTAL_RUNS
  <2>5. Started'
    BY <1>1, <2>1, <2>2, <1>3 DEF Started
  <2> QED
    BY <1>2, <2>3, <2>4, <2>5
<1>6. CASE LastIndex
  <2>1. /\ pc = "last_index" /\ pc' = "last_label" /\ UNCHANGED <<at, completed>>
        /\ last' = Run(started.index, last.case)
    BY <1>6 DEF LastIndex
  <2>2. completed = Len(ran) /\ last.case = Label(Len(ran) - 1)
    BY <2>1 DEF Counted, Uncounted, Unnamed, Run
  <2>3. started.index = Len(ran)
    BY <2>1, <2>2 DEF Started, Run
  <2>4. InPlace'
    BY <1>1, <1>3, <2>1 DEF InPlace, Unnamed, Index
  <2>5. Counted'
    BY <1>1, <1>3, <1>4, <2>1, <2>2, <2>3 DEF Counted, Unnamed, TOTAL_RUNS
  <2>6. Started'
    BY <1>1, <2>1 DEF Started
  <2> QED
    BY <1>2, <2>4, <2>5, <2>6
<1>7. CASE LastLabel
  <2>1. /\ pc = "last_label" /\ UNCHANGED completed
        /\ last' = Run(last.index, started.case)
        /\ at' = IF at = LastCase THEN at ELSE NextCase(at)
        /\ pc' = IF at = LastCase THEN "summary" ELSE "runs"
    BY <1>7 DEF LastLabel
  <2>2. completed = Len(ran) /\ last.index = Len(ran)
    BY <2>1 DEF Counted, Uncounted, Unnamed, Run
  <2>3. started.case = at /\ Label(Len(ran)) = at
    BY <1>3, <2>1 DEF Started, Run, Label
  <2>4. ~Unnamed'
    BY <1>1, <2>1 DEF Unnamed
  <2>5. InPlace'
    <3>1. CASE at = LastCase
      BY <1>3, <2>1, <2>4, <3>1 DEF InPlace
    <3>2. CASE at # LastCase
      BY <1>1, <1>3, <2>1, <2>4, <3>2, NextIndex DEF InPlace, Index
    <3> QED
      BY <3>1, <3>2
  <2>6. Counted'
    BY <1>1, <1>3, <1>4, <2>1, <2>2, <2>3, <2>4 DEF Counted, TOTAL_RUNS
  <2>7. Started'
    BY <2>1 DEF Started
  <2> QED
    BY <1>2, <2>5, <2>6, <2>7
<1> QED
  BY <1>5, <1>6, <1>7

(* A failure is decided before a run, or by a run that did not end well.    *)
LEMMA FailKeeps ==
  ASSUME IInv, NEW s, NEW c, Fail(s, c), pc \in Awaited, ~Unnamed
  PROVE  IInv'
<1>1. /\ pc' = "exiting" /\ UNCHANGED <<at, completed, last, ran, metadata>>
      /\ pc \notin {"ended", "exiting", "summary"}
  BY DEF Fail, progress, Awaited
<1>2. ~Unnamed' /\ Started'
  BY <1>1 DEF Unnamed, Uncounted, Started
<1> QED
  BY <1>1, <1>2, Elsewhere

LEMMA EnterKeeps ==
  ASSUME IInv, NEW next, Enter(next), ~Unnamed,
         pc \in {"start", "timeout_probe", "connectivity", "seed", "resp3_probe"},
         next \in {"timeout_probe", "connectivity", "seed", "resp3_probe", "runs"}
  PROVE  IInv'
<1>1. pc' = next /\ UNCHANGED <<at, completed, last, ran, metadata>>
  BY DEF Enter, ending
<1>2. ~Unnamed' /\ Started'
  BY <1>1 DEF Unnamed, Uncounted, Started
<1> QED
  BY <1>1, <1>2, Elsewhere

Verdicts ==
  \/ Begin \/ TimeoutVerdict
  \/ PreflightVerdict("connectivity", "seed") \/ PreflightVerdict("seed", "resp3_probe")
  \/ Resp3Verdict

(* What the script does with a status, before the runs. *)
LEMMA VerdictCases ==
  ASSUME Verdicts
  PROVE  /\ pc \in {"start", "timeout_probe", "connectivity", "seed", "resp3_probe"}
         /\ ~Unnamed
         /\ timeouts' = timeouts
         /\ \/ \E next \in {"timeout_probe", "connectivity", "seed", "resp3_probe", "runs"} :
                 Enter(next)
            \/ \E s, c : Fail(s, c) /\ pc \in Awaited /\ c # None /\ c.phase = pc
            \/ /\ pc' = pc /\ pc \in {"connectivity", "seed"} /\ waiting' = TRUE
               /\ attempt < MaxAttempts /\ attempt' = NextAttempt(attempt)
               /\ UNCHANGED <<probe, status, cut, ran, progress, ending>>
            \/ pc = "resp3_probe" /\ Exit(1, "output")
<1>1. CASE Begin
  BY <1>1 DEF Begin, Unnamed, Uncounted
<1>2. CASE TimeoutVerdict
  BY <1>2 DEF TimeoutVerdict, Awaited, Blame, None, Unnamed, Uncounted
<1>3. CASE PreflightVerdict("connectivity", "seed")
  BY <1>3 DEF PreflightVerdict, Awaited, Blame, None, Unnamed, Uncounted
<1>4. CASE PreflightVerdict("seed", "resp3_probe")
  BY <1>4 DEF PreflightVerdict, Awaited, Blame, None, Unnamed, Uncounted
<1>5. CASE Resp3Verdict
  BY <1>5 DEF Resp3Verdict, Awaited, Blame, None, Unnamed, Uncounted, Exit
<1> QED
  BY <1>1, <1>2, <1>3, <1>4, <1>5 DEF Verdicts

LEMMA VerdictIInv == IInv /\ Verdicts => IInv'
<1> SUFFICES ASSUME IInv, Verdicts PROVE IInv'
  OBVIOUS
<1>1. CASE /\ pc' = pc /\ pc \in {"connectivity", "seed"}
           /\ UNCHANGED <<probe, status, cut, ran, progress, ending>>
  <2>1. UNCHANGED <<at, completed, last, ran, metadata>>
    BY <1>1 DEF progress, ending
  <2>2. ~Unnamed /\ ~Unnamed' /\ Started'
    BY <1>1 DEF Unnamed, Uncounted, Started
  <2> QED
    BY <1>1, <2>1, <2>2, Elsewhere
<1> QED
  BY <1>1, VerdictCases, EnterKeeps, FailKeeps, ExitWrites

Starts == StartIndex \/ StartLabel \/ StartStage

LEMMA StartIInv == IInv /\ Starts => IInv'
<1> SUFFICES ASSUME IInv, Starts PROVE IInv'
  OBVIOUS
<1>1. /\ pc \in {"runs", "label", "stage"} /\ pc' \in {"label", "stage", "echo"}
      /\ UNCHANGED <<at, completed, last, ran, metadata>>
  BY DEF Starts, StartIndex, StartLabel, StartStage, command, ending
<1>2. ~Unnamed /\ ~Unnamed'
  BY <1>1 DEF Unnamed, Uncounted
<1>3. Started'
  BY DEF IInv, Started, Starts, StartIndex, StartLabel, StartStage, Run
<1> QED
  BY <1>1, <1>2, <1>3, Elsewhere

LEMMA StartRunIInv == IInv /\ StartRun => IInv'
<1> SUFFICES ASSUME IInv, StartRun PROVE IInv'
  OBVIOUS
<1>1. pc = "echo" /\ ~Unnamed
  BY DEF StartRun, Unnamed, Uncounted
<1>2. CASE Exit(1, "output")
  BY <1>1, <1>2, ExitWrites
<1>3. CASE /\ pc' = "run" /\ waiting' = TRUE
           /\ UNCHANGED <<ran, progress, ending>>
  <2>1. UNCHANGED <<at, completed, last, ran, started, metadata>>
    BY <1>3 DEF progress, ending
  <2>2. ~Unnamed' /\ Started'
    BY <1>1, <1>3, <2>1 DEF IInv, Unnamed, Uncounted, Started
  <2> QED
    BY <1>1, <1>3, <2>1, <2>2, Elsewhere
<1> QED
  BY <1>2, <1>3 DEF StartRun

(* A run that ended well goes on to be counted; another is a failure.       *)
LEMMA RunIInv == IInv /\ RunVerdict => IInv'
<1> SUFFICES ASSUME IInv, RunVerdict PROVE IInv'
  OBVIOUS
<1>1. pc = "run" /\ ~waiting
  BY DEF RunVerdict
<1>2. CASE /\ status = 0 /\ pc' = "count"
           /\ UNCHANGED <<attempt, command, progress, ending>>
  <2>1. /\ Uncounted /\ Unnamed /\ Uncounted' /\ Unnamed'
        /\ UNCHANGED <<at, completed, last, ran, started, metadata>>
    BY <1>1, <1>2 DEF Unnamed, Uncounted, command, progress, ending
  <2>2. InOrder' /\ InPlace'
    BY <1>1, <1>2, <2>1 DEF IInv, InOrder, InPlace, Index
  <2>3. Counted' /\ Started'
    BY <1>1, <1>2, <2>1 DEF IInv, Counted, Started, Label, TOTAL_RUNS
  <2>4. Written'
    BY <1>1, <1>2, <2>1, <2>2 DEF IInv, Written, MetadataIsTrue, InOrder, Index
  <2> QED
    BY <2>2, <2>3, <2>4 DEF IInv
<1>3. CASE status # 0 /\ \E s, c : Fail(s, c)
  <2>1. pc \in Awaited /\ ~Unnamed
    BY <1>1, <1>3 DEF Awaited, Unnamed, Uncounted
  <2> QED
    BY <1>3, <2>1, FailKeeps
<1> QED
  BY <1>2, <1>3 DEF RunVerdict

LEMMA EndIInv == IInv /\ (Leave \/ Summary \/ Killed) => IInv'
<1> SUFFICES ASSUME IInv, Leave \/ Summary \/ Killed PROVE IInv'
  OBVIOUS
<1>1. pc # "ended" /\ \E s, r : Exit(s, r) /\ (r = "signal" \/ pc \in {"exiting", "summary"})
  BY DEF Leave, Summary, Killed
<1>2. pc \in {"exiting", "summary"} => ~Unnamed
  BY DEF Unnamed, Uncounted
<1> QED
  BY <1>1, <1>2, ExitWrites

(* The script waits for commands only. *)
Waits == waiting => pc \in Awaited

LEMMA WaitsHolds == Waits /\ [Next]_vars => Waits'
<1> SUFFICES ASSUME Waits, [Next]_vars PROVE Waits'
  OBVIOUS
<1> USE DEF Waits
<1>1. \A s, r : Exit(s, r) => Waits'
  BY DEF Exit
<1>2. \A next : Enter(next) => Waits'
  BY DEF Enter
<1>3. CASE Verdicts
  <2>1. \A s, c : Fail(s, c) /\ Verdicts => Waits'
    BY DEF Fail, Verdicts, Begin, TimeoutVerdict, PreflightVerdict, Resp3Verdict, Exit, Enter
  <2>2. pc' = pc /\ pc \in {"connectivity", "seed"} => Waits'
    BY DEF Awaited
  <2> QED
    BY <1>1, <1>2, <1>3, <2>1, <2>2, VerdictCases
<1>4. CASE CommandEnds
  BY <1>4 DEF CommandEnds
<1>5. CASE Starts \/ CountRun \/ LastIndex \/ LastLabel
  BY <1>5 DEF Starts, StartIndex, StartLabel, StartStage, CountRun, LastIndex, LastLabel,
              command, Awaited
<1>6. CASE StartRun
  BY <1>1, <1>6 DEF StartRun, Awaited
<1>7. CASE RunVerdict
  BY <1>7 DEF RunVerdict, Fail, command
<1>8. CASE Leave \/ Summary \/ Killed
  BY <1>1, <1>8 DEF Leave, Summary, Killed
<1>9. CASE UNCHANGED vars
  BY <1>9 DEF vars, command
<1> QED
  BY <1>3, <1>4, <1>5, <1>6, <1>7, <1>8, <1>9 DEF Next, Step, Verdicts, Starts

LEMMA IInvHolds == IInv /\ Waits /\ [Next]_vars => IInv'
<1> SUFFICES ASSUME IInv, Waits, [Next]_vars PROVE IInv'
  OBVIOUS
<1>1. CASE Verdicts
  BY <1>1, VerdictIInv
<1>2. CASE CommandEnds
  BY <1>2, CommandIInv DEF Waits
<1>3. CASE Starts \/ StartRun
  BY <1>3, StartIInv, StartRunIInv
<1>4. CASE RunVerdict
  BY <1>4, RunIInv
<1>5. CASE CountRun \/ LastIndex \/ LastLabel
  BY <1>5, CountIInv
<1>6. CASE Leave \/ Summary \/ Killed
  BY <1>6, EndIInv
<1>7. CASE UNCHANGED vars
  BY <1>7 DEF vars, command, progress, ending, IInv, InOrder, InPlace, Counted, Started,
              Written, MetadataIsTrue, Index, Label, Unnamed, Uncounted, TOTAL_RUNS
<1> QED
  BY <1>1, <1>2, <1>3, <1>4, <1>5, <1>6, <1>7 DEF Next, Step, Verdicts, Starts

(* Whatever the commands do and wherever a signal ends the script, between  *)
(* any two of its assignments, the metadata claims no benchmark run that    *)
(* did not come to a good end and, but for the last one when a signal comes *)
(* between its end and its assignments, misses none; these are the first    *)
(* ones in the order the file declares: for any number of runs.             *)
THEOREM MetadataAlwaysTrue == FairSpec => []MetadataIsTrue
<1>1. Init => IInv /\ Waits
  BY InitIInv DEF Init, Waits
<1>2. IInv /\ Waits /\ [Next]_vars => (IInv /\ Waits)'
  BY IInvHolds, WaitsHolds
<1>3. IInv => MetadataIsTrue
  BY DEF IInv, Written
<1> QED
  BY <1>1, <1>2, <1>3, PTL DEF FairSpec
-----------------------------------------------------------------------------
(* The stage is that of the command the script is at, and names the run;    *)
(* while the script is leaving, so does the context, and nothing before has *)
(* one.                                                                     *)
Before == {"timeout_probe", "connectivity", "seed", "resp3_probe"}

Staged ==
  /\ pc \in {"start"} \cup Awaited => stage.phase \in Awaited /\ (pc = "start" \/ stage.phase = pc)
  /\ pc = "start" => stage.phase # "run"
  /\ pc \in {"runs", "label", "stage"} => stage.phase \in {"runs", "run"}
  /\ pc \in {"echo", "run", "count", "last_index", "last_label", "summary"} =>
       stage = [phase |-> "run", run |-> started]
  /\ pc = "summary" => completed = TOTAL_RUNS

Blamed ==
  /\ pc \notin {"exiting", "ended"} => context = None
  /\ pc = "exiting" =>
       /\ context # None /\ context.phase = stage.phase
       /\ stage.phase \in Awaited
       /\ stage.phase = "run" =>
            /\ stage = [phase |-> "run", run |-> started]
            /\ started = Run(completed + 1, context.case)
            /\ Index(context.case) = completed + 1

Places == pc \in Awaited \cup Assigning \cup {"start", "exiting", "summary", "ended"}

LInv == IInv /\ Waits /\ Places /\ Staged /\ Blamed /\ FailureIsLocated

LEMMA InitLInv == Init => LInv
<1> SUFFICES ASSUME Init PROVE LInv
  OBVIOUS
<1>1. IInv /\ Waits
  BY InitIInv DEF Init, Waits
<1>2. Places /\ Staged /\ Blamed
  BY DEF Init, Places, Awaited, Assigning, Staged, Blamed, Stage
<1>3. FailureIsLocated
  BY DEF Init, FailureIsLocated
<1> QED
  BY <1>1, <1>2, <1>3 DEF LInv

(* The trap tells what it finds: a judged failure, an output that is closed *)
(* before or after it, the end of all runs, or no more than a signal.       *)
LEMMA ExitLocates ==
  ASSUME LInv, [Next]_vars, pc # "ended", NEW s, NEW reason, Exit(s, reason),
         \/ reason = "signal"
         \/ s = 0
         \/ reason = "output" /\ pc \in {"resp3_probe", "echo", "exiting", "summary"}
         \/ reason = "verdict" /\ pc = "exiting"
  PROVE  LInv'
<1>1. /\ UNCHANGED <<at, completed, ran, started, stage, context>>
      /\ pc' = "ended" /\ waiting' = FALSE /\ by' = reason
  BY DEF Exit, progress
<1>2. IInv'
  BY IInvHolds DEF LInv
<1>3. Places' /\ Staged' /\ Blamed' /\ Waits'
  BY <1>1 DEF Places, Staged, Blamed, Awaited, Waits
<1>4. FailureIsLocated'
  <2> SUFFICES ASSUME NEW m \in metadata', m.status # 0, m.state = "incomplete"
      PROVE  /\ by' = "verdict" => m.context # None
             /\ m.context # None => m.context.phase = m.stage.phase
             /\ m.stage.phase = "run" /\ (by' # "signal" \/ m.context # None) =>
                  /\ m.stage.run = m.started
                  /\ m.context # None => m.context.case = m.started.case
                  /\ m.started = Run(m.completed + 1, m.started.case)
                  /\ Index(m.started.case) = m.started.index
    BY DEF FailureIsLocated, Index, Run, None, Blame, NoCase
  <2>1. /\ m.status = s /\ m.context = context /\ m.started = started
        /\ m.completed = completed /\ m.stage = stage
        /\ m.state = IF completed >= TOTAL_RUNS THEN "complete" ELSE "incomplete"
    BY DEF Exit, finalize_metadata
  <2>2. s # 0 /\ pc # "summary"
    BY <2>1, TotalIsNat DEF LInv, Staged
  <2>3. CASE pc = "exiting"
    <3>1. /\ context # None /\ context.phase = stage.phase
          /\ stage.phase = "run" =>
               /\ stage.run = started
               /\ started = Run(completed + 1, context.case)
               /\ Index(context.case) = completed + 1
      BY <2>3 DEF LInv, Blamed
    <3>2. stage.phase = "run" => started.case = context.case /\ started.index = completed + 1
      BY <3>1 DEF Run
    <3> QED
      BY <2>1, <3>1, <3>2
  <2>4. CASE pc = "echo"
    <3>1. context = None /\ stage.run = started
      BY <2>4 DEF LInv, Blamed, Staged
    <3>2. started = Run(completed + 1, at) /\ Index(at) = Len(ran) + 1 /\ completed = Len(ran)
      BY <2>4 DEF LInv, IInv, Started, InPlace, Counted, Unnamed, Uncounted
    <3>3. started.case = at /\ started.index = completed + 1
      BY <3>2 DEF Run
    <3> QED
      BY <1>1, <2>1, <2>2, <2>4, <3>1, <3>2, <3>3
  <2>5. CASE pc = "resp3_probe"
    <3>1. context = None /\ stage.phase = "resp3_probe"
      BY <2>5 DEF LInv, Blamed, Staged, Awaited
    <3> QED
      BY <1>1, <2>1, <2>2, <2>5, <3>1
  <2>6. CASE reason = "signal" /\ pc # "exiting"
    <3>1. context = None
      BY <2>6 DEF LInv, Blamed
    <3> QED
      BY <1>1, <2>1, <2>6, <3>1
  <2> QED
    BY <2>2, <2>3, <2>4, <2>5, <2>6
<1> QED
  BY <1>2, <1>3, <1>4 DEF LInv

(* Before the end nothing is written, so the stage is all there is to see to. *)
LEMMA StagedIsEnough ==
  ASSUME LInv, [Next]_vars, metadata' = metadata, pc # "ended", Places', Staged', Blamed'
  PROVE  LInv'
<1>1. IInv' /\ Waits'
  BY IInvHolds, WaitsHolds DEF LInv
<1>2. metadata' = {}
  BY DEF LInv, IInv, Written
<1> QED
  BY <1>1, <1>2 DEF LInv, FailureIsLocated

LEMMA FailLocates ==
  ASSUME LInv, [Next]_vars, NEW s, NEW c, Fail(s, c), pc \in Before, c # None, c.phase = pc
  PROVE  LInv'
<1>1. /\ pc' = "exiting" /\ context' = c /\ UNCHANGED <<stage, started, completed, metadata>>
  BY DEF Fail, progress
<1>2. stage.phase = pc /\ pc # "run" /\ pc \in Awaited
  BY DEF LInv, Staged, Before, Awaited
<1>3. Places' /\ Staged' /\ Blamed'
  BY <1>1, <1>2 DEF Places, Staged, Blamed, Awaited
<1> QED
  BY <1>1, <1>2, <1>3, StagedIsEnough DEF Awaited

LEMMA VerdictLInv == LInv /\ Verdicts => LInv'
<1> SUFFICES ASSUME LInv, Verdicts PROVE LInv'
  OBVIOUS
<1>1. Next /\ pc # "ended" /\ pc \in Before \cup {"start"}
  BY VerdictCases DEF Next, Step, Verdicts, Before
<1>2. ASSUME NEW next \in {"timeout_probe", "connectivity", "seed", "resp3_probe", "runs"},
             Enter(next)
      PROVE  LInv'
  <2>1. /\ pc' = next /\ stage'.phase = next /\ UNCHANGED <<metadata, context>>
    BY <1>2 DEF Enter, Stage, ending
  <2>2. Places' /\ Staged' /\ Blamed'
    BY <1>1, <2>1 DEF LInv, Places, Staged, Blamed, Awaited, Assigning, Before
  <2> QED
    BY <1>1, <2>1, <2>2, StagedIsEnough
<1>3. CASE \E s, c : Fail(s, c) /\ pc \in Awaited /\ c # None /\ c.phase = pc
  BY <1>1, <1>3, FailLocates DEF Awaited
<1>4. CASE /\ pc' = pc /\ pc \in {"connectivity", "seed"}
           /\ UNCHANGED <<probe, status, cut, ran, progress, ending>>
  <2>1. UNCHANGED <<stage, started, completed, metadata, context>>
    BY <1>4 DEF progress, ending
  <2>2. Places' /\ Staged' /\ Blamed'
    BY <1>4, <2>1 DEF LInv, Places, Staged, Blamed, Awaited, Index, TOTAL_RUNS
  <2> QED
    BY <1>1, <2>1, <2>2, StagedIsEnough
<1>5. CASE pc = "resp3_probe" /\ Exit(1, "output")
  BY <1>1, <1>5, ExitLocates
<1> QED
  BY <1>2, <1>3, <1>4, <1>5, VerdictCases

(* The steps of a run move its stage, its labels and its counters in step.  *)
LEMMA RunsLInv ==
  LInv /\ (Starts \/ CommandEnds \/ CountRun \/ LastIndex \/ LastLabel) => LInv'
<1> SUFFICES ASSUME LInv, Starts \/ CommandEnds \/ CountRun \/ LastIndex \/ LastLabel
             PROVE  LInv'
  OBVIOUS
<1> USE DEF LInv
<1>1. Next /\ pc # "ended" /\ UNCHANGED <<metadata, context>> /\ pc' \notin {"exiting", "ended"}
      /\ pc \notin {"exiting", "ended"}
  BY DEF Next, Step, Starts, StartIndex, StartLabel, StartStage, CommandEnds, CountRun,
         LastIndex, LastLabel, ending, Waits, Awaited
<1>2. Blamed'
  BY <1>1 DEF Blamed
<1>3. Places'
  BY <1>1 DEF Places, Starts, StartIndex, StartLabel, StartStage, CommandEnds, CountRun,
              LastIndex, LastLabel, Assigning
<1>4. Staged'
  <2>1. CASE StartIndex \/ StartLabel
    BY <2>1 DEF StartIndex, StartLabel, Staged, Awaited
  <2>2. CASE StartStage
    <3>1. started = Run(completed + 1, at)
      BY <2>2 DEF IInv, Started, StartStage
    <3> QED
      BY <2>2, <3>1 DEF StartStage, Awaited, Staged
  <2>3. CASE CommandEnds
    <3>1. pc' = pc /\ UNCHANGED <<stage, started, completed>> /\ pc \in Awaited
      BY <2>3 DEF CommandEnds, progress, Waits
    <3> QED
      BY <3>1 DEF Staged, Awaited, TOTAL_RUNS
  <2>4. CASE CountRun \/ LastIndex
    BY <2>4 DEF CountRun, LastIndex, Staged, Awaited
  <2>5. CASE LastLabel
    <3>1. /\ pc = "last_label" /\ UNCHANGED <<stage, started, completed>>
          /\ pc' = IF at = LastCase THEN "summary" ELSE "runs"
      BY <2>5 DEF LastLabel
    <3>2. completed = Len(ran) /\ Index(at) = Len(ran)
      BY <3>1 DEF IInv, Counted, InPlace, Unnamed, Uncounted
    <3>3. at = LastCase => completed = TOTAL_RUNS
      BY <3>2, FirstAndLast
    <3>4. stage = [phase |-> "run", run |-> started]
      BY <3>1 DEF Staged
    <3> QED
      BY <3>1, <3>3, <3>4 DEF Staged, Awaited, TOTAL_RUNS
  <2> QED
    BY <2>1, <2>2, <2>3, <2>4, <2>5 DEF Starts
<1> QED
  BY <1>1, <1>2, <1>3, <1>4, StagedIsEnough

LEMMA RunLInv == LInv /\ (StartRun \/ RunVerdict) => LInv'
<1> SUFFICES ASSUME LInv, StartRun \/ RunVerdict PROVE LInv'
  OBVIOUS
<1>1. Next /\ pc \in {"echo", "run"}
  BY DEF Next, Step, StartRun, RunVerdict
<1>2. CASE pc = "echo" /\ Exit(1, "output")
  BY <1>1, <1>2, ExitLocates
<1>3. CASE pc' \in {"run", "count"} /\ UNCHANGED <<progress, ending>>
  <2>1. UNCHANGED <<stage, started, metadata, context>>
    BY <1>3 DEF progress, ending
  <2>2. Places' /\ Staged' /\ Blamed'
    BY <1>1, <1>3, <2>1 DEF LInv, Places, Staged, Blamed, Awaited, Assigning
  <2> QED
    BY <1>1, <2>1, <2>2, StagedIsEnough
<1>4. CASE /\ pc = "run" /\ ~waiting /\ status # 0
           /\ Fail(status, Blame("run", started.case, Why(status), status))
  <2>1. /\ pc' = "exiting" /\ UNCHANGED <<stage, started, completed, metadata>>
        /\ context' = Blame("run", started.case, Why(status), status)
    BY <1>4 DEF Fail, progress
  <2>2. /\ stage = [phase |-> "run", run |-> started]
        /\ started = Run(completed + 1, at) /\ Index(at) = completed + 1
    BY <1>4 DEF LInv, Staged, IInv, Started, InPlace, Counted, Unnamed, Uncounted
  <2>3. context'.case = at /\ context'.phase = "run" /\ context' # None
    BY <2>1, <2>2 DEF Blame, None, Run
  <2>4. Places' /\ Staged' /\ Blamed'
    BY <2>1, <2>2, <2>3 DEF Places, Staged, Blamed, Awaited, Index
  <2> QED
    BY <1>1, <2>1, <2>4, StagedIsEnough
<1> QED
  BY <1>2, <1>3, <1>4 DEF StartRun, RunVerdict

LEMMA EndLInv == LInv /\ (Leave \/ Summary \/ Killed) => LInv'
<1> SUFFICES ASSUME LInv, Leave \/ Summary \/ Killed PROVE LInv'
  OBVIOUS
<1>1. Next
  BY DEF Next, Step
<1> QED
  BY <1>1, ExitLocates DEF Leave, Summary, Killed

LEMMA LInvHolds == LInv /\ [Next]_vars => LInv'
<1> SUFFICES ASSUME LInv, [Next]_vars PROVE LInv'
  OBVIOUS
<1>1. CASE UNCHANGED vars
  <2>1. IInv' /\ Waits'
    BY IInvHolds, WaitsHolds DEF LInv
  <2>2. Places' /\ Staged' /\ Blamed' /\ FailureIsLocated'
    BY <1>1 DEF LInv, Places, Staged, Blamed, FailureIsLocated, vars, progress, ending,
                Index, Run, TOTAL_RUNS
  <2> QED
    BY <2>1, <2>2 DEF LInv
<1> QED
  BY <1>1, VerdictLInv, RunsLInv, RunLInv, EndLInv DEF Next, Step, Verdicts, Starts

(* A benchmark or preflight that fails is located alike by the stage, the   *)
(* failure context and the counters of runs started and completed, however  *)
(* many runs there are, and a failure the script has judged never lacks its *)
(* context.  Only a signal before the failure is judged, or an output that  *)
(* is closed, ends the script with a status and no context.                 *)
THEOREM FailuresAlwaysLocated == FairSpec => []FailureIsLocated
<1>1. Init => LInv
  BY InitLInv
<1>2. LInv /\ [Next]_vars => LInv'
  BY LInvHolds
<1>3. LInv => FailureIsLocated
  BY DEF LInv
<1> QED
  BY <1>1, <1>2, <1>3, PTL DEF FairSpec
-----------------------------------------------------------------------------
(* The tool that passed the probe shows a status other than 0 for what it   *)
(* cuts off, and the script goes on after that only to a second attempt or  *)
(* to its exit, with that status and a context that calls it a timeout.     *)
ProbeWorks ==
  timeouts /\ pc \notin {"start", "timeout_probe", "exiting", "ended"} => probe # 0

CutIsSeen ==
  cut =>
    /\ timeouts /\ probe # 0
    /\ pc \in {"connectivity", "seed", "resp3_probe", "run", "exiting", "ended"}
    /\ pc \notin {"exiting", "ended"} /\ ~waiting => status = probe
    /\ pc = "exiting" => status = probe /\ context.why = "timeout"
    /\ pc = "ended" /\ by = "verdict" => context # None

RInv == LInv /\ ProbeWorks /\ CutIsSeen /\ TimeoutsAreReported

LEMMA InitRInv == Init => RInv
<1> SUFFICES ASSUME Init PROVE RInv
  OBVIOUS
<1>1. LInv
  BY InitLInv
<1>2. ProbeWorks /\ CutIsSeen /\ TimeoutsAreReported
  BY DEF Init, ProbeWorks, CutIsSeen, TimeoutsAreReported
<1> QED
  BY <1>1, <1>2 DEF RInv

(* While nothing is written there is nothing to report. *)
LEMMA NothingWritten ==
  ASSUME LInv', ProbeWorks', CutIsSeen', pc' # "ended"
  PROVE  RInv'
BY DEF RInv, LInv, IInv, Written, TimeoutsAreReported

LEMMA ExitReports ==
  ASSUME RInv, LInv', NEW s, NEW reason, Exit(s, reason), UNCHANGED <<timeouts, probe>>,
         pc # "ended", reason = "verdict" => pc = "exiting" /\ s = status
  PROVE  RInv'
<1>1. /\ pc' = "ended" /\ by' = reason /\ UNCHANGED <<cut, status, context>>
      /\ \A m \in metadata' : m.context = context /\ m.kind = ExitKind(s)
  BY DEF Exit, finalize_metadata, ending
<1>2. pc # "exiting" => context = None
  BY DEF RInv, LInv, Blamed
<1>3. pc = "exiting" => context # None
  BY DEF RInv, LInv, Blamed
<1>4. cut /\ reason = "verdict" => ExitKind(s) = "timeout"
  BY DEF RInv, CutIsSeen, ExitKind, is_timeout_status
<1>5. CutIsSeen' /\ ProbeWorks'
  BY <1>1, <1>3 DEF RInv, CutIsSeen, ProbeWorks
<1>6. cut => (context # None => context.why = "timeout")
  BY <1>2 DEF RInv, CutIsSeen
<1>7. TimeoutsAreReported'
  BY <1>1, <1>3, <1>4, <1>6 DEF TimeoutsAreReported, None, Blame, NoCase
<1> QED
  BY <1>5, <1>7 DEF RInv

LEMMA VerdictRInv == RInv /\ LInv' /\ Verdicts => RInv'
<1> SUFFICES ASSUME RInv, LInv', Verdicts PROVE RInv'
  OBVIOUS
<1>1. /\ pc \in Before \cup {"start"} /\ timeouts' = timeouts
  BY VerdictCases DEF Before
<1>2. CASE Begin
  <2>1. /\ ~cut /\ ~cut' /\ UNCHANGED probe
        /\ pc' = IF timeouts THEN "timeout_probe" ELSE "connectivity"
    BY <1>2 DEF Begin, Enter, RInv, CutIsSeen
  <2> QED
    BY <1>1, <2>1, NothingWritten DEF CutIsSeen, ProbeWorks
<1>3. CASE TimeoutVerdict
  <2>1. /\ ~cut /\ probe' = status /\ pc' \in {"exiting", "connectivity"} /\ cut' = cut
        /\ pc' = "connectivity" => status # 0
    BY <1>3 DEF TimeoutVerdict, Enter, Fail, RInv, CutIsSeen
  <2> QED
    BY <2>1, NothingWritten DEF CutIsSeen, ProbeWorks
<1>4. ASSUME NEW next \in {"seed", "resp3_probe", "runs"}, Enter(next), status = 0,
             pc \in {"connectivity", "seed", "resp3_probe"}, ~waiting, UNCHANGED probe
      PROVE  RInv'
  <2>1. ~cut /\ cut' = cut /\ pc' = next
    BY <1>4 DEF Enter, RInv, CutIsSeen
  <2> QED
    BY <1>1, <1>4, <2>1, NothingWritten DEF CutIsSeen, ProbeWorks, RInv
<1>5. ASSUME NEW s, NEW c, Fail(s, c), UNCHANGED probe, ~waiting,
             pc \in {"connectivity", "seed", "resp3_probe"},
             \/ status = 0
             \/ s = status /\ c.why = Why(status)
      PROVE  RInv'
  <2>1. cut' = cut /\ pc' = "exiting" /\ status' = s /\ context' = c
    BY <1>5 DEF Fail
  <2>2. cut => status = probe /\ probe # 0 /\ timeouts
    BY <1>5 DEF RInv, CutIsSeen
  <2>3. cut => Why(status) = "timeout"
    BY <2>2 DEF Why, is_timeout_status
  <2>4. CutIsSeen' /\ ProbeWorks'
    BY <1>1, <1>5, <2>1, <2>2, <2>3 DEF CutIsSeen, ProbeWorks
  <2> QED
    BY <2>1, <2>4, NothingWritten
<1>6. ASSUME NEW phase \in {"connectivity", "seed"}, NEW next \in {"seed", "resp3_probe"},
             PreflightVerdict(phase, next)
      PROVE  RInv'
  <2>1. pc = phase /\ ~waiting /\ UNCHANGED probe
    BY <1>6 DEF PreflightVerdict
  <2>2. CASE pc' = pc /\ waiting' = TRUE /\ UNCHANGED <<status, cut>>
    <3>1. CutIsSeen' /\ ProbeWorks' /\ pc' # "ended"
      BY <1>1, <2>1, <2>2 DEF RInv, CutIsSeen, ProbeWorks
    <3> QED
      BY <3>1, NothingWritten
  <2>3. Blame(phase, NoCase, Why(status), status).why = Why(status)
    BY DEF Blame
  <2> QED
    BY <1>4, <1>5, <1>6, <2>1, <2>2, <2>3 DEF PreflightVerdict
<1>7. CASE Resp3Verdict
  <2>1. pc = "resp3_probe" /\ ~waiting /\ UNCHANGED probe
    BY <1>7 DEF Resp3Verdict, Exit
  <2>2. Blame(pc, NoCase, Why(status), status).why = Why(status)
    BY DEF Blame
  <2>3. CASE Exit(1, "output")
    BY <1>1, <2>1, <2>3, ExitReports
  <2> QED
    BY <1>4, <1>5, <1>7, <2>1, <2>2, <2>3 DEF Resp3Verdict
<1> QED
  BY <1>2, <1>3, <1>6, <1>7 DEF Verdicts

LEMMA CommandRInv == RInv /\ LInv' /\ CommandEnds => RInv'
<1> SUFFICES ASSUME RInv, LInv', CommandEnds PROVE RInv'
  OBVIOUS
<1>1. /\ waiting /\ pc \in Awaited /\ pc' = pc /\ UNCHANGED <<timeouts, probe>>
  BY DEF CommandEnds, RInv, LInv, Waits
<1>2. cut' => timeouts /\ status' = probe /\ pc # "timeout_probe"
  BY DEF CommandEnds, Outcomes
<1>3. CutIsSeen' /\ ProbeWorks' /\ pc' # "ended"
  BY <1>1, <1>2 DEF RInv, CutIsSeen, ProbeWorks, Awaited
<1> QED
  BY <1>3, NothingWritten

LEMMA RunRInv == RInv /\ LInv' /\ RunVerdict => RInv'
<1> SUFFICES ASSUME RInv, LInv', RunVerdict PROVE RInv'
  OBVIOUS
<1>1. pc = "run" /\ ~waiting /\ UNCHANGED <<timeouts, probe>>
  BY DEF RunVerdict
<1>2. cut => status = probe /\ probe # 0 /\ timeouts
  BY <1>1 DEF RInv, CutIsSeen
<1>3. CASE status = 0 /\ pc' = "count" /\ UNCHANGED command
  BY <1>1, <1>2, <1>3, NothingWritten DEF RInv, CutIsSeen, ProbeWorks, command
<1>4. CASE Fail(status, Blame("run", started.case, Why(status), status))
  <2>1. /\ cut' = cut /\ pc' = "exiting" /\ status' = status
        /\ context' = Blame("run", started.case, Why(status), status)
    BY <1>4 DEF Fail
  <2>2. cut => Why(status) = "timeout"
    BY <1>2 DEF Why, is_timeout_status
  <2>3. CutIsSeen' /\ ProbeWorks'
    BY <1>1, <1>2, <2>1, <2>2 DEF CutIsSeen, ProbeWorks, Blame
  <2> QED
    BY <2>1, <2>3, NothingWritten
<1> QED
  BY <1>3, <1>4 DEF RunVerdict

LEMMA OthersRInv ==
  RInv /\ LInv' /\ (Starts \/ CountRun \/ LastIndex \/ LastLabel) => RInv'
<1> SUFFICES ASSUME RInv, LInv', Starts \/ CountRun \/ LastIndex \/ LastLabel PROVE RInv'
  OBVIOUS
<1>1. /\ UNCHANGED <<timeouts, probe, cut>> /\ pc \in Assigning \ {"echo"}
      /\ pc' \in Assigning \cup {"summary"}
  BY DEF Starts, StartIndex, StartLabel, StartStage, CountRun, LastIndex, LastLabel, command,
         Assigning
<1>2. ~cut
  BY <1>1 DEF RInv, CutIsSeen, Assigning
<1> QED
  BY <1>1, <1>2, NothingWritten DEF RInv, CutIsSeen, ProbeWorks, Assigning

LEMMA StartRunRInv == RInv /\ LInv' /\ StartRun => RInv'
<1> SUFFICES ASSUME RInv, LInv', StartRun PROVE RInv'
  OBVIOUS
<1>1. pc = "echo" /\ ~cut
  BY DEF StartRun, RInv, CutIsSeen
<1>2. CASE Exit(1, "output")
  <2>1. UNCHANGED <<timeouts, probe>>
    BY <1>2 DEF Exit
  <2> QED
    BY <1>1, <1>2, <2>1, ExitReports
<1>3. CASE pc' = "run" /\ UNCHANGED <<timeouts, probe, cut>>
  BY <1>1, <1>3, NothingWritten DEF RInv, CutIsSeen, ProbeWorks
<1> QED
  BY <1>2, <1>3 DEF StartRun

LEMMA RInvHolds == RInv /\ [Next]_vars => RInv'
<1> SUFFICES ASSUME RInv, [Next]_vars PROVE RInv'
  OBVIOUS
<1>1. LInv'
  BY LInvHolds DEF RInv
<1>2. CASE Leave \/ Summary \/ Killed
  <2>1. \E s, r : Exit(s, r) /\ pc # "ended" /\ (r = "verdict" => pc = "exiting" /\ s = status)
    BY <1>2 DEF Leave, Summary, Killed
  <2> QED
    BY <1>1, <2>1, ExitReports DEF Exit
<1>3. CASE UNCHANGED vars
  BY <1>1, <1>3 DEF vars, command, ending, RInv, ProbeWorks, CutIsSeen, TimeoutsAreReported
<1> QED
  BY <1>1, <1>2, <1>3, VerdictRInv, CommandRInv, RunRInv, OthersRInv, StartRunRInv
     DEF Next, Step, Verdicts, Starts

(* Whatever status a timeout tool uses, if it got past the probe, what it   *)
(* cuts off later is reported as a timeout, in every stage, unless a signal *)
(* or a closed output comes before the report.                              *)
THEOREM TimeoutsAlwaysReported == FairSpec => []TimeoutsAreReported
<1>1. Init => RInv
  BY InitRInv
<1>2. RInv /\ [Next]_vars => RInv'
  BY RInvHolds
<1>3. RInv => TimeoutsAreReported
  BY DEF RInv
<1> QED
  BY <1>1, <1>2, <1>3, PTL DEF FairSpec
-----------------------------------------------------------------------------
(* What TypeOK says beyond LInv. *)
Kept ==
  /\ probe \in {-1} \cup ProbeExits
  /\ timeouts /\ pc \notin {"start", "timeout_probe", "exiting", "ended"} => probe \in ProbeExits
  /\ pc = "timeout_probe" /\ ~waiting => status \in ProbeExits
  /\ pc = "timeout_probe" => timeouts
  /\ status \in 0 .. 255
  /\ attempt \in 1 .. MaxAttempts
  /\ pc = "ended" => metadata # {}

Flags == timeouts \in BOOLEAN /\ waiting \in BOOLEAN

TInv == LInv /\ Kept /\ Flags

LEMMA FlagsHold == Flags /\ [Next]_vars => Flags'
<1> SUFFICES ASSUME Flags, [Next]_vars PROVE Flags'
  OBVIOUS
<1> USE DEF Flags
<1>1. \A s, r : Exit(s, r) => Flags'
  BY DEF Exit
<1>2. CASE Verdicts
  <2>1. timeouts' = timeouts
    BY <1>2, VerdictCases
  <2>2. \A next : Enter(next) => waiting' \in BOOLEAN
    <3> SUFFICES ASSUME NEW next, waiting' = (next \in Awaited) PROVE waiting' \in BOOLEAN
      BY DEF Enter
    <3> QED
      BY SMT
  <2>3. \A s, c : Fail(s, c) => waiting' = waiting
    BY DEF Fail
  <2> QED
    BY <1>1, <1>2, <2>1, <2>2, <2>3, VerdictCases
<1>3. CASE Starts \/ CountRun \/ LastIndex \/ LastLabel \/ CommandEnds
  BY <1>3 DEF Starts, StartIndex, StartLabel, StartStage, CountRun, LastIndex, LastLabel,
              CommandEnds, command
<1>4. CASE StartRun \/ Leave \/ Summary \/ Killed
  BY <1>1, <1>4 DEF StartRun, Leave, Summary, Killed
<1>5. CASE RunVerdict
  BY <1>5 DEF RunVerdict, Fail, command
<1>6. CASE UNCHANGED vars
  BY <1>6 DEF vars, command
<1> QED
  BY <1>2, <1>3, <1>4, <1>5, <1>6 DEF Next, Step, Verdicts, Starts

LEMMA InitTInv == Init => TInv
<1> SUFFICES ASSUME Init PROVE TInv
  OBVIOUS
<1>1. LInv
  BY InitLInv
<1>2. /\ probe = -1 /\ pc = "start" /\ status = 0 /\ attempt = 1
  BY DEF Init
<1>3. Kept
  BY <1>2 DEF Kept, Awaited, MaxAttempts
<1>4. Flags
  BY DEF Init, Flags
<1> QED
  BY <1>1, <1>3, <1>4 DEF TInv

LEMMA ExitKept ==
  ASSUME Kept, NEW s, NEW reason, Exit(s, reason), UNCHANGED <<timeouts, probe>>
  PROVE  Kept'
BY DEF Kept, Exit, finalize_metadata, Awaited

(* The parts of Kept, for a step that leaves the metadata unwritten.        *)
LEMMA KeptParts ==
  ASSUME probe' \in {-1} \cup ProbeExits,
         timeouts' /\ pc' \notin {"start", "timeout_probe", "exiting", "ended"} =>
           probe' \in ProbeExits,
         pc' = "timeout_probe" /\ ~waiting' => status' \in ProbeExits,
         pc' = "timeout_probe" => timeouts',
         status' \in 0 .. 255, attempt' \in 1 .. MaxAttempts, pc' # "ended"
  PROVE  Kept'
BY DEF Kept, Awaited, MaxAttempts

LEMMA EnterKept ==
  ASSUME Kept, NEW next \in Awaited \cup {"runs"}, Enter(next), UNCHANGED timeouts,
         probe' \in {-1} \cup ProbeExits,
         next = "timeout_probe" => timeouts,
         timeouts /\ next # "timeout_probe" => probe' \in ProbeExits
  PROVE  Kept'
<1>1. /\ pc' = next /\ attempt' = 1 /\ status' = status
      /\ next \in Awaited => waiting'
  BY DEF Enter
<1>2. 1 \in 1 .. MaxAttempts
  BY DEF MaxAttempts
<1>3. status \in 0 .. 255 /\ next # "ended"
  BY DEF Kept, Awaited
<1> QED
  BY <1>1, <1>2, <1>3, KeptParts DEF Awaited

LEMMA FailKept ==
  ASSUME Kept, NEW s \in 0 .. 255, NEW c, Fail(s, c), probe' \in {-1} \cup ProbeExits
  PROVE  Kept'
<1>1. pc' = "exiting" /\ status' = s /\ attempt' = attempt
  BY DEF Fail
<1>2. attempt \in 1 .. MaxAttempts
  BY DEF Kept
<1> QED
  BY <1>1, <1>2, KeptParts DEF Awaited

LEMMA VerdictKept == Kept /\ Verdicts => Kept'
<1> SUFFICES ASSUME Kept, Verdicts PROVE Kept'
  OBVIOUS
<1>1. timeouts' = timeouts
  BY VerdictCases
<1>2. probe \in {-1} \cup ProbeExits /\ status \in 0 .. 255 /\ 1 \in 0 .. 255
  BY DEF Kept
<1>3. CASE Begin
  <2>1. UNCHANGED probe
    BY <1>3 DEF Begin
  <2>2. CASE timeouts /\ Enter("timeout_probe")
    BY <1>1, <1>2, <2>1, <2>2, EnterKept DEF Awaited
  <2>3. CASE ~timeouts /\ Enter("connectivity")
    BY <1>1, <1>2, <2>1, <2>3, EnterKept DEF Awaited
  <2> QED
    BY <1>3, <2>2, <2>3 DEF Begin
<1>4. CASE TimeoutVerdict
  <2>1. status \in ProbeExits /\ probe' = status
    BY <1>4 DEF TimeoutVerdict, Kept
  <2>2. CASE Enter("connectivity")
    BY <1>1, <2>1, <2>2, EnterKept DEF Awaited
  <2>3. CASE \E c : Fail(1, c)
    BY <1>2, <2>1, <2>3, FailKept
  <2> QED
    BY <1>4, <2>2, <2>3 DEF TimeoutVerdict
<1>5. ASSUME NEW phase \in {"connectivity", "seed"}, NEW next \in {"seed", "resp3_probe"},
             PreflightVerdict(phase, next)
      PROVE  Kept'
  <2>1. /\ pc = phase /\ UNCHANGED probe
        /\ timeouts => probe \in ProbeExits
    BY <1>5 DEF PreflightVerdict, Awaited, Kept
  <2>2. CASE /\ attempt < MaxAttempts /\ attempt' = attempt + 1
             /\ UNCHANGED <<pc, status>>
    <3>1. attempt' \in 1 .. MaxAttempts
      BY <2>2 DEF Kept, MaxAttempts
    <3> QED
      BY <1>1, <1>2, <2>1, <2>2, <3>1, KeptParts
  <2>3. CASE Enter(next)
    BY <1>1, <1>2, <2>1, <2>3, EnterKept DEF Awaited
  <2>4. CASE \E s, c : s \in {1, status} /\ Fail(s, c)
    BY <1>2, <2>1, <2>4, FailKept
  <2> QED
    BY <1>5, <2>2, <2>3, <2>4 DEF PreflightVerdict, NextAttempt
<1>6. CASE Resp3Verdict
  <2>1. UNCHANGED probe /\ (timeouts => probe \in ProbeExits)
    BY <1>6 DEF Resp3Verdict, Exit, Kept
  <2>2. CASE Enter("runs")
    BY <1>1, <1>2, <2>1, <2>2, EnterKept DEF Awaited
  <2>3. CASE \E c : Fail(status, c)
    BY <1>2, <2>1, <2>3, FailKept
  <2>4. CASE Exit(1, "output")
    BY <1>1, <2>1, <2>4, ExitKept
  <2> QED
    BY <1>6, <2>2, <2>3, <2>4 DEF Resp3Verdict
<1> QED
  BY <1>3, <1>4, <1>5, <1>6 DEF Verdicts

LEMMA ExitStatuses ==
  ASSUME NEW s \in ProbeExits \cup Statuses \cup {0}
  PROVE  s \in 0 .. 255
<1>1. Statuses \subseteq 0 .. 255 /\ ProbeExits \subseteq 0 .. 255
  BY ProfileAssumption
<1> QED
  BY <1>1

LEMMA CommandKept == Kept /\ Waits /\ CommandEnds => Kept'
<1> SUFFICES ASSUME Kept, Waits, CommandEnds PROVE Kept'
  OBVIOUS
<1>1. PICK o \in Outcomes : status' = o.status
  BY DEF CommandEnds
<1>2. /\ pc \in Awaited /\ pc' = pc /\ UNCHANGED <<timeouts, probe, attempt>>
  BY DEF CommandEnds, Waits
<1>3. /\ probe \in {-1} \cup ProbeExits /\ attempt \in 1 .. MaxAttempts
      /\ timeouts /\ pc # "timeout_probe" => probe \in ProbeExits
      /\ pc = "timeout_probe" => timeouts
  BY <1>2 DEF Kept, Awaited
<1>4. pc = "timeout_probe" => o.status \in ProbeExits
  BY DEF Outcomes
<1>5. o.status \in ProbeExits \cup Statuses \cup {0}
  BY <1>2, <1>3, <1>4 DEF Outcomes
<1>6. o.status \in 0 .. 255
  BY <1>5, ExitStatuses
<1> QED
  BY <1>1, <1>2, <1>3, <1>4, <1>6, KeptParts DEF Awaited

LEMMA StepKept ==
  ASSUME Kept, Starts \/ StartRun \/ RunVerdict \/ CountRun \/ LastIndex \/ LastLabel
               \/ Leave \/ Summary \/ Killed
  PROVE  Kept'
<1>1. /\ probe \in {-1} \cup ProbeExits /\ attempt \in 1 .. MaxAttempts
      /\ status \in 0 .. 255
  BY DEF Kept
<1>2. CASE Starts \/ CountRun \/ LastIndex \/ LastLabel
  <2>1. /\ UNCHANGED <<timeouts, probe, attempt, status>>
        /\ pc' \in Assigning \cup {"summary"} /\ pc \in Assigning
    BY <1>2 DEF Starts, StartIndex, StartLabel, StartStage, CountRun, LastIndex, LastLabel,
                command, Assigning
  <2>2. timeouts => probe \in ProbeExits
    BY <2>1 DEF Kept, Assigning
  <2> QED
    BY <1>1, <2>1, <2>2, KeptParts DEF Assigning, Awaited
<1>3. CASE StartRun
  <2>1. UNCHANGED <<timeouts, probe>>
    BY <1>3 DEF StartRun, Exit
  <2>2. CASE Exit(1, "output")
    BY <2>1, <2>2, ExitKept
  <2>3. CASE /\ pc' = "run" /\ waiting' = TRUE
             /\ UNCHANGED <<timeouts, probe, attempt, status>>
    <3>1. timeouts => probe \in ProbeExits
      BY <1>3 DEF StartRun, Kept
    <3> QED
      BY <1>1, <2>3, <3>1, KeptParts
  <2> QED
    BY <1>3, <2>2, <2>3 DEF StartRun
<1>4. CASE RunVerdict
  <2>1. UNCHANGED <<timeouts, probe>>
    BY <1>4 DEF RunVerdict
  <2>2. CASE pc' = "count" /\ UNCHANGED <<attempt, status>>
    <3>1. timeouts => probe \in ProbeExits
      BY <1>4 DEF RunVerdict, Kept
    <3> QED
      BY <1>1, <2>1, <2>2, <3>1, KeptParts
  <2>3. CASE \E c : Fail(status, c)
    BY <1>1, <2>1, <2>3, FailKept
  <2> QED
    BY <1>4, <2>2, <2>3 DEF RunVerdict, command
<1>5. CASE Leave \/ Summary \/ Killed
  <2>1. UNCHANGED <<timeouts, probe>> /\ \E s, r : Exit(s, r)
    BY <1>5 DEF Leave, Summary, Killed, Exit
  <2> QED
    BY <2>1, ExitKept
<1> QED
  BY <1>2, <1>3, <1>4, <1>5

LEMMA TInvHolds == TInv /\ [Next]_vars => TInv'
<1> SUFFICES ASSUME TInv, [Next]_vars PROVE TInv'
  OBVIOUS
<1>1. LInv'
  BY LInvHolds DEF TInv
<1>2. Kept /\ Waits
  BY DEF TInv, LInv
<1>3. Kept'
  <2>1. CASE UNCHANGED vars
    BY <1>2, <2>1 DEF Kept, vars, command, ending
  <2> QED
    BY <1>2, <2>1, VerdictKept, CommandKept, StepKept DEF Next, Step, Verdicts, Starts
<1>4. Flags'
  BY FlagsHold DEF TInv
<1> QED
  BY <1>1, <1>3, <1>4 DEF TInv

LEMMA TInvTypes == TInv => TypeOK
<1> SUFFICES ASSUME TInv PROVE TypeOK
  OBVIOUS
<1>1. IInv /\ Waits /\ Places /\ Staged /\ Kept /\ Flags
  BY DEF TInv, LInv
<1>2. at \in Cases /\ (waiting => pc \in Awaited)
  BY <1>1 DEF IInv, InPlace, Waits
<1>3. completed \in 0 .. TOTAL_RUNS
  BY <1>1 DEF IInv, Counted
<1>4. pc \in Awaited => stage.phase = pc
  BY <1>1 DEF Staged, Awaited
<1>5. pc = "run" => stage.run = started /\ started = Run(completed + 1, at)
  BY <1>1 DEF IInv, Started, Staged
<1>6. metadata = {} <=> pc # "ended"
  BY <1>1 DEF IInv, Written, Kept
<1> QED
  BY <1>1, <1>2, <1>3, <1>4, <1>5, <1>6 DEF TypeOK, Places, Kept, Flags

(* The script's variables keep their types, the script waits for commands   *)
(* only, the stage is that of the command it waits for, and the metadata is *)
(* written when the script ends and not before: for any number of runs and  *)
(* any exit statuses.                                                       *)
THEOREM TypeCorrect == FairSpec => []TypeOK
<1>1. Init => TInv
  BY InitTInv
<1>2. TInv /\ [Next]_vars => TInv'
  BY TInvHolds
<1>3. TInv => TypeOK
  BY TInvTypes
<1> QED
  BY <1>1, <1>2, <1>3, PTL DEF FairSpec
=============================================================================
