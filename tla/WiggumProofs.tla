---------------------------- MODULE WiggumProofs ----------------------------
(***************************************************************************)
(* What wiggum.sh means when it reports success, for any number of         *)
(* iterations and whatever the agent and the commands do.                  *)
(***************************************************************************)
EXTENDS Wiggum, TLAPS

(* The options are read once. *)
Configured == MAX_ITERS \in Nat \ {0}

(* A success is announced before it is reported: nothing is built between   *)
(* a green check and the exit, and nothing is left to push from the last    *)
(* synchronisation on.                                                      *)
StaysGreen == pc \in {"green", "exit 0"} => run_green_check

StaysDelivered ==
  pc \in {"final", "exit 0"} /\ AUTO_COMMIT_PUSH => (unsaved => refused) /\ (ahead => rejected)

IInv == Configured /\ TypeOK /\ StaysGreen /\ StaysDelivered

(* The conjuncts of TypeOK. *)
Labels == {"check", "green", "agent", "sync", "post-loop", "final", "exit 0", "exit 1"}

Counted ==
  /\ pc \in Labels
  /\ iteration \in 1 .. MAX_ITERS + 1
  /\ iteration = MAX_ITERS + 1 => pc \in {"post-loop", "final", "exit 0", "exit 1"}

Booleans == {builds, dirty, branch, upstream, ahead, unsaved, refused, rejected} \subseteq BOOLEAN

Typed == Counted /\ Booleans /\ marker \in Markers /\ (unsaved => dirty)

LEMMA TypeParts ==
  /\ TypeOK <=> Typed
  /\ TypeOK' <=> Typed'
BY Zenon DEF TypeOK, Typed, Counted, Booleans, Labels
-----------------------------------------------------------------------------
LEMMA InitIInv == Init => IInv
<1> SUFFICES ASSUME Init PROVE IInv
  OBVIOUS
<1>1. MAX_ITERS \in 1 .. MaxIters /\ MaxIters \in Nat \ {0} /\ iteration = 1 /\ pc = "check"
  BY WiggumAssumption DEF Init
<1>2. Configured /\ Counted
  BY <1>1 DEF Configured, Counted, Labels
<1>3. Booleans /\ marker \in Markers /\ (unsaved => dirty)
  BY Zenon DEF Init, Booleans
<1>4. StaysGreen /\ StaysDelivered
  BY <1>1 DEF StaysGreen, StaysDelivered
<1> QED
  BY <1>2, <1>3, <1>4, TypeParts DEF IInv, Typed

(* ensure_pushed leaves nothing to push, but for a push that failed. *)
LEMMA PushFacts ==
  ASSUME TypeOK, NEW commits \in BOOLEAN, NEW next, ensure_pushed(commits, next)
  PROVE  /\ pc' \in {next, "exit 1"}
         /\ {upstream', ahead', rejected'} \subseteq BOOLEAN
         /\ pc' # "exit 1" => (ahead' => rejected')
<1>1. {upstream, ahead, rejected} \subseteq BOOLEAN
  BY TypeParts, Zenon DEF Booleans, Typed
<1>2. pc' \in {next, "exit 1"}
  BY Zenon DEF ensure_pushed
<1>4. pc' # "exit 1" => (ahead' => rejected')
  <2>1. ahead' = rejected' \/ ahead' = FALSE \/ pc' = "exit 1"
    BY Zenon DEF ensure_pushed
  <2> QED
    BY <2>1, Zenon
<1>3. {upstream', ahead', rejected'} \subseteq BOOLEAN
  BY <1>1, Zenon DEF ensure_pushed
<1> QED
  BY <1>2, <1>3, <1>4

(* Synchronising takes the script on or ends it, and what it leaves behind  *)
(* is committed, and pushed as far as a push succeeds.                      *)
LEMMA SyncFacts ==
  ASSUME TypeOK, NEW next, Sync(next)
  PROVE  /\ pc' \in {next, "exit 1"}
         /\ UNCHANGED <<builds, marker>>
         /\ Booleans'
         /\ unsaved' => dirty'
         /\ pc' # "exit 1" /\ AUTO_COMMIT_PUSH =>
              (unsaved' => refused') /\ (ahead' => rejected')
<1>1. CASE UNCHANGED repo /\ (pc' = "exit 1" \/ (pc' = next /\ ~AUTO_COMMIT_PUSH))
  BY <1>1 DEF repo, TypeOK, Booleans
<1>2. CASE /\ \/ refused' = FALSE /\ dirty' = FALSE /\ unsaved' = FALSE
              \/ dirty /\ refused' = TRUE /\ UNCHANGED <<dirty, unsaved>>
           /\ ensure_pushed(ahead \/ dirty, next)
           /\ UNCHANGED <<builds, marker, branch>>
  <2>1. (ahead \/ dirty) \in BOOLEAN
    BY DEF TypeOK
  <2>2. /\ pc' \in {next, "exit 1"}
        /\ {upstream', ahead', rejected'} \subseteq BOOLEAN
        /\ pc' # "exit 1" => (ahead' => rejected')
    BY <1>2, <2>1, PushFacts
  <2>3. {refused', dirty', unsaved'} \subseteq BOOLEAN
    BY <1>2, Zenon DEF TypeOK
  <2>4. (unsaved' => dirty') /\ (unsaved' => refused')
    <3>1. CASE refused' = FALSE /\ dirty' = FALSE /\ unsaved' = FALSE
      BY <3>1
    <3>2. CASE dirty /\ refused' = TRUE /\ UNCHANGED <<dirty, unsaved>>
      BY <3>2
    <3> QED
      BY <1>2, <3>1, <3>2
  <2> QED
    BY <1>2, <2>2, <2>3, <2>4 DEF TypeOK, Booleans
<1> QED
  BY <1>1, <1>2 DEF Sync

LEMMA CheckFacts ==
  ASSUME TypeOK, NEW then, NEW else, Check(then, else)
  PROVE  /\ pc' = IF run_green_check THEN then ELSE else
         /\ UNCHANGED <<builds, marker, unsaved, ahead, refused, rejected>>
         /\ Booleans'
         /\ unsaved' => dirty'
BY DEF Check, TypeOK, Booleans

LEMMA ChecksIInv == IInv /\ (GreenCheck \/ FinalCheck) => IInv'
<1> SUFFICES ASSUME IInv, GreenCheck \/ FinalCheck PROVE IInv'
  OBVIOUS
<1>0. TypeOK /\ Configured /\ UNCHANGED <<MAX_ITERS, REQUIRE_TODO_GREEN, AUTO_COMMIT_PUSH, iteration>>
  BY DEF IInv, GreenCheck, FinalCheck, options
<1>1. CASE pc = "check" /\ Check("green", "agent")
  <2>1. /\ pc' = IF run_green_check THEN "green" ELSE "agent"
        /\ UNCHANGED <<builds, marker>> /\ Booleans' /\ (unsaved' => dirty')
    BY <1>0, <1>1, CheckFacts
  <2>2. TypeOK'
    BY <1>0, <1>1, <2>1 DEF TypeOK, Booleans
  <2> QED
    BY <1>0, <2>1, <2>2 DEF IInv, Configured, StaysGreen, StaysDelivered, run_green_check,
                            todo_is_green
<1>2. CASE pc = "final" /\ Check("exit 0", "exit 1")
  <2>1. /\ pc' = IF run_green_check THEN "exit 0" ELSE "exit 1"
        /\ UNCHANGED <<builds, marker, unsaved, ahead, refused, rejected>>
        /\ Booleans' /\ (unsaved' => dirty')
    BY <1>0, <1>2, CheckFacts
  <2>2. TypeOK'
    BY <1>0, <1>2, <2>1 DEF TypeOK, Booleans
  <2> QED
    BY <1>0, <1>2, <2>1, <2>2 DEF IInv, Configured, StaysGreen, StaysDelivered,
                                  run_green_check, todo_is_green
<1> QED
  BY <1>1, <1>2 DEF GreenCheck, FinalCheck

LEMMA AgentIInv == IInv /\ Agent => IInv'
<1> SUFFICES ASSUME IInv, Agent PROVE IInv'
  OBVIOUS
<1>1. TypeOK'
  <2>1. /\ pc = "agent" /\ pc' = "sync" /\ UNCHANGED <<MAX_ITERS, iteration>>
        /\ Counted /\ Booleans /\ (unsaved => dirty)
    BY TypeParts DEF IInv, Agent, options, Typed
  <2>2. Counted'
    BY <2>1 DEF Counted, Labels
  <2>3. {builds', dirty', branch', upstream', unsaved', ahead'} \subseteq BOOLEAN
    BY <2>1, Zenon DEF Agent, Booleans
  <2>4. Booleans' /\ marker' \in Markers
    BY <2>1, <2>3, Zenon DEF Agent, Booleans
  <2>5. unsaved' => dirty'
    BY <2>1, Zenon DEF Agent
  <2> QED
    BY <2>2, <2>4, <2>5, TypeParts DEF Typed
<1>2. Configured' /\ StaysGreen' /\ StaysDelivered'
  BY DEF IInv, Agent, Configured, StaysGreen, StaysDelivered, options
<1> QED
  BY <1>1, <1>2 DEF IInv

LEMMA SyncsIInv == IInv /\ (SyncGreen \/ SyncAgent \/ SyncPostLoop) => IInv'
<1> SUFFICES ASSUME IInv, SyncGreen \/ SyncAgent \/ SyncPostLoop PROVE IInv'
  OBVIOUS
<1>0. TypeOK /\ Configured /\ UNCHANGED <<MAX_ITERS, REQUIRE_TODO_GREEN, AUTO_COMMIT_PUSH>>
  BY DEF IInv, SyncGreen, SyncAgent, SyncPostLoop, options
<1>1. CASE SyncGreen
  <2>1. pc = "green" /\ Sync("exit 0") /\ iteration' = iteration
    BY <1>1 DEF SyncGreen
  <2>2. TypeOK'
    BY <1>0, <2>1, SyncFacts DEF TypeOK, Booleans
  <2>3. run_green_check'
    BY <1>0, <2>1, SyncFacts DEF IInv, StaysGreen, run_green_check, todo_is_green
  <2> QED
    BY <1>0, <2>1, <2>2, <2>3, SyncFacts DEF IInv, Configured, StaysGreen, StaysDelivered
<1>2. CASE SyncAgent
  <2>1. /\ pc = "sync"
        /\ Sync(IF InLoop(NextIteration) THEN "check" ELSE "post-loop")
        /\ iteration' = IF pc' = "exit 1" THEN iteration ELSE NextIteration
    BY <1>2 DEF SyncAgent
  <2>2. /\ pc' \in {IF InLoop(NextIteration) THEN "check" ELSE "post-loop", "exit 1"}
        /\ UNCHANGED <<builds, marker>>
        /\ Booleans' /\ (unsaved' => dirty')
    BY <1>0, <2>1, SyncFacts
  <2>3. Counted /\ marker \in Markers /\ pc = "sync"
    BY <1>0, <1>2, TypeParts DEF Typed, SyncAgent
  <2>4. Counted'
    <3>1. iteration \in 1 .. MAX_ITERS /\ MAX_ITERS \in Nat \ {0} /\ MAX_ITERS' = MAX_ITERS
      BY <1>0, <2>3 DEF Counted, Configured
    <3>2. CASE pc' = "exit 1"
      <4>1. iteration' = iteration
        BY <2>1, <3>2
      <4>2. iteration' \in 1 .. MAX_ITERS' + 1
        BY <3>1, <4>1
      <4>3. pc' \in Labels /\ pc' \in {"post-loop", "final", "exit 0", "exit 1"}
        BY <3>2 DEF Labels
      <4> QED
        BY <4>2, <4>3, Zenon DEF Counted
    <3>3. CASE pc' # "exit 1"
      <4>1. /\ pc' = IF iteration + 1 <= MAX_ITERS THEN "check" ELSE "post-loop"
            /\ iteration' = iteration + 1
        BY <2>1, <2>2, <3>3 DEF InLoop, NextIteration
      <4> QED
        BY <3>1, <4>1 DEF Counted, Labels
    <3> QED
      BY <3>2, <3>3
  <2>5. TypeOK'
    BY <2>2, <2>3, <2>4, TypeParts DEF Typed
  <2>6. pc' \in {"check", "post-loop", "exit 1"}
    BY <2>2
  <2> QED
    BY <1>0, <2>5, <2>6 DEF IInv, Configured, StaysGreen, StaysDelivered
<1>3. CASE SyncPostLoop
  <2>1. pc = "post-loop" /\ Sync("final") /\ iteration' = iteration
    BY <1>3 DEF SyncPostLoop
  <2>2. TypeOK'
    BY <1>0, <2>1, SyncFacts DEF TypeOK, Booleans
  <2>3. pc' \in {"final", "exit 1"}
    BY <1>0, <2>1, SyncFacts
  <2>4. StaysDelivered'
    BY <1>0, <2>1, <2>3, SyncFacts DEF StaysDelivered
  <2> QED
    BY <1>0, <2>2, <2>3, <2>4 DEF IInv, Configured, StaysGreen
<1> QED
  BY <1>1, <1>2, <1>3

LEMMA IInvHolds == FairSpec => []IInv
<1>1. Init => IInv
  BY InitIInv
<1>2. IInv /\ [Next]_vars => IInv'
  <2>1. CASE UNCHANGED vars
    BY <2>1 DEF vars, options, repo, IInv, Configured, TypeOK, StaysGreen, StaysDelivered,
                run_green_check, todo_is_green
  <2> QED
    BY <2>1, ChecksIInv, AgentIInv, SyncsIInv DEF Next
<1> QED
  BY <1>1, <1>2, PTL DEF FairSpec

(* The loop never runs past its last iteration but to its end. *)
THEOREM TypeCorrect == FairSpec => []TypeOK
<1>1. IInv => TypeOK
  BY DEF IInv
<1> QED
  BY IInvHolds, <1>1, PTL

(* wiggum.sh reports success only on a tree that passed its last check,     *)
(* after any number of iterations and whatever the agent does.              *)
THEOREM SuccessIsGreen == FairSpec => []GreenIsGreen
<1>1. IInv => GreenIsGreen
  BY DEF IInv, TypeOK, Markers, StaysGreen, GreenIsGreen, run_green_check, todo_is_green
<1> QED
  BY IInvHolds, <1>1, PTL

(* When it commits at all, a success leaves no work of the agent that is    *)
(* not committed but for a git add that failed, and none unpushed on the    *)
(* branch the tree is on but for a push that failed.                        *)
THEOREM SuccessIsDelivered == FairSpec => []WorkIsDelivered
<1>1. IInv => WorkIsDelivered
  BY DEF IInv, StaysDelivered, WorkIsDelivered
<1> QED
  BY IInvHolds, <1>1, PTL
=============================================================================
