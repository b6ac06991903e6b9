------------------------------- MODULE Wiggum -------------------------------
(***************************************************************************)
(* src/wiggum.sh after its options are read: the loop that checks whether  *)
(* the repository is green, lets an agent work on it if it is not, and     *)
(* commits and pushes what the agent has left.                             *)
(*                                                                         *)
(* The repository is abstracted to what the script asks of it.             *)
(***************************************************************************)
EXTENDS Naturals

CONSTANT MaxIters   \* model bound: the largest MAX_ITERS

ASSUME WiggumAssumption == MaxIters \in Nat \ {0}

VARIABLES
  MAX_ITERS, REQUIRE_TODO_GREEN, AUTO_COMMIT_PUSH,
  ends,       \* the commands that end by themselves; the script waits for all
  pc, iteration,
  builds,     \* does GREEN_CMD succeed on the working tree?
  marker,     \* the last marker line of TODO.md, "none", or "no file"
  dirty,      \* would git status print something?
  branch,     \* is HEAD on a branch?
  upstream,   \* has the branch an upstream?
  ahead,      \* are there commits that are not pushed?
  unsaved,    \* history: has the agent left work that is not committed?
  refused,    \* history: has the last git add failed?
  rejected    \* history: has the last push failed?

options == <<MAX_ITERS, REQUIRE_TODO_GREEN, AUTO_COMMIT_PUSH, ends>>
repo    == <<builds, marker, dirty, branch, upstream, ahead, unsaved, refused, rejected>>
vars    == <<options, pc, iteration, repo>>

(* GREEN_CMD, codex exec, and git with the hooks and the server it calls. *)
Commands == {"green", "codex", "git"}

Markers == {"yes", "no", "none", "no file"}

todo_is_green == REQUIRE_TODO_GREEN => marker \in {"no", "no file"}

(* Wrong: the marker is not looked at. *)
BuildsOnly == builds

run_green_check == builds /\ todo_is_green
-----------------------------------------------------------------------------
Init ==
  /\ MAX_ITERS \in 1 .. MaxIters
  /\ REQUIRE_TODO_GREEN \in BOOLEAN /\ AUTO_COMMIT_PUSH \in BOOLEAN
  /\ ends \in SUBSET Commands
  /\ pc = "check" /\ iteration = 1
  /\ builds \in BOOLEAN /\ marker \in Markers /\ dirty \in BOOLEAN
  /\ branch \in BOOLEAN /\ upstream \in BOOLEAN
  /\ upstream => branch
  /\ ahead \in BOOLEAN
  /\ unsaved = FALSE /\ refused = FALSE /\ rejected = FALSE

(* ensure_pushed, when there are commits to push or not.  A push to an      *)
(* upstream that exists may fail unnoticed.                                 *)
ensure_pushed(commits, next) ==
  \/ /\ ~branch
     /\ pc' = "exit 1"
     /\ ahead' = commits
     /\ UNCHANGED <<upstream, rejected>>
  \/ /\ upstream /\ ~commits
     /\ pc' = next
     /\ ahead' = FALSE
     /\ UNCHANGED <<upstream, rejected>>
  \/ /\ upstream /\ commits
     /\ pc' = next
     /\ rejected' \in BOOLEAN /\ ahead' = rejected'
     /\ UNCHANGED upstream
  \/ /\ branch /\ ~upstream
     /\ \/ pc' = next /\ upstream' = TRUE /\ ahead' = FALSE /\ rejected' = FALSE
        \/ pc' = "exit 1" /\ ahead' = commits /\ rejected' = TRUE /\ UNCHANGED upstream

(* sync_iteration_changes: go on to next, or exit.  That git add fails is   *)
(* not noticed; what was staged before is committed all the same.           *)
Sync(next) ==
  \/ /\ ~AUTO_COMMIT_PUSH
     /\ pc' = next
     /\ UNCHANGED repo
  \/ /\ AUTO_COMMIT_PUSH /\ dirty
     /\ pc' = "exit 1"      \* the commit fails
     /\ UNCHANGED repo
  \/ /\ AUTO_COMMIT_PUSH
     /\ \/ refused' = FALSE /\ dirty' = FALSE /\ unsaved' = FALSE
        \/ dirty /\ refused' = TRUE /\ UNCHANGED <<dirty, unsaved>>
     /\ ensure_pushed(ahead \/ dirty, next)
     /\ UNCHANGED <<builds, marker, branch>>

(* GREEN_CMD may leave something behind, such as a new Cargo.lock. *)
Check(then, else) ==
  /\ pc' = IF run_green_check THEN then ELSE else
  /\ dirty' \in {dirty, TRUE}
  /\ UNCHANGED <<builds, marker, branch, upstream, ahead, unsaved, refused, rejected>>

GreenCheck ==
  /\ pc = "check" /\ Check("green", "agent")
  /\ UNCHANGED <<options, iteration>>

(* Wrong: a green tree is not synchronised. *)
LeavesGreen ==
  /\ pc = "green"
  /\ pc' = "exit 0"
  /\ UNCHANGED <<options, iteration, repo>>

SyncGreen ==
  /\ pc = "green" /\ Sync("exit 0")
  /\ UNCHANGED <<options, iteration>>

(* codex exec does what it likes to the working tree, and should not, but   *)
(* may, commit it or turn to another branch; whether it succeeds is         *)
(* ignored.                                                                 *)
Agent ==
  /\ pc = "agent"
  /\ pc' = "sync"
  /\ builds' \in BOOLEAN /\ marker' \in Markers
  /\ branch' \in BOOLEAN /\ upstream' \in {FALSE, branch'} /\ ahead' \in BOOLEAN
  /\ \/ dirty' = TRUE /\ unsaved' = TRUE
     \/ dirty' = FALSE /\ unsaved' = FALSE
     \/ UNCHANGED <<dirty, unsaved>>
  /\ UNCHANGED <<options, iteration, refused, rejected>>

(* Wrong: one iteration too many. *)
OneMore(i) == i <= MAX_ITERS + 1

InLoop(i) == i <= MAX_ITERS

(* Wrong: an iteration is not counted. *)
SameIteration == iteration

NextIteration == iteration + 1

SyncAgent ==
  /\ pc = "sync"
  /\ Sync(IF InLoop(NextIteration) THEN "check" ELSE "post-loop")
  /\ iteration' = IF pc' = "exit 1" THEN iteration ELSE NextIteration
  /\ UNCHANGED options

SyncPostLoop ==
  /\ pc = "post-loop" /\ Sync("final")
  /\ UNCHANGED <<options, iteration>>

FinalCheck ==
  /\ pc = "final" /\ Check("exit 0", "exit 1")
  /\ UNCHANGED <<options, iteration>>

Next == GreenCheck \/ SyncGreen \/ Agent \/ SyncAgent \/ SyncPostLoop \/ FinalCheck

(* The command the script waits for, if any. *)
Awaited ==
  CASE pc \in {"check", "final"} -> {"green"}
    [] pc = "agent" -> {"codex"}
    [] pc \in {"green", "sync", "post-loop"} -> IF AUTO_COMMIT_PUSH THEN {"git"} ELSE {}
    [] OTHER -> {}

(* Nothing in the script ends a command that does not end by itself. *)
FairSpec == Init /\ [][Next]_vars /\ WF_vars(Awaited \subseteq ends /\ Next)
-----------------------------------------------------------------------------
TypeOK ==
  /\ pc \in {"check", "green", "agent", "sync", "post-loop", "final", "exit 0", "exit 1"}
  /\ iteration \in 1 .. MAX_ITERS + 1
  /\ iteration = MAX_ITERS + 1 => pc \in {"post-loop", "final", "exit 0", "exit 1"}
  /\ {builds, dirty, branch, upstream, ahead, unsaved, refused, rejected} \subseteq BOOLEAN
  /\ marker \in Markers
  /\ unsaved => dirty

(* The script reports success only on a tree that builds, and on which no   *)
(* TODO is open, after the last the agent has done to it ("stops only when  *)
(* the repo is truly green", README.md); a missing TODO.md counts as done.  *)
GreenIsGreen ==
  pc = "exit 0" =>
    builds /\ (REQUIRE_TODO_GREEN => marker # "yes" /\ marker # "none")

(* When it reports success, and commits at all, no work of the agent is     *)
(* left uncommitted but for a git add that failed, and none is left         *)
(* unpushed on the branch the tree is on but for a push that failed.        *)
WorkIsDelivered ==
  pc = "exit 0" /\ AUTO_COMMIT_PUSH => (unsaved => refused) /\ (ahead => rejected)

(* However the agent fares, the script comes to an end, or to a command     *)
(* that does not: a check, the agent or git.                                *)
Ends == <>(pc \in {"exit 0", "exit 1"} \/ ~(Awaited \subseteq ends))
=============================================================================
