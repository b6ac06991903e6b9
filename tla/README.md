# ralphdb in TLA+

This directory specifies ralphdb, a key-value server that speaks RESP2 and
RESP3, in TLA+: the threads on its keyspace, its listener and thread pool, the
decoder and request loop of a connection, its command handlers, the pattern
matcher of `CONFIG GET`, the threads of the pool at work on the keyspace, and the
two shell scripts that come with it. TLC checks the modules on small instances; TLAPS
proves their safety properties and the safety part of their refinements for every
instance.

`PROJECT.json` lists the runs, the mutants each property catches, the source
lines of every definition, the findings, the hazards and the theorems.

## Commands

    tlc -config storage_safety.cfg MCStorage.tla     # one run; the others alike
    tlapm StorageProofs.tla
    tlapm StorageRefinement.tla
    tlapm ServerProofs.tla
    tlapm RalphdbProofs.tla
    tlapm ConnectionProofs.tla
    tlapm GlobProofs.tla
    tlapm BenchmarkProfileProofs.tla
    tlapm WiggumProofs.tla

## The system

ralphdb is one process. `main` reads `Config` from the environment, makes one
`Storage` and runs a `Server`. Paths below are those of the repository.

| Component | State | Operations |
| --- | --- | --- |
| Storage (`src/storage/mod.rs`) | a `DashMap` from key to value and optional deadline, shared by all threads | set, get, del, exists, expire, ttl, incr, decr, mget, mset |
| Server (`src/server/mod.rs`) | listener, thread pool with an unbounded job queue, one socket per connection with optional time-outs | accept, hand over, handle_connection, close |
| Connection (`src/protocol/mod.rs`, the loop of `handle_connection`) | the decoder's call stack, `ConnectionState` (protocol, name, id) | decode, convert, execute, encode, reply |
| Commands (`src/command/mod.rs`) | `ConnectionState`, a process-wide id counter | 17 commands: session, storage, INFO and CONFIG |
| Glob (`matches_pattern` in `src/command/mod.rs`) | four indices | one match |
| Configuration and texts | environment variables, read twice | from_env, CONFIG entries, INFO text |
| `scripts/benchmark_profile.sh` | stage, counters, metadata file | timeout probe, preflights with one retry, benchmark runs with a time-out, the EXIT trap |
| `wiggum.sh` | an iteration counter, TODO.md, the git repository | green check, agent, commit and push |

**How they interact.** The listener gives each accepted connection to the pool
as a job. A pool thread runs the job until the connection ends: it decodes one
frame, converts it to a command, executes it against the shared `Storage`,
writes and flushes the reply, and only then decodes again. Connections meet
only in `Storage`, the job queue and the id counter. There are no callbacks, no
background threads and nothing is persisted.

**What is hard.**

* Deadlines are lazy. A call that sees an expired entry drops the lock it saw
  it under and removes the key in a second step, by which time the key may hold
  something else.
* `Ref` guards of the `DashMap` are locks. A thread that keeps one and asks for
  a write lock in the same shard waits for itself.
* A connection keeps its thread for as long as it lasts, so clients compete for
  threads, and the idle timer runs only while a connection has one.
* The decoder blocks in the middle of a frame, is cut off anywhere, and after a
  malformed line goes on with what is left of the request. A payload that is not as
  long as its header says leaves a remainder or takes the next line with it.
* A command has its effect before its reply is written, and the reply may fail.
* The environment is parsed in two places, for the pool and for `CONFIG GET`.
* The benchmark script may fail or time out at any command and be killed between any
  two assignments, and its trap reconstructs from a handful of variables what had been
  done.
* `wiggum.sh` waits for an agent, a check and git without a time-out.
* The protocol changes between two pipelined requests; both the types a request
  may use and those its reply may use depend on it.

**What makes each component correct.** Storage: every answer is one that an
atomic expiring map gives, whatever the interleaving; no entry is lost that
nobody deleted. Server: every accepted connection gets a thread or is closed,
idle ones end, no reply is lost or doubled. Connection: one reply for each
request, in order, in the protocol negotiated; half a request has no effect.
Commands: a refused command changes nothing and replies are encodable. Glob: it
decides the match and ends. The process as a whole: a counter gives each value to
one client, and what one client was told holds for the next. The benchmark script:
its metadata is true wherever it ends. `wiggum.sh`: success is reported on a green
and committed tree only.

## Modules

| Module | Models | Kind |
| --- | --- | --- |
| `Storage` | `Storage` and its callers on several threads | specification |
| `StorageHistory` | `Storage`, and which calls had their key expire under them | history variable, refinement mapping |
| `ExpiringMap` | what Storage promises | abstract specification |
| `StorageProofs`, `StorageRefinement` | theorems about `Storage` | proofs |
| `Config` | what the environment configures | operators of `Server` |
| `Server` | listener, pool, connection lifetimes | specification |
| `ServerProofs` | theorems about `Server` | proofs |
| `Connection` | decoder and request loop of a connection | specification |
| `Decoding` | which requests the decoder can tell apart | operators, on `Connection` |
| `Session` | what a connection promises | abstract specification |
| `Commands` | conversion and handlers | operators of `Session` and `Connection` |
| `ConnectionProofs` | theorems about `Connection` and `Commands` | proofs |
| `Glob` | `matches_pattern` | specification of the loop |
| `GlobProofs` | theorems about `Glob` | proofs |
| `Ralphdb` | `Server` and `Storage` in one process | composition |
| `RalphdbProofs` | theorems about `Ralphdb` | proofs |
| `BenchmarkProfile` | `scripts/benchmark_profile.sh` | specification |
| `BenchmarkProfileProofs` | theorems about `BenchmarkProfile` | proofs |
| `Wiggum` | the loop of `wiggum.sh` | specification |
| `WiggumProofs` | theorems about `Wiggum` | proofs |
| `MCStorage`, `MCServer`, `MCConnection`, `MCDecoding`, `MCGlob`, `MCRalphdb`, `MCBenchmarkProfile` | constants of the runs | model checking |

An operator whose comment begins with "Wrong:" is a mutation of the definition
after it. No specification uses it; it documents a bug that the properties
would catch.

### Storage

`inner` is the `DashMap`, `now` the clock behind `Instant::now`. Each worker has
`pc`, its command `req`, the answers `out` it has so far for the command's keys,
and `deadline`, the local variable of `Storage::expire`. One action is one
section under one shard lock, so all the places where the code lets go of a lock
are places where other workers may run:

| Action | Code |
| --- | --- |
| `Invoke`, `Return` | a decoded command reaches `execute`; its reply is built |
| `Set`, `Incr` | `set`, `incr_by`: one section under the write lock |
| `Get` | `get` up to the point where it drops the guard of an expired entry |
| `Reap` | the `remove` that follows a dropped guard in `get`, `del`, `expire`, `ttl` |
| `Del`, `DelTake` | the look-up of `del` and its counted removal |
| `Stamp`, `Expire` | the deadline is computed before the lock is asked for, and stored under it |
| `Ttl`, `TtlLeft` | `ttl` reads the clock twice under one guard |
| `Tick` | the clock advances |

`WriteLockFree` and `HoldsGuard` are the shard locks of the `DashMap`. Of the
actions, only `TtlLeft` starts with a guard held, because only `ttl` reads the
clock a second time under one; the other sections take and release their lock
within one action. Integers are `MinI64 .. MaxI64` and an increment that leaves
them is refused, as with `checked_add`. `parse` and `to_string` are functions on
the byte strings, and not inverses of each other: "+1" parses, and no integer is
printed that way.

`ExpiringMap` is the promise: a map whose entries vanish at their deadlines and
on which each command acts key by key and atomically. The code does not keep it
without three concessions, and they are part of it:

* DEL may count an entry that has expired while this DEL was at its key;
* TTL may answer 0 for an entry that has expired while this TTL was at its key;
* a call that has just reported a key as missing may take away a newer entry of that
  key (`Forget`), provided that some client gives the key deadlines.

`lapsed` holds the calls that may do the first and the second: those at whose key an
entry vanished since they came to this key, as long as neither they have answered nor
anyone has put another entry there, or counted or swept the old one. A key that had
expired before, or was never there, is not counted by DEL and is -2 to TTL, as
`del_on_expired_key_returns_zero` of the code's tests has it.

The refinement mapping hides expired entries, and counts a call that is about to reap as
having answered. What it needs to know besides is which calls have seen their entry
expire, and the state of the code does not tell: `StorageHistory` adds the variable
`lapsed` to `Storage`, written in every step (`Record`) and read in none.

### Server

`conn` says where each connection is: new, in the kernel's backlog, queued in
the pool, served by a thread, closed. `queue` and `job` are the pool. A request
is only an entry of `inbox`, "command" or "QUIT"; `reply` is what a thread is
about to write, `unread` what its client has yet to receive. A client is talking,
silent for good ("quiet"), or gone. A client that does not read leaves room for
`Window` replies in its socket and then the thread waits in `flush`.

The process starts in some environment `env`, and from it follow the threads of
the pool and whether sockets have timers. `Config` reads it as the code does, twice:
`Threads` is `Config::from_env` with its `max(1)`, `ReportedThreads` is
`default_threads` of the command module. A variable is a number, or None when it is
unset or not a number, between which `from_env` makes no difference.

| Action | Code |
| --- | --- |
| `Accept`, `Take` | `listener.incoming()`, `pool.execute`, a thread starts the job |
| `SetupFails` | `try_clone` or a time-out setting fails, before the loop |
| `Read`, `Flush` | a turn of the loop; it ends after the reply to QUIT |
| `ReadTimeout`, `ReadEof`, `WriteFails` | the exits of the loop, and the `?` of `flush` |

### Connection, Session, Commands

`Connection` takes its input line by line (a string's payload belongs to its
line, up to a line break in it), which is the unit in which the decoder can find
something wrong. `stack` is the decoder's recursion: the aggregates under construction,
each with the number of elements still to come. `ReadHeader` opens one, `Return` closes
one, `ReadScalar` and `ReadInline` complete a frame, and `Give` hands a complete frame
to the aggregate around it or to the loop. `ReadMalformed` unwinds the stack,
leaves the rest of the request in the stream and makes the loop reply. `Run` is
`from_frame_with_protocol`, `execute` and `encode_response`: nothing in it waits
for the client.

A header and its payload need not agree, and the decoder counts bytes. A payload that is
longer than its header says is a bad line that carries what it leaves behind (`left`),
to be read as lines. A payload that is shorter is a line that runs on: the decoder
reads into the next one (`ReadOn`), and `begun` remembers what the two amount to
(`becomes`): a malformed line, as a rule, since no line break is where the header
puts it; or a line that runs on yet further. A payload with a line break in it is such a
line too, and a good one, and so is a lone line feed, which `decode_inline_frame`
takes for the first byte of the line that follows.

Three kinds of read errors are told apart, as in the loop: a timer that runs out
(`IdleTimeout`), the end of the stream (`Eof`), and all others, which are answered as
malformed frames. Of these last, `ReadMalformed` is what the decoder objects to, and
`ReadError` what the socket reports when the client has reset the connection; then
the reply cannot be flushed either (`RefusalFails`), and this ends the loop. Errors
of a socket whose client is still there are not modelled.

The constant `Lines` holds the lines that a client may write, what the bad ones
among them leave and the unfinished ones become; `ConnectionAssumption` says of which kinds they are. What a line
completes or opens (`ScalarFrame`, `InlineFrame`, `NullFrame`, `Opened`), what a full
aggregate amounts to (`Filled`) and how it enters the one around it (`Extended`) are
operators, because two definitions use them: the actions, and `Turn` of `Decoding`,
one turn of the decoder by itself. `Delimits(Stages)` says with it of a set of
stages that every request passes through them to its own last line and there yields
its own frame. The protocol has no other mark for the end of a request, so a client
has to write requests of this kind. What happens otherwise is finding 3.

An aggregate inside another one keeps its type only, since `to_arg_bytes` refuses
every aggregate. Numbers, UTF-8 and the contents of payloads are abstracted to
whether the line is well-formed; the length of a header is not.

`Commands` is `src/command/mod.rs` as operators: `Outcomes(f, s)` is the set of
what a session in state `s` may answer to frame `f`, with the state it leaves. A
storage command has an outcome for each kind of reply its handler has; what it
does to the keyspace is in `Storage`.

`Session` is what a client may rely on: whole requests, answered in order, once
each, in the state the answers before have left, until the end. A session may end
after a request has taken effect and before it is answered, because a write can
fail. `Connection` implements it for requests that are well-formed or whose last
line is the malformed one; a request cut off by a hang-up counts as malformed.
`Session` shares `Commands` with `Connection`, so the refinement is about decoding,
order, pipelining and loss, and the handlers have properties of their own.

### Ralphdb

`Ralphdb` extends `Storage` and instantiates `Server` as `Net`, over one set of
workers (it extends the one of the two whose theorems the proofs about it build on:
TLAPS cannot use a theorem through an instance). A worker of
the pool that has decoded a request (`Net!Read`) is a worker of `Storage` with a call
(`Invoke`), or answers without one, as PING, QUIT and refused requests do. Its
calls take their own steps beside those of the other threads, and
nothing else happens to its connection until `Reply` or `ReplyFails`. After
`ReplyFails` the effect of the call stays and its client does not know of it.
`told`, `tickets` and `floor` are history variables over a counter, a key that clients
INCR and otherwise only look at (GET, EXISTS, MGET, TTL). `ImplementsServer` says that the composition is still a
`Server`, with its fairness: in `Server` handling a request is one step, here it
waits for locks of other threads. The locks of a `DashMap` need not let a writer in
between readers, so a thread whose INCR is kept out by ever new TTLs (`KeptOut`) need
not come to its reply; of every other thread `Server`'s fairness holds.

### BenchmarkProfile

Bash handles a signal between any two commands, an assignment being one. So whatever the
trap reads is assigned in a step of its own, and waiting for a command is apart from
judging how it has ended:

| Action | Code |
| --- | --- |
| `Begin` | from the trap to the first command |
| `CommandEnds` | the command that the script waits for ends, by itself with some status, or cut off by the timeout tool with the status this tool showed when it was probed |
| `TimeoutVerdict`, `PreflightVerdict`, `Resp3Verdict`, `RunVerdict` | what is made of that status: the next stage, a second attempt, or a failure and its context |
| `Leave` | the error messages after it, and `exit` |
| `StartIndex`, `StartLabel`, `StartStage`, `StartRun` | lines 584, 585, 587 and 588 of `run_case`, and the start of its command |
| `CountRun`, `LastIndex`, `LastLabel` | lines 626, 627 and 628, and the turn of the loops |
| `Summary` | the closing message |
| `Killed` | a signal, in any of these places |

`Exit` is the EXIT trap: `finalize_metadata` computes what the metadata file says in
the end. A message that the script prints itself may find its output closed, and under
`set -e` this ends the script with a status of its own; where `set -e` does not apply
(inside the functions called in a condition) or the status would be the same, it is left
out. An output that blocks for ever is not modelled.

After a signal, bash runs the trap with a status that is not the signal's: while the
script waits it is that of the last command that ended, which was a success;
between two commands it may also be that of a test that said no, or the status the script
has just taken. For SIGINT it may be 130. This depends on the version of bash: 5.2
was observed to give 0 to the trap for SIGINT, SIGTERM and SIGHUP alike, and the model
allows both. What a second signal does to the trap itself is not modelled.

Labels are the loop variables they are formatted from; elapsed time and output files,
whose names follow the labels, are left out. `ran`, `cut` and `by` are history
variables: the runs that came to a good end, whether the timeout tool ended the last
command, and what ended the script.

### Wiggum

The repository is what `wiggum.sh` asks of it: does the green command succeed, what
does the marker in TODO.md say, is there something to commit or to push, a branch, an
upstream. `Agent` is the call of `codex exec`: it changes the working tree in any way,
and although its prompt tells it not to, it may commit, push, or turn to another branch
or to none. The `then` and `else` of `Check` are the green check before an iteration and
the final one; `Sync` is `sync_iteration_changes` at its three places. A `git add` may
fail, which is ignored, and the commit of what was staged before may succeed all the same
(`refused`); a push to an existing upstream may fail and is ignored (`rejected`), as in
the code. None of the commands it waits for has a time-out: `ends` says which of the
green command, the agent and git end by themselves.

### Glob

One action is one turn of one of the two loops of `matches_pattern`. The
definition it is compared with, `Matches`, says that the key can be cut into one
piece per byte of the pattern. Keys contain no star (`GlobAssumption`), as those
of `config_entries` do; with a star in the key the code would compare it with the
star of the pattern as an ordinary byte.

## Runs

| Run | Instance | Shows |
| --- | --- | --- |
| `storage_safety` | 2 threads, keys `kv` (gets deadlines) and `kp` in one shard, integers -1..1, 2 ticks per second, time 0..2, `MaxInstant` 3 | the type invariant; deadlines and reaping stay with the keys that were given deadlines; a key without deadlines is lost to counted deletions only; Storage implements ExpiringMap; every call returns that is not kept out by ever new TTLs. Deadlock is checked |
| `storage_lost_write` | the same, each key its own shard, time 0..3 | **violated**: a GET removes a value that was stored after it looked |
| `server` | 2 connections; the variables are unset, 0, negative, or 2 threads with a time-out and without, on one CPU; 2 unread requests per client, a window of 1 | a connection is in one place and has one thread; each request has one reply; the reported thread count; an accepted connection gets a thread if the others fall silent some time (without time-outs: close); with time-outs a silent client loses its thread |
| `server_idle_queued` | the same, 1 unread request | **violated**: with time-outs idle connections close, but not while they are queued |
| `connection_session` | 3 requests out of 22 | Connection implements Session; never more replies than requests |
| `connection_commands` | 2 requests out of 86: all commands, right and wrong arity, nested, typed and malformed, payloads that run on | the requests, among them all those of `connection_session`, are delimited (an `ASSUME` of `MCDecoding`); replies encode; types and attributes follow the protocol; refusals change nothing; complete requests are answered; a client that closes or resets the connection ends it |
| `connection_strict` | 2 requests, some malformed in the middle, some with payloads longer or shorter than their headers | **violated**: one request has two replies |
| `glob_matches` | all patterns up to 5 bytes of {a, b, \*}, keys up to 4 of {a, b} | the loop decides matching and ends |
| `ralphdb` | 2 clients, 2 threads, INCR and TTL of a counter with the limits -1 and 2, 1 unread request, a window of 1, time-outs | no value of the counter is told twice; later requests find higher values; Ralphdb implements Server, liveness included |
| `benchmark_metadata` | 2 mixes, 2 repeats, 2 protocols, 3 modes (24 runs), own exit statuses 1, 137, 139, tools with probe status 0, 1, 124, 127, 143, 152, with and without time-outs, a signal or a closed output anywhere | the metadata is true, failures are located, timeouts are reported as such, the script ends |
| `benchmark_killed` | the same | **violated**: metadata that reports success is of a complete run |
| `wiggum` | up to 3 iterations, all options, all repositories, any set of commands that end | success means green, committed unless a `git add` failed, and pushed unless a push failed; the script ends, or waits for a command that does not |

**Bounds.** *Storage:* a race needs one call that has seen an entry and another
that replaces it: two threads. Each thread repeats commands without bound, so
every sequence of completed calls before a race occurs. One key with deadlines
and one without are what the properties tell apart, and one shard is the case
with the most waiting; the violation uses two shards to show that the shard is
not the cause. With two ticks to the second a deadline falls before, at and
between the ticks a thread reads, and time 2 lets an entry be set, given a
deadline, expire and be set again; the range -1..1 has both integer limits one
increment away, and an EXPIRE at time 2 passes `MaxInstant` 3. *Server:*
two connections compete for one thread in three of the five environments, one of
them waiting in the queue while the other is served, and have a thread each in two;
a window of one reply and two pipelined requests block a thread in `flush`. The
environments hold one value of each class that `Config` distinguishes; `CPUs` is 1, so
that two configured threads are more than the default. *Connection:*
a request whose effect or remainder reaches the next one, and one more that
shows it: three requests, between them HELLO 2, 3 and 9. One closes three
aggregates with its last line, and one takes three lines for a single payload. `MaxItems` 3 stands for a cap of a million: a
header above the cap is in the runs. *Glob:* five bytes of pattern hold
two stars with text before, between and after them. *Ralphdb:* two threads race for
one counter: with a limit of 2, one is told 1 while the other still has its INCR before
it, the second INCR is told 2, and the third is refused; a lost reply needs one client
that leaves. TTL is what keeps a guard from one step to the next, so that an INCR
waits for it. `MaxTime` is 1, since counters have no deadlines: the
clock's step is there, and changes nothing. The constraint `Bounds` leaves out what is no
different from what is there: clients that are silent for good rather than for now, the
second order in which two clients come, and the clock's step during a connection. *BenchmarkProfile:* every loop turns at
least twice, so each case of `NextCase` occurs, and a signal comes between any two steps of the
first run, of the last one and of those in the middle; the statuses are one of each class
that the script distinguishes, with an own exit of 137, which it takes for a
timeout. *Wiggum:* what one iteration leaves reaches the next, and the bound
on the iterations is met from both sides.

`CHECK_DEADLOCK FALSE` stands in the runs of Server, Ralphdb, Connection, Glob and
the scripts: all connections may be used up, the connection may be closed, the
function may have returned and the script have ended. `MaxTime`, `MaxIters`,
`Inbox`, `Window`, `MaxRequests`, `MaxPattern` and `MaxKey` are the bounds of the models.

## Fairness

* `Storage!FairSpec`: `WF(Step(w))` for each worker: the operating system runs
  every thread that is not blocked. Invocations need not happen. The locks of
  the `DashMap` are not fair, so `CallsReturn` promises a return only if the
  other threads do not take `ttl` guards for ever; it then excludes waiting for a
  guard of one's own and cycles.
* `Server!FairSpec`: `WF` of `Accept`, of `Take(w)` and of `Handle(w)`. A handler
  always has a step, or waits for its client; with time-outs the wait ends, as
  the socket's timer runs out. Clients have no fairness. `AcceptedIsServed`
  states what it needs of them, that each lets its connection end some time.
* `Connection!FairSpec`: `WF(ServerStep)`, the thread of the connection and its
  timers. It assumes that the client makes room for replies or that the write
  time-out ends the connection; blocked writes are part of `Server`.
* `Glob!FairSpec`: the function runs.
* `Ralphdb!FairProcess`: `WF` of `Accept`, `Begin(w)` and `Handle(w)`, the threads of
  the process. `Handle(w)` holds the steps of a call too. It is not enabled while an
  INCR waits for the lock that a TTL holds, so weak fairness lets one thread wait for ever
  if the other asks for the TTL for ever, and `ImplementsServer` excepts this case
  (`KeptOut`) and no other.
* `BenchmarkProfile!FairSpec`: `WF(Step)`, the script itself, and
  `WF(timeouts /\ CommandEnds)`. With timeouts the tool ends any command that does not
  end by itself (that it does so with the status it showed in the probe is an
  assumption); without them a command may hang, and the script with it.
* `Wiggum!FairSpec`: `WF(Awaited \subseteq ends /\ Next)`. The script goes on unless it
  waits for a command that does not end, and `Ends` allows it to stop there.

## Proofs

`StorageProofs` proves, for any number of workers, any keys, values, shards, any
set of well-formed commands and any integer and clock limits:

* `TypeCorrect`: `Spec => []TypeOK`. `TypeOK` includes that a thread is only
  where its command can take it (`CallOK`) and that the entry which `ttl` is about
  to measure is there.
* `DeadlinesGiven`: `Spec => []DeadlinesAreGiven`.
* `PersistentKeysSafe`: `Spec => PersistentKeysAreSafe`, an action property.

The inductive invariant is `IInv == TypeOK /\ DeadlinesAreGiven`. Neither half
stands alone: that a reaping thread works on a key with deadlines needs the fact
that the entry it saw expired had one, which is the other conjunct of
`DeadlinesAreGiven`, and both need from `TypeOK` that a thread about to store a
deadline runs an EXPIRE. Conversely the last conjunct of `TypeOK` needs the lock:
no other worker removes an entry of a shard in which a guard is held.
There is one lemma for each action (`IInvHolds` combines them); `Removals` lists
what can make a present entry vacant, from which the action property follows.

`StorageRefinement` proves `Refinement`: `HistorySpec => ImplementsAtomicMap`. Initial
states map to initial states, and under `IInv` and `LapsedOK` each action maps to an action
of `ExpiringMap` or a stutter: a look-up that finds its key expired maps to the
answer "missing", the `Reap` after it to `Forget` or to a stutter if what it
removes has itself expired, and `Tick` hides the entries whose deadline it
reaches. `LapsedOK` says of a thread that has gone past its look-up (to `DelTake` or
`TtlLeft`) and whose entry is expired now that it is in `lapsed`: so a late count and
a TTL of 0 are answers that `ExpiringMap` allows.

The assumptions are those the module names: `IntegerAssumption` (the limits
allow one step up and one down, parsing undoes printing), `ClockAssumption`,
`RequestAssumption` (handlers check their arity before they call Storage) and
`SentinelAssumption`. TLC evaluates all of them in the Storage runs.

`ServerProofs` proves, for any set of connections, any finite number of threads,
any environment and any size of inboxes and sockets, that `TypeOK`, `InOnePlace` and
`OneReplyEach` hold always, and that CONFIG GET reports the threads of the pool
unless it is configured to 0 (`AlwaysReportsItsThreads`). The inductive invariant is

    IInv == TypeOK /\ InOnePlace /\ Counted /\ NewIsUnused /\ NotAhead

`InOnePlace` is inductive with the types: it says at once that the queue has no
duplicates, that it holds what is marked as queued, and that a thread owns its
connection, and each of these needs the others when a thread takes a job.
`Counted` is `OneReplyEach` without the cardinality: "some thread holds a reply"
in place of the number of threads that do, which `InOnePlace` makes the same
(lemma `Hands`). It is about open connections with a client that is there, so the
two moments at which a connection comes under it need help: `NewIsUnused` says
that nothing of an earlier use is left when a client connects, and `NotAhead`, which
outlasts the end of a connection, that a client can still receive what it was sent
without being ahead of its requests; the type of `owed` rests on it. The lemmas
follow the actions; `EndIInv` does the end of a handler once for its four exits.
`AlwaysReportsItsThreads` needs only the types and the arithmetic of `Config`.
The assumptions are `ServerAssumption` and `ConfigAssumption`.

`RalphdbProofs` proves of the whole process, for any clients, threads, keys and limits:

* `ProcessKeyspace`: `ProcessSpec => Spec`. Seen from the keyspace the process is a
  `Storage`, whose theorems therefore hold in it; `ProcessIsAtomic` is the refinement
  of `ExpiringMap`, for the process with the history of `StorageHistory` recorded beside
  it (`lapsed = {} /\ [][Record]_hvars`, which restricts no other variable).
* `ProcessPool`: `ProcessSpec => Net!Spec`. Seen from the sockets it is a `Server`,
  the safety part of `ImplementsServer`.
* `TicketsUnique` and `RealTimeOrdered`: the two properties of the counter.

The invariant of the last two is `CInv == Count \in 0 .. MaxI64 /\ History /\ News`,
beside the `IInv` of Storage. `Count` is the value in the map. `History` says that
nothing above it has been told to anyone. `News` is about the values in the hands of
threads whose calls are over: each is at most `Count`, has not been told before, is
in one hand only, and is above what had been told when its request was decoded. The
lemma that carries the proof is `CountsUp`: an increment that is not refused makes
`Count` one higher and answers with that value. It rests on `CounterStays`, that a
counter never has a deadline and so never counts as missing once it is there, which is
`DeadlinesAreGiven`. Calls on other keys leave the counter alone (`OtherSections`).
`CounterAssumption` says that clients INCR a counter or look at it, and do nothing else
to it.

`ConnectionProofs` proves, for any lines, requests, caps and number of requests:

* `TypeCorrect`, `RepliesAlwaysEncode`, `TypesAlwaysFollow` (invariants) and
  `FailuresLeaveSession` (`FailuresChangeNothing`, an action property), of whatever
  the client writes. The invariant is `IInv == Sending /\ Decoder /\ Talking`: what
  is on its way is made of lines, the stack is a `Nest`, and all replies so far fit
  the protocol they were written in. In a `Nest` an aggregate that
  has another one inside still lacks an element, which is why completing the inner
  one never overfills the outer one. The properties of replies come from one lemma,
  `OutcomesProper`, over all commands: every outcome has a reply that encodes in the
  protocol of the state it leaves, and an error leaves the state alone.
* `NeverExtraReplies` (`NoExtraReplies`) and `SessionRefinement`
  (`ImplementsSession`), under the hypothesis `Delimits(Stages)` for some `Stages`, of
  which TLC evaluates an instance. The invariant is
  `DInv(Stages) == IInv /\ Behind /\ (Sound => Streaming(Stages) \/ CutOff) /\ Framed`,
  where `Sound` means that no read has failed and the loop goes on.
  `Streaming` is where the stream is understood: there is an assignment (`Flow`) of
  each line under way to the request it belongs to and to what follows it there,
  which starts where the decoder stands (`Position`: between two requests, or at a
  stage of one) and ends where the client does. A client adds at the end (`FlowAppend`),
  the decoder takes away at the front (`FlowTail`), a hang-up puts the malformed line
  behind everything (`FlowHangUp`), and after it is read nothing comes any more
  (`CutOff`). `Framed`, that the frame to be executed is the one the client wrote at
  that place, gives the refinement: `ClientAsks` maps the client's last
  line to `Ask`, `RunsNext` maps `Run` to an answer to the next request, and the decoder's
  own steps stutter.

The assumptions are `ConnectionAssumption` and that hypothesis.

`GlobProofs` proves for any alphabet and any lengths that `TypeOK` holds and
(`AlwaysFindsMatches`) that a result is right in both directions. A cut assigns to
each byte of the pattern the place in the key where its piece begins. The invariant
`IInv == Typed /\ Reached /\ NotAhead /\ FindsMatches` has a half for each direction.
`Reached`: the pattern read so far has a cut of the key read so far, and so has
the pattern up to the last star with what this star has taken. With it "yes" is
right. `NotAhead`: the loop is not ahead of any cut of the whole, and if it is behind
one, this cut gives the last star more than the loop has, so that backing up to the
star and giving it one byte more loses no cut (`Stuck`, `BackIInv`). That only the last
star is ever reconsidered is thereby justified. With it "no" is right. The assumption is
`GlobAssumption`.

`BenchmarkProfileProofs` proves the types and three properties of the metadata for any
number of mixes, repeats, protocols and modes, any exit statuses and any timeout tool.

* `MetadataAlwaysTrue`: `FairSpec => []MetadataIsTrue`. Lemma `NextIndex` does the
  arithmetic of the four nested loops: the case after `c` has the index after
  that of `c`, with `LastCase` at `TOTAL_RUNS`. The invariant is
  `IInv == InOrder /\ InPlace /\ Counted /\ Started /\ Written`: the runs done are the first
  ones in order; the loop variables are those of the next one, or of the one that
  is not yet counted; the counter and the last index and label are behind the runs
  done by exactly the assignments still to come at this place of `run_case`; the index
  and label of the run started are ahead of them likewise; and the file, once written,
  is true. `ExitWrites` does the EXIT trap once for all its callers.
* `FailuresAlwaysLocated`: `FairSpec => []FailureIsLocated`. `LInv` adds to `IInv` where
  the script may be (`Waits`, `Places`), that the stage is that of the command the script
  is at, and that of the run it started (`Staged`), and that a context is there exactly
  from a verdict on and names that stage (`Blamed`).
* `TimeoutsAlwaysReported`: `FairSpec => []TimeoutsAreReported`. `RInv` adds that past the
  probe a timeout tool shows a status other than 0 (`ProbeWorks`), and that the script
  goes on after a command was cut off only to repeat it or to report it (`CutIsSeen`).
* `TypeCorrect`: `FairSpec => []TypeOK`. `TInv` adds to `LInv` the types of the
  variables the others have no need of, and that an ended script has written its file
  (`Kept`, `Flags`).

The only assumption is `ProfileAssumption`. The proofs use no fairness.

`WiggumProofs` proves for any bound on the iterations, any options and any
repository `TypeCorrect`, `SuccessIsGreen` (`GreenIsGreen`) and `SuccessIsDelivered`
(`WorkIsDelivered`). `IInv` extends what holds at a successful exit to where
the script decides to make it: the tree builds from a green check on (`StaysGreen`),
and from the last synchronisation on nothing is left to commit, unless `git add` failed,
or to push, unless a push was rejected (`StaysDelivered`). `SyncFacts` says what `sync_iteration_changes`
leaves, for its three callers.

**Model-checked only:**

* the liveness properties `CallsReturn`, `AcceptedIsServed`, `SilentConnectionsClose`,
  `Answered`, `HangUpEnds`, `Terminates`, `EndsWithTimeouts` and `Ends`, and the
  fairness in `ImplementsServer`: they need `WF` and `ENABLED`, for which this prover
  has no rules;
* that the requests of an instance are delimited: `MCDecoding` computes their stages
  recursively;
* the properties that the code violates, which TLC refutes.

## Findings

1. **A stored value can be lost** (`storage_lost_write`). GET finds a key
   expired and drops its guard; a client SETs the key and gets `OK`; GET removes
   the key. `del`, `expire` and `ttl` have the same step. `remove_if` with the
   expiry test would close the gap. What limits the damage is proved: only keys
   that are given deadlines are affected.
2. **Queued connections have no idle timer** (`server_idle_queued`), because the
   job sets it.
3. **A malformed frame can have several replies** (`connection_strict`): the loop
   continues without finding the end of the request.
4. **A killed benchmark records a success** (`benchmark_killed`): a script ended by
   SIGTERM or SIGHUP while it waits for a command (or by SIGINT, with a bash that does not
   pass 130 on to the trap) writes `script_exit_kind=success` and
   `script_stage=complete` next to `run_completion_state=incomplete`, because `$?`
   in the trap is the status of the command before. The counters are right
   (`MetadataIsTrue`), so a reader who looks at `run_completion_state` is safe. TLC's
   shortest trace has the signal before the first command; the same happens at every
   later place.

Disagreements that need no model, each about one reply or one line:

* CLIENT LIST in RESP2 is a simple string (`src/command/mod.rs:471`) and not the
  bulk string of README.md:114. A client name with a line break in it then ends
  the reply early.
* The `id` of HELLO 3 (`src/command/mod.rs:207`) is the connection's and not the
  stable server id of README.md:254; `assert_hello3_map` of the integration tests
  expects an integer.
* `RALPHDB_THREADS=0` runs one thread, and CONFIG GET reports the number of CPUs.
* `benchmark_profile.sh` takes an own exit status of 124, 137 or 143, or one equal to
  the probe's, for a timeout. If the probe itself is refused with a status below 124,
  the script exits with 1, and if that status was 1 reports the exit as a timeout.
* `wiggum.sh` ignores a failed `git add` (line 93) and may then exit 0 with work that is
  not committed; it ignores a failed push to an existing upstream (line 76) and may then
  exit 0 with commits that are not pushed; a missing TODO.md counts as green
  (line 35); an option without its value at the end makes it loop for ever (line 109).

## Not modelled

* Memory that lazily expired keys occupy, the depth of the decoder's recursion
  and the size of its buffers: no promise in the repository is about them.
* Failed accepts: they change nothing that is modelled, and are retried at once.
* The text of INFO, CONFIG and error messages, UTF-8 and number syntax, host and
  port of the configuration.
* The uniqueness of client ids, which is that of one `fetch_add`.
* That replies already written can be lost when a socket is closed with unread
  input, as after QUIT with more requests behind it.
* Read errors other than the timer, the end of the stream and those of a connection that
  its client has reset.
* The scripts up to the point where their arguments are accepted; two runs of
  `benchmark_profile.sh` in one directory; a signal or a full disk while its trap runs;
  the prompt of `wiggum.sh`.
* `main` and the tests.

## Plan

1. *Done.* `Storage`, `ExpiringMap`, their runs, the invariants and the
   refinement proved. `Server`, its invariants proved.
   `Connection` with `Session` and `Commands`, `Glob`.
2. *Done.* `Config` as part of `Server`, `Ralphdb`, `BenchmarkProfile` with
   its three safety properties proved, `Wiggum`.
3. `Connection` in `Ralphdb`, so that sessions share the keyspace: the product of
   decoder, pool and calls is too large for the present instances, and the
   refinements of `Session`, `Server` and `ExpiringMap` cover its parts.
4. *Done.* Proofs of `Glob`, `Wiggum`, `Ralphdb` and `Connection`, and the types of
   `BenchmarkProfile`.
5. What limits finding 1 for one client: a client that alone uses a key never loses a
   value of it. First as a property of a run of `Storage`, then as a theorem.
