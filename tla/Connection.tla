----------------------------- MODULE Connection -----------------------------
(***************************************************************************)
(* One connection of ralphdb: the bytes of its requests, decoded line by   *)
(* line (src/src/protocol/mod.rs), executed, and answered in the loop of   *)
(* Server::handle_connection (src/src/server/mod.rs).                      *)
(*                                                                         *)
(* The decoder is recursive and blocks in the middle of a frame.  Its call *)
(* stack is the variable stack, with an entry for each aggregate under     *)
(* construction, and in the variable begun, for a line that is not all of  *)
(* what the decoder reads at once; the unit of arrival is the line, with   *)
(* the payload of a string counted to its line as far as there is no line  *)
(* break in it.  A line is                                                 *)
(*   [kind |-> "scalar", type, word]  a whole scalar frame,                *)
(*   [kind |-> "open", type, n]       the header of an aggregate,          *)
(*   [kind |-> "inline", words]       a line without a prefix of RESP,     *)
(*   [kind |-> "bad", left]           a line no frame can begin with or    *)
(*                                    whose payload goes on where its      *)
(*                                    header says it ends; left is what    *)
(*                                    remains of it, to be read as lines   *)
(*                                    of its own,                          *)
(*   [kind |-> "runon", becomes]      a line whose payload is not all that *)
(*                                    its header says, or a line feed with *)
(*                                    nothing before it: the decoder takes *)
(*                                    the next line for its continuation,  *)
(*                                    and both for the line becomes.       *)
(***************************************************************************)
EXTENDS Commands

CONSTANTS
  Lines,        \* the lines there are
  Requests,     \* what a client may send: [lines, frame], a frame as it is written
  MaxItems,     \* MAX_COLLECTION_SIZE
  MaxRequests,  \* model bound: requests of the client
  Timeouts      \* is an idle timeout configured?

Aggregates == {"array", "map", "set", "push", "attribute"}

Bad(left) == [kind |-> "bad", left |-> left]

NoFrame == [type |-> "none", items |-> <<>>]

NoLine == [kind |-> "none"]

ASSUME ConnectionAssumption ==
  /\ MaxItems \in Nat /\ MaxRequests \in Nat /\ Timeouts \in BOOLEAN
  /\ \A l \in Lines :
       \/ l.kind \in {"scalar", "inline"}
       \/ l.kind = "open" /\ l.type \in Aggregates
       \/ l.kind = "bad" /\ l.left \in Seq(Lines)
       \/ l.kind = "runon" /\ l.becomes \in Lines
  /\ Bad(<<>>) \in Lines
  /\ \A r \in Requests : r.lines \in Seq(Lines) /\ r.lines # <<>>
  /\ Malformed # NoFrame

VARIABLES
  sent,       \* the requests the client has begun to send
  rest,       \* the lines of the last of them that it has still to send
  hungup,     \* has the client closed its end?
  coming,     \* the lines the server has not read yet
  stack,      \* the aggregates under construction, outermost first
  begun,      \* the line that the next one will complete, or NoLine
  phase,      \* what the server is about to do
  frame,      \* the frame that is decoded, in phase "running"
  state,      \* ConnectionState
  answers     \* what has been written and flushed

vars == <<sent, rest, hungup, coming, stack, begun, phase, frame, state, answers>>

Open == phase \in {"reading", "running", "refusing"}
-----------------------------------------------------------------------------
Init ==
  /\ sent = <<>> /\ rest = <<>> /\ hungup = FALSE
  /\ coming = <<>> /\ stack = <<>> /\ begun = NoLine
  /\ phase = "reading" /\ frame = NoFrame
  /\ state = Fresh
  /\ answers = <<>>

-----------------------------------------------------------------------------
(* The client sends line by line, does not wait for replies, and may close  *)
(* or reset the connection anywhere, in the middle of a line too.           *)
Begin ==
  /\ ~hungup /\ rest = <<>> /\ Len(sent) < MaxRequests
  /\ \E r \in Requests :
       /\ sent' = Append(sent, r)
       /\ rest' = Tail(r.lines)
       /\ coming' = Append(coming, Head(r.lines))
  /\ UNCHANGED <<hungup, stack, begun, phase, frame, state, answers>>

Continue ==
  /\ ~hungup /\ rest # <<>>
  /\ coming' = Append(coming, Head(rest))
  /\ rest' = Tail(rest)
  /\ UNCHANGED <<sent, hungup, stack, begun, phase, frame, state, answers>>

HangUp ==
  /\ ~hungup /\ hungup' = TRUE
  /\ coming' \in {coming} \cup (IF rest # <<>> THEN {Append(coming, Bad(<<>>))} ELSE {})
  /\ UNCHANGED <<sent, rest, stack, begun, phase, frame, state, answers>>
-----------------------------------------------------------------------------
(* decode_array, decode_map, decode_set, decode_push, decode_attribute: the *)
(* lengths they take, and how many frames they go on to decode.             *)
Nullable == {"array", "map", "set"}
Paired == {"map", "attribute"}

(* Wrong: the cap on the entries of an aggregate is off by one. *)
CapOffByOne(type, n) ==
  n \in 0 .. MaxItems + 1 \/ (n = -1 /\ type \in Nullable)

(* Wrong: a length of -1 is taken for every aggregate. *)
AnyNullLength(type, n) == n \in -1 .. MaxItems

LengthOk(type, n) ==
  n \in 0 .. MaxItems \/ (n = -1 /\ type \in Nullable)

(* Wrong: a map is read as one frame per entry. *)
OnePerEntry(type, n) == n

Elements(type, n) == IF type \in Paired THEN 2 * n ELSE n

(* What decode_frame makes of a whole line, and of an aggregate that has    *)
(* all its elements; an aggregate that is opened and still to be filled.    *)
ScalarFrame(line) == [type |-> "scalar", items |-> <<Reply(line.type, line.word)>>]

InlineFrame(line) ==       \* decode_inline_frame
  [type |-> "array", items |-> [i \in DOMAIN line.words |-> Reply("bulk", line.words[i])]]

NullFrame == [type |-> "null", items |-> <<>>]

Filled(top) == [type |-> top.type, items |-> top.items]

Opened(line) == [type |-> line.type, left |-> Elements(line.type, line.n), items |-> <<>>]

(* The innermost aggregate gets its next element. *)
Extended(below, f) ==
  LET elem == IF f.type = "scalar" THEN f.items[1] ELSE Reply(f.type, "")
  IN  Append(Front(below), [Last(below) EXCEPT !.left = @ - 1, !.items = Append(@, elem)])

(* A frame is complete: it is the next element of the innermost aggregate,  *)
(* or what decode_frame returns to the loop.                                *)
Give(f, below) ==
  IF below = <<>>
  THEN stack' = <<>> /\ phase' = "running" /\ frame' = f
  ELSE stack' = Extended(below, f) /\ UNCHANGED <<phase, frame>>

(* Wrong: a payload ends with its line. *)
NeverJoined(start, next) == next

(* The line that the decoder makes of the next one, with what it has begun. *)
(* One that is cut off completes nothing.                                   *)
Joined(start, next) ==
  IF start = NoLine \/ next = Bad(<<>>) THEN next ELSE start

Line == Joined(begun, Head(coming))

Reading == phase = "reading" /\ (stack # <<>> => Last(stack).left > 0)

ReadLine(kind) ==
  /\ Reading /\ coming # <<>> /\ Line.kind = kind
  /\ begun' = IF kind = "runon" THEN Line.becomes ELSE NoLine
  /\ UNCHANGED <<sent, rest, hungup, state, answers>>

ReadOn ==
  /\ ReadLine("runon")
  /\ coming' = Tail(coming)
  /\ UNCHANGED <<stack, phase, frame>>

ReadScalar ==
  /\ ReadLine("scalar")
  /\ coming' = Tail(coming)
  /\ Give(ScalarFrame(Line), stack)

ReadInline ==
  /\ ReadLine("inline")
  /\ coming' = Tail(coming)
  /\ Give(InlineFrame(Line), stack)

ReadHeader ==
  /\ ReadLine("open") /\ LengthOk(Line.type, Line.n)
  /\ coming' = Tail(coming)
  /\ IF Line.n = -1
     THEN Give(NullFrame, stack)
     ELSE stack' = Append(stack, Opened(Line)) /\ UNCHANGED <<phase, frame>>

(* Wrong: the decoder of an aggregate asks for a first element always. *)
ReturnNonempty ==
  /\ phase = "reading" /\ stack # <<>> /\ Last(stack).left = 0
  /\ Last(stack).items # <<>>
  /\ Give(Filled(Last(stack)), Front(stack))
  /\ UNCHANGED <<sent, rest, hungup, coming, begun, state, answers>>

(* The innermost aggregate has all its elements: its decoder returns. *)
Return ==
  /\ phase = "reading" /\ stack # <<>> /\ Last(stack).left = 0
  /\ Give(Filled(Last(stack)), Front(stack))
  /\ UNCHANGED <<sent, rest, hungup, coming, begun, state, answers>>

(* A line that cannot be decoded unwinds the decoder.  The loop replies and *)
(* goes on at the next line, wherever in a request that is.                 *)
ReadMalformed ==
  /\ \/ ReadLine("bad") /\ coming' = Line.left \o Tail(coming)
     \/ ReadLine("open") /\ ~LengthOk(Line.type, Line.n) /\ coming' = Tail(coming)
  /\ stack' = <<>>
  /\ phase' = "running" /\ frame' = Malformed
-----------------------------------------------------------------------------
(* encode_frame fails on the types RESP2 does not have.                     *)
Resp3Only == {"map", "set", "push", "attribute", "verbatim", "bignum"}

(* encode_response *)
SendsAttribute(o) == o.attribute /\ o.state.proto = Resp3

Encodable(o) == o.reply.type \notin Resp3Only \/ o.state.proto = Resp3

(* Conversion, execution and reply: nothing of it waits for the client.  A  *)
(* reply that cannot be encoded ends the connection without one.            *)
Run ==
  /\ phase = "running"
  /\ \E o \in Outcomes(frame, state) :
       /\ state' = o.state
       /\ IF Encodable(o)
          THEN /\ answers' = Append(answers, [reply |-> o.reply, attribute |-> SendsAttribute(o),
                                              proto |-> o.state.proto])
               /\ phase' = IF o.close THEN "closed" ELSE "reading"
          ELSE phase' = "failed" /\ UNCHANGED answers
  /\ frame' = NoFrame
  /\ UNCHANGED <<sent, rest, hungup, coming, stack, begun>>

-----------------------------------------------------------------------------
(* The loop ends at the end of the stream, between frames or within one; or *)
(* when no line arrives within the read timeout.                            *)
Waiting == Reading /\ coming = <<>>

Close == /\ phase' = "closed" /\ stack' = <<>> /\ begun' = NoLine
         /\ UNCHANGED <<sent, rest, hungup, coming, frame, state, answers>>

(* Wrong: the end of the stream is waited out. *)
EofRetried == Waiting /\ hungup /\ UNCHANGED vars

Eof == Waiting /\ hungup /\ Close

IdleTimeout == Timeouts /\ Waiting /\ ~hungup /\ Close

(* The reply cannot be written: the client is gone, or does not read. *)
WriteFails ==
  /\ phase = "running" /\ (hungup \/ Timeouts)
  /\ \E o \in Outcomes(frame, state) : state' = o.state
  /\ phase' = "closed" /\ frame' = NoFrame
  /\ UNCHANGED <<sent, rest, hungup, coming, stack, begun, answers>>

(* A read fails because the client has reset the connection; the lines that *)
(* are still to be read may be lost.  The loop takes this for a malformed   *)
(* frame and would go on once it has replied.                               *)
ReadError ==
  /\ Reading /\ hungup
  /\ phase' = "refusing" /\ stack' = <<>> /\ begun' = NoLine
  /\ UNCHANGED <<sent, rest, hungup, coming, frame, state, answers>>

(* Wrong: the failure to reply to a malformed frame is ignored. *)
RefusalIgnored ==
  /\ phase = "refusing" /\ phase' = "reading"
  /\ UNCHANGED <<sent, rest, hungup, coming, stack, begun, frame, state, answers>>

(* But flush fails on a connection that is reset, and ends the loop. *)
RefusalFails == phase = "refusing" /\ Close

ClientStep == Begin \/ Continue \/ HangUp

ServerStep ==
  \/ ReadScalar \/ ReadInline \/ ReadHeader \/ ReadOn \/ Return \/ ReadMalformed
  \/ Run \/ Eof \/ IdleTimeout \/ WriteFails \/ ReadError \/ RefusalFails

Next == ClientStep \/ ServerStep

Spec == Init /\ [][Next]_vars

(* The thread of the connection runs, and its timers run out. *)
FairSpec == Spec /\ WF_vars(ServerStep)
-----------------------------------------------------------------------------
(* Type invariant.  The decoder has a stack only while it decodes, and the  *)
(* loop a frame only while it executes.                                     *)
TypeOK ==
  /\ sent \in Seq(Requests) /\ Len(sent) <= MaxRequests
  /\ hungup \in BOOLEAN
  /\ phase \in {"reading", "running", "refusing", "closed", "failed"}
  /\ \A i \in DOMAIN stack :
        stack[i].left \in 0 .. IF stack[i].type \in Paired THEN 2 * MaxItems ELSE MaxItems
  /\ stack # <<>> => phase = "reading"
  /\ begun # NoLine => Reading /\ begun \in Lines
  /\ frame # NoFrame <=> phase = "running"
  /\ state.proto \in {Resp2, Resp3}

(* No request has two replies, even if it is malformed: the server is       *)
(* strict about invalid frames, so that a client that pipelines never takes *)
(* a reply for that of another request.                                     *)
NoExtraReplies == Len(answers) <= Len(sent)

(* A reply can always be encoded: no handler gives a RESP2 client a frame   *)
(* RESP2 does not have, so no connection ends for want of an encoding.      *)
RepliesEncode == phase # "failed"

(* What is sent follows the protocol the client has negotiated: a RESP2     *)
(* client receives RESP2 types only and no attributes, from its first reply *)
(* and again after HELLO 2, and in RESP3 the summary of CLIENT LIST, and    *)
(* nothing else, comes with an attribute.                                   *)
TypesFollowProtocol ==
  \A i \in DOMAIN answers :
    /\ answers[i].proto = Resp2 => answers[i].reply.type \notin Resp3Only
    /\ answers[i].attribute <=>
         answers[i].proto = Resp3 /\ answers[i].reply = Reply("simple", "summary")

(* A request that is answered with an error leaves the session as it was: a *)
(* refused HELLO keeps the protocol, a refused SETNAME the name.            *)
FailuresChangeNothing ==
  [][answers' # answers /\ Last(answers').reply.type = "error" => state' = state]_vars

(* The decoder and the loop keep the promise of Session: requests that      *)
(* arrive line by line, pipelined and cut off anywhere, are answered in     *)
(* order, once each, in the protocol their predecessors have left, and a    *)
(* request that is not complete has no effect: what its client has cut off  *)
(* is answered as malformed, if at all.                                     *)
Complete == IF rest = <<>> THEN Len(sent) ELSE Len(sent) - 1

asked ==
  [i \in 1 .. Complete |-> sent[i].frame]
  \o (IF hungup /\ rest # <<>> THEN <<Malformed>> ELSE <<>>)

Abstract == INSTANCE Session WITH
  Frames <- {r.frame : r \in Requests} \cup {Malformed},
  over <- ~Open

ImplementsSession == Abstract!Spec

(* A request that is complete is answered, unless the connection ends.      *)
Answered ==
  \A i \in 1 .. MaxRequests :
    Complete >= i ~> Len(answers) >= i \/ ~Open

(* A client that hangs up ends its connection, whatever it has sent before, *)
(* malformed lines included, and whether the server reads the end of the    *)
(* stream or a failure: the loop does not go round for ever.                *)
HangUpEnds == hungup ~> ~Open
=============================================================================
