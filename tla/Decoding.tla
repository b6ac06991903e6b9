------------------------------ MODULE Decoding ------------------------------
(***************************************************************************)
(* Requests that the decoder of Connection takes for what they are: it     *)
(* ends with their last line, and what it has decoded then, a frame or     *)
(* nothing it can make sense of, is what the client has written.  The      *)
(* decoder of src/src/protocol/mod.rs finds no end of a request but its    *)
(* own, so this is what a client has to see to (README, finding 3), and    *)
(* what the promise of Session depends on.                                 *)
(***************************************************************************)
EXTENDS Connection

(* The decoder within a request: what it has under construction, the line   *)
(* it has begun, and the lines it has not read.                             *)
Stage(request, building, start, lines) ==
  [request |-> request, stack |-> building, begun |-> start, lines |-> lines]

Begun(request) == Stage(request, <<>>, NoLine, request.lines)

Full(building) == building # <<>> /\ Last(building).left = 0

(* One turn of the decoder, by itself: Give, and the actions that use it.   *)
Result(building, start, lines, f) ==
  [stack |-> building, begun |-> start, lines |-> lines, frame |-> f]

Given(f, below, lines) ==
  IF below = <<>>
  THEN Result(<<>>, NoLine, lines, f)
  ELSE Result(Extended(below, f), NoLine, lines, NoFrame)

AfterLine(building, line, more) ==
  CASE line.kind = "scalar" -> Given(ScalarFrame(line), building, more)
    [] line.kind = "inline" -> Given(InlineFrame(line), building, more)
    [] line.kind = "open" /\ LengthOk(line.type, line.n) ->
         IF line.n = -1
         THEN Given(NullFrame, building, more)
         ELSE Result(Append(building, Opened(line)), NoLine, more, NoFrame)
    [] line.kind = "open" /\ ~LengthOk(line.type, line.n) ->
         Result(<<>>, NoLine, more, Malformed)
    [] line.kind = "bad" -> Result(<<>>, NoLine, line.left \o more, Malformed)
    [] line.kind = "runon" -> Result(building, line.becomes, more, NoFrame)

Turn(d) ==
  IF Full(d.stack)
  THEN Given(Filled(Last(d.stack)), Front(d.stack), d.lines)
  ELSE AfterLine(d.stack, Joined(d.begun, Head(d.lines)), Tail(d.lines))

(* Stages holds all the stages of all the requests, and each of them leads  *)
(* to the next or to the end of its request.                                *)
Delimits(Stages) ==
  /\ \A r \in Requests : Begun(r) \in Stages
  /\ \A d \in Stages :
       /\ d.lines \in Seq(Lines)
       /\ Full(d.stack) \/ d.lines # <<>>
       /\ IF Turn(d).frame = NoFrame
          THEN Stage(d.request, Turn(d).stack, Turn(d).begun, Turn(d).lines) \in Stages
          ELSE Turn(d).lines = <<>> /\ Turn(d).frame = d.request.frame
=============================================================================
