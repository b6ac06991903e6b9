-------------------------- MODULE ConnectionProofs --------------------------
(***************************************************************************)
(* Proofs about one connection, for every set of requests, every cap on    *)
(* the length of aggregates and any number of requests: first what holds   *)
(* whatever clients send, by an invariant of the decoder and of the        *)
(* session; then, for requests that the decoder can tell apart (Decoding), *)
(* that each has one reply and that Connection implements Session, by an   *)
(* invariant of the stream between the client and the decoder.             *)
(***************************************************************************)
EXTENDS Decoding, SequenceTheorems, TLAPS

(* A session has a protocol and a name, and nothing else. *)
Session(s) == s = [proto |-> s.proto, name |-> s.name] /\ s.proto \in {Resp2, Resp3}

Summary == Reply("simple", "summary")

(* What a handler may do, whatever its command and its arguments: only      *)
(* HELLO changes the protocol and answers with a map, and only in RESP3;    *)
(* only CLIENT LIST has a summary, with an attribute in RESP3; an error     *)
(* leaves the session alone.                                                *)
Proper(o, s) ==
  /\ Session(o.state)
  /\ o.reply.type \in {"error", "simple", "null", "bulk", "integer", "array", "map"}
  /\ o.reply.type = "map" => o.state.proto = Resp3
  /\ o.attribute \in BOOLEAN /\ o.close \in BOOLEAN
  /\ o.attribute <=> o.reply = Summary /\ o.state.proto = Resp3
  /\ o.reply.type = "error" => o.state = s

LEMMA ReplyFacts ==
  ASSUME NEW t, NEW w
  PROVE  /\ Reply(t, w).type = t /\ Reply(t, w).word = w
         /\ t # "simple" \/ w # "summary" => Reply(t, w) # Summary
BY DEF Reply, Summary

(* An outcome other than the summary of CLIENT LIST. *)
LEMMA OkProper ==
  ASSUME NEW s, NEW n, Session(n), NEW t, NEW w, t # "simple" \/ w # "summary",
         t \in {"error", "simple", "null", "bulk", "integer", "array", "map"},
         t = "map" => n.proto = Resp3, t = "error" => n = s
  PROVE  Proper(Ok(Reply(t, w), n), s)
BY ReplyFacts DEF Proper, Ok

LEMMA SameStateProper ==
  ASSUME NEW s, Session(s), NEW t, NEW w, t # "simple" \/ w # "summary",
         t \in {"error", "simple", "null", "bulk", "integer", "array"}
  PROVE  Proper(Ok(Reply(t, w), s), s)
BY OkProper

LEMMA HelloProper ==
  ASSUME NEW s, Session(s), NEW args
  PROVE  Proper(Hello(args, s), s)
<1>1. Session([s EXCEPT !.proto = Resp3]) /\ [s EXCEPT !.proto = Resp3].proto = Resp3
  BY DEF Session
<1>2. Session([s EXCEPT !.proto = Resp2])
  BY DEF Session
<1>3. Proper(Failed("arity", s), s) /\ Proper(Failed("version", s), s)
  BY SameStateProper DEF Failed
<1>4. Proper(Ok(Reply("map", ClientId), [s EXCEPT !.proto = Resp3]), s)
  BY <1>1, OkProper
<1>5. Proper(Ok(Reply("simple", "OK"), [s EXCEPT !.proto = Resp2]), s)
  BY <1>2, OkProper
<1> QED
  BY <1>3, <1>4, <1>5 DEF Hello

LEMMA ClientProper ==
  ASSUME NEW s, Session(s), NEW args
  PROVE  Proper(Client(args, s), s)
<1>1. /\ Proper(Failed("arity", s), s) /\ Proper(Failed("subcommand", s), s)
      /\ Proper(Ok(Reply("null", ""), s), s) /\ Proper(Ok(Reply("bulk", s.name), s), s)
      /\ Proper(Ok(Reply("integer", ClientId), s), s)
  BY SameStateProper DEF Failed
<1>2. ASSUME NEW name
      PROVE  Proper(Ok(Reply("simple", "OK"), [s EXCEPT !.name = name]), s)
  <2>1. Session([s EXCEPT !.name = name])
    BY DEF Session
  <2> QED
    BY <2>1, OkProper
<1>3. Proper([Ok(Summary, s) EXCEPT !.attribute = s.proto = Resp3], s)
  BY DEF Proper, Ok, Summary, Reply
<1> QED
  BY <1>1, <1>2, <1>3 DEF Client, SetName, GetName, ListClients, Id, Summary

LEMMA StatelessProper ==
  ASSUME NEW s, Session(s), NEW args
  PROVE  /\ Proper(Ok(Ping(args), s), s) /\ Proper(Ok(Echo(args), s), s)
         /\ Proper(Ok(Info(args), s), s) /\ Proper(Ok(Config(args), s), s)
<1>1. Proper(Ok(Ping(args), s), s)
  BY SameStateProper DEF Ping
<1>2. Proper(Ok(Echo(args), s), s)
  BY SameStateProper DEF Echo
<1>3. Proper(Ok(Info(args), s), s)
  BY SameStateProper DEF Info
<1>4. Proper(Ok(Config(args), s), s)
  BY SameStateProper DEF Config
<1> QED
  BY <1>1, <1>2, <1>3, <1>4

LEMMA StorageProper ==
  ASSUME NEW s, Session(s), NEW name \in StorageCommands, NEW r \in StorageReplies(name)
  PROVE  Proper(Ok(r, s), s)
<1>1. r \in {Reply("simple", "OK"), Reply("bulk", "value"), Reply("null", ""),
             Reply("array", "values"), Reply("integer", "count"), Reply("error", "integer")}
  BY DEF StorageCommands, StorageReplies
<1> QED
  BY <1>1, SameStateProper

LEMMA ExecuteProper ==
  ASSUME NEW s, Session(s), NEW name, NEW args, NEW o \in Execute(name, args, s)
  PROVE  Proper(o, s)
<1>1. Proper(Failed("arity", s), s) /\ Proper(Failed("unknown command", s), s)
  BY SameStateProper DEF Failed
<1>2. CASE name \in {"HELLO", "CLIENT", "PING", "ECHO", "INFO", "CONFIG"}
  <2>1. o \in {Hello(args, s), Client(args, s), Ok(Ping(args), s), Ok(Echo(args), s),
               Ok(Info(args), s), Ok(Config(args), s)}
    BY <1>2 DEF Execute, StorageCommands
  <2> QED
    BY <2>1, HelloProper, ClientProper, StatelessProper
<1>3. CASE name = "QUIT"
  <2>1. o = [Ok(Reply("simple", "OK"), s) EXCEPT !.close = TRUE]
    BY <1>3 DEF Execute, StorageCommands
  <2>2. Proper(Ok(Reply("simple", "OK"), s), s)
    BY SameStateProper
  <2>3. /\ o.reply = Ok(Reply("simple", "OK"), s).reply /\ o.state = Ok(Reply("simple", "OK"), s).state
        /\ o.attribute = Ok(Reply("simple", "OK"), s).attribute /\ o.close \in BOOLEAN
    BY <2>1 DEF Ok
  <2> QED
    BY <2>2, <2>3, Zenon DEF Proper
<1>4. CASE name \in StorageCommands
  <2>1. o \in {Ok(r, s) : r \in StorageReplies(name)} \/ o = Failed("arity", s)
    BY <1>4 DEF Execute, StorageCommands
  <2> QED
    BY <1>1, <1>4, <2>1, StorageProper
<1>5. CASE name \notin {"HELLO", "CLIENT", "PING", "ECHO", "INFO", "CONFIG", "QUIT"}
                         \cup StorageCommands
  <2>1. o = Failed("unknown command", s)
    BY <1>5 DEF Execute
  <2> QED
    BY <1>1, <2>1
<1> QED
  BY <1>2, <1>3, <1>4, <1>5

LEMMA OutcomesProper ==
  ASSUME NEW s, Session(s), NEW f, NEW o \in Outcomes(f, s)
  PROVE  Proper(o, s)
<1>1. Proper(Failed("malformed frame", s), s)
  BY SameStateProper DEF Failed
<1>2. Proper(Failed(Refusal(f), s), s)
  BY SameStateProper DEF Failed
<1> QED
  BY <1>1, <1>2, ExecuteProper DEF Outcomes
-----------------------------------------------------------------------------
IsSeq(s) == \E S : s \in Seq(S)

LEMMA SeqFacts ==
  ASSUME NEW s, IsSeq(s)
  PROVE  /\ Len(s) \in Nat /\ DOMAIN s = 1 .. Len(s)
         /\ s # <<>> <=> Len(s) >= 1
BY DEF IsSeq

LEMMA AppendFacts ==
  ASSUME NEW s, IsSeq(s), NEW x
  PROVE  /\ IsSeq(Append(s, x)) /\ Append(s, x) # <<>>
         /\ Len(Append(s, x)) = Len(s) + 1
         /\ \A i \in 1 .. Len(s) : Append(s, x)[i] = s[i]
         /\ Append(s, x)[Len(s) + 1] = x
         /\ Last(Append(s, x)) = x
<1>1. PICK S : s \in Seq(S)
  BY DEF IsSeq
<1>2. s \in Seq(S \cup {x})
  BY <1>1
<1>3. Append(s, x) \in Seq(S \cup {x})
  BY <1>2
<1> QED
  BY <1>2, <1>3 DEF IsSeq, Last

LEMMA FrontFacts ==
  ASSUME NEW s, IsSeq(s), s # <<>>
  PROVE  /\ IsSeq(Front(s)) /\ Len(Front(s)) = Len(s) - 1
         /\ \A i \in 1 .. Len(s) - 1 : Front(s)[i] = s[i]
         /\ Last(s) = s[Len(s)]
<1>1. PICK S : s \in Seq(S)
  BY DEF IsSeq
<1>2. Len(s) \in Nat /\ Len(s) >= 1 /\ \A i \in 1 .. Len(s) - 1 : s[i] \in S
  BY <1>1
<1> DEFINE m == Len(s) - 1
<1>3. m \in Nat /\ m \in Int /\ 1 \in Int /\ \A i \in 1 .. m : s[i] \in S
  BY <1>2
<1> HIDE DEF m
<1>4. /\ SubSeq(s, 1, m) \in Seq(S)
      /\ Len(SubSeq(s, 1, m)) = IF 1 <= m THEN m - 1 + 1 ELSE 0
      /\ \A i \in 1 .. m - 1 + 1 : SubSeq(s, 1, m)[i] = s[1 + i - 1]
  BY <1>3, SubSeqProperties
<1>5. (IF 1 <= m THEN m - 1 + 1 ELSE 0) = m /\ m - 1 + 1 = m
  BY <1>3
<1>6. \A i \in 1 .. m : SubSeq(s, 1, m)[i] = s[i]
  <2> SUFFICES ASSUME NEW i \in 1 .. m PROVE SubSeq(s, 1, m)[i] = s[i]
    OBVIOUS
  <2>1. 1 + i - 1 = i
    BY <1>3
  <2> QED
    BY <1>4, <1>5, <2>1
<1>7. Front(s) = SubSeq(s, 1, m)
  BY DEF Front, m
<1>8. Len(SubSeq(s, 1, m)) = m
  BY <1>4, <1>5, Zenon
<1> QED
  BY <1>4, <1>6, <1>7, <1>8, Zenon DEF IsSeq, Last, m
-----------------------------------------------------------------------------
(* The invariant, a part for each of the client, the decoder and the        *)
(* session.                                                                 *)
Sending ==
  /\ sent \in Seq(Requests) /\ Len(sent) <= MaxRequests
  /\ hungup \in BOOLEAN
  /\ coming \in Seq(Lines) /\ rest \in Seq(Lines)

Entry(e) ==
  /\ e = [type |-> e.type, left |-> e.left, items |-> e.items]
  /\ e.type \in Aggregates
  /\ e.left \in 0 .. IF e.type \in Paired THEN 2 * MaxItems ELSE MaxItems

(* An aggregate that has another inside is one element short at least. *)
Nest(s) ==
  /\ IsSeq(s)
  /\ \A i \in 1 .. Len(s) : Entry(s[i])
  /\ \A i \in 1 .. Len(s) - 1 : s[i].left > 0

Decoder ==
  /\ phase \in {"reading", "running", "refusing", "closed", "failed"}
  /\ Nest(stack)
  /\ stack # <<>> => phase = "reading"
  /\ begun # NoLine => Reading /\ begun \in Lines
  /\ frame # NoFrame <=> phase = "running"

Talking ==
  /\ Session(state)
  /\ IsSeq(answers)
  /\ RepliesEncode
  /\ TypesFollowProtocol

IInv == Sending /\ Decoder /\ Talking

LEMMA InitIInv == Init => IInv
<1> SUFFICES ASSUME Init PROVE IInv
  OBVIOUS
<1>1. Sending
  <2>1. /\ sent \in Seq(Requests) /\ coming \in Seq(Lines) /\ rest \in Seq(Lines)
        /\ Len(sent) = 0 /\ 0 <= MaxRequests
    BY ConnectionAssumption DEF Init
  <2> QED
    BY <2>1, Zenon DEF Init, Sending
<1>2. IsSeq(<<>>) /\ Len(<<>>) = 0
  BY DEF IsSeq
<1>3. Decoder
  BY <1>2 DEF Init, Decoder, Nest
<1>4. Talking
  BY <1>2 DEF Init, Talking, Session, Fresh, RepliesEncode, TypesFollowProtocol
<1> QED
  BY <1>1, <1>3, <1>4 DEF IInv

LEMMA ClientIInv ==
  ASSUME IInv, ClientStep
  PROVE  IInv'
<1>1. CASE Begin
  <2>1. PICK r \in Requests :
          /\ sent' = Append(sent, r)
          /\ rest' = Tail(r.lines)
          /\ coming' = Append(coming, Head(r.lines))
    BY <1>1 DEF Begin
  <2>2. r.lines \in Seq(Lines) /\ r.lines # <<>>
    BY ConnectionAssumption
  <2>3. Head(r.lines) \in Lines /\ Tail(r.lines) \in Seq(Lines)
    BY <2>2
  <2>4. Len(sent') <= MaxRequests
    BY <1>1, <2>1, ConnectionAssumption DEF Begin, IInv, Sending
  <2>5. sent' \in Seq(Requests) /\ coming' \in Seq(Lines) /\ rest' \in Seq(Lines)
    BY <2>1, <2>3 DEF IInv, Sending
  <2>6. Sending'
    BY <1>1, <2>4, <2>5, Zenon DEF Begin, IInv, Sending
  <2> QED
    BY <1>1, <2>6 DEF Begin, IInv, Decoder, Reading, Talking, RepliesEncode, TypesFollowProtocol
<1>2. CASE Continue
  <2>1. Sending'
    BY <1>2 DEF Continue, IInv, Sending
  <2> QED
    BY <1>2, <2>1 DEF Continue, IInv, Decoder, Reading, Talking, RepliesEncode, TypesFollowProtocol
<1>3. CASE HangUp
  <2>1. coming' = coming \/ coming' = Append(coming, Bad(<<>>))
    BY <1>3 DEF HangUp
  <2>2. coming' \in Seq(Lines)
    <3>1. Bad(<<>>) \in Lines /\ coming \in Seq(Lines)
      BY ConnectionAssumption DEF IInv, Sending
    <3> QED
      BY <2>1, <3>1
  <2>3. Sending'
    BY <1>3, <2>2 DEF HangUp, IInv, Sending
  <2> QED
    BY <1>3, <2>3 DEF HangUp, IInv, Decoder, Reading, Talking, RepliesEncode, TypesFollowProtocol
<1> QED
  BY <1>1, <1>2, <1>3 DEF ClientStep
-----------------------------------------------------------------------------
(* A decoder that returns has an aggregate with an element missing below    *)
(* it, or is the outermost.                                                 *)
Lacking(s) == s # <<>> => Last(s).left > 0

LEMMA EmptyNest == Nest(<<>>) /\ Lacking(<<>>)
BY DEF Nest, IsSeq, Lacking

LEMMA ExtendedNest ==
  ASSUME NEW s, Nest(s), s # <<>>, Lacking(s), NEW f
  PROVE  Nest(Extended(s, f)) /\ Extended(s, f) # <<>>
<1> DEFINE elem == IF f.type = "scalar" THEN f.items[1] ELSE Reply(f.type, "")
           top == [Last(s) EXCEPT !.left = @ - 1, !.items = Append(@, elem)]
<1>1. IsSeq(s) /\ Len(s) \in Nat /\ Len(s) >= 1
  BY SeqFacts DEF Nest
<1>2. /\ IsSeq(Front(s)) /\ Len(Front(s)) = Len(s) - 1
      /\ \A i \in 1 .. Len(s) - 1 : Front(s)[i] = s[i]
      /\ Last(s) = s[Len(s)]
  BY <1>1, FrontFacts
<1>3. Entry(Last(s)) /\ Last(s).left > 0
  BY <1>1, <1>2 DEF Nest, Lacking
<1>4. Entry(top)
  <2>1. ASSUME NEW b, Entry(b), b.left > 0, NEW items
        PROVE  Entry([b EXCEPT !.left = @ - 1, !.items = items])
    <3> DEFINE c == [b EXCEPT !.left = @ - 1, !.items = items]
    <3>1. /\ c = [type |-> c.type, left |-> c.left, items |-> c.items]
          /\ c.type = b.type /\ c.left = b.left - 1
      <4>1. DOMAIN b = {"type", "left", "items"}
        BY <2>1 DEF Entry
      <4>2. DOMAIN c = DOMAIN b /\ c.type = b.type /\ c.left = b.left - 1 /\ c.items = items
        BY <4>1
      <4>3. c = [x \in DOMAIN b |-> c[x]]
        BY <4>1
      <4> HIDE DEF c
      <4> QED
        BY <4>1, <4>2, <4>3
    <3> HIDE DEF c
    <3>2. b.left - 1 \in 0 .. IF b.type \in Paired THEN 2 * MaxItems ELSE MaxItems
      BY <2>1, ConnectionAssumption DEF Entry
    <3>3. Entry(c)
      BY <2>1, <3>1, <3>2 DEF Entry
    <3> QED
      BY <3>3 DEF c
  <2> QED
    BY <1>3, <2>1
<1> HIDE DEF top
<1>5. Extended(s, f) = Append(Front(s), top)
  BY DEF Extended, top
<1> DEFINE e == Append(Front(s), top)
<1>6. /\ IsSeq(e) /\ e # <<>> /\ Len(e) = Len(s) - 1 + 1
      /\ \A i \in 1 .. Len(s) - 1 : e[i] = Front(s)[i]
      /\ e[Len(s) - 1 + 1] = top
  BY <1>2, AppendFacts
<1> HIDE DEF e
<1>7. Len(s) - 1 + 1 = Len(s)
  BY <1>1
<1>8. \A i \in 1 .. Len(s) - 1 : e[i] = s[i] /\ s[i].left > 0 /\ Entry(s[i])
  BY <1>1, <1>2, <1>6 DEF Nest
<1>9. \A i \in 1 .. Len(s) : i \in 1 .. Len(s) - 1 \/ i = Len(s)
  BY <1>1
<1>10. Nest(e)
  BY <1>4, <1>6, <1>7, <1>8, <1>9 DEF Nest
<1> QED
  BY <1>5, <1>6, <1>10 DEF e

LEMMA OpenedNest ==
  ASSUME NEW s, Nest(s), Lacking(s), NEW top, Entry(top)
  PROVE  Nest(Append(s, top)) /\ Append(s, top) # <<>>
<1> DEFINE e == Append(s, top)
<1>1. IsSeq(s) /\ Len(s) \in Nat
  BY SeqFacts DEF Nest
<1>2. /\ IsSeq(e) /\ e # <<>> /\ Len(e) = Len(s) + 1
      /\ \A i \in 1 .. Len(s) : e[i] = s[i]
      /\ e[Len(s) + 1] = top
  BY <1>1, AppendFacts
<1> HIDE DEF e
<1>3. \A i \in 1 .. Len(s) : Entry(s[i]) /\ s[i].left > 0
  <2> SUFFICES ASSUME NEW i \in 1 .. Len(s) PROVE Entry(s[i]) /\ s[i].left > 0
    OBVIOUS
  <2>1. CASE i \in 1 .. Len(s) - 1
    BY <2>1 DEF Nest
  <2>2. CASE i = Len(s)
    <3>1. s # <<>> /\ Last(s) = s[i]
      BY <1>1, <2>2, SeqFacts, FrontFacts
    <3> QED
      BY <3>1 DEF Nest, Lacking
  <2> QED
    BY <1>1, <2>1, <2>2
<1>4. \A i \in 1 .. Len(s) + 1 : i \in 1 .. Len(s) \/ i = Len(s) + 1
  BY <1>1
<1>5. Len(s) + 1 - 1 = Len(s)
  BY <1>1
<1>6. \A i \in 1 .. Len(e) : Entry(e[i])
  BY <1>2, <1>3, <1>4
<1>7. \A i \in 1 .. Len(e) - 1 : e[i].left > 0
  BY <1>2, <1>3, <1>5
<1> QED
  BY <1>2, <1>6, <1>7 DEF Nest, e

LEMMA FrontNest ==
  ASSUME NEW s, Nest(s), s # <<>>
  PROVE  Nest(Front(s)) /\ Lacking(Front(s)) /\ Entry(Last(s))
<1>1. IsSeq(s) /\ Len(s) \in Nat /\ Len(s) >= 1
  BY SeqFacts DEF Nest
<1> DEFINE e == Front(s)
<1>2. /\ IsSeq(e) /\ Len(e) = Len(s) - 1
      /\ \A i \in 1 .. Len(s) - 1 : e[i] = s[i]
      /\ Last(s) = s[Len(s)]
  BY <1>1, FrontFacts
<1> HIDE DEF e
<1>3. Nest(e)
  <2>1. \A i \in 1 .. Len(e) : Entry(e[i])
    BY <1>1, <1>2 DEF Nest
  <2>2. \A i \in 1 .. Len(e) - 1 : e[i].left > 0
    BY <1>1, <1>2 DEF Nest
  <2> QED
    BY <1>2, <2>1, <2>2 DEF Nest
<1>4. ASSUME e # <<>> PROVE Last(e).left > 0
  <2>1. Len(e) >= 1 /\ Last(e) = e[Len(e)]
    BY <1>2, <1>4, SeqFacts, FrontFacts
  <2> QED
    BY <1>1, <1>2, <2>1 DEF Nest
<1>5. Entry(Last(s))
  BY <1>1, <1>2 DEF Nest
<1> QED
  BY <1>3, <1>4, <1>5 DEF Lacking, e

LEMMA GiveDecoder ==
  ASSUME Decoder, phase = "reading",
         NEW below, Nest(below), Lacking(below), NEW f, f # NoFrame, Give(f, below),
         begun' = NoLine
  PROVE  Decoder'
<1>1. CASE below = <<>>
  BY <1>1, EmptyNest DEF Give, Decoder
<1>2. CASE below # <<>>
  <2>1. Nest(stack') /\ phase' = "reading" /\ frame' = frame
    BY <1>2, ExtendedNest DEF Give
  <2> QED
    BY <2>1 DEF Decoder
<1> QED
  BY <1>1, <1>2

LEMMA NothingBegun ==
  ASSUME ReadMalformed
  PROVE  begun' = NoLine
<1>1. ReadLine("bad") \/ ReadLine("open")
  BY Zenon DEF ReadMalformed
<1>2. CASE ReadLine("bad")
  BY <1>2 DEF ReadLine
<1>3. CASE ReadLine("open")
  BY <1>3 DEF ReadLine
<1> QED
  BY <1>1, <1>2, <1>3

LEMMA DecodeIInv ==
  ASSUME IInv, ReadScalar \/ ReadInline \/ ReadHeader \/ ReadOn \/ Return \/ ReadMalformed
  PROVE  IInv'
<1>1. /\ phase = "reading" /\ Nest(stack)
      /\ UNCHANGED <<sent, rest, hungup, state, answers>>
  BY DEF ReadScalar, ReadInline, ReadHeader, ReadOn, Return, ReadMalformed,
          ReadLine, Reading, IInv, Decoder
<1>2. ASSUME NEW kind, ReadLine(kind)
      PROVE  /\ Lacking(stack) /\ Line \in Lines /\ Line.kind = kind
             /\ Tail(coming) \in Seq(Lines)
             /\ begun' = IF kind = "runon" THEN Line.becomes ELSE NoLine
  BY <1>2 DEF ReadLine, Reading, Lacking, Line, Joined, IInv, Sending, Decoder
<1>3. Talking'
  BY <1>1 DEF ReadScalar, ReadInline, ReadHeader, ReadOn, Return, ReadMalformed, Give, IInv,
              Decoder, Talking, RepliesEncode, TypesFollowProtocol
<1>4. coming' \in Seq(Lines) => Sending'
  BY <1>1 DEF IInv, Sending
<1>5. CASE ReadScalar
  <2>1. ScalarFrame(Line) # NoFrame
    BY DEF ScalarFrame, NoFrame
  <2>2. Decoder'
    BY <1>1, <1>2, <1>5, <2>1, GiveDecoder DEF ReadScalar, IInv
  <2> QED
    BY <1>2, <1>3, <1>4, <1>5, <2>2 DEF ReadScalar, IInv
<1>6. CASE ReadInline
  <2>1. InlineFrame(Line) # NoFrame
    BY DEF InlineFrame, NoFrame
  <2>2. Decoder'
    BY <1>1, <1>2, <1>6, <2>1, GiveDecoder DEF ReadInline, IInv
  <2> QED
    BY <1>2, <1>3, <1>4, <1>6, <2>2 DEF ReadInline, IInv
<1>7. CASE ReadHeader
  <2>1. /\ Lacking(stack) /\ Line \in Lines /\ Line.kind = "open" /\ begun' = NoLine
        /\ Tail(coming) \in Seq(Lines) /\ coming' = Tail(coming)
    BY <1>2, <1>7 DEF ReadHeader
  <2>2. Decoder'
    <3>1. CASE Line.n = -1
      <4>1. NullFrame # NoFrame
        BY DEF NullFrame, NoFrame
      <4> QED
        BY <1>1, <1>7, <2>1, <3>1, <4>1, GiveDecoder DEF ReadHeader, IInv
    <3>2. CASE Line.n # -1
      <4>1. Line.type \in Aggregates /\ Line.n \in 0 .. MaxItems
        BY <1>7, <2>1, <3>2, ConnectionAssumption DEF ReadHeader, LengthOk
      <4>2. Entry(Opened(Line))
        <5>1. Elements(Line.type, Line.n)
                \in 0 .. IF Line.type \in Paired THEN 2 * MaxItems ELSE MaxItems
          BY <4>1, ConnectionAssumption DEF Elements
        <5> QED
          BY <4>1, <5>1 DEF Entry, Opened
      <4>3. Nest(stack') /\ phase' = "reading" /\ frame' = frame
        BY <1>1, <1>7, <2>1, <3>2, <4>2, OpenedNest DEF ReadHeader
      <4> QED
        BY <1>1, <2>1, <4>3 DEF Decoder, IInv
    <3> QED
      BY <3>1, <3>2
  <2> QED
    BY <1>3, <1>4, <2>1, <2>2 DEF IInv
<1>8. CASE Return
  <2>1. Nest(Front(stack)) /\ Lacking(Front(stack)) /\ Entry(Last(stack))
    BY <1>1, <1>8, FrontNest DEF Return
  <2>2. Filled(Last(stack)) # NoFrame
    BY <2>1 DEF Filled, NoFrame, Entry, Aggregates
  <2>5. begun' = NoLine
    BY <1>8 DEF Return, IInv, Decoder, Reading
  <2>3. Decoder'
    BY <1>1, <1>8, <2>1, <2>2, <2>5, GiveDecoder DEF Return, IInv
  <2>4. coming' \in Seq(Lines)
    BY <1>8 DEF Return, IInv, Sending
  <2> QED
    BY <1>3, <1>4, <2>3, <2>4 DEF IInv
<1>9. CASE ReadMalformed
  <2>3. begun' = NoLine
    BY <1>9, NothingBegun
  <2>1. Decoder'
    BY <1>9, <2>3, EmptyNest, ConnectionAssumption DEF ReadMalformed, Decoder
  <2>2. coming' \in Seq(Lines)
    <3>1. CASE ReadLine("bad") /\ coming' = Line.left \o Tail(coming)
      <4>1. Line.left \in Seq(Lines) /\ Tail(coming) \in Seq(Lines)
        BY <1>2, <3>1, ConnectionAssumption
      <4> QED
        BY <3>1, <4>1
    <3>2. CASE ReadLine("open") /\ coming' = Tail(coming)
      BY <1>2, <3>2
    <3> QED
      BY <1>9, <3>1, <3>2 DEF ReadMalformed
  <2> QED
    BY <1>3, <1>4, <2>1, <2>2 DEF IInv
<1>10. CASE ReadOn
  <2>1. /\ Lacking(stack) /\ Line \in Lines /\ Line.kind = "runon"
        /\ begun' = Line.becomes /\ coming' = Tail(coming) /\ Tail(coming) \in Seq(Lines)
        /\ UNCHANGED <<stack, phase, frame>>
    BY <1>2, <1>10 DEF ReadOn
  <2>2. Line.becomes \in Lines
    BY <2>1, ConnectionAssumption
  <2>3. Decoder'
    BY <1>1, <2>1, <2>2 DEF IInv, Decoder, Reading, Lacking
  <2> QED
    BY <1>3, <1>4, <2>1, <2>3 DEF IInv
<1> QED
  BY <1>5, <1>6, <1>7, <1>8, <1>9, <1>10

LEMMA RunIInv ==
  ASSUME IInv, Run
  PROVE  IInv' /\ (answers' # answers /\ Last(answers').reply.type = "error" => state' = state)
<1>1. PICK o \in Outcomes(frame, state) :
        /\ state' = o.state
        /\ IF Encodable(o)
           THEN /\ answers' = Append(answers, [reply |-> o.reply, attribute |-> SendsAttribute(o),
                                               proto |-> o.state.proto])
                /\ phase' = IF o.close THEN "closed" ELSE "reading"
           ELSE phase' = "failed" /\ UNCHANGED answers
  BY DEF Run
<1>2. Proper(o, state)
  BY OutcomesProper DEF IInv, Talking
<1>3. Encodable(o)
  BY <1>2 DEF Proper, Encodable, Resp3Only
<1> DEFINE a == [reply |-> o.reply, attribute |-> SendsAttribute(o), proto |-> o.state.proto]
<1>4. /\ a.proto = Resp2 => a.reply.type \notin Resp3Only
      /\ a.attribute <=> a.proto = Resp3 /\ a.reply = Summary
  <2>1. a.proto = o.state.proto /\ a.reply = o.reply /\ a.attribute = SendsAttribute(o)
    OBVIOUS
  <2> HIDE DEF a
  <2>2. a.proto = Resp2 => a.reply.type \notin Resp3Only
    BY <1>3, <2>1 DEF Encodable, Resp2, Resp3
  <2>3. a.attribute <=> o.attribute /\ o.state.proto = Resp3
    BY <2>1, Zenon DEF SendsAttribute
  <2>4. o.attribute <=> o.reply = Summary /\ o.state.proto = Resp3
    BY <1>2, Zenon DEF Proper
  <2> QED
    BY <2>1, <2>2, <2>3, <2>4, Zenon
<1> HIDE DEF a
<1>5. answers' = Append(answers, a) /\ phase' = IF o.close THEN "closed" ELSE "reading"
  BY <1>1, <1>3, Zenon DEF a
<1>6. Sending'
  BY DEF Run, IInv, Sending
<1>7. Decoder'
  BY <1>5 DEF Run, IInv, Decoder, Reading
<1>8. /\ IsSeq(answers') /\ Len(answers) \in Nat
      /\ DOMAIN answers = 1 .. Len(answers) /\ DOMAIN answers' = 1 .. Len(answers) + 1
      /\ \A i \in 1 .. Len(answers) : answers'[i] = answers[i]
      /\ answers'[Len(answers) + 1] = a /\ Last(answers') = a
  <2>1. IsSeq(answers) /\ Len(answers) \in Nat /\ DOMAIN answers = 1 .. Len(answers)
    BY SeqFacts DEF IInv, Talking
  <2>2. /\ IsSeq(Append(answers, a)) /\ Len(Append(answers, a)) = Len(answers) + 1
        /\ \A i \in 1 .. Len(answers) : Append(answers, a)[i] = answers[i]
        /\ Append(answers, a)[Len(answers) + 1] = a /\ Last(Append(answers, a)) = a
    BY <2>1, AppendFacts
  <2>3. DOMAIN Append(answers, a) = 1 .. Len(Append(answers, a))
    BY <2>2, SeqFacts
  <2> QED
    BY <1>5, <2>1, <2>2, <2>3
<1>9. TypesFollowProtocol'
  <2>1. ASSUME NEW i \in DOMAIN answers'
        PROVE  /\ answers'[i].proto = Resp2 => answers'[i].reply.type \notin Resp3Only
               /\ answers'[i].attribute <=>
                    answers'[i].proto = Resp3 /\ answers'[i].reply = Summary
    <3>1. i \in DOMAIN answers \/ i = Len(answers) + 1
      BY <1>8
    <3>2. CASE i \in DOMAIN answers
      <4>1. answers'[i] = answers[i]
        BY <1>8, <3>2
      <4> QED
        BY <3>2, <4>1, Zenon DEF IInv, Talking, TypesFollowProtocol, Summary
    <3>3. CASE i = Len(answers) + 1
      BY <1>4, <1>8, <3>3, Zenon
    <3> QED
      BY <3>1, <3>2, <3>3
  <2> QED
    BY <2>1, Zenon DEF TypesFollowProtocol, Summary
<1>10. Talking'
  <2>1. phase' # "failed" /\ Session(state')
    BY <1>1, <1>2, <1>5 DEF Proper
  <2> QED
    BY <1>8, <1>9, <2>1, Zenon DEF Talking, RepliesEncode, Session
<1>11. Last(answers').reply.type = "error" => state' = state
  <2>1. Last(answers').reply = o.reply
    BY <1>8 DEF a
  <2> QED
    BY <1>1, <1>2, <2>1 DEF Proper
<1> QED
  BY <1>6, <1>7, <1>10, <1>11 DEF IInv

LEMMA EndIInv ==
  ASSUME IInv, Eof \/ IdleTimeout \/ WriteFails \/ ReadError \/ RefusalFails
  PROVE  IInv' /\ answers' = answers
<1>1. CASE Eof \/ IdleTimeout \/ RefusalFails
  BY <1>1, EmptyNest
     DEF Eof, IdleTimeout, RefusalFails, Close, IInv, Sending, Decoder, Talking, RepliesEncode,
         TypesFollowProtocol, Waiting, Reading
<1>3. CASE ReadError
  BY <1>3, EmptyNest
     DEF ReadError, IInv, Sending, Decoder, Talking, RepliesEncode, TypesFollowProtocol, Reading
<1>2. CASE WriteFails
  <2>1. Session(state')
    <3>1. PICK o \in Outcomes(frame, state) : state' = o.state
      BY <1>2 DEF WriteFails
    <3> QED
      BY <3>1, OutcomesProper DEF IInv, Talking, Proper
  <2> QED
    BY <1>2, <2>1
       DEF WriteFails, IInv, Sending, Decoder, Reading, Talking, RepliesEncode,
           TypesFollowProtocol
<1> QED
  BY <1>1, <1>2, <1>3

LEMMA StepIInv ==
  ASSUME IInv, [Next]_vars
  PROVE  IInv' /\ (answers' # answers /\ Last(answers').reply.type = "error" => state' = state)
<1>1. CASE ClientStep
  BY <1>1, ClientIInv DEF ClientStep, Begin, Continue, HangUp
<1>2. CASE ReadScalar \/ ReadInline \/ ReadHeader \/ ReadOn \/ Return \/ ReadMalformed
  BY <1>2, DecodeIInv
     DEF ReadScalar, ReadInline, ReadHeader, ReadOn, Return, ReadMalformed, ReadLine
<1>3. CASE Run
  BY <1>3, RunIInv
<1>4. CASE Eof \/ IdleTimeout \/ WriteFails \/ ReadError \/ RefusalFails
  BY <1>4, EndIInv
<1>5. CASE UNCHANGED vars
  BY <1>5 DEF vars, IInv, Sending, Decoder, Reading, Talking, RepliesEncode, TypesFollowProtocol
<1> QED
  BY <1>1, <1>2, <1>3, <1>4, <1>5 DEF Next, ServerStep

(* The decoder, the session and what is written stay well-formed, whatever  *)
(* lines a client sends and wherever it hangs up.                           *)
THEOREM Invariant == Spec => []IInv
<1> QED
  BY InitIInv, StepIInv, PTL DEF Spec

(* TypeOK: the decoder has a stack only while it decodes, with no more      *)
(* frames to come than the cap on aggregates allows, and the loop a frame   *)
(* only while it executes.                                                  *)
THEOREM TypeCorrect == Spec => []TypeOK
<1>1. IInv => TypeOK
  <2> SUFFICES ASSUME IInv PROVE TypeOK
    OBVIOUS
  <2>1. ASSUME NEW i \in DOMAIN stack
        PROVE  stack[i].left \in 0 .. IF stack[i].type \in Paired THEN 2 * MaxItems ELSE MaxItems
    <3>1. i \in 1 .. Len(stack)
      BY SeqFacts DEF IInv, Decoder, Nest
    <3> QED
      BY <3>1 DEF IInv, Decoder, Nest, Entry
  <2> QED
    BY <2>1, Zenon DEF TypeOK, IInv, Sending, Decoder, Talking, Session
<1> QED
  BY <1>1, Invariant, PTL

(* RepliesEncode: encode_frame never fails on what a handler returns, so    *)
(* that encode_response ends no connection for want of an encoding.         *)
THEOREM RepliesAlwaysEncode == Spec => []RepliesEncode
<1>1. IInv => RepliesEncode
  BY DEF IInv, Talking
<1> QED
  BY <1>1, Invariant, PTL

(* TypesFollowProtocol: what handle_connection writes is in the protocol    *)
(* that HELLO has left, after any sequence of commands.                     *)
THEOREM TypesAlwaysFollow == Spec => []TypesFollowProtocol
<1>1. IInv => TypesFollowProtocol
  BY DEF IInv, Talking
<1> QED
  BY <1>1, Invariant, PTL

(* FailuresChangeNothing: whatever command is refused, with whatever        *)
(* arguments, the session is what it was.                                   *)
THEOREM FailuresLeaveSession == Spec => FailuresChangeNothing
<1>1. IInv /\ [Next]_vars
        => [answers' # answers /\ Last(answers').reply.type = "error" => state' = state]_vars
  BY StepIInv
<1> QED
  BY <1>1, Invariant, PTL DEF Spec, FailuresChangeNothing
-----------------------------------------------------------------------------
(* The stream between the client and the decoder.  Of the requests s, the   *)
(* lines c are on their way and the lines r have still to be sent.  Line j  *)
(* of c belongs to request own[j], of which after[j] follows; own[0] and    *)
(* after[0] are where the decoder stands.  Behind them may be the line in   *)
(* which the client hung up (h).                                            *)
Comes(s, line, o, a, o2, a2) ==
  IF a # <<>>
  THEN o2 = o /\ line = Head(a) /\ a2 = Tail(a)
  ELSE /\ o2 = o + 1 /\ o2 <= Len(s)
       /\ line = Head(s[o2].lines) /\ a2 = Tail(s[o2].lines)

Flow(s, c, r, h, m, own, after) ==
  /\ \A j \in 0 .. m : own[j] \in 0 .. Len(s)
  /\ \A j \in 1 .. m : Comes(s, c[j], own[j - 1], after[j - 1], own[j], after[j])
  /\ own[m] = Len(s) /\ after[m] = r
  /\ \/ Len(c) = m
     \/ Len(c) = m + 1 /\ h = TRUE /\ r # <<>> /\ c[m + 1] = Bad(<<>>)

At(own, after, o, a) == own[0] = o /\ after[0] = a

(* Where the decoder has done with the last request, the client has nothing *)
(* left to send.                                                            *)
LEMMA FlowEnd ==
  ASSUME NEW s \in Seq(Requests), NEW c, NEW r, NEW h, NEW m \in Nat, NEW own, NEW after,
         Flow(s, c, r, h, m, own, after), own[0] = Len(s), after[0] = <<>>
  PROVE  r = <<>>
<1>1. Len(s) \in Nat
  OBVIOUS
<1>2. CASE m = 0
  BY <1>2 DEF Flow
<1>3. CASE m # 0
  <2>1. 1 \in 1 .. m /\ 1 - 1 = 0
    BY <1>3
  <2>2. Comes(s, c[1], own[0], after[0], own[1], after[1])
    BY <2>1 DEF Flow
  <2> QED
    BY <1>1, <2>2 DEF Comes
<1> QED
  BY <1>2, <1>3

(* The next line of the stream; the decoder moves on to it.                 *)
LEMMA FlowTail ==
  ASSUME NEW s \in Seq(Requests), NEW c \in Seq(Lines), NEW r, NEW h, NEW m \in Nat,
         NEW own, NEW after, Flow(s, c, r, h, m, own, after), m # 0
  PROVE  /\ Comes(s, Head(c), own[0], after[0], own[1], after[1])
         /\ own[1] \in 0 .. Len(s)
         /\ \E own2, after2 :
              /\ Flow(s, Tail(c), r, h, m - 1, own2, after2)
              /\ At(own2, after2, own[1], after[1])
<1> DEFINE own2 == [j \in 0 .. m - 1 |-> own[j + 1]]
           after2 == [j \in 0 .. m - 1 |-> after[j + 1]]
<1>1. Len(c) \in Nat /\ (Len(c) = m \/ Len(c) = m + 1) /\ c # <<>>
  BY DEF Flow
<1>2. /\ Tail(c) \in Seq(Lines) /\ Len(Tail(c)) = Len(c) - 1
      /\ Head(c) = c[1]
      /\ \A j \in 1 .. Len(c) - 1 : Tail(c)[j] = c[j + 1]
  BY <1>1
<1>3. \A j \in 0 .. m - 1 : own2[j] = own[j + 1] /\ after2[j] = after[j + 1]
  OBVIOUS
<1> HIDE DEF own2, after2
<1>4. Comes(s, Head(c), own[0], after[0], own[1], after[1])
  <2>1. 1 \in 1 .. m /\ 1 - 1 = 0
    OBVIOUS
  <2> QED
    BY <1>2, <2>1 DEF Flow
<1>5. \A j \in 0 .. m - 1 : own2[j] \in 0 .. Len(s)
  <2> SUFFICES ASSUME NEW j \in 0 .. m - 1 PROVE own2[j] \in 0 .. Len(s)
    OBVIOUS
  <2>1. j + 1 \in 0 .. m
    OBVIOUS
  <2> QED
    BY <1>3, <2>1 DEF Flow
<1>6. \A j \in 1 .. m - 1 : Comes(s, Tail(c)[j], own2[j - 1], after2[j - 1], own2[j], after2[j])
  <2> SUFFICES ASSUME NEW j \in 1 .. m - 1
               PROVE  Comes(s, Tail(c)[j], own2[j - 1], after2[j - 1], own2[j], after2[j])
    OBVIOUS
  <2>1. /\ j + 1 \in 1 .. m /\ j + 1 - 1 = j /\ j - 1 + 1 = j
        /\ j \in 1 .. Len(c) - 1 /\ j \in 0 .. m - 1 /\ j - 1 \in 0 .. m - 1
    BY <1>1
  <2>2. Comes(s, c[j + 1], own[j], after[j], own[j + 1], after[j + 1])
    BY <2>1 DEF Flow
  <2>3. /\ Tail(c)[j] = c[j + 1] /\ own2[j - 1] = own[j] /\ after2[j - 1] = after[j]
        /\ own2[j] = own[j + 1] /\ after2[j] = after[j + 1]
    BY <1>2, <1>3, <2>1
  <2> QED
    BY <2>2, <2>3
<1>7. own2[m - 1] = Len(s) /\ after2[m - 1] = r
  <2>1. m - 1 \in 0 .. m - 1 /\ m - 1 + 1 = m
    OBVIOUS
  <2> QED
    BY <1>3, <2>1 DEF Flow
<1>8. \/ Len(Tail(c)) = m - 1
      \/ Len(Tail(c)) = m - 1 + 1 /\ h = TRUE /\ r # <<>> /\ Tail(c)[m - 1 + 1] = Bad(<<>>)
  <2>1. m - 1 + 1 = m
    OBVIOUS
  <2>2. CASE Len(c) = m
    BY <1>2, <2>2
  <2>3. CASE Len(c) = m + 1 /\ h = TRUE /\ r # <<>> /\ c[m + 1] = Bad(<<>>)
    <3>1. m \in 1 .. Len(c) - 1 /\ Len(Tail(c)) = m
      BY <1>2, <2>3
    <3> QED
      BY <1>2, <2>1, <2>3, <3>1
  <2> QED
    BY <2>2, <2>3 DEF Flow
<1>9. Flow(s, Tail(c), r, h, m - 1, own2, after2)
  BY <1>5, <1>6, <1>7, <1>8 DEF Flow
<1>10. At(own2, after2, own[1], after[1]) /\ own[1] \in 0 .. Len(s)
  <2>1. 0 \in 0 .. m - 1 /\ 0 + 1 = 1 /\ 1 \in 0 .. m
    OBVIOUS
  <2> QED
    BY <1>3, <2>1 DEF Flow, At
<1> QED
  BY <1>4, <1>9, <1>10, Zenon

(* One more line is sent, of the last request or of a new one.              *)
Sends(s, s2, c, line, r, r2) ==
  /\ s \in Seq(Requests) /\ s2 \in Seq(Requests) /\ c \in Seq(Lines) /\ line \in Lines
  /\ Len(s) <= Len(s2)
  /\ \A i \in 1 .. Len(s) : s2[i] = s[i]
  /\ Comes(s2, line, Len(s), r, Len(s2), r2)

LEMMA FlowAppend ==
  ASSUME NEW s, NEW s2, NEW c, NEW line, NEW r, NEW r2, Sends(s, s2, c, line, r, r2),
         NEW m \in Nat, NEW own, NEW after, Flow(s, c, r, FALSE, m, own, after)
  PROVE  \E own2, after2 :
            /\ Flow(s2, Append(c, line), r2, FALSE, m + 1, own2, after2)
            /\ At(own2, after2, own[0], after[0])
<1> USE DEF Sends
<1> DEFINE own2 == [j \in 0 .. m + 1 |-> IF j = m + 1 THEN Len(s2) ELSE own[j]]
           after2 == [j \in 0 .. m + 1 |-> IF j = m + 1 THEN r2 ELSE after[j]]
           c2 == Append(c, line)
<1>1. Len(c) = m /\ Len(s) \in Nat /\ Len(s2) \in Nat
  BY DEF Flow
<1>2. Len(c2) = m + 1 /\ c2[m + 1] = line /\ \A j \in 1 .. m : c2[j] = c[j]
  BY <1>1
<1>3. /\ \A j \in 0 .. m : own2[j] = own[j] /\ after2[j] = after[j]
      /\ own2[m + 1] = Len(s2) /\ after2[m + 1] = r2
  OBVIOUS
<1> HIDE DEF own2, after2, c2
<1>4. \A j \in 0 .. m + 1 : j \in 0 .. m \/ j = m + 1
  OBVIOUS
<1>5. \A j \in 0 .. m + 1 : own2[j] \in 0 .. Len(s2)
  <2>1. ASSUME NEW j \in 0 .. m PROVE own2[j] \in 0 .. Len(s2)
    <3>1. own[j] \in 0 .. Len(s)
      BY DEF Flow
    <3> QED
      BY <1>1, <1>3, <3>1
  <2> QED
    BY <1>1, <1>3, <1>4, <2>1
<1>6. \A j \in 1 .. m + 1 : Comes(s2, c2[j], own2[j - 1], after2[j - 1], own2[j], after2[j])
  <2>1. ASSUME NEW j \in 1 .. m
        PROVE  Comes(s2, c2[j], own2[j - 1], after2[j - 1], own2[j], after2[j])
    <3>1. j \in 0 .. m /\ j - 1 \in 0 .. m
      OBVIOUS
    <3>2. /\ Comes(s, c[j], own[j - 1], after[j - 1], own[j], after[j])
          /\ own[j] \in 0 .. Len(s) /\ own[j - 1] \in 0 .. Len(s)
      BY <3>1 DEF Flow
    <3>3. Comes(s2, c[j], own[j - 1], after[j - 1], own[j], after[j])
      <4>1. CASE after[j - 1] # <<>>
        BY <3>2, <4>1 DEF Comes
      <4>2. CASE after[j - 1] = <<>>
        <5>1. own[j] \in 1 .. Len(s) /\ own[j] <= Len(s2)
          BY <1>1, <3>2, <4>2 DEF Comes
        <5>2. s2[own[j]] = s[own[j]]
          BY <5>1
        <5> QED
          BY <3>2, <4>2, <5>1, <5>2 DEF Comes
      <4> QED
        BY <4>1, <4>2
    <3> QED
      BY <1>2, <1>3, <3>1, <3>3
  <2>2. Comes(s2, c2[m + 1], own2[m + 1 - 1], after2[m + 1 - 1], own2[m + 1], after2[m + 1])
    <3>1. m + 1 - 1 = m /\ m \in 0 .. m
      OBVIOUS
    <3>2. own2[m + 1 - 1] = Len(s) /\ after2[m + 1 - 1] = r
      BY <1>3, <3>1 DEF Flow
    <3> QED
      BY <1>2, <1>3, <3>2
  <2>3. \A j \in 1 .. m + 1 : j \in 1 .. m \/ j = m + 1
    OBVIOUS
  <2> QED
    BY <2>1, <2>2, <2>3
<1>7. Flow(s2, c2, r2, FALSE, m + 1, own2, after2)
  BY <1>2, <1>3, <1>5, <1>6 DEF Flow
<1>8. At(own2, after2, own[0], after[0])
  BY <1>3 DEF At
<1> QED
  BY <1>7, <1>8 DEF c2

(* The client hangs up, between two lines or in one.                        *)
LEMMA FlowHangUp ==
  ASSUME NEW s \in Seq(Requests), NEW c \in Seq(Lines), NEW c2, NEW r, NEW h,
         NEW m \in Nat, NEW own, NEW after, Flow(s, c, r, h, m, own, after), h = FALSE,
         c2 = c \/ (r # <<>> /\ c2 = Append(c, Bad(<<>>)))
  PROVE  Flow(s, c2, r, TRUE, m, own, after)
<1>1. Len(c) = m
  BY DEF Flow
<1>2. CASE c2 = c
  BY <1>1, <1>2 DEF Flow
<1>3. CASE r # <<>> /\ c2 = Append(c, Bad(<<>>))
  <2>1. Bad(<<>>) \in Lines
    BY ConnectionAssumption
  <2>2. Len(c2) = m + 1 /\ c2[m + 1] = Bad(<<>>) /\ \A j \in 1 .. m : c2[j] = c[j]
    BY <1>1, <1>3, <2>1
  <2> QED
    BY <1>3, <2>2 DEF Flow
<1> QED
  BY <1>2, <1>3
-----------------------------------------------------------------------------
(* Requests whose frame is decoded: those that are answered, and the one    *)
(* that is about to be.                                                     *)
Taken == Len(answers) + IF phase = "running" THEN 1 ELSE 0

(* The decoder stands between two requests, or within the next one.         *)
Within == stack # <<>> \/ begun # NoLine

Position(Stages, o, a) ==
  \/ ~Within /\ o = Taken /\ a = <<>>
  \/ Within /\ o = Taken + 1 /\ Stage(sent[o], stack, begun, a) \in Stages

Streaming(Stages) ==
  \E m \in Nat : \E own, after :
     /\ Flow(sent, coming, rest, hungup, m, own, after)
     /\ Position(Stages, own[0], after[0])

(* The line in which the client hung up is read: nothing comes any more.    *)
CutOff ==
  /\ hungup = TRUE /\ rest # <<>> /\ coming = <<>> /\ ~Within
  /\ Taken = Len(sent)

(* What is executed is the request whose turn it is. *)
Framed ==
  phase = "running" =>
    \/ Taken \in 1 .. Complete /\ frame = sent[Taken].frame
    \/ hungup = TRUE /\ rest # <<>> /\ Taken = Complete + 1 /\ frame = Malformed

Behind == Len(answers) <= Len(sent) /\ (rest # <<>> => Len(sent) >= 1)

(* The connection is open, and no read has failed. *)
Sound == phase \in {"reading", "running"}

DInv(Stages) ==
  /\ IInv
  /\ Behind
  /\ Sound => Streaming(Stages) \/ CutOff
  /\ Framed

LEMMA InitDInv ==
  ASSUME NEW Stages, Init
  PROVE  DInv(Stages)
<1>1. IInv /\ Behind /\ Framed
  <2>1. Len(<<>>) = 0
    OBVIOUS
  <2> QED
    BY <2>1, InitIInv DEF Init, Behind, Framed
<1> DEFINE own == [j \in 0 .. 0 |-> 0]
           after == [j \in 0 .. 0 |-> <<>>]
<1>2. own[0] = 0 /\ after[0] = <<>>
  OBVIOUS
<1> HIDE DEF own, after
<1>3. Flow(<<>>, <<>>, <<>>, FALSE, 0, own, after)
  BY <1>2 DEF Flow
<1>4. Flow(sent, coming, rest, hungup, 0, own, after)
  BY <1>3 DEF Init
<1>5. Position(Stages, own[0], after[0])
  BY <1>2 DEF Position, Within, Taken, Init
<1>6. Streaming(Stages)
  BY <1>4, <1>5 DEF Streaming
<1> QED
  BY <1>1, <1>6 DEF DInv

(* The counts are numbers, and a decoder that is open has a position.       *)
LEMMA Counts ==
  ASSUME IInv
  PROVE  /\ Len(answers) \in Nat /\ Len(sent) \in Nat /\ Taken \in Nat
         /\ sent \in Seq(Requests) /\ coming \in Seq(Lines)
<1>1. Len(answers) \in Nat
  BY SeqFacts DEF IInv, Talking
<1> QED
  BY <1>1 DEF IInv, Sending, Taken

LEMMA PositionKept ==
  ASSUME IInv, NEW Stages, NEW o \in 0 .. Len(sent), NEW a, Position(Stages, o, a),
         UNCHANGED <<stack, begun, phase, answers>>,
         \A i \in 1 .. Len(sent) : sent'[i] = sent[i]
  PROVE  Position(Stages, o, a)'
<1>1. Taken' = Taken /\ Taken \in Nat
  BY Counts DEF Taken
<1> QED
  BY <1>1, Counts DEF Position, Within

LEMMA ClientDInv ==
  ASSUME NEW Stages, DInv(Stages), ClientStep
  PROVE  DInv(Stages)'
<1>1. /\ Len(answers) \in Nat /\ Len(sent) \in Nat /\ Taken \in Nat /\ Taken' = Taken
      /\ sent \in Seq(Requests) /\ coming \in Seq(Lines) /\ rest \in Seq(Lines)
      /\ UNCHANGED <<stack, begun, phase, frame, state, answers>> /\ Sound' = Sound
      /\ hungup = FALSE
      /\ IInv /\ IInv' /\ sent' \in Seq(Requests)
  BY Counts, ClientIInv
     DEF DInv, ClientStep, Begin, Continue, HangUp, Taken, Sound, IInv, Sending
<1>2. ASSUME Sound
      PROVE  \E m \in Nat : \E own, after :
                /\ Flow(sent, coming, rest, FALSE, m, own, after)
                /\ Position(Stages, own[0], after[0]) /\ own[0] \in 0 .. Len(sent)
  <2>1. Streaming(Stages)
    BY <1>1, <1>2 DEF DInv, CutOff
  <2>2. PICK m \in Nat : \E own, after : /\ Flow(sent, coming, rest, hungup, m, own, after)
                                          /\ Position(Stages, own[0], after[0])
    BY <2>1 DEF Streaming
  <2>3. 0 \in 0 .. m
    OBVIOUS
  <2>4. hungup = FALSE
    BY <1>1
  <2> QED
    BY <2>2, <2>3, <2>4, Zenon DEF Flow
<1>3. ASSUME NEW m \in Nat, NEW own, NEW after, NEW own2, NEW after2, NEW k \in Nat,
             Position(Stages, own[0], after[0]), own[0] \in 0 .. Len(sent),
             At(own2, after2, own[0], after[0]),
             Flow(sent', coming', rest', hungup', k, own2, after2),
             \A i \in 1 .. Len(sent) : sent'[i] = sent[i]
      PROVE  Streaming(Stages)'
  <2>1. Position(Stages, own2[0], after2[0])'
    <3>1. Position(Stages, own[0], after[0])'
      BY <1>1, <1>3, PositionKept
    <3>2. own2[0] = own[0] /\ after2[0] = after[0]
      BY <1>3 DEF At
    <3> QED
      BY <3>1, <3>2 DEF Position, Within
  <2> QED
    BY <1>3, <2>1 DEF Streaming
<1>4. CASE Begin
  <2>1. PICK r \in Requests : /\ sent' = Append(sent, r) /\ rest' = Tail(r.lines)
                              /\ coming' = Append(coming, Head(r.lines))
    BY <1>4 DEF Begin
  <2>2. rest = <<>> /\ hungup' = hungup
    BY <1>4 DEF Begin
  <2>3. r.lines \in Seq(Lines) /\ r.lines # <<>>
    BY ConnectionAssumption
  <2>4. Head(r.lines) \in Lines
    BY <2>3
  <2>5. /\ Len(sent') = Len(sent) + 1 /\ sent'[Len(sent) + 1] = r
        /\ \A i \in 1 .. Len(sent) : sent'[i] = sent[i]
    BY <1>1, <2>1
  <2>6. Comes(sent', Head(r.lines), Len(sent), rest, Len(sent'), rest')
    BY <1>1, <2>1, <2>2, <2>5 DEF Comes
  <2>10. Len(sent) <= Len(sent')
    BY <1>1, <2>5
  <2>11. Sends(sent, sent', coming, Head(r.lines), rest, rest')
    BY <1>1, <2>4, <2>5, <2>6, <2>10, Zenon DEF Sends
  <2>7. Behind'
    BY <1>1, <2>5 DEF DInv, Behind
  <2>8. Framed'
    <3>1. /\ Complete = Len(sent) /\ Complete' \in {Len(sent), Len(sent) + 1}
      BY <1>1, <2>2, <2>5 DEF Complete
    <3> QED
      BY <1>1, <2>2, <2>5, <3>1 DEF DInv, Framed
  <2>9. ASSUME Sound PROVE Streaming(Stages)'
    <3>1. PICK m \in Nat : \E own, after :
                /\ Flow(sent, coming, rest, FALSE, m, own, after)
                /\ Position(Stages, own[0], after[0]) /\ own[0] \in 0 .. Len(sent)
      BY <1>2, <2>9
    <3>2. PICK own, after : /\ Flow(sent, coming, rest, FALSE, m, own, after)
                            /\ Position(Stages, own[0], after[0]) /\ own[0] \in 0 .. Len(sent)
      BY <3>1
    <3>3. \E own2, after2 : /\ Flow(sent', Append(coming, Head(r.lines)), rest', FALSE, m + 1, own2, after2)
                            /\ At(own2, after2, own[0], after[0])
      BY <2>11, <3>2, FlowAppend, Zenon
    <3>4. PICK own2, after2 : /\ Flow(sent', coming', rest', hungup', m + 1, own2, after2)
                              /\ At(own2, after2, own[0], after[0])
      BY <1>1, <2>1, <2>2, <3>3
    <3> QED
      BY <1>3, <2>5, <3>2, <3>4
  <2> QED
    BY <1>1, <2>7, <2>8, <2>9 DEF DInv
<1>5. CASE Continue
  <2>1. /\ rest # <<>> /\ rest' = Tail(rest) /\ coming' = Append(coming, Head(rest))
        /\ sent' = sent /\ hungup' = hungup
    BY <1>5 DEF Continue
  <2>2. Head(rest) \in Lines
    BY <1>1, <2>1
  <2>3. /\ Comes(sent', Head(rest), Len(sent), rest, Len(sent'), rest')
        /\ Len(sent) <= Len(sent') /\ \A i \in 1 .. Len(sent) : sent'[i] = sent[i]
    BY <1>1, <2>1 DEF Comes
  <2>11. Sends(sent, sent', coming, Head(rest), rest, rest')
    BY <1>1, <2>2, <2>3, Zenon DEF Sends
  <2>4. Behind'
    BY <1>1, <2>1 DEF DInv, Behind
  <2>5. Framed'
    <3>1. Len(sent) >= 1 /\ Complete = Len(sent) - 1 /\ Complete' \in {Len(sent), Len(sent) - 1}
      BY <1>1, <2>1 DEF Complete, DInv, Behind
    <3> QED
      BY <1>1, <2>1, <3>1 DEF DInv, Framed
  <2>6. ASSUME Sound PROVE Streaming(Stages)'
    <3>1. PICK m \in Nat : \E own, after :
                /\ Flow(sent, coming, rest, FALSE, m, own, after)
                /\ Position(Stages, own[0], after[0]) /\ own[0] \in 0 .. Len(sent)
      BY <1>2, <2>6
    <3>2. PICK own, after : /\ Flow(sent, coming, rest, FALSE, m, own, after)
                            /\ Position(Stages, own[0], after[0]) /\ own[0] \in 0 .. Len(sent)
      BY <3>1
    <3>3. \E own2, after2 : /\ Flow(sent', Append(coming, Head(rest)), rest', FALSE, m + 1, own2, after2)
                            /\ At(own2, after2, own[0], after[0])
      BY <2>11, <3>2, FlowAppend, Zenon
    <3>4. PICK own2, after2 : /\ Flow(sent', coming', rest', hungup', m + 1, own2, after2)
                              /\ At(own2, after2, own[0], after[0])
      BY <1>1, <2>1, <3>3
    <3>5. m + 1 \in Nat
      OBVIOUS
    <3> QED
      BY <1>3, <2>3, <3>2, <3>4, <3>5, Zenon
  <2> QED
    BY <1>1, <2>4, <2>5, <2>6 DEF DInv
<1>6. CASE HangUp
  <2>1. /\ hungup' = TRUE /\ sent' = sent /\ rest' = rest
        /\ coming' = coming \/ (rest # <<>> /\ coming' = Append(coming, Bad(<<>>)))
    BY <1>6 DEF HangUp
  <2>2. Behind' /\ Framed'
    BY <1>1, <2>1 DEF DInv, Behind, Framed, Complete
  <2>3. ASSUME Sound PROVE Streaming(Stages)'
    <3>1. PICK m \in Nat : \E own, after :
                /\ Flow(sent, coming, rest, FALSE, m, own, after)
                /\ Position(Stages, own[0], after[0]) /\ own[0] \in 0 .. Len(sent)
      BY <1>2, <2>3
    <3>2. PICK own, after : /\ Flow(sent, coming, rest, FALSE, m, own, after)
                            /\ Position(Stages, own[0], after[0]) /\ own[0] \in 0 .. Len(sent)
      BY <3>1
    <3>3. Flow(sent, coming', rest, TRUE, m, own, after)
      BY <1>1, <2>1, <3>2, FlowHangUp
    <3>4. Flow(sent', coming', rest', hungup', m, own, after)
      BY <2>1, <3>3
    <3>5. At(own, after, own[0], after[0]) /\ \A i \in 1 .. Len(sent) : sent'[i] = sent[i]
      BY <2>1 DEF At
    <3> QED
      BY <1>3, <3>2, <3>4, <3>5, Zenon
  <2> QED
    BY <1>1, <2>2, <2>3 DEF DInv
<1> QED
  BY <1>4, <1>5, <1>6 DEF ClientStep

(* The decoder reads a line of the stream: the line in which the client     *)
(* hung up, or the next of the request whose turn it is.                    *)
AtEnd ==
  /\ coming = <<Bad(<<>>)>>
  /\ hungup = TRUE /\ rest # <<>> /\ Within
  /\ Taken + 1 = Len(sent)

Ahead(d, m, own, after) ==
  /\ d.stack = stack /\ d.begun = begun
  /\ Head(d.lines) = Head(coming) /\ Tail(d.lines) = after[0]
  /\ own[0] = Taken + 1 /\ own[0] \in 0 .. Len(sent)
  /\ d.request = sent[own[0]]
  /\ Flow(sent, Tail(coming), rest, hungup, m, own, after)

AtLine(Stages) ==
  \E d \in Stages, m \in Nat : \E own, after : Ahead(d, m, own, after)

LEMMA LineTurn ==
  ASSUME NEW Stages, Delimits(Stages), DInv(Stages), phase = "reading", coming # <<>>,
         ~Full(stack)
  PROVE  AtEnd \/ AtLine(Stages)
<1>1. /\ Len(answers) \in Nat /\ Len(sent) \in Nat /\ Taken \in Nat
      /\ sent \in Seq(Requests) /\ coming \in Seq(Lines)
  BY Counts DEF DInv
<1>2. Streaming(Stages)
  BY DEF DInv, Sound, CutOff
<1>3. PICK m \in Nat : \E own, after : /\ Flow(sent, coming, rest, hungup, m, own, after)
                                        /\ Position(Stages, own[0], after[0])
  BY <1>2 DEF Streaming
<1>4. PICK own, after : /\ Flow(sent, coming, rest, hungup, m, own, after)
                        /\ Position(Stages, own[0], after[0])
  BY <1>3
<1>5. CASE m = 0
  <2>1. /\ own[0] = Len(sent) /\ after[0] = rest /\ rest # <<>> /\ hungup = TRUE
        /\ Len(coming) = 1 /\ coming[1] = Bad(<<>>)
    BY <1>1, <1>4, <1>5 DEF Flow
  <2>2. coming = <<Bad(<<>>)>>
    BY <1>1, <2>1
  <2>3. Within /\ own[0] = Taken + 1
    BY <1>4, <2>1 DEF Position
  <2> QED
    BY <2>1, <2>2, <2>3 DEF AtEnd
<1>6. CASE m # 0
  <2>1. /\ Comes(sent, Head(coming), own[0], after[0], own[1], after[1])
        /\ own[1] \in 0 .. Len(sent)
        /\ \E own2, after2 :
             /\ Flow(sent, Tail(coming), rest, hungup, m - 1, own2, after2)
             /\ At(own2, after2, own[1], after[1])
    BY <1>1, <1>4, <1>6, FlowTail
  <2>2. PICK own2, after2 : /\ Flow(sent, Tail(coming), rest, hungup, m - 1, own2, after2)
                            /\ At(own2, after2, own[1], after[1])
    BY <2>1
  <2>3. own2[0] = own[1] /\ after2[0] = after[1]
    BY <2>2 DEF At
  <2>4. PICK d \in Stages : /\ d.stack = stack /\ d.begun = begun
                            /\ Head(d.lines) = Head(coming)
                            /\ Tail(d.lines) = after[1] /\ own[1] = Taken + 1
                            /\ d.request = sent[own[1]]
    <3>1. CASE ~Within
      <4>1. own[0] = Taken /\ after[0] = <<>>
        BY <1>4, <3>1 DEF Position
      <4>2. /\ own[1] = Taken + 1 /\ own[1] <= Len(sent)
            /\ Head(coming) = Head(sent[own[1]].lines) /\ after[1] = Tail(sent[own[1]].lines)
        BY <2>1, <4>1 DEF Comes
      <4>3. sent[own[1]] \in Requests
        BY <1>1, <4>2
      <4>4. Begun(sent[own[1]]) \in Stages
        BY <4>3 DEF Delimits
      <4> QED
        BY <3>1, <4>2, <4>4 DEF Begun, Stage, Within
    <3>2. CASE Within
      <4>1. own[0] = Taken + 1 /\ Stage(sent[own[0]], stack, begun, after[0]) \in Stages
        BY <1>4, <3>2 DEF Position
      <4>2. after[0] # <<>>
        BY <4>1 DEF Delimits, Stage
      <4>3. own[1] = own[0] /\ Head(coming) = Head(after[0]) /\ after[1] = Tail(after[0])
        BY <2>1, <4>2 DEF Comes
      <4> QED
        BY <4>1, <4>3 DEF Stage
    <3> QED
      BY <3>1, <3>2
  <2>5. Ahead(d, m - 1, own2, after2)
    BY <2>1, <2>2, <2>3, <2>4, Zenon DEF Ahead
  <2>6. m - 1 \in Nat
    BY <1>6
  <2> QED
    BY <2>5, <2>6 DEF AtLine
<1> QED
  BY <1>5, <1>6

(* What a turn of the decoder does to the variables, with the lines a of    *)
(* the request still to come.                                               *)
Lands(d, a) ==
  \/ /\ Turn(d).frame = NoFrame /\ Turn(d).lines = a
     /\ stack' = Turn(d).stack /\ begun' = Turn(d).begun /\ Within' /\ phase' = "reading"
  \/ /\ Turn(d).frame # NoFrame /\ Turn(d).frame = frame' /\ a = <<>>
     /\ ~Within' /\ phase' = "running"

LEMMA Landed ==
  ASSUME NEW Stages, Delimits(Stages), DInv(Stages), phase = "reading",
         UNCHANGED <<sent, rest, hungup, answers>>,
         NEW d \in Stages, NEW m \in Nat, NEW own, NEW after,
         Flow(sent, coming', rest, hungup, m, own, after),
         own[0] = Taken + 1, d.request = sent[own[0]], Lands(d, after[0])
  PROVE  Streaming(Stages)' /\ Framed'
<1>1. /\ Len(answers) \in Nat /\ Len(sent) \in Nat /\ Taken \in Nat
      /\ sent \in Seq(Requests) /\ Taken = Len(answers)
  BY Counts DEF DInv, Taken
<1>2. own[0] \in 0 .. Len(sent)
  BY DEF Flow
<1>3. Flow(sent', coming', rest', hungup', m, own, after)
  OBVIOUS
<1>4. CASE Turn(d).frame = NoFrame
  <2>1. /\ stack' = Turn(d).stack /\ begun' = Turn(d).begun /\ Within' /\ phase' = "reading"
        /\ after[0] = Turn(d).lines
    BY <1>4 DEF Lands
  <2>2. Stage(sent[own[0]], stack', begun', after[0]) \in Stages
    BY <1>4, <2>1 DEF Delimits
  <2>3. Position(Stages, own[0], after[0])'
    BY <1>1, <2>1, <2>2 DEF Position, Taken
  <2>4. Framed'
    BY <2>1 DEF Framed
  <2> QED
    BY <1>3, <2>3, <2>4, Zenon DEF Streaming
<1>5. CASE Turn(d).frame # NoFrame
  <2>1. ~Within' /\ phase' = "running" /\ after[0] = <<>> /\ frame' = sent[own[0]].frame
    BY <1>5 DEF Lands, Delimits
  <2>2. Taken' = own[0]
    BY <1>1, <2>1 DEF Taken
  <2>3. Position(Stages, own[0], after[0])'
    BY <2>1, <2>2 DEF Position
  <2>4. own[0] = Len(sent) => rest = <<>>
    BY <1>1, <2>1, FlowEnd
  <2>5. Complete' = Complete /\ own[0] \in 1 .. Complete
    BY <1>1, <1>2, <2>4 DEF Complete
  <2>6. Framed'
    BY <2>1, <2>2, <2>5 DEF Framed
  <2> QED
    BY <1>3, <2>3, <2>6, Zenon DEF Streaming
<1> QED
  BY <1>4, <1>5

LEMMA GiveLands ==
  ASSUME phase = "reading", NEW below, Nest(below), Lacking(below), NEW f, f # NoFrame,
         Give(f, below), begun' = NoLine, NEW Stages, Delimits(Stages), NEW d \in Stages, NEW a,
         Turn(d) = Given(f, below, a)
  PROVE  Lands(d, a)
<1>1. CASE below = <<>>
  <2>1. Turn(d) = Result(<<>>, NoLine, a, f)
    BY <1>1 DEF Given
  <2>2. a = <<>>
    BY <2>1 DEF Delimits, Result
  <2> QED
    BY <1>1, <2>1, <2>2 DEF Give, Lands, Within, Result
<1>2. CASE below # <<>>
  <2>1. Turn(d) = Result(Extended(below, f), NoLine, a, NoFrame)
    BY <1>2 DEF Given
  <2>2. Extended(below, f) # <<>>
    BY <1>2, ExtendedNest
  <2> QED
    BY <1>2, <2>1, <2>2 DEF Give, Lands, Within, Result
<1> QED
  BY <1>1, <1>2

LEMMA ReadDInv ==
  ASSUME NEW Stages, Delimits(Stages), DInv(Stages),
         ReadScalar \/ ReadInline \/ ReadHeader \/ ReadOn \/ ReadMalformed
  PROVE  DInv(Stages)'
<1>1. /\ phase = "reading" /\ coming # <<>> /\ Lacking(stack)
      /\ UNCHANGED <<sent, rest, hungup, state, answers>>
  BY DEF ReadScalar, ReadInline, ReadHeader, ReadOn, ReadMalformed, ReadLine, Reading, Lacking
<1>2. IInv' /\ Behind'
  BY <1>1, DecodeIInv DEF DInv, Behind
<1>3. /\ Len(answers) \in Nat /\ Len(sent) \in Nat /\ Taken = Len(answers)
      /\ coming \in Seq(Lines) /\ Line \in Lines /\ Nest(stack)
  <2>1. coming \in Seq(Lines) /\ Len(answers) \in Nat /\ Len(sent) \in Nat
    BY Counts DEF DInv
  <2> QED
    BY <1>1, <2>1 DEF DInv, IInv, Decoder, Taken, Line, Joined
<1>4. ~Full(stack)
  BY <1>1 DEF Full, Lacking
<1>5. CASE AtEnd
  <2>1. Line = Bad(<<>>) /\ Line.kind = "bad" /\ Line.left = <<>> /\ Tail(coming) = <<>>
    BY <1>5 DEF AtEnd, Line, Joined, Bad
  <2>2. ReadMalformed /\ coming' = <<>> \o <<>>
    BY <2>1 DEF ReadScalar, ReadInline, ReadHeader, ReadOn, ReadMalformed, ReadLine
  <2>3. coming' = <<>> /\ ~Within' /\ phase' = "running" /\ frame' = Malformed
    <3>1. coming' = <<>>
      BY <2>2
    <3>2. stack' = <<>> /\ begun' = NoLine /\ phase' = "running" /\ frame' = Malformed
      BY <2>2, NothingBegun DEF ReadMalformed
    <3> QED
      BY <3>1, <3>2 DEF Within
  <2>4. Taken' = Len(sent)
    BY <1>1, <1>3, <1>5, <2>3 DEF AtEnd, Taken
  <2>5. CutOff'
    BY <1>1, <1>5, <2>3, <2>4 DEF AtEnd, CutOff
  <2>6. Framed'
    <3>1. Complete' = Len(sent) - 1
      BY <1>1, <1>5 DEF AtEnd, Complete
    <3>2. Taken' = Complete' + 1
      BY <1>3, <2>4, <3>1
    <3> QED
      BY <1>1, <1>5, <2>3, <3>2 DEF AtEnd, Framed
  <2> QED
    BY <1>2, <2>5, <2>6 DEF DInv
<1>6. CASE AtLine(Stages)
  <2>1. PICK d \in Stages, m \in Nat : \E own, after : Ahead(d, m, own, after)
    BY <1>6 DEF AtLine
  <2>2. PICK own, after : Ahead(d, m, own, after)
    BY <2>1
  <2> DEFINE a == after[0]
  <2>3. Turn(d) = AfterLine(stack, Line, a)
    BY <1>4, <2>2 DEF Turn, Ahead, Line
  <2>4. /\ own[0] = Taken + 1 /\ d.request = sent[own[0]]
        /\ Flow(sent, Tail(coming), rest, hungup, m, own, after)
    BY <2>2 DEF Ahead
  <2>5. a \in Seq(Lines)
    <3>1. d.lines \in Seq(Lines) /\ d.lines # <<>> /\ a = Tail(d.lines)
      BY <1>4, <2>2 DEF Ahead, Delimits
    <3> QED
      BY <3>1
  <2> HIDE DEF a
  <2>6. coming' = Tail(coming) /\ Lands(d, a)
    <3>1. CASE ReadScalar
      <4>1. /\ Line.kind = "scalar" /\ Give(ScalarFrame(Line), stack)
            /\ coming' = Tail(coming) /\ begun' = NoLine
        BY <3>1 DEF ReadScalar, ReadLine
      <4>2. Turn(d) = Given(ScalarFrame(Line), stack, a)
        BY <2>3, <4>1 DEF AfterLine
      <4>3. ScalarFrame(Line) # NoFrame
        BY DEF ScalarFrame, NoFrame
      <4> QED
        BY <1>1, <1>3, <4>1, <4>2, <4>3, GiveLands
    <3>2. CASE ReadInline
      <4>1. /\ Line.kind = "inline" /\ Give(InlineFrame(Line), stack)
            /\ coming' = Tail(coming) /\ begun' = NoLine
        BY <3>2 DEF ReadInline, ReadLine
      <4>2. Turn(d) = Given(InlineFrame(Line), stack, a)
        BY <2>3, <4>1 DEF AfterLine
      <4>3. InlineFrame(Line) # NoFrame
        BY DEF InlineFrame, NoFrame
      <4> QED
        BY <1>1, <1>3, <4>1, <4>2, <4>3, GiveLands
    <3>3. CASE ReadHeader
      <4>1. /\ Line.kind = "open" /\ LengthOk(Line.type, Line.n)
            /\ coming' = Tail(coming) /\ begun' = NoLine
        BY <3>3 DEF ReadHeader, ReadLine
      <4>2. CASE Line.n = -1
        <5>1. Turn(d) = Given(NullFrame, stack, a) /\ Give(NullFrame, stack)
          BY <2>3, <3>3, <4>1, <4>2 DEF AfterLine, ReadHeader
        <5>2. NullFrame # NoFrame
          BY DEF NullFrame, NoFrame
        <5> QED
          BY <1>1, <1>3, <4>1, <5>1, <5>2, GiveLands
      <4>3. CASE Line.n # -1
        <5>1. Turn(d) = Result(Append(stack, Opened(Line)), NoLine, a, NoFrame)
          BY <2>3, <4>1, <4>3 DEF AfterLine
        <5>2. /\ stack' = Append(stack, Opened(Line)) /\ phase' = "reading"
          BY <1>1, <3>3, <4>3 DEF ReadHeader
        <5>3. Append(stack, Opened(Line)) # <<>>
          BY <1>3, AppendFacts DEF Nest
        <5> QED
          BY <4>1, <5>1, <5>2, <5>3 DEF Lands, Within, Result
      <4> QED
        BY <4>2, <4>3
    <3>4. CASE ReadMalformed
      <4>1. ~Within' /\ phase' = "running" /\ frame' = Malformed /\ Malformed # NoFrame
        BY <3>4, NothingBegun, ConnectionAssumption DEF ReadMalformed, Within
      <4>2. CASE ReadLine("bad") /\ coming' = Line.left \o Tail(coming)
        <5>1. Line.kind = "bad" /\ Line.left \in Seq(Lines)
          BY <1>3, <4>2, ConnectionAssumption DEF ReadLine
        <5>2. Turn(d) = Result(<<>>, NoLine, Line.left \o a, Malformed)
          BY <2>3, <5>1 DEF AfterLine
        <5>3. Line.left \o a = <<>>
          BY <4>1, <5>2 DEF Delimits, Result
        <5>4. Line.left = <<>> /\ a = <<>>
          <6>1. Len(Line.left \o a) = Len(Line.left) + Len(a) /\ Len(Line.left \o a) = 0
            BY <2>5, <5>1, <5>3
          <6>2. Len(Line.left) = 0 /\ Len(a) = 0
            BY <2>5, <5>1, <6>1
          <6> QED
            BY <2>5, <5>1, <6>2
        <5>5. coming' = Tail(coming)
          <6>1. Tail(coming) \in Seq(Lines)
            BY <1>1, <1>3
          <6> QED
            BY <4>2, <5>4, <6>1
        <5> QED
          BY <4>1, <5>2, <5>4, <5>5 DEF Lands, Result
      <4>3. CASE /\ ReadLine("open") /\ ~LengthOk(Line.type, Line.n)
                 /\ coming' = Tail(coming)
        <5>1. Turn(d) = Result(<<>>, NoLine, a, Malformed)
          BY <2>3, <4>3 DEF AfterLine, ReadLine
        <5>2. a = <<>>
          BY <4>1, <5>1 DEF Delimits, Result
        <5> QED
          BY <4>1, <4>3, <5>1, <5>2 DEF Lands, Result
      <4> QED
        BY <3>4, <4>2, <4>3 DEF ReadMalformed
    <3>5. CASE ReadOn
      <4>1. /\ Line.kind = "runon" /\ coming' = Tail(coming) /\ begun' = Line.becomes
            /\ UNCHANGED <<stack, phase>>
        BY <3>5 DEF ReadOn, ReadLine
      <4>2. Turn(d) = Result(stack, Line.becomes, a, NoFrame)
        BY <2>3, <4>1 DEF AfterLine
      <4>3. Line.becomes # NoLine
        BY <1>3, <4>1, ConnectionAssumption DEF NoLine
      <4> QED
        BY <1>1, <4>1, <4>2, <4>3 DEF Lands, Within, Result
    <3> QED
      BY <3>1, <3>2, <3>3, <3>4, <3>5
  <2>7. Streaming(Stages)' /\ Framed'
    <3>1. Flow(sent, coming', rest, hungup, m, own, after) /\ Lands(d, after[0])
      BY <2>4, <2>6 DEF a
    <3> QED
      BY <1>1, <2>4, <3>1, Landed
  <2> QED
    BY <1>2, <2>7 DEF DInv
<1> QED
  BY <1>1, <1>4, <1>5, <1>6, LineTurn

LEMMA ReturnDInv ==
  ASSUME NEW Stages, Delimits(Stages), DInv(Stages), Return
  PROVE  DInv(Stages)'
<1>1. /\ phase = "reading" /\ Full(stack) /\ Give(Filled(Last(stack)), Front(stack))
      /\ UNCHANGED <<sent, rest, hungup, coming, state, answers>>
  BY DEF Return, Full
<1>2. IInv' /\ Behind'
  BY <1>1, DecodeIInv DEF DInv, Behind
<1>3. Streaming(Stages)
  BY <1>1 DEF DInv, Sound, CutOff, Within, Full
<1>4. PICK m \in Nat : \E own, after : /\ Flow(sent, coming, rest, hungup, m, own, after)
                                        /\ Position(Stages, own[0], after[0])
  BY <1>3 DEF Streaming
<1>5. PICK own, after : /\ Flow(sent, coming, rest, hungup, m, own, after)
                        /\ Position(Stages, own[0], after[0])
  BY <1>4
<1>6. own[0] = Taken + 1 /\ Stage(sent[own[0]], stack, begun, after[0]) \in Stages
  BY <1>1, <1>5 DEF Position, Within, Full
<1> DEFINE d == Stage(sent[own[0]], stack, begun, after[0])
<1>7. d \in Stages /\ d.stack = stack /\ d.lines = after[0] /\ d.request = sent[own[0]]
  BY <1>6 DEF Stage
<1> HIDE DEF d
<1>8. Turn(d) = Given(Filled(Last(stack)), Front(stack), after[0])
  BY <1>1, <1>7 DEF Turn
<1>9. Nest(Front(stack)) /\ Lacking(Front(stack)) /\ Filled(Last(stack)) # NoFrame
  <2>1. Nest(stack) /\ stack # <<>>
    BY <1>1 DEF DInv, IInv, Decoder, Full
  <2>2. Nest(Front(stack)) /\ Lacking(Front(stack)) /\ Entry(Last(stack))
    BY <2>1, FrontNest
  <2> QED
    BY <2>2 DEF Filled, NoFrame, Entry, Aggregates
<1>13. begun' = NoLine
  BY <1>1 DEF Return, DInv, IInv, Decoder, Reading, Full
<1>10. Lands(d, after[0])
  BY <1>1, <1>7, <1>8, <1>9, <1>13, GiveLands
<1>11. Flow(sent, coming', rest, hungup, m, own, after)
  BY <1>1, <1>5
<1>12. Streaming(Stages)' /\ Framed'
  BY <1>1, <1>6, <1>7, <1>10, <1>11, Landed
<1> QED
  BY <1>2, <1>12 DEF DInv

(* A request that is taken is one that has been sent. *)
LEMMA TakenIsSent ==
  ASSUME NEW Stages, DInv(Stages), Sound
  PROVE  Taken <= Len(sent)
<1>1. Len(sent) \in Nat /\ Taken \in Nat
  BY Counts DEF DInv
<1>2. CASE CutOff
  BY <1>1, <1>2 DEF CutOff
<1>3. CASE Streaming(Stages)
  <2>1. PICK m \in Nat : \E own, after : /\ Flow(sent, coming, rest, hungup, m, own, after)
                                          /\ Position(Stages, own[0], after[0])
    BY <1>3 DEF Streaming
  <2>2. PICK own, after : /\ Flow(sent, coming, rest, hungup, m, own, after)
                          /\ Position(Stages, own[0], after[0])
    BY <2>1
  <2>3. own[0] \in 0 .. Len(sent)
    <3>1. 0 \in 0 .. m
      OBVIOUS
    <3> QED
      BY <2>2, <3>1 DEF Flow
  <2> QED
    BY <1>1, <2>2, <2>3 DEF Position
<1> QED
  BY <1>2, <1>3 DEF DInv

LEMMA RunDInv ==
  ASSUME NEW Stages, DInv(Stages), Run
  PROVE  DInv(Stages)'
<1>1. IInv' /\ IInv /\ stack = <<>>
  BY RunIInv DEF DInv, IInv, Decoder, Run
<1>2. /\ Len(answers) \in Nat /\ Len(answers') = Len(answers) + 1
      /\ phase' \in {"reading", "closed"} /\ phase = "running"
      /\ UNCHANGED <<sent, rest, hungup, coming, stack, begun>>
  <2>1. PICK o \in Outcomes(frame, state) :
          IF Encodable(o)
          THEN /\ answers' = Append(answers, [reply |-> o.reply, attribute |-> SendsAttribute(o),
                                              proto |-> o.state.proto])
               /\ phase' = IF o.close THEN "closed" ELSE "reading"
          ELSE phase' = "failed"
    BY DEF Run
  <2>2. Encodable(o)
    BY <1>1, <2>1 DEF IInv, Talking, RepliesEncode
  <2>3. IsSeq(answers) /\ Len(answers) \in Nat
    BY <1>1, SeqFacts DEF IInv, Talking
  <2> QED
    BY <2>1, <2>2, <2>3, AppendFacts DEF Run
<1>3. Taken' = Taken
  BY <1>2 DEF Taken
<1>4. Behind'
  <2>1. Taken <= Len(sent) /\ Taken = Len(answers')
    BY <1>2, TakenIsSent DEF Sound, Taken
  <2> QED
    BY <1>2, <2>1 DEF DInv, Behind
<1>5. Framed'
  BY <1>2 DEF Framed
<1>6. Streaming(Stages)' \/ CutOff'
  <2>1. CASE CutOff
    BY <1>2, <1>3, <2>1 DEF CutOff, Within
  <2>2. CASE Streaming(Stages)
    <3>1. \A o, a : Position(Stages, o, a) => Position(Stages, o, a)'
      BY <1>1, <1>2, <1>3 DEF Position, Within
    <3> QED
      BY <1>2, <2>2, <3>1 DEF Streaming
  <2> QED
    BY <1>2, <2>1, <2>2 DEF DInv, Sound
<1> QED
  BY <1>1, <1>4, <1>5, <1>6 DEF DInv

LEMMA StepDInv ==
  ASSUME NEW Stages, Delimits(Stages), DInv(Stages), [Next]_vars
  PROVE  DInv(Stages)'
<1>1. CASE ClientStep
  BY <1>1, ClientDInv
<1>2. CASE ReadScalar \/ ReadInline \/ ReadHeader \/ ReadOn \/ ReadMalformed
  BY <1>2, ReadDInv
<1>3. CASE Return
  BY <1>3, ReturnDInv
<1>4. CASE Run
  BY <1>4, RunDInv
<1>5. CASE Eof \/ IdleTimeout \/ WriteFails \/ ReadError \/ RefusalFails
  <2>1. IInv' /\ answers' = answers
    BY <1>5, EndIInv DEF DInv
  <2>2. phase' \in {"closed", "refusing"} /\ UNCHANGED <<sent, rest>>
    BY <1>5 DEF Eof, IdleTimeout, WriteFails, ReadError, RefusalFails, Close
  <2> QED
    BY <2>1, <2>2 DEF DInv, Behind, Framed, Sound
<1>6. CASE UNCHANGED vars
  <2>1. IInv'
    BY <1>6, StepIInv DEF DInv
  <2>2. Behind' /\ Framed'
    BY <1>6 DEF vars, DInv, Behind, Framed, Taken, Complete
  <2>3. Sound' = Sound /\ (CutOff => CutOff') /\ (Streaming(Stages) => Streaming(Stages)')
    BY <1>6 DEF vars, Sound, CutOff, Taken, Streaming, Position, Within
  <2> QED
    BY <2>1, <2>2, <2>3 DEF DInv
<1> QED
  BY <1>1, <1>2, <1>3, <1>4, <1>5, <1>6 DEF Next, ServerStep

(* The decoder is never out of step with the requests: what it has under    *)
(* construction and the lines on their way make up the rest of the request  *)
(* whose turn it is.                                                        *)
THEOREM DecoderInvariant ==
  ASSUME NEW Stages, Delimits(Stages)
  PROVE  Spec => []DInv(Stages)
<1>1. Init => DInv(Stages)
  BY InitDInv
<1>2. DInv(Stages) /\ [Next]_vars => DInv(Stages)'
  BY StepDInv
<1> QED
  BY <1>1, <1>2, PTL DEF Spec

(* NoExtraReplies: where requests are delimited, decode_frame and the loop  *)
(* of handle_connection never answer one twice, wherever it is cut off.     *)
THEOREM NeverExtraReplies ==
  ASSUME NEW Stages, Delimits(Stages)
  PROVE  Spec => []NoExtraReplies
<1>1. DInv(Stages) => NoExtraReplies
  BY DEF DInv, Behind, NoExtraReplies
<1> QED
  BY <1>1, DecoderInvariant, PTL
-----------------------------------------------------------------------------
(* The requests of Session: the frames of the first k requests of s.        *)
FramesOf(s, k) == [i \in 1 .. k |-> s[i].frame]

Frames == {r.frame : r \in Requests} \cup {Malformed}

LEMMA FramesFacts ==
  ASSUME NEW s \in Seq(Requests), NEW k \in Nat, k <= Len(s)
  PROVE  /\ FramesOf(s, k) \in Seq(Frames) /\ Len(FramesOf(s, k)) = k
         /\ FramesOf(s, k) \o <<>> = FramesOf(s, k)
         /\ FramesOf(s, k) \o <<Malformed>> = Append(FramesOf(s, k), Malformed)
         /\ \A i \in 1 .. k : FramesOf(s, k)[i] = s[i].frame
<1>1. \A i \in 1 .. k : s[i] \in Requests /\ s[i].frame \in Frames
  BY DEF Frames
<1>2. FramesOf(s, k) \in Seq(Frames) /\ Len(FramesOf(s, k)) = k
  BY <1>1 DEF FramesOf
<1>3. Malformed \in Frames
  BY DEF Frames
<1>4. \A i \in 1 .. k : FramesOf(s, k)[i] = s[i].frame
  BY DEF FramesOf
<1> QED
  BY <1>2, <1>3, <1>4

LEMMA FramesGrow ==
  ASSUME NEW s \in Seq(Requests), NEW s2 \in Seq(Requests), NEW k \in Nat,
         k <= Len(s), k <= Len(s2), \A i \in 1 .. k : s2[i] = s[i]
  PROVE  /\ FramesOf(s2, k) = FramesOf(s, k)
         /\ k + 1 <= Len(s2) => /\ FramesOf(s2, k + 1) = Append(FramesOf(s, k), s2[k + 1].frame)
                                /\ s2[k + 1].frame \in Frames
<1>1. FramesOf(s2, k) = FramesOf(s, k)
  BY DEF FramesOf
<1>2. ASSUME k + 1 <= Len(s2)
      PROVE  FramesOf(s2, k + 1) = Append(FramesOf(s, k), s2[k + 1].frame)
  <2> DEFINE a == FramesOf(s2, k + 1)
             b == Append(FramesOf(s, k), s2[k + 1].frame)
  <2>1. s2[k + 1] \in Requests /\ s2[k + 1].frame \in Frames
    BY <1>2 DEF Frames
  <2>2. /\ a \in Seq(Frames) /\ Len(a) = k + 1 /\ \A i \in 1 .. k + 1 : a[i] = s2[i].frame
    BY <1>2, FramesFacts
  <2>3. /\ FramesOf(s, k) \in Seq(Frames) /\ Len(FramesOf(s, k)) = k
        /\ \A i \in 1 .. k : FramesOf(s, k)[i] = s[i].frame
    BY FramesFacts
  <2>4. /\ b \in Seq(Frames) /\ Len(b) = k + 1 /\ b[k + 1] = s2[k + 1].frame
        /\ \A i \in 1 .. k : b[i] = s[i].frame
    BY <2>1, <2>3
  <2>5. \A i \in 1 .. k + 1 : a[i] = b[i]
    BY <2>2, <2>4
  <2> HIDE DEF a, b
  <2>6. a = b
    BY <2>2, <2>4, <2>5, SeqEqual
  <2> QED
    BY <2>6 DEF a, b
<1>3. k + 1 <= Len(s2) => s2[k + 1].frame \in Frames
  BY DEF Frames
<1> QED
  BY <1>1, <1>2, <1>3

LEMMA AskedIs ==
  /\ ~(hungup /\ rest # <<>>) => asked = FramesOf(sent, Complete) \o <<>>
  /\ hungup /\ rest # <<>> => asked = FramesOf(sent, Complete) \o <<Malformed>>
BY DEF asked, FramesOf

(* What the client does is to ask, when it has sent the last line of a      *)
(* request or hangs up within one.                                          *)
LEMMA ClientAsks ==
  ASSUME NEW Stages, DInv(Stages), ClientStep
  PROVE  asked' = asked \/ \E f \in Frames : asked' = Append(asked, f)
<1>1. /\ Len(sent) \in Nat /\ sent \in Seq(Requests) /\ hungup = FALSE
      /\ sent' \in Seq(Requests) /\ (rest # <<>> => Len(sent) >= 1)
  BY Counts, ClientIInv
     DEF DInv, ClientStep, Begin, Continue, HangUp, IInv, Sending, Behind
<1>2. Complete \in Nat /\ Complete <= Len(sent)
  BY <1>1 DEF Complete
<1>3. asked = FramesOf(sent, Complete)
  BY <1>1, <1>2, AskedIs, FramesFacts
<1>4. /\ ~(hungup' /\ rest' # <<>>) => asked' = FramesOf(sent', Complete') \o <<>>
      /\ hungup' /\ rest' # <<>> => asked' = FramesOf(sent', Complete') \o <<Malformed>>
  BY DEF asked, FramesOf
<1>5. CASE Begin
  <2>1. PICK r \in Requests : sent' = Append(sent, r) /\ hungup' = FALSE /\ rest = <<>>
    BY <1>1, <1>5 DEF Begin
  <2>2. /\ Complete = Len(sent) /\ Len(sent') = Len(sent) + 1
        /\ \A i \in 1 .. Len(sent) : sent'[i] = sent[i]
        /\ Complete' \in {Len(sent), Len(sent) + 1}
    BY <1>1, <2>1 DEF Complete
  <2>3. asked' = FramesOf(sent', Complete')
    BY <1>1, <1>4, <2>1, <2>2, FramesFacts
  <2> QED
    BY <1>1, <1>3, <2>2, <2>3, FramesGrow
<1>6. CASE Continue
  <2>1. sent' = sent /\ hungup' = FALSE /\ rest # <<>>
    BY <1>1, <1>6 DEF Continue
  <2>2. /\ Complete = Len(sent) - 1 /\ Complete' \in {Len(sent), Len(sent) - 1}
    BY <1>1, <2>1 DEF Complete
  <2>3. asked' = FramesOf(sent, Complete')
    BY <1>1, <1>4, <2>1, <2>2, FramesFacts
  <2> QED
    BY <1>1, <1>2, <1>3, <2>2, <2>3, FramesGrow
<1>7. CASE HangUp
  <2>1. sent' = sent /\ rest' = rest /\ Complete' = Complete
    BY <1>7 DEF HangUp, Complete
  <2>2. asked' \in {FramesOf(sent, Complete), Append(FramesOf(sent, Complete), Malformed)}
    BY <1>1, <1>2, <1>4, <2>1, FramesFacts
  <2>3. Malformed \in Frames
    BY DEF Frames
  <2> QED
    BY <1>3, <2>2, <2>3
<1> QED
  BY <1>5, <1>6, <1>7 DEF ClientStep

(* What the loop is about to execute is the next request that was asked.    *)
LEMMA RunsNext ==
  ASSUME NEW Stages, DInv(Stages), phase = "running"
  PROVE  Len(answers) < Len(asked) /\ asked[Len(answers) + 1] = frame
<1>1. /\ Len(answers) \in Nat /\ Len(sent) \in Nat /\ sent \in Seq(Requests)
      /\ Taken = Len(answers) + 1 /\ (rest # <<>> => Len(sent) >= 1)
  BY Counts DEF DInv, Taken, Behind
<1>2. Complete \in Nat /\ Complete <= Len(sent)
  BY <1>1 DEF Complete
<1> DEFINE a == FramesOf(sent, Complete)
<1>3. /\ a \in Seq(Frames) /\ Len(a) = Complete /\ \A i \in 1 .. Complete : a[i] = sent[i].frame
      /\ a \o <<>> = a /\ a \o <<Malformed>> = Append(a, Malformed)
  BY <1>1, <1>2, FramesFacts
<1>4. /\ ~(hungup /\ rest # <<>>) => asked = a
      /\ hungup /\ rest # <<>> => asked = Append(a, Malformed)
  BY <1>3, AskedIs
<1> HIDE DEF a
<1>5. /\ Len(Append(a, Malformed)) = Complete + 1 /\ Append(a, Malformed)[Complete + 1] = Malformed
      /\ \A i \in 1 .. Complete : Append(a, Malformed)[i] = a[i]
  <2>1. Malformed \in Frames
    BY DEF Frames
  <2> QED
    BY <1>2, <1>3, <2>1
<1>6. CASE Taken \in 1 .. Complete /\ frame = sent[Taken].frame
  <2>1. a[Taken] = frame /\ Append(a, Malformed)[Taken] = frame
    BY <1>3, <1>5, <1>6
  <2>2. asked = a \/ asked = Append(a, Malformed)
    BY <1>4, Zenon
  <2>3. asked[Taken] = frame /\ (Len(asked) = Complete \/ Len(asked) = Complete + 1)
    BY <1>3, <1>5, <2>1, <2>2, Zenon
  <2> QED
    BY <1>1, <1>2, <1>6, <2>3
<1>7. CASE hungup = TRUE /\ rest # <<>> /\ Taken = Complete + 1 /\ frame = Malformed
  BY <1>1, <1>2, <1>4, <1>5, <1>7
<1> QED
  BY <1>6, <1>7 DEF DInv, Framed

(* Session has the commands of Connection. *)
LEMMA SameCommands ==
  /\ Abstract!Fresh = Fresh
  /\ \A f, s : Abstract!Outcomes(f, s) = Outcomes(f, s)
<1>1. Abstract!Fresh = Fresh /\ Abstract!Resp2 = Resp2 /\ Abstract!Resp3 = Resp3
  BY DEF Abstract!Fresh, Fresh, Abstract!Resp2, Resp2, Abstract!Resp3, Resp3
<1>2. \A t, w : Abstract!Reply(t, w) = Reply(t, w)
  BY DEF Abstract!Reply, Reply
<1>3. \A r, s : Abstract!Ok(r, s) = Ok(r, s)
  BY DEF Abstract!Ok, Ok
<1>4. \A m, s : Abstract!Failed(m, s) = Failed(m, s)
  BY <1>2, <1>3, Zenon DEF Abstract!Failed, Failed
<1>5. \A args, s : Abstract!Hello(args, s) = Hello(args, s)
  BY <1>1, <1>2, <1>3, <1>4, Zenon DEF Abstract!Hello, Hello
<1>6. \A args, s : /\ Abstract!SetName(args, s) = SetName(args, s)
                   /\ Abstract!GetName(args, s) = GetName(args, s)
                   /\ Abstract!ListClients(args, s) = ListClients(args, s)
                   /\ Abstract!Id(args, s) = Id(args, s)
  BY <1>1, <1>2, <1>3, <1>4, Zenon
     DEF Abstract!SetName, SetName, Abstract!GetName, GetName,
         Abstract!ListClients, ListClients, Abstract!Id, Id
<1>7. \A args, s : Abstract!Client(args, s) = Client(args, s)
  BY <1>4, <1>6, Zenon DEF Abstract!Client, Client
<1>8. \A args : /\ Abstract!Ping(args) = Ping(args) /\ Abstract!Echo(args) = Echo(args)
                /\ Abstract!Info(args) = Info(args) /\ Abstract!Config(args) = Config(args)
  BY <1>2, Zenon
     DEF Abstract!Ping, Ping, Abstract!Echo, Echo, Abstract!Info, Info, Abstract!Config, Config
<1>9. /\ Abstract!StorageCommands = StorageCommands
      /\ \A name, n : Abstract!ArityOk(name, n) = ArityOk(name, n)
      /\ \A name : Abstract!StorageReplies(name) = StorageReplies(name)
  BY <1>2, Zenon
     DEF Abstract!StorageCommands, StorageCommands, Abstract!ArityOk, ArityOk,
         Abstract!StorageReplies, StorageReplies
<1>10. \A name, args, s : Abstract!Execute(name, args, s) = Execute(name, args, s)
  <2>1. \A S, s : {Abstract!Ok(r, s) : r \in S} = {Ok(r, s) : r \in S}
    BY <1>3
  <2>2. \A r, s : [Abstract!Ok(r, s) EXCEPT !.close = TRUE] = [Ok(r, s) EXCEPT !.close = TRUE]
    BY <1>3
  <2> SUFFICES ASSUME NEW name, NEW args, NEW s
               PROVE  Abstract!Execute(name, args, s) = Execute(name, args, s)
    OBVIOUS
  <2>3. CASE name \in {"HELLO", "CLIENT", "QUIT", "PING", "ECHO", "INFO", "CONFIG"}
    BY <1>2, <1>3, <1>5, <1>7, <1>8, <2>2, <2>3
       DEF Abstract!Execute, Execute, Abstract!StorageCommands, StorageCommands
  <2>4. CASE name \in StorageCommands
    <3>1. Execute(name, args, s) = IF ArityOk(name, Len(args))
                                   THEN {Ok(r, s) : r \in StorageReplies(name)}
                                   ELSE {Failed("arity", s)}
      BY <2>4 DEF Execute, StorageCommands
    <3>2. Abstract!Execute(name, args, s) = IF Abstract!ArityOk(name, Len(args))
                                   THEN {Abstract!Ok(r, s) : r \in Abstract!StorageReplies(name)}
                                   ELSE {Abstract!Failed("arity", s)}
      BY <2>4 DEF Abstract!Execute, Abstract!StorageCommands, StorageCommands
    <3>3. {Abstract!Ok(r, s) : r \in Abstract!StorageReplies(name)}
            = {Ok(r, s) : r \in StorageReplies(name)}
      <4>1. Abstract!StorageReplies(name) = StorageReplies(name)
        BY <1>9
      <4> QED
        BY <1>3, <4>1
    <3> QED
      BY <1>4, <1>9, <3>1, <3>2, <3>3, Zenon
  <2>5. CASE name \notin {"HELLO", "CLIENT", "QUIT", "PING", "ECHO", "INFO", "CONFIG"}
                           \cup StorageCommands
    <3>1. Execute(name, args, s) = {Failed("unknown command", s)}
      BY <2>5 DEF Execute
    <3>2. Abstract!Execute(name, args, s) = {Abstract!Failed("unknown command", s)}
      BY <2>5 DEF Abstract!Execute, Abstract!StorageCommands, StorageCommands
    <3> QED
      BY <1>4, <3>1, <3>2, Zenon
  <2> QED
    BY <2>3, <2>4, <2>5
<1>11. \A f, p : (Abstract!IsCommand(f, p) <=> IsCommand(f, p))
  BY Zenon DEF Abstract!IsCommand, IsCommand, Abstract!Accepted, Accepted,
            Abstract!NameTypes, NameTypes, Abstract!PlainArgs, PlainArgs,
            Abstract!Resp3Args, Resp3Args, Abstract!Resp3, Resp3
<1>12. \A f : Abstract!Refusal(f) = Refusal(f)
  BY Zenon DEF Abstract!Refusal, Refusal, Abstract!NameTypes, NameTypes
<1>13. \A f, s : Abstract!Outcomes(f, s) = Outcomes(f, s)
  BY <1>4, <1>10, <1>11, <1>12, Zenon DEF Abstract!Outcomes, Outcomes
<1> QED
  BY <1>1, <1>13

LEMMA StepRefines ==
  ASSUME NEW Stages, Delimits(Stages), DInv(Stages), [Next]_vars
  PROVE  [Abstract!Next]_<<asked, answers, state, ~Open>>
<1>1. CASE ClientStep
  <2>1. UNCHANGED <<answers, state, phase>> /\ (~Open)' = (~Open)
    BY <1>1 DEF ClientStep, Begin, Continue, HangUp, Open
  <2>2. CASE asked' = asked
    BY <2>1, <2>2
  <2>3. CASE \E f \in Frames : asked' = Append(asked, f)
    <3>1. Abstract!Ask
      BY <2>1, <2>3 DEF Abstract!Ask, Frames
    <3> QED
      BY <3>1 DEF Abstract!Next
  <2> QED
    BY <1>1, <2>2, <2>3, ClientAsks
<1>2. ASSUME UNCHANGED <<sent, rest, hungup>> PROVE asked' = asked
  BY <1>2 DEF asked, Complete
<1>3. CASE ReadScalar \/ ReadInline \/ ReadHeader \/ ReadOn \/ Return \/ ReadMalformed
  <2>1. /\ UNCHANGED <<sent, rest, hungup, state, answers>>
        /\ phase = "reading" /\ phase' \in {"reading", "running"}
    BY <1>3 DEF ReadScalar, ReadInline, ReadHeader, ReadOn, Return, ReadMalformed, ReadLine,
                Reading, Give
  <2> QED
    BY <1>2, <2>1 DEF Open
<1>4. CASE Run
  <2>1. PICK o \in Outcomes(frame, state) :
          /\ state' = o.state
          /\ IF Encodable(o)
             THEN /\ answers' = Append(answers, [reply |-> o.reply, attribute |-> SendsAttribute(o),
                                                 proto |-> o.state.proto])
                  /\ phase' = IF o.close THEN "closed" ELSE "reading"
             ELSE phase' = "failed" /\ UNCHANGED answers
    BY <1>4 DEF Run
  <2>2. Proper(o, state)
    BY OutcomesProper DEF DInv, IInv, Talking
  <2>3. Encodable(o)
    BY <2>2 DEF Proper, Encodable, Resp3Only
  <2>4. SendsAttribute(o) = o.attribute
    BY <2>2, Zenon DEF Proper, SendsAttribute
  <2>5. /\ answers' = Append(answers, [reply |-> o.reply, attribute |-> o.attribute,
                                       proto |-> o.state.proto])
        /\ phase' = IF o.close THEN "closed" ELSE "reading"
    BY <2>1, <2>3, <2>4, Zenon
  <2>6. /\ phase = "running" /\ UNCHANGED <<sent, rest, hungup>>
    BY <1>4 DEF Run
  <2>7. Len(answers) < Len(asked) /\ asked[Len(answers) + 1] = frame
    BY <2>6, RunsNext
  <2>8. Open /\ (~Open)' = o.close /\ asked' = asked
    BY <1>2, <2>2, <2>5, <2>6 DEF Open, Proper
  <2>9. Abstract!Answer
    BY <2>1, <2>5, <2>7, <2>8, SameCommands DEF Abstract!Answer
  <2> QED
    BY <2>9 DEF Abstract!Next
<1>5. CASE Eof \/ IdleTimeout \/ RefusalFails
  <2>1. UNCHANGED <<sent, rest, hungup, state, answers>> /\ Open /\ ~Open'
    BY <1>5 DEF Eof, IdleTimeout, RefusalFails, Waiting, Reading, Close, Open
  <2>2. Abstract!End
    BY <1>2, <2>1 DEF Abstract!End
  <2> QED
    BY <2>2 DEF Abstract!Next
<1>6. CASE WriteFails
  <2>1. UNCHANGED <<sent, rest, hungup, answers>> /\ Open /\ ~Open' /\ phase = "running"
    BY <1>6 DEF WriteFails, Open
  <2>2. \E o \in Outcomes(frame, state) : state' = o.state
    BY <1>6 DEF WriteFails
  <2>3. Len(answers) < Len(asked) /\ asked[Len(answers) + 1] = frame
    BY <2>1, RunsNext
  <2>4. Abstract!End
    BY <1>2, <2>1, <2>2, <2>3, SameCommands DEF Abstract!End
  <2> QED
    BY <2>4 DEF Abstract!Next
<1>8. CASE ReadError
  <2>1. UNCHANGED <<sent, rest, hungup, state, answers>> /\ Open /\ Open'
    BY <1>8 DEF ReadError, Reading, Open
  <2> QED
    BY <1>2, <2>1
<1>7. CASE UNCHANGED vars
  BY <1>2, <1>7 DEF vars, Open
<1> QED
  BY <1>1, <1>3, <1>4, <1>5, <1>6, <1>7, <1>8 DEF Next, ServerStep

(* ImplementsSession: where requests are delimited, what the decoder and    *)
(* the loop do with lines is what Session does with whole requests.         *)
THEOREM SessionRefinement ==
  ASSUME NEW Stages, Delimits(Stages)
  PROVE  Spec => ImplementsSession
<1>1. Init => Abstract!Init
  <2> SUFFICES ASSUME Init PROVE Abstract!Init
    OBVIOUS
  <2>1. Complete = 0 /\ ~(hungup /\ rest # <<>>) /\ Open
    BY DEF Init, Complete, Open
  <2>2. asked = <<>>
    BY <2>1, AskedIs DEF FramesOf
  <2> QED
    BY <2>1, <2>2, SameCommands DEF Init, Abstract!Init
<1>2. DInv(Stages) /\ [Next]_vars => [Abstract!Next]_<<asked, answers, state, ~Open>>
  BY StepRefines
<1>3. Spec => []DInv(Stages)
  BY DecoderInvariant
<1> QED
  BY <1>1, <1>2, <1>3, PTL DEF Spec, ImplementsSession, Abstract!Spec
=============================================================================
