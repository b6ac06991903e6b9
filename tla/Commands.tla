------------------------------ MODULE Commands ------------------------------
(***************************************************************************)
(* From a decoded frame to a reply: the conversion of a frame into a       *)
(* command and the handlers of src/src/command/mod.rs, for one session.    *)
(*                                                                         *)
(* An element is [type, word]: the type of its frame and, for a scalar,    *)
(* the bytes it converts to.  A frame is [type, items], and a command is   *)
(* an "array" of elements.  The state of a session is [proto, name].  What *)
(* a storage command finds is left open: such a command has one outcome    *)
(* for every kind of reply its handler can give.                           *)
(***************************************************************************)
EXTENDS Integers, Sequences, SequencesExt

CONSTANTS
  NoName,    \* a client that has not set its name
  ClientId,  \* the number of this connection
  Malformed  \* what is decoded when no frame can be

Resp2 == 2
Resp3 == 3

Fresh == [proto |-> Resp2, name |-> NoName]     \* ConnectionState::default
-----------------------------------------------------------------------------
(* Outcomes: the reply, its attribute, whether the connection closes, and   *)
(* the state the session is in from then on.                                *)
Reply(type, word) == [type |-> type, word |-> word]

Ok(r, s) == [reply |-> r, attribute |-> FALSE, close |-> FALSE, state |-> s]

Failed(message, s) == Ok(Reply("error", message), s)

-----------------------------------------------------------------------------
(* Command::from_frame_with_protocol and to_arg_bytes.                      *)
NameTypes == {"simple", "bulk"}
PlainArgs == {"bulk", "simple", "integer"}
Resp3Args == {"boolean", "double", "bignum", "verbatim"}

Accepted(e, proto) ==
  e.type \in PlainArgs \/ (proto = Resp3 /\ e.type \in Resp3Args)

IsCommand(f, proto) ==
  /\ f.type = "array" /\ f.items # <<>>
  /\ f.items[1].type \in NameTypes
  /\ \A i \in 2 .. Len(f.items) : Accepted(f.items[i], proto)

Refusal(f) ==
  IF f.type # "array" THEN "not an array"
  ELSE IF f.items = <<>> THEN "missing command"
  ELSE IF f.items[1].type \notin NameTypes THEN "command name"
  ELSE "argument"

-----------------------------------------------------------------------------
(* The handlers of the session: hello, client and its subcommands.          *)
(* Wrong: the version is stored before it is checked. *)
HelloStoresFirst(args, s) ==
  IF Len(args) > 1 THEN Failed("arity", s)
  ELSE IF args = <<"3">>
       THEN Ok(Reply("map", ClientId), [s EXCEPT !.proto = Resp3])
       ELSE IF args \in {<<>>, <<"2">>}
            THEN Ok(Reply("simple", "OK"), [s EXCEPT !.proto = Resp2])
            ELSE Failed("version", [s EXCEPT !.proto = Resp2])

(* Wrong: the protocol stays what it was. *)
HelloForgets(args, s) ==
  IF Len(args) > 1 THEN Failed("arity", s)
  ELSE IF args = <<"3">> THEN Ok(Reply("map", ClientId), s)
       ELSE IF args \in {<<>>, <<"2">>} THEN Ok(Reply("simple", "OK"), s)
            ELSE Failed("version", s)

Hello(args, s) ==
  IF Len(args) > 1 THEN Failed("arity", s)
  ELSE IF args = <<"3">>
       THEN Ok(Reply("map", ClientId), [s EXCEPT !.proto = Resp3])
       ELSE IF args \in {<<>>, <<"2">>}
            THEN Ok(Reply("simple", "OK"), [s EXCEPT !.proto = Resp2])
            ELSE Failed("version", s)

SetName(args, s) ==
  IF Len(args) # 1 THEN Failed("arity", s)
  ELSE Ok(Reply("simple", "OK"), [s EXCEPT !.name = args[1]])

GetName(args, s) ==
  IF args # <<>> THEN Failed("arity", s)
  ELSE IF s.name = NoName THEN Ok(Reply("null", ""), s)
  ELSE Ok(Reply("bulk", s.name), s)

(* Wrong: the attribute is made for RESP2 clients. *)
ListSwapped(args, s) ==
  IF args # <<>> THEN Failed("arity", s)
  ELSE [Ok(Reply("simple", "summary"), s) EXCEPT !.attribute = s.proto = Resp2]

ListClients(args, s) ==
  IF args # <<>> THEN Failed("arity", s)
  ELSE [Ok(Reply("simple", "summary"), s)
          EXCEPT !.attribute = s.proto = Resp3]

Id(args, s) ==
  IF args # <<>> THEN Failed("arity", s) ELSE Ok(Reply("integer", ClientId), s)

Client(args, s) ==
  IF args = <<>> THEN Failed("arity", s)
  ELSE CASE args[1] = "SETNAME" -> SetName(Tail(args), s)
         [] args[1] = "GETNAME" -> GetName(Tail(args), s)
         [] args[1] = "LIST"    -> ListClients(Tail(args), s)
         [] args[1] = "ID"      -> Id(Tail(args), s)
         [] OTHER               -> Failed("subcommand", s)

-----------------------------------------------------------------------------
(* The handlers that need no state of the session.                          *)
Ping(args) ==
  CASE Len(args) = 0 -> Reply("simple", "PONG")
    [] Len(args) = 1 -> Reply("bulk", args[1])
    [] OTHER         -> Reply("error", "arity")

Echo(args) ==
  IF Len(args) # 1 THEN Reply("error", "arity") ELSE Reply("bulk", args[1])

Info(args) ==
  IF Len(args) > 1 THEN Reply("error", "arity")
  ELSE IF args \in {<<>>, <<"server">>, <<"default">>} THEN Reply("bulk", "info")
  ELSE Reply("error", args[1])

Config(args) ==
  IF Len(args) # 2 THEN Reply("error", "arity")
  ELSE IF args[1] # "GET" THEN Reply("error", "subcommand")
  ELSE Reply("array", "entries")

(* How many arguments each storage command takes, and what it may reply.    *)
StorageCommands ==
  {"SET", "GET", "DEL", "EXISTS", "INCR", "DECR", "MGET", "MSET", "EXPIRE", "TTL"}

ArityOk(name, n) ==
  CASE name = "SET"                             -> n >= 2
    [] name \in {"GET", "INCR", "DECR", "TTL"}  -> n = 1
    [] name \in {"DEL", "EXISTS", "MGET"}       -> n >= 1
    [] name = "MSET"                            -> n >= 1 /\ n % 2 = 0
    [] name = "EXPIRE"                          -> n = 2

StorageReplies(name) ==
  CASE name \in {"SET", "MSET"}                 -> {Reply("simple", "OK")}
    [] name = "GET"                             -> {Reply("bulk", "value"), Reply("null", "")}
    [] name = "MGET"                            -> {Reply("array", "values")}
    [] name \in {"DEL", "EXISTS", "TTL"}        -> {Reply("integer", "count")}
    [] name \in {"INCR", "DECR", "EXPIRE"}      ->
         {Reply("integer", "count"), Reply("error", "integer")}

-----------------------------------------------------------------------------
(* execute. *)
Execute(name, args, s) ==
  CASE name = "HELLO"  -> {Hello(args, s)}
    [] name = "CLIENT" -> {Client(args, s)}
    [] name = "QUIT"   -> {[Ok(Reply("simple", "OK"), s) EXCEPT !.close = TRUE]}
    [] name = "PING"   -> {Ok(Ping(args), s)}
    [] name = "ECHO"   -> {Ok(Echo(args), s)}
    [] name = "INFO"   -> {Ok(Info(args), s)}
    [] name = "CONFIG" -> {Ok(Config(args), s)}
    [] name \in StorageCommands ->
         IF ArityOk(name, Len(args))
         THEN {Ok(r, s) : r \in StorageReplies(name)}
         ELSE {Failed("arity", s)}
    [] OTHER           -> {Failed("unknown command", s)}

(* What may be answered, in state s, to a frame that has been decoded, or   *)
(* to the failure to decode one.                                            *)
Outcomes(f, s) ==
  IF f = Malformed THEN {Failed("malformed frame", s)}
  ELSE IF ~IsCommand(f, s.proto) THEN {Failed(Refusal(f), s)}
  ELSE LET args == [i \in 1 .. Len(f.items) - 1 |-> f.items[i + 1].word]
       IN  Execute(f.items[1].word, args, s)
=============================================================================
