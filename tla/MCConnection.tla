---------------------------- MODULE MCConnection ----------------------------
(* The requests of the runs of Connection.                                  *)
EXTENDS Connection

Scalar(type, word) == [kind |-> "scalar", type |-> type, word |-> word]
Header(type, n) == [kind |-> "open", type |-> type, n |-> n]
Inline(words) == [kind |-> "inline", words |-> words]
RunOn(line) == [kind |-> "runon", becomes |-> line]

Frame(type, elements) == [type |-> type, items |-> elements]

(* An array of bulk strings, the usual form of a command. *)
Bulks(words) == [i \in DOMAIN words |-> Reply("bulk", words[i])]

Plain(words) ==
  [lines |-> <<Header("array", Len(words))>>
               \o [i \in DOMAIN words |-> Scalar("bulk", words[i])],
   frame |-> Frame("array", Bulks(words))]

Typed(name, type, word) ==
  [lines |-> <<Header("array", 2), Scalar("simple", name), Scalar(type, word)>>,
   frame |-> Frame("array", <<Reply("simple", name), Reply(type, word)>>)]

(* Requests that change the state of the session, or ask for it. *)
Session2 == {Plain(<<"HELLO", "3">>), Plain(<<"HELLO", "2">>), Plain(<<"HELLO", "9">>)}

Naming == {Plain(<<"CLIENT", "SETNAME", "bob">>), Plain(<<"CLIENT", "GETNAME">>),
           Plain(<<"CLIENT", "LIST">>)}

(* Aggregates as arguments, one inside the other, two of which end at once; *)
(* a null aggregate, a top-level scalar and a map in place of a command.    *)
Nested ==
  {[lines |-> <<Header("array", 2), Scalar("bulk", "GET"), Header("map", 1),
                Scalar("bulk", "a"), Header("array", 0)>>,
    frame |-> Frame("array", <<Reply("bulk", "GET"), Reply("map", "")>>)],
   [lines |-> <<Header("map", 1), Scalar("bulk", "GET"), Scalar("bulk", "a")>>,
    frame |-> Frame("map", Bulks(<<"GET", "a">>))],
   [lines |-> <<Header("array", 2), Scalar("bulk", "PING"), Header("array", -1)>>,
    frame |-> Frame("array", <<Reply("bulk", "PING"), Reply("null", "")>>)],
   [lines |-> <<Scalar("bulk", "PING")>>, frame |-> Frame("scalar", Bulks(<<"PING">>))]}

(* Malformed requests that end with the line that is malformed. *)
OneBadLine ==
  {[lines |-> <<Bad(<<>>)>>, frame |-> Malformed],
   [lines |-> <<Header("array", MaxItems + 1)>>, frame |-> Malformed],
   [lines |-> <<Header("push", -1)>>, frame |-> Malformed],
   [lines |-> <<Header("array", 2), Scalar("bulk", "PING"), Bad(<<>>)>>, frame |-> Malformed]}

(* Lines that are read with the next one: a payload with a line break in    *)
(* it, payloads that are shorter than their headers say, by one line and by *)
(* two, and an empty line before an inline command, whose name begins with  *)
(* the line feed then.                                                      *)
TwoLines ==
  {[lines |-> <<Header("array", 2), Scalar("bulk", "ECHO"), RunOn(Scalar("bulk", "lines")),
                Inline(<<"a">>)>>,
    frame |-> Frame("array", Bulks(<<"ECHO", "lines">>))],
   [lines |-> <<Header("array", 2), RunOn(Bad(<<>>)), Scalar("bulk", "a")>>,
    frame |-> Malformed],
   [lines |-> <<RunOn(RunOn(Bad(<<>>))), Scalar("bulk", "a"), Inline(<<"a">>)>>,
    frame |-> Malformed],
   [lines |-> <<RunOn(Inline(<<"newline PING">>)), Inline(<<"PING">>)>>,
    frame |-> Frame("array", Bulks(<<"newline PING">>))]}

(* A malformed line with more of its request behind it, a payload that is   *)
(* longer than its header says, and one that is shorter and ends within the *)
(* line after it.                                                           *)
BadInside ==
  {[lines |-> <<Header("array", 3), Scalar("bulk", "MGET"), Bad(<<>>), Scalar("bulk", "a")>>,
    frame |-> Malformed],
   [lines |-> <<Header("array", 2), Scalar("bulk", "GET"), Bad(<<Inline(<<"a">>)>>)>>,
    frame |-> Malformed],
   [lines |-> <<Header("array", 2), RunOn(Bad(<<Inline(<<"a">>)>>)), Scalar("bulk", "a")>>,
    frame |-> Malformed]}

WellFormed ==
  Session2 \cup Naming \cup
  {Plain(<<"GET", "a">>), Plain(<<"QUIT">>), Typed("ECHO", "boolean", "true"),
   [lines |-> <<Inline(<<"PING">>)>>, frame |-> Frame("array", Bulks(<<"PING">>))]}

(* Every command, with as many arguments as it takes, and with others. *)
OneLine(words) == [lines |-> <<Inline(words)>>, frame |-> Frame("array", Bulks(words))]

EveryCommand ==
  {OneLine(<<c>>) : c \in {"PING", "ECHO", "HELLO", "INFO", "CONFIG", "CLIENT", "QUIT", "NONE"}
                           \cup StorageCommands} \cup
  {OneLine(<<c, "a">>) : c \in {"PING", "ECHO", "INFO", "CLIENT"} \cup StorageCommands} \cup
  {OneLine(<<c, "a", "b">>) : c \in {"PING", "ECHO", "HELLO", "INFO", "CONFIG"}
                                     \cup StorageCommands} \cup
  {OneLine(<<"CLIENT", c>>) : c \in {"SETNAME", "GETNAME", "LIST", "ID"}} \cup
  {OneLine(<<"CLIENT", c, "bob">>) : c \in {"SETNAME", "GETNAME", "LIST", "ID"}} \cup
  {OneLine(<<"CONFIG", "GET", "save">>), OneLine(<<"INFO", "server">>)} \cup
  {OneLine(<<"HELLO", v>>) : v \in {"2", "3", "9"}} \cup
  {Typed("ECHO", type, "word") : type \in {"integer"} \cup Resp3Args}

AllRequests == WellFormed \cup Nested \cup OneBadLine \cup TwoLines

EveryRequest == EveryCommand \cup AllRequests

(* The lines of the requests, and what is left of them. *)
LinesOf ==
  UNION {{r.lines[i] : i \in DOMAIN r.lines} : r \in Requests}
    \cup {Bad(<<>>), Bad(<<Inline(<<"a">>)>>), RunOn(Bad(<<>>)), Inline(<<"a">>),
          Inline(<<"newline PING">>), Scalar("bulk", "lines")}

MalformedRequests == BadInside \cup OneBadLine \cup {Plain(<<"PING">>), Plain(<<"HELLO", "3">>)}
=============================================================================
