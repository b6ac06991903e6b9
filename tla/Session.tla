------------------------------- MODULE Session -------------------------------
(***************************************************************************)
(* What a connection promises to its client, with no bytes in it: whole    *)
(* requests are asked one after the other and answered one after the       *)
(* other, each in the state the answers before it have left, until the     *)
(* session ends.  Nothing is answered twice, out of turn or half, and      *)
(* nothing is answered after the end.                                      *)
(***************************************************************************)
EXTENDS Commands

CONSTANT
  Frames      \* the requests, as frames or as Malformed

VARIABLES
  asked,      \* the requests, in the order of their arrival
  answers,    \* the outcomes, in the order in which they are sent
  state,      \* the session: its protocol and the client's name
  over        \* has the session ended?

Init ==
  /\ asked = <<>> /\ answers = <<>>
  /\ state = Fresh
  /\ over = FALSE

Ask ==
  /\ \E f \in Frames : asked' = Append(asked, f)
  /\ UNCHANGED <<answers, state, over>>

(* The reply to QUIT is the last one. *)
Answer ==
  /\ ~over /\ Len(answers) < Len(asked)
  /\ \E o \in Outcomes(asked[Len(answers) + 1], state) :
       /\ answers' = Append(answers, [reply |-> o.reply, attribute |-> o.attribute,
                                      proto |-> o.state.proto])
       /\ state' = o.state
       /\ over' = o.close
  /\ UNCHANGED asked

(* The session may end at any time, also after the next request has taken   *)
(* effect and before it is answered.                                        *)
End ==
  /\ ~over /\ over' = TRUE
  /\ \/ UNCHANGED state
     \/ /\ Len(answers) < Len(asked)
        /\ \E o \in Outcomes(asked[Len(answers) + 1], state) : state' = o.state
  /\ UNCHANGED <<asked, answers>>

Next == Ask \/ Answer \/ End

Spec == Init /\ [][Next]_<<asked, answers, state, over>>
=============================================================================
