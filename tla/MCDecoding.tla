----------------------------- MODULE MCDecoding -----------------------------
(* The requests of MCConnection, and that all of them but those of          *)
(* MalformedRequests are delimited.                                         *)
EXTENDS MCConnection, Decoding

(* The stages that the decoder goes through from d to the end of the        *)
(* request, or to where it would block.                                     *)
RECURSIVE Through(_)
Through(d) ==
  {d} \cup
    IF (Full(d.stack) \/ d.lines # <<>>) /\ Turn(d).frame = NoFrame
    THEN Through(Stage(d.request, Turn(d).stack, Turn(d).begun, Turn(d).lines))
    ELSE {}

StagesOfRequests == UNION {Through(Begun(r)) : r \in Requests}

ASSUME RequestsAreDelimited == Delimits(StagesOfRequests)
=============================================================================
