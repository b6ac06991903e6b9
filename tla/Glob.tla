-------------------------------- MODULE Glob --------------------------------
(***************************************************************************)
(* matches_pattern of src/src/command/mod.rs, which selects the keys of    *)
(* CONFIG GET: a loop over the key that remembers the last star of the     *)
(* pattern and comes back to it.  One action is one turn of one of its two *)
(* loops.  Indices count from 0, as in the code.                           *)
(***************************************************************************)
EXTENDS Naturals, Sequences

CONSTANTS
  Chars,      \* the bytes of patterns and keys, the star excepted
  Star,       \* '*'
  MaxPattern, \* model bound: length of a pattern
  MaxKey      \* model bound: length of a key

(* The keys of config_entries contain no star. *)
ASSUME GlobAssumption ==
  Star \notin Chars /\ MaxPattern \in Nat /\ MaxKey \in Nat

Words(alphabet, n) == UNION {[1 .. k -> alphabet] : k \in 0 .. n}

VARIABLES
  pattern, key,   \* the arguments
  patternIndex,   \* how far they have been matched
  keyIndex,
  starIndex,      \* Some(index) of the last star as {index}, None as {}
  starMatchIndex, \* how far that star reaches in the key
  result          \* "none" until the function returns

vars == <<pattern, key, patternIndex, keyIndex, starIndex, starMatchIndex, result>>

P(i) == pattern[i + 1]
K(i) == key[i + 1]

Init ==
  /\ pattern \in Words(Chars \cup {Star}, MaxPattern)
  /\ key \in Words(Chars, MaxKey)
  /\ patternIndex = 0 /\ keyIndex = 0
  /\ starIndex = {} /\ starMatchIndex = 0
  /\ result = "none"

Return(answer) ==
  result' = answer /\ UNCHANGED <<pattern, key, patternIndex, keyIndex, starIndex, starMatchIndex>>

InKey == result = "none" /\ pattern # <<>> /\ keyIndex < Len(key)

EmptyPattern == result = "none" /\ pattern = <<>> /\ Return("no")

SameByte == patternIndex < Len(pattern) /\ P(patternIndex) = K(keyIndex)

AtStar == patternIndex < Len(pattern) /\ P(patternIndex) = Star

Advance ==
  /\ InKey /\ SameByte
  /\ patternIndex' = patternIndex + 1
  /\ keyIndex' = keyIndex + 1
  /\ UNCHANGED <<pattern, key, starIndex, starMatchIndex, result>>

SeeStar ==
  /\ InKey /\ ~SameByte /\ AtStar
  /\ starIndex' = {patternIndex}
  /\ patternIndex' = patternIndex + 1
  /\ starMatchIndex' = keyIndex
  /\ UNCHANGED <<pattern, key, keyIndex, result>>

(* Wrong: the star skips a byte. *)
BackSkips ==
  /\ InKey /\ ~SameByte /\ ~AtStar
  /\ \E star \in starIndex : patternIndex' = star + 1
  /\ keyIndex' = starMatchIndex + 2
  /\ starMatchIndex' = starMatchIndex + 1
  /\ UNCHANGED <<pattern, key, starIndex, result>>

(* Wrong: the star is tried again where it has been tried. *)
BackInPlace ==
  /\ InKey /\ ~SameByte /\ ~AtStar
  /\ \E star \in starIndex : patternIndex' = star + 1
  /\ keyIndex' = starMatchIndex
  /\ UNCHANGED <<pattern, key, starIndex, starMatchIndex, result>>

(* Wrong: the byte that does not match is left to the star. *)
BackTooFar ==
  /\ InKey /\ ~SameByte /\ ~AtStar
  /\ \E star \in starIndex : patternIndex' = star + 1
  /\ keyIndex' = keyIndex + 1
  /\ starMatchIndex' = keyIndex + 1
  /\ UNCHANGED <<pattern, key, starIndex, result>>

(* The star takes one byte more, and what follows it is matched anew.       *)
Back ==
  /\ InKey /\ ~SameByte /\ ~AtStar
  /\ \E star \in starIndex : patternIndex' = star + 1
  /\ keyIndex' = starMatchIndex + 1
  /\ starMatchIndex' = starMatchIndex + 1
  /\ UNCHANGED <<pattern, key, starIndex, result>>

Mismatch ==
  /\ InKey /\ ~SameByte /\ ~AtStar
  /\ starIndex = {}
  /\ Return("no")

AtEnd == result = "none" /\ pattern # <<>> /\ keyIndex = Len(key)

TrailingStar ==
  /\ AtEnd /\ AtStar
  /\ patternIndex' = patternIndex + 1
  /\ UNCHANGED <<pattern, key, keyIndex, starIndex, starMatchIndex, result>>

Finish == AtEnd /\ ~AtStar /\ Return(IF patternIndex = Len(pattern) THEN "yes" ELSE "no")

Next ==
  \/ EmptyPattern \/ Advance \/ SeeStar \/ Back \/ Mismatch \/ TrailingStar \/ Finish

Spec == Init /\ [][Next]_vars
FairSpec == Spec /\ WF_vars(Next)
-----------------------------------------------------------------------------
(* What it is to match: the key can be cut into one piece for each byte of  *)
(* the pattern, any piece for a star and the byte itself for another one.   *)
(* cut[i] is where the piece of the i-th byte ends.                         *)
IsCut(cut, p, k) ==
  /\ cut[0] = 0 /\ cut[Len(p)] = Len(k)
  /\ \A i \in 1 .. Len(p) :
       IF p[i] = Star THEN cut[i - 1] <= cut[i]
       ELSE cut[i] = cut[i - 1] + 1 /\ cut[i] \in DOMAIN k /\ k[cut[i]] = p[i]

Matches(p, k) == \E cut \in [0 .. Len(p) -> 0 .. Len(k)] : IsCut(cut, p, k)

(* Type invariant: no index leaves its string. *)
TypeOK ==
  /\ patternIndex \in 0 .. Len(pattern) /\ keyIndex \in 0 .. Len(key)
  /\ \A star \in starIndex : star \in 0 .. Len(pattern) - 1 /\ P(star) = Star
  /\ starMatchIndex \in 0 .. Len(key)
  /\ result \in {"none", "yes", "no"}

(* CONFIG GET finds the keys its pattern matches, and no other: backing up  *)
(* to the last star only loses no match.  The empty pattern matches none.   *)
FindsMatches ==
  result # "none" => (result = "yes" <=> pattern # <<>> /\ Matches(pattern, key))

(* It comes to an end for every pattern, however many stars there are.      *)
Terminates == <>(result # "none")
=============================================================================
