----------------------------- MODULE GlobProofs -----------------------------
(***************************************************************************)
(* matches_pattern finds exactly the keys its pattern matches, for every   *)
(* alphabet and all lengths of patterns and keys.                          *)
(*                                                                         *)
(* A "yes" is right because what has been matched so far has a cut.  A     *)
(* "no" is right because the loop is never ahead of a cut: every cut of    *)
(* the whole ends the piece of the last star where the loop tries it or    *)
(* later, so coming back to that star alone is enough.                     *)
(***************************************************************************)
EXTENDS Glob, TLAPS

(* The piece of the n-th byte of the pattern goes from a to b in the key.  *)
Piece(n, a, b) ==
  IF pattern[n] = Star THEN a <= b
  ELSE b = a + 1 /\ b \in DOMAIN key /\ key[b] = pattern[n]

(* The first j bytes of the key can be cut for the first i of the pattern. *)
IsPrefixCut(cut, i, j) ==
  /\ cut[0] = 0 /\ cut[i] = j
  /\ \A n \in 1 .. i : Piece(n, cut[n - 1], cut[n])

HasCut(i, j) == \E cut \in [0 .. i -> 0 .. j] : IsPrefixCut(cut, i, j)

Cuts == {cut \in [0 .. Len(pattern) -> 0 .. Len(key)] : IsCut(cut, pattern, key)}
-----------------------------------------------------------------------------
(* The inductive invariant. *)
Typed ==
  /\ TypeOK
  /\ pattern \in Seq(Chars \cup {Star}) /\ key \in Seq(Chars)
  /\ starMatchIndex <= keyIndex
  /\ \A s, t \in starIndex : s = t

Reached ==
  /\ HasCut(patternIndex, keyIndex)
  /\ \A star \in starIndex : HasCut(star + 1, starMatchIndex)

NotAhead ==
  \A cut \in Cuts :
    /\ cut[patternIndex] >= keyIndex
    /\ starIndex = {} => cut[patternIndex] = keyIndex
    /\ \A star \in starIndex :
         /\ cut[star + 1] >= starMatchIndex
         /\ cut[star + 1] = starMatchIndex => cut[patternIndex] = keyIndex

IInv == Typed /\ Reached /\ NotAhead /\ FindsMatches
-----------------------------------------------------------------------------
LEMMA WordsAreSequences ==
  ASSUME NEW A, NEW n \in Nat, NEW w \in Words(A, n)
  PROVE  w \in Seq(A)
<1>1. PICK k \in 0 .. n : w \in [1 .. k -> A]
  BY DEF Words
<1> QED
  BY <1>1

(* What a cut says of one byte of the pattern. *)
LEMMA CutFacts ==
  ASSUME Typed, NEW cut \in Cuts
  PROVE  /\ cut[0] = 0 /\ cut[Len(pattern)] = Len(key)
         /\ \A i \in 0 .. Len(pattern) : cut[i] \in 0 .. Len(key)
         /\ \A i \in 0 .. Len(pattern) - 1 :
              /\ P(i) = Star => cut[i] <= cut[i + 1]
              /\ P(i) # Star => /\ cut[i + 1] = cut[i] + 1
                                /\ cut[i] < Len(key) /\ K(cut[i]) = P(i)
<1>1. /\ Len(pattern) \in Nat /\ Len(key) \in Nat /\ DOMAIN key = 1 .. Len(key)
      /\ cut \in [0 .. Len(pattern) -> 0 .. Len(key)] /\ IsCut(cut, pattern, key)
  BY DEF Typed, Cuts
<1>2. ASSUME NEW i \in 0 .. Len(pattern) - 1
      PROVE  /\ P(i) = Star => cut[i] <= cut[i + 1]
             /\ P(i) # Star => /\ cut[i + 1] = cut[i] + 1
                               /\ cut[i] < Len(key) /\ K(cut[i]) = P(i)
  <2>1. i + 1 \in 1 .. Len(pattern) /\ (i + 1) - 1 = i /\ i \in 0 .. Len(pattern)
    BY <1>1
  <2>2. IF pattern[i + 1] = Star THEN cut[i] <= cut[i + 1]
        ELSE cut[i + 1] = cut[i] + 1 /\ cut[i + 1] \in DOMAIN key
             /\ key[cut[i + 1]] = pattern[i + 1]
    BY <1>1, <2>1 DEF IsCut
  <2>3. cut[i] \in 0 .. Len(key)
    BY <1>1, <2>1
  <2> QED
    BY <1>1, <2>2, <2>3 DEF P, K
<1> QED
  BY <1>1, <1>2 DEF IsCut

(* A cut of a prefix goes on over one more byte of the pattern. *)
LEMMA LongerCut ==
  ASSUME Typed, NEW i \in 0 .. Len(pattern) - 1, NEW a \in 0 .. Len(key),
         HasCut(i, a), NEW b \in 0 .. Len(key), Piece(i + 1, a, b)
  PROVE  HasCut(i + 1, b)
<1>1. /\ Len(pattern) \in Nat /\ Len(key) \in Nat
  BY DEF Typed
<1>2. a <= b
  BY <1>1 DEF Piece
<1>3. PICK cut \in [0 .. i -> 0 .. a] : IsPrefixCut(cut, i, a)
  BY DEF HasCut
<1> DEFINE longer == [n \in 0 .. i + 1 |-> IF n = i + 1 THEN b ELSE cut[n]]
<1>4. longer \in [0 .. i + 1 -> 0 .. b]
  BY <1>1, <1>2, <1>3 DEF IsPrefixCut
<1>5. longer[0] = 0 /\ longer[i + 1] = b
  BY <1>1, <1>3 DEF IsPrefixCut
<1>6. ASSUME NEW n \in 1 .. i + 1
      PROVE  Piece(n, longer[n - 1], longer[n])
  <2>1. CASE n = i + 1
    BY <1>1, <1>3, <2>1 DEF IsPrefixCut
  <2>2. CASE n # i + 1
    BY <1>1, <1>3, <2>2 DEF IsPrefixCut
  <2> QED
    BY <2>1, <2>2
<1> HIDE DEF longer
<1> QED
  BY <1>4, <1>5, <1>6 DEF HasCut, IsPrefixCut

(* The star takes one byte more. *)
LEMMA WiderStar ==
  ASSUME Typed, NEW star \in 0 .. Len(pattern) - 1, P(star) = Star,
         NEW a \in 0 .. Len(key), HasCut(star + 1, a),
         NEW b \in 0 .. Len(key), a <= b
  PROVE  HasCut(star + 1, b)
<1>1. Len(pattern) \in Nat /\ Len(key) \in Nat
  BY DEF Typed
<1>2. PICK cut \in [0 .. star + 1 -> 0 .. a] : IsPrefixCut(cut, star + 1, a)
  BY DEF HasCut
<1> DEFINE wider == [n \in 0 .. star + 1 |-> IF n = star + 1 THEN b ELSE cut[n]]
<1>3. wider \in [0 .. star + 1 -> 0 .. b]
  BY <1>1, <1>2 DEF IsPrefixCut
<1>4. wider[0] = 0 /\ wider[star + 1] = b
  BY <1>1, <1>2 DEF IsPrefixCut
<1>5. ASSUME NEW n \in 1 .. star + 1
      PROVE  Piece(n, wider[n - 1], wider[n])
  <2>1. CASE n = star + 1
    <3>1. cut[star] <= a /\ cut[star] \in 0 .. a
      BY <1>1, <1>2 DEF IsPrefixCut
    <3>2. wider[n - 1] = cut[star] /\ wider[n] = b
      BY <1>1, <2>1
    <3> QED
      BY <1>1, <2>1, <3>1, <3>2 DEF Piece, P
  <2>2. CASE n # star + 1
    BY <1>1, <1>2, <2>2 DEF IsPrefixCut
  <2> QED
    BY <2>1, <2>2
<1> HIDE DEF wider
<1> QED
  BY <1>3, <1>4, <1>5 DEF HasCut, IsPrefixCut
-----------------------------------------------------------------------------
LEMMA InitIInv == Init => IInv
<1> SUFFICES ASSUME Init PROVE IInv
  OBVIOUS
<1>1. pattern \in Seq(Chars \cup {Star}) /\ key \in Seq(Chars)
  BY WordsAreSequences, GlobAssumption DEF Init
<1>2. Typed
  BY <1>1 DEF Init, Typed, TypeOK
<1>3. Reached
  <2> DEFINE cut == [n \in 0 .. 0 |-> 0]
  <2>1. cut \in [0 .. 0 -> 0 .. 0] /\ IsPrefixCut(cut, 0, 0)
    BY DEF IsPrefixCut
  <2> QED
    BY <2>1 DEF Init, Reached, HasCut
<1>4. NotAhead
  BY <1>2, CutFacts DEF Init, NotAhead
<1>5. FindsMatches
  BY DEF Init, FindsMatches
<1> QED
  BY <1>2, <1>3, <1>4, <1>5 DEF IInv

(* The arguments do not change, nor do the cuts there are. *)
LEMMA SameArguments ==
  ASSUME UNCHANGED <<pattern, key>>
  PROVE  /\ Cuts' = Cuts
         /\ \A i, j : HasCut(i, j)' <=> HasCut(i, j)
         /\ \A i : P(i)' = P(i)
BY DEF Cuts, IsCut, HasCut, IsPrefixCut, Piece, P

LEMMA AdvanceIInv == IInv /\ Advance => IInv'
<1> SUFFICES ASSUME IInv, Advance PROVE IInv'
  OBVIOUS
<1>1. /\ Typed /\ UNCHANGED <<pattern, key, starIndex, starMatchIndex, result>>
      /\ result = "none" /\ keyIndex < Len(key) /\ patternIndex < Len(pattern)
      /\ P(patternIndex) = K(keyIndex)
      /\ patternIndex' = patternIndex + 1 /\ keyIndex' = keyIndex + 1
  BY DEF IInv, Advance, InKey, SameByte
<1>2. /\ patternIndex \in 0 .. Len(pattern) - 1 /\ keyIndex \in 0 .. Len(key) - 1
      /\ Len(pattern) \in Nat /\ Len(key) \in Nat
      /\ starMatchIndex \in 0 .. Len(key) /\ starMatchIndex <= keyIndex
  BY <1>1 DEF Typed, TypeOK
<1>3. P(patternIndex) # Star
  <2>1. K(keyIndex) \in Chars
    BY <1>1, <1>2 DEF Typed, K
  <2> QED
    BY <1>1, <2>1, GlobAssumption
<1>4. Typed'
  BY <1>1, <1>2 DEF Typed, TypeOK, P
<1>5. Reached'
  <2>1. Piece(patternIndex + 1, keyIndex, keyIndex + 1)
    BY <1>1, <1>2 DEF Piece, P, K, Typed
  <2>2. HasCut(patternIndex + 1, keyIndex + 1)
    BY <1>1, <1>2, <2>1, LongerCut DEF IInv, Reached
  <2> QED
    BY <1>1, <2>2, SameArguments DEF IInv, Reached
<1>6. NotAhead'
  BY <1>1, <1>2, <1>3, CutFacts, SameArguments DEF IInv, NotAhead
<1>7. FindsMatches'
  BY <1>1 DEF FindsMatches
<1> QED
  BY <1>4, <1>5, <1>6, <1>7 DEF IInv

LEMMA SeeStarIInv == IInv /\ SeeStar => IInv'
<1> SUFFICES ASSUME IInv, SeeStar PROVE IInv'
  OBVIOUS
<1>1. /\ Typed /\ UNCHANGED <<pattern, key, keyIndex, result>>
      /\ result = "none" /\ keyIndex < Len(key) /\ patternIndex < Len(pattern)
      /\ P(patternIndex) = Star
      /\ patternIndex' = patternIndex + 1
      /\ starIndex' = {patternIndex} /\ starMatchIndex' = keyIndex
  BY DEF IInv, SeeStar, InKey, AtStar
<1>2. /\ patternIndex \in 0 .. Len(pattern) - 1 /\ keyIndex \in 0 .. Len(key)
      /\ Len(pattern) \in Nat /\ Len(key) \in Nat
  BY <1>1 DEF Typed, TypeOK
<1>3. Typed'
  BY <1>1, <1>2 DEF Typed, TypeOK, P
<1>4. Reached'
  <2>1. Piece(patternIndex + 1, keyIndex, keyIndex)
    BY <1>1, <1>2 DEF Piece, P
  <2>2. HasCut(patternIndex + 1, keyIndex)
    BY <1>1, <1>2, <2>1, LongerCut DEF IInv, Reached
  <2> QED
    BY <1>1, <2>2, SameArguments DEF Reached
<1>5. NotAhead'
  <2> SUFFICES ASSUME NEW cut \in Cuts PROVE cut[patternIndex + 1] >= keyIndex
    BY <1>1, SameArguments DEF NotAhead
  <2> QED
    BY <1>1, <1>2, CutFacts DEF IInv, NotAhead
<1>6. FindsMatches'
  BY <1>1 DEF FindsMatches
<1> QED
  BY <1>3, <1>4, <1>5, <1>6 DEF IInv

(* Where the byte does not match and is no star, no cut passes. *)
LEMMA Stuck ==
  ASSUME IInv, InKey, ~SameByte, ~AtStar, NEW cut \in Cuts
  PROVE  cut[patternIndex] # keyIndex
<1>1. /\ Typed /\ patternIndex \in 0 .. Len(pattern)
      /\ keyIndex < Len(key) /\ Len(pattern) \in Nat
  BY DEF IInv, Typed, TypeOK, InKey
<1>2. CASE patternIndex = Len(pattern)
  BY <1>1, <1>2, CutFacts
<1>3. CASE patternIndex # Len(pattern)
  BY <1>1, <1>3, CutFacts DEF SameByte, AtStar
<1> QED
  BY <1>2, <1>3

LEMMA BackIInv == IInv /\ Back => IInv'
<1> SUFFICES ASSUME IInv, Back PROVE IInv'
  OBVIOUS
<1>1. PICK star \in starIndex : patternIndex' = star + 1
  BY DEF Back
<1>2. /\ Typed /\ UNCHANGED <<pattern, key, starIndex, result>>
      /\ result = "none" /\ keyIndex < Len(key)
      /\ keyIndex' = starMatchIndex + 1 /\ starMatchIndex' = starMatchIndex + 1
  BY DEF IInv, Back, InKey
<1>3. /\ keyIndex \in 0 .. Len(key) /\ starMatchIndex \in 0 .. Len(key)
      /\ starMatchIndex <= keyIndex
      /\ Len(pattern) \in Nat /\ Len(key) \in Nat
      /\ \A s \in starIndex : s \in 0 .. Len(pattern) - 1 /\ P(s) = Star
  BY <1>2 DEF Typed, TypeOK
<1>4. starMatchIndex + 1 \in 0 .. Len(key)
  BY <1>2, <1>3
<1>5. Typed'
  BY <1>1, <1>2, <1>3, <1>4 DEF Typed, TypeOK, P
<1>6. Reached'
  <2>1. ASSUME NEW s \in starIndex
        PROVE  HasCut(s + 1, starMatchIndex + 1)
    <3>1. HasCut(s + 1, starMatchIndex)
      BY DEF IInv, Reached
    <3>2. s \in 0 .. Len(pattern) - 1 /\ P(s) = Star /\ starMatchIndex <= starMatchIndex + 1
      BY <1>3
    <3> QED
      BY <1>2, <1>3, <1>4, <3>1, <3>2, WiderStar
  <2> QED
    BY <1>1, <1>2, <2>1, SameArguments DEF Reached
<1>7. NotAhead'
  <2>1. ASSUME NEW cut \in Cuts, NEW s \in starIndex
        PROVE  cut[s + 1] >= starMatchIndex + 1
    <3>1. cut[patternIndex] # keyIndex
      BY <1>2, Stuck DEF Back
    <3>2. cut[s + 1] >= starMatchIndex /\ cut[s + 1] # starMatchIndex
      BY <3>1 DEF IInv, NotAhead
    <3>3. cut[s + 1] \in Nat
      BY <1>2, <1>3, CutFacts
    <3> QED
      BY <1>3, <3>2, <3>3
  <2>2. \A s \in starIndex : s = star
    BY <1>2 DEF Typed
  <2> QED
    BY <1>1, <1>2, <2>1, <2>2, SameArguments DEF NotAhead
<1>8. FindsMatches'
  BY <1>2 DEF FindsMatches
<1> QED
  BY <1>5, <1>6, <1>7, <1>8 DEF IInv

LEMMA TrailingStarIInv == IInv /\ TrailingStar => IInv'
<1> SUFFICES ASSUME IInv, TrailingStar PROVE IInv'
  OBVIOUS
<1>1. /\ Typed /\ UNCHANGED <<pattern, key, keyIndex, starIndex, starMatchIndex, result>>
      /\ result = "none" /\ keyIndex = Len(key)
      /\ patternIndex < Len(pattern) /\ P(patternIndex) = Star
      /\ patternIndex' = patternIndex + 1
  BY DEF IInv, TrailingStar, AtEnd, AtStar
<1>2. /\ patternIndex \in 0 .. Len(pattern) - 1 /\ keyIndex \in 0 .. Len(key)
      /\ Len(pattern) \in Nat /\ Len(key) \in Nat
  BY <1>1 DEF Typed, TypeOK
<1>3. Typed'
  BY <1>1, <1>2 DEF Typed, TypeOK, P
<1>4. Reached'
  <2>1. Piece(patternIndex + 1, keyIndex, keyIndex)
    BY <1>1, <1>2 DEF Piece, P
  <2>2. HasCut(patternIndex + 1, keyIndex)
    BY <1>1, <1>2, <2>1, LongerCut DEF IInv, Reached
  <2> QED
    BY <1>1, <2>2, SameArguments DEF IInv, Reached
<1>5. NotAhead'
  <2>1. ASSUME NEW cut \in Cuts PROVE cut[patternIndex + 1] = keyIndex
    <3>1. cut[patternIndex] >= keyIndex
      BY DEF IInv, NotAhead
    <3>2. /\ cut[patternIndex] <= cut[patternIndex + 1]
          /\ cut[patternIndex] \in 0 .. Len(key) /\ cut[patternIndex + 1] \in 0 .. Len(key)
      BY <1>1, <1>2, CutFacts
    <3> QED
      BY <1>1, <1>2, <3>1, <3>2
  <2> QED
    BY <1>1, <1>2, <2>1, SameArguments DEF IInv, NotAhead
<1>6. FindsMatches'
  BY <1>1 DEF FindsMatches
<1> QED
  BY <1>3, <1>4, <1>5, <1>6 DEF IInv

(* An answer that is right is all that a return adds. *)
LEMMA ReturnIInv ==
  ASSUME IInv, NEW answer \in {"yes", "no"}, Return(answer),
         answer = "yes" <=> pattern # <<>> /\ Matches(pattern, key)
  PROVE  IInv'
<1>1. UNCHANGED <<pattern, key, patternIndex, keyIndex, starIndex, starMatchIndex>>
  BY DEF Return
<1>2. Typed'
  BY <1>1 DEF IInv, Typed, TypeOK, P, Return
<1>3. Reached' /\ NotAhead'
  BY <1>1, SameArguments DEF IInv, Reached, NotAhead
<1>4. FindsMatches'
  BY <1>1 DEF FindsMatches, Return, Matches, IsCut
<1> QED
  BY <1>2, <1>3, <1>4 DEF IInv

LEMMA CutsAreMatches ==
  Matches(pattern, key) <=> Cuts # {}
BY DEF Matches, Cuts

LEMMA MismatchIInv == IInv /\ (Mismatch \/ EmptyPattern) => IInv'
<1> SUFFICES ASSUME IInv, Mismatch \/ EmptyPattern PROVE IInv'
  OBVIOUS
<1>1. CASE Mismatch
  <2>1. \A cut \in Cuts : cut[patternIndex] = keyIndex
    BY <1>1 DEF IInv, NotAhead, Mismatch
  <2>2. \A cut \in Cuts : cut[patternIndex] # keyIndex
    BY <1>1, Stuck DEF Mismatch
  <2>3. ~Matches(pattern, key)
    BY <2>1, <2>2, CutsAreMatches
  <2> QED
    BY <1>1, <2>3, ReturnIInv DEF Mismatch
<1>2. CASE EmptyPattern
  BY <1>2, ReturnIInv DEF EmptyPattern
<1> QED
  BY <1>1, <1>2

LEMMA FinishIInv == IInv /\ Finish => IInv'
<1> SUFFICES ASSUME IInv, Finish PROVE IInv'
  OBVIOUS
<1>1. /\ Typed /\ pattern # <<>> /\ keyIndex = Len(key) /\ ~AtStar
      /\ patternIndex \in 0 .. Len(pattern)
      /\ Len(pattern) \in Nat /\ Len(key) \in Nat
  BY DEF IInv, Finish, AtEnd, Typed, TypeOK
<1>2. CASE patternIndex = Len(pattern)
  <2>1. PICK cut \in [0 .. Len(pattern) -> 0 .. Len(key)] : IsPrefixCut(cut, Len(pattern), Len(key))
    BY <1>1, <1>2 DEF IInv, Reached, HasCut
  <2>2. IsCut(cut, pattern, key) /\ cut \in [0 .. Len(pattern) -> 0 .. Len(key)]
    BY <2>1 DEF IsPrefixCut, IsCut, Piece
  <2>3. Matches(pattern, key)
    BY <2>2 DEF Matches
  <2>4. Return("yes")
    BY <1>2 DEF Finish
  <2> QED
    BY <1>1, <2>3, <2>4, ReturnIInv
<1>3. CASE patternIndex # Len(pattern)
  <2>1. P(patternIndex) # Star /\ patternIndex \in 0 .. Len(pattern) - 1
    BY <1>1, <1>3 DEF AtStar
  <2>2. ASSUME NEW cut \in Cuts PROVE FALSE
    <3>1. cut[patternIndex] >= Len(key)
      BY <1>1 DEF IInv, NotAhead
    <3>2. cut[patternIndex] < Len(key) /\ cut[patternIndex] \in 0 .. Len(key)
      BY <1>1, <2>1, CutFacts
    <3> QED
      BY <1>1, <3>1, <3>2
  <2>3. ~Matches(pattern, key)
    BY <2>2, CutsAreMatches
  <2>4. Return("no")
    BY <1>3 DEF Finish
  <2> QED
    BY <2>3, <2>4, ReturnIInv
<1> QED
  BY <1>2, <1>3

LEMMA IInvHolds == FairSpec => []IInv
<1>1. Init => IInv
  BY InitIInv
<1>2. IInv /\ [Next]_vars => IInv'
  <2> SUFFICES ASSUME IInv, [Next]_vars PROVE IInv'
    OBVIOUS
  <2>1. CASE UNCHANGED vars
    <3>1. Typed' /\ FindsMatches'
      BY <2>1 DEF vars, IInv, Typed, TypeOK, P, FindsMatches, Matches, IsCut
    <3>2. Reached' /\ NotAhead'
      BY <2>1, SameArguments DEF vars, IInv, Reached, NotAhead
    <3> QED
      BY <3>1, <3>2 DEF IInv
  <2> QED
    BY <2>1, AdvanceIInv, SeeStarIInv, BackIInv, MismatchIInv, TrailingStarIInv,
       FinishIInv DEF Next
<1> QED
  BY <1>1, <1>2, PTL DEF FairSpec, Spec

(* No index of the loop leaves its string: the slices cannot panic.         *)
THEOREM TypeCorrect == FairSpec => []TypeOK
<1>1. IInv => TypeOK
  BY DEF IInv, Typed
<1> QED
  BY IInvHolds, <1>1, PTL

(* matches_pattern answers whether the key can be cut along the pattern,    *)
(* for every pattern, however many stars it has, and every key.             *)
THEOREM AlwaysFindsMatches == FairSpec => []FindsMatches
<1>1. IInv => FindsMatches
  BY DEF IInv
<1> QED
  BY IInvHolds, <1>1, PTL
=============================================================================
