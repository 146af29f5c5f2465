----------------------- MODULE SubscribeRequestProofs -----------------------
(***************************************************************************)
(* Proofs about SubscribeRequest, for texts and names of every length and  *)
(* any number of keys.                                                     *)
(*                                                                         *)
(* The parser and the printer are recursive functions.  That they satisfy  *)
(* their equations, and what they compute, is shown by induction on the    *)
(* natural numbers, in the form that every set with 0 and the successors   *)
(* of its elements has all of them.                                        *)
(***************************************************************************)
EXTENDS SubscribeRequest, Integers, SequenceTheorems, WellFoundedInduction, TLAPS

-----------------------------------------------------------------------------
(* INDUCTION AND RECURSION                                                 *)

(* A set of natural numbers that is not empty has a least element. *)
LEMMA LeastElement ==
  ASSUME NEW T, T \subseteq Nat, T # {}
  PROVE  \E n \in T : \A k \in T : n <= k
<1> DEFINE R == OpToRel(<, Nat)
<1>1. IsWellFoundedOn(R, Nat)
  BY NatLessThanWellFounded
<1>2. R = {p \in Nat \X Nat : p[1] < p[2]}
  BY DEF OpToRel
<1> HIDE DEF R
<1>3. PICK n \in T : \A k \in T : ~(<<k, n>> \in R)
  BY <1>1, WFMin
<1>4. ASSUME NEW k \in T PROVE n <= k
  <2>1. k \in Nat /\ n \in Nat
    OBVIOUS
  <2>2. <<k, n>> \notin R
    BY <1>3
  <2>3. ~(k < n)
    BY <1>2, <2>1, <2>2
  <2> QED
    BY <2>1, <2>3
<1> QED
  BY <1>4

(* A set that has 0 and the successors of its numbers has them all. *)
LEMMA Induction ==
  ASSUME NEW S, 0 \in S, \A n \in Nat : n \in S => n + 1 \in S
  PROVE  \A n \in Nat : n \in S
<1> SUFFICES ASSUME Nat \ S # {} PROVE FALSE
  OBVIOUS
<1>1. PICK n \in Nat \ S : \A k \in Nat \ S : n <= k
  BY LeastElement
<1>2. n # 0 /\ n - 1 \in Nat /\ n - 1 + 1 = n
  BY <1>1
<1>3. n - 1 \in S
  BY <1>1, <1>2
<1> QED
  BY <1>1, <1>2, <1>3

(* The shape of the parser's loop: at x the value is a piece and what      *)
(* follows from next[x] on.                                                *)
GoesRight(f, N, V, piece, next) ==
  f = [x \in 1 .. N |-> IF x \in V THEN <<piece[x]>> \o f[next[x]] ELSE << >>]

(* A function on 1 .. N that refers to itself at larger arguments exists:  *)
(* it is built downwards from N.                                           *)
LEMMA RecursionToTheRight ==
  ASSUME NEW N \in Nat, NEW V, NEW piece, NEW next,
         \A x \in 1 .. N : x \in V => next[x] \in x + 1 .. N
  PROVE  \E f : GoesRight(f, N, V, piece, next)
<1> DEFINE Value(g, x) == IF x \in V THEN <<piece[x]>> \o g[next[x]] ELSE << >>
           S == {n \in Nat : \E g : \A x \in 1 .. N : N - n < x => g[x] = Value(g, x)}
<1>1. 0 \in S
  BY Z3
<1>2. ASSUME NEW n \in Nat, n \in S
      PROVE  n + 1 \in S
  <2>1. PICK g : \A x \in 1 .. N : N - n < x => g[x] = Value(g, x)
    BY <1>2
  <2> DEFINE h == [x \in 1 .. N |-> IF x = N - n THEN Value(g, x) ELSE g[x]]
  <2>2. ASSUME NEW x \in 1 .. N, N - (n + 1) < x
        PROVE  h[x] = Value(h, x)
    <3>1. x \in V => h[next[x]] = g[next[x]]
      <4>1. x \in V => next[x] \in 1 .. N /\ next[x] # N - n
        BY <2>2
      <4> QED
        BY <4>1
    <3>2. Value(h, x) = Value(g, x)
      BY <3>1
    <3>3. h[x] = Value(g, x)
      BY <2>1, <2>2
    <3> QED
      BY <3>2, <3>3
  <2> HIDE DEF h, Value
  <2> QED
    BY <2>2
<1> HIDE DEF Value
<1>3. N \in S
  <2> HIDE DEF S
  <2> QED
    BY <1>1, <1>2, Induction
<1>4. PICK g : \A x \in 1 .. N : g[x] = Value(g, x)
  BY <1>3
<1> DEFINE f == [x \in 1 .. N |-> g[x]]
<1>5. ASSUME NEW x \in 1 .. N PROVE Value(f, x) = Value(g, x)
  BY DEF Value
<1>6. f = [x \in 1 .. N |-> Value(f, x)]
  <2> HIDE DEF Value
  <2>1. \A x \in 1 .. N : f[x] = Value(f, x)
    BY <1>4, <1>5
  <2> QED
    BY <2>1
<1> QED
  BY <1>6 DEF Value, GoesRight

-----------------------------------------------------------------------------
(* THE PARSER'S PIECES                                                     *)

Token == Word \cup Separator \cup Fixed

NoSlash(s, first, last) == \A n \in first .. last : s[n] # "/"

(* path.find('/', start): the next slash, or the end of the text. *)
LEMMA PieceEndProperties ==
  ASSUME NEW s, Len(s) \in Nat, NEW start \in 1 .. Len(s) + 1
  PROVE  /\ PieceEnd(s, start) \in start .. Len(s) + 1
         /\ NoSlash(s, start, PieceEnd(s, start) - 1)
         /\ PieceEnd(s, start) <= Len(s) => s[PieceEnd(s, start)] = "/"
<1> DEFINE slashes == {n \in Positions(s, "/") : start <= n}
<1>1. CASE slashes = {}
  <2>1. PieceEnd(s, start) = Len(s) + 1
    BY <1>1 DEF PieceEnd
  <2>2. NoSlash(s, start, Len(s))
    BY <1>1 DEF NoSlash, Positions
  <2> QED
    BY <2>1, <2>2
<1>2. CASE slashes # {}
  <2>1. slashes \subseteq Nat
    BY DEF Positions
  <2>2. \E n \in slashes : \A k \in slashes : n <= k
    <3> HIDE DEF slashes
    <3> QED
      BY <1>2, <2>1, LeastElement
  <2>3. PieceEnd(s, start) = CHOOSE n \in slashes : \A k \in slashes : n <= k
    BY <1>2 DEF PieceEnd
  <2>4. PieceEnd(s, start) \in slashes /\ \A k \in slashes : PieceEnd(s, start) <= k
    <3> HIDE DEF slashes
    <3> QED
      BY <2>2, <2>3
  <2>5. /\ PieceEnd(s, start) \in start .. Len(s)
        /\ s[PieceEnd(s, start)] = "/"
    BY <2>4 DEF Positions
  <2>6. NoSlash(s, start, PieceEnd(s, start) - 1)
    <3> SUFFICES ASSUME NEW n \in start .. PieceEnd(s, start) - 1, s[n] = "/"
                 PROVE  FALSE
      BY DEF NoSlash
    <3>1. n \in slashes
      BY <2>5 DEF Positions
    <3> QED
      BY <2>4, <2>5, <3>1
  <2> QED
    BY <2>5, <2>6
<1> QED
  BY <1>1, <1>2

(* It is the only such place. *)
LEMMA PieceEndUnique ==
  ASSUME NEW s, Len(s) \in Nat, NEW start \in 1 .. Len(s) + 1,
         NEW end \in start .. Len(s) + 1,
         NoSlash(s, start, end - 1), end <= Len(s) => s[end] = "/"
  PROVE  PieceEnd(s, start) = end
<1> DEFINE e == PieceEnd(s, start)
<1>1. /\ e \in start .. Len(s) + 1
      /\ NoSlash(s, start, e - 1)
      /\ e <= Len(s) => s[e] = "/"
  BY PieceEndProperties
<1> HIDE DEF e
<1>2. ~(e < end)
  BY <1>1 DEF NoSlash
<1>3. ~(end < e)
  BY <1>1 DEF NoSlash
<1>4. e = end
  BY <1>1, <1>2, <1>3
<1> QED
  BY <1>4 DEF e

(* The loop over the pieces satisfies its equation. *)
LEMMA PiecesFromEquation ==
  ASSUME NEW s, Len(s) \in Nat
  PROVE  PiecesFrom(s) =
           [start \in 1 .. Len(s) + 2 |->
              IF Visited(start, s)
              THEN <<SubSeq(s, start, PieceEnd(s, start) - 1)>>
                     \o PiecesFrom(s)[PieceEnd(s, start) + 1]
              ELSE << >>]
<1> DEFINE N == Len(s) + 2
           V == {x \in 1 .. N : Visited(x, s)}
           piece == [x \in 1 .. N |-> SubSeq(s, x, PieceEnd(s, x) - 1)]
           next == [x \in 1 .. N |-> PieceEnd(s, x) + 1]
           Is(f) == f = [x \in 1 .. N |->
                           IF Visited(x, s)
                           THEN <<SubSeq(s, x, PieceEnd(s, x) - 1)>>
                                  \o f[PieceEnd(s, x) + 1]
                           ELSE << >>]
<1>1. ASSUME NEW x \in 1 .. N, x \in V
      PROVE  next[x] \in x + 1 .. N
  <2>1. x \in 1 .. Len(s) + 1
    BY <1>1 DEF Visited
  <2> QED
    BY <2>1, PieceEndProperties
<1>2. \E f : GoesRight(f, N, V, piece, next)
  <2>1. N \in Nat
    OBVIOUS
  <2>2. \A x \in 1 .. N : x \in V => next[x] \in x + 1 .. N
    BY <1>1
  <2> HIDE DEF N, V, piece, next, Is
  <2> QED
    BY <2>1, <2>2, RecursionToTheRight
<1>3. \E f : Is(f)
  <2>1. PICK f : GoesRight(f, N, V, piece, next)
    BY <1>2
  <2>2. ASSUME NEW x \in 1 .. N
        PROVE  (IF x \in V THEN <<piece[x]>> \o f[next[x]] ELSE << >>)
                 = IF Visited(x, s)
                   THEN <<SubSeq(s, x, PieceEnd(s, x) - 1)>> \o f[PieceEnd(s, x) + 1]
                   ELSE << >>
    <3>1. /\ x \in V <=> Visited(x, s)
          /\ piece[x] = SubSeq(s, x, PieceEnd(s, x) - 1)
          /\ next[x] = PieceEnd(s, x) + 1
      OBVIOUS
    <3> HIDE DEF V, piece, next
    <3> QED
      BY <3>1
  <2> HIDE DEF V, piece, next
  <2>3. Is(f)
    BY <2>1, <2>2 DEF GoesRight
  <2> QED
    BY <2>3
<1>4. PiecesFrom(s) = CHOOSE f : Is(f)
  BY DEF PiecesFrom
<1>5. Is(PiecesFrom(s))
  <2> HIDE DEF Is
  <2> QED
    BY <1>3, <1>4
<1> QED
  BY <1>5

(* One round of the loop, and its end. *)
LEMMA PiecesFromStep ==
  ASSUME NEW s, Len(s) \in Nat, NEW start \in 1 .. Len(s) + 2
  PROVE  /\ start <= Len(s) =>
              PiecesFrom(s)[start] = <<SubSeq(s, start, PieceEnd(s, start) - 1)>>
                                       \o PiecesFrom(s)[PieceEnd(s, start) + 1]
         /\ start > Len(s) => PiecesFrom(s)[start] = << >>
<1> DEFINE more == <<SubSeq(s, start, PieceEnd(s, start) - 1)>>
                     \o PiecesFrom(s)[PieceEnd(s, start) + 1]
<1>1. PiecesFrom(s)[start] = IF Visited(start, s) THEN more ELSE << >>
  BY PiecesFromEquation
<1> HIDE DEF more
<1>2. Visited(start, s) <=> start <= Len(s)
  BY DEF Visited
<1>3. start > Len(s) => ~(start <= Len(s))
  OBVIOUS
<1> QED
  BY <1>1, <1>2, <1>3 DEF more

(* One piece put before the others. *)
LEMMA Prepend ==
  ASSUME NEW R, NEW x \in R, NEW t \in Seq(R)
  PROVE  /\ <<x>> \o t \in Seq(R)
         /\ Len(<<x>> \o t) = Len(t) + 1
         /\ (<<x>> \o t)[1] = x
         /\ \A n \in 1 .. Len(t) : (<<x>> \o t)[n + 1] = t[n]
<1>1. <<x>> \in Seq(R) /\ Len(<<x>>) = 1 /\ <<x>>[1] = x
  OBVIOUS
<1>2. Len(t) \in Nat
  OBVIOUS
<1>3. /\ <<x>> \o t \in Seq(R)
      /\ Len(<<x>> \o t) = 1 + Len(t)
      /\ \A n \in 1 .. 1 + Len(t) :
           (<<x>> \o t)[n] = IF n <= 1 THEN <<x>>[n] ELSE t[n - 1]
  BY <1>1, ConcatProperties
<1> QED
  BY <1>1, <1>2, <1>3

(* Between the places before and after there is one piece of the text. *)
IsCut(s, before, after) ==
  /\ before < Len(s)
  /\ after \in before + 1 .. Len(s) + 1
  /\ NoSlash(s, before + 1, after - 1)
  /\ after <= Len(s) => s[after] = "/"

(* Two slashes with none between them enclose a piece. *)
LEMMA CutBetween ==
  ASSUME NEW s, NEW N \in Nat, N = Len(s), NEW x \in Nat, NEW y \in Nat,
         NEW first \in Nat, NEW last \in Nat, first = x + 1, y = last + 1,
         first <= y, y <= N, s[y] = "/", NoSlash(s, first, last)
  PROVE  IsCut(s, x, y)
<1>1. x < N /\ y \in x + 1 .. N + 1 /\ y - 1 = last
  OBVIOUS
<1> QED
  BY <1>1, Zenon DEF IsCut

(* The parser finds the end of such a piece. *)
LEMMA CutEnds ==
  ASSUME NEW s, Len(s) \in Nat, NEW x \in Nat, NEW y \in Nat, IsCut(s, x, y)
  PROVE  PieceEnd(s, x + 1) = y
<1>1. /\ x + 1 \in 1 .. Len(s) + 1
      /\ y \in x + 1 .. Len(s) + 1
      /\ NoSlash(s, x + 1, y - 1)
      /\ y <= Len(s) => s[y] = "/"
  BY DEF IsCut
<1> QED
  BY <1>1, PieceEndUnique

(* A text that has slashes at the places cut[1], ..., and none between     *)
(* them, is parsed into the pieces between these places.                   *)
LEMMA PiecesByCuts ==
  ASSUME NEW s, Len(s) \in Nat, NEW m \in Nat, NEW cut \in [0 .. m -> Nat],
         cut[0] = FirstPiece(s) - 1,
         \A k \in 1 .. m : IsCut(s, cut[k - 1], cut[k]),
         Len(s) <= cut[m]
  PROVE  /\ Len(Pieces(s)) = m
         /\ \A k \in 1 .. m : Pieces(s)[k] = SubSeq(s, cut[k - 1] + 1, cut[k] - 1)
<1> DEFINE piece == [k \in 1 .. m |-> SubSeq(s, cut[k - 1] + 1, cut[k] - 1)]
           R == {piece[k] : k \in 1 .. m}
           from == PiecesFrom(s)
           Parsed(d) == /\ from[cut[m - d] + 1] \in Seq(R)
                        /\ Len(from[cut[m - d] + 1]) = d
                        /\ \A n \in 1 .. d : from[cut[m - d] + 1][n] = piece[m - d + n]
           S == {d \in Nat : d <= m => Parsed(d)}
<1> HIDE DEF piece, R, from, Parsed
<1>1. ASSUME NEW start \in 1 .. Len(s) + 2
      PROVE  /\ start <= Len(s) =>
                  from[start] = <<SubSeq(s, start, PieceEnd(s, start) - 1)>>
                                  \o from[PieceEnd(s, start) + 1]
             /\ start > Len(s) => from[start] = << >>
  BY PiecesFromStep DEF from
<1>2. 0 \in S
  <2>1. cut[m] \in Nat /\ cut[m] <= Len(s) + 1
    <3>1. CASE m = 0
      BY <3>1 DEF FirstPiece
    <3>2. CASE m # 0
      <4>1. m \in 1 .. m
        BY <3>2
      <4>2. IsCut(s, cut[m - 1], cut[m])
        BY <4>1
      <4> QED
        BY <4>2 DEF IsCut
    <3> QED
      BY <3>1, <3>2
  <2>2. from[cut[m] + 1] = << >>
    <3>1. cut[m] + 1 \in 1 .. Len(s) + 2 /\ cut[m] + 1 > Len(s)
      BY <2>1
    <3> QED
      BY <1>1, <3>1
  <2>3. Parsed(0)
    <3>1. m - 0 = m
      OBVIOUS
    <3>2. << >> \in Seq(R) /\ Len(<< >>) = 0
      BY EmptySeq
    <3>3. /\ from[cut[m - 0] + 1] \in Seq(R)
          /\ Len(from[cut[m - 0] + 1]) = 0
      BY <2>2, <3>1, <3>2
    <3>4. 1 .. 0 = {}
      OBVIOUS
    <3> QED
      BY <3>3, <3>4 DEF Parsed
  <2> QED
    BY <2>3
<1>3. ASSUME NEW d \in Nat, d \in S
      PROVE  d + 1 \in S
  <2> SUFFICES ASSUME d + 1 <= m PROVE Parsed(d + 1)
    OBVIOUS
  <2>1. Parsed(d)
    BY <1>3
  <2>2. PICK k \in 1 .. m : k = m - d
    OBVIOUS
  <2>3. m - (d + 1) = k - 1
    BY <2>2
  <2>4. cut[k - 1] \in Nat /\ cut[k] \in Nat /\ IsCut(s, cut[k - 1], cut[k])
    OBVIOUS
  <2>5. PieceEnd(s, cut[k - 1] + 1) = cut[k]
    BY <2>4, CutEnds, Zenon
  <2>6. piece[k] = SubSeq(s, cut[k - 1] + 1, cut[k] - 1) /\ piece[k] \in R
    BY DEF piece, R
  <2>7. from[cut[k - 1] + 1] = <<piece[k]>> \o from[cut[k] + 1]
    <3>1. cut[k - 1] + 1 \in 1 .. Len(s) + 2 /\ cut[k - 1] + 1 <= Len(s)
      BY <2>4 DEF IsCut
    <3> QED
      BY <1>1, <2>5, <2>6, <3>1
  <2>8. /\ from[cut[k] + 1] \in Seq(R)
        /\ Len(from[cut[k] + 1]) = d
        /\ \A n \in 1 .. d : from[cut[k] + 1][n] = piece[k + n]
    BY <2>1, <2>2 DEF Parsed
  <2>9. /\ from[cut[k - 1] + 1] \in Seq(R)
        /\ Len(from[cut[k - 1] + 1]) = d + 1
        /\ from[cut[k - 1] + 1][1] = piece[k]
        /\ \A n \in 1 .. d : from[cut[k - 1] + 1][n + 1] = piece[k + n]
    <3> DEFINE t == from[cut[k] + 1]
    <3>1. /\ t \in Seq(R)
          /\ Len(t) = d
          /\ \A n \in 1 .. d : t[n] = piece[k + n]
      BY <2>8
    <3> HIDE DEF t
    <3>p. PICK p \in R : p = piece[k]
      BY <2>6
    <3>2. /\ <<p>> \o t \in Seq(R)
          /\ Len(<<p>> \o t) = Len(t) + 1
          /\ (<<p>> \o t)[1] = p
          /\ \A n \in 1 .. Len(t) : (<<p>> \o t)[n + 1] = t[n]
      BY <3>1, <3>p, Prepend
    <3>3. from[cut[k - 1] + 1] = <<p>> \o t /\ p = piece[k]
      BY <2>7, <3>p DEF t
    <3>4. PICK u : u = from[cut[k - 1] + 1]
      OBVIOUS
    <3>5. u = <<p>> \o t
      BY <3>3, <3>4
    <3>6. u \in Seq(R) /\ Len(u) = Len(t) + 1 /\ u[1] = p
      BY <3>2, <3>5
    <3>7. \A n \in 1 .. Len(t) : u[n + 1] = t[n]
      BY <3>2, <3>5
    <3>8. \A n \in 1 .. d : u[n + 1] = piece[k + n]
      BY <3>1, <3>7
    <3> QED
      BY <3>1, <3>3, <3>4, <3>6, <3>8
  <2>10. ASSUME NEW n \in 1 .. d + 1
         PROVE  from[cut[k - 1] + 1][n] = piece[k - 1 + n]
    <3>1. CASE n = 1
      BY <2>2, <2>9, <3>1
    <3>2. CASE n # 1
      <4>1. PICK x \in 1 .. d : n = x + 1
        BY <3>2
      <4>2. k - 1 + n = k + x
        BY <4>1
      <4> QED
        BY <2>9, <4>1, <4>2
    <3> QED
      BY <3>1, <3>2
  <2> QED
    BY <2>3, <2>9, <2>10 DEF Parsed
<1>4. Parsed(m)
  <2>1. \A d \in Nat : d \in S
    <3> HIDE DEF S
    <3> QED
      BY <1>2, <1>3, Induction
  <2> QED
    BY <2>1
<1>5. Pieces(s) = from[cut[0] + 1]
  BY DEF Pieces, from, FirstPiece
<1>6. /\ Len(Pieces(s)) = m
      /\ \A k \in 1 .. m : Pieces(s)[k] = piece[k]
  <2>1. m - m = 0 /\ \A n \in 1 .. m : m - m + n = n
    OBVIOUS
  <2> QED
    BY <1>4, <1>5, <2>1 DEF Parsed
<1> QED
  BY <1>6 DEF piece

(* The pieces of a text are texts without a slash. *)
LEMMA PiecesHaveNoSlash ==
  ASSUME NEW s \in Text
  PROVE  Pieces(s) \in Seq({p \in Text : ~Has(p, "/")})
<1> DEFINE R == {p \in Text : ~Has(p, "/")}
           from == PiecesFrom(s)
<1>1. Len(s) \in Nat /\ s \in Seq(Token)
  BY DEF Text, Token
<1>n. PICK N \in Nat : N = Len(s) + 2
  BY <1>1
<1>2. ASSUME NEW start \in 1 .. N
      PROVE  /\ start <= Len(s) =>
                  from[start] = <<SubSeq(s, start, PieceEnd(s, start) - 1)>>
                                  \o from[PieceEnd(s, start) + 1]
             /\ start > Len(s) => from[start] = << >>
  BY <1>1, <1>n, PiecesFromStep DEF from
<1> DEFINE S == {d \in Nat : \A start \in 1 .. N : N - d <= start => from[start] \in Seq(R)}
<1> HIDE DEF R, from
<1>3. ASSUME NEW start \in 1 .. Len(s)
      PROVE  SubSeq(s, start, PieceEnd(s, start) - 1) \in R
  <2> DEFINE p == SubSeq(s, start, PieceEnd(s, start) - 1)
  <2>1. PICK end \in start .. Len(s) + 1 :
          end = PieceEnd(s, start) /\ NoSlash(s, start, end - 1)
    BY <1>1, PieceEndProperties
  <2>2. \A n \in start .. end - 1 : s[n] \in Token
    BY <1>1, <2>1
  <2>3. /\ p \in Seq(Token)
        /\ Len(p) = IF start <= end - 1 THEN end - 1 - start + 1 ELSE 0
        /\ \A n \in 1 .. end - 1 - start + 1 : p[n] = s[start + n - 1]
    BY <1>1, <2>1, <2>2, SubSeqProperties
  <2>4. ASSUME NEW n \in 1 .. Len(p) PROVE p[n] # "/"
    <3>1. start <= end - 1 /\ n \in 1 .. end - 1 - start + 1
      BY <1>1, <2>1, <2>3
    <3>2. start + n - 1 \in start .. end - 1
      BY <1>1, <2>1, <3>1
    <3> QED
      BY <2>1, <2>3, <3>1, <3>2 DEF NoSlash
  <2> QED
    BY <2>3, <2>4 DEF R, Has, Positions, Text, Token
<1>4. 0 \in S
  <2>1. N \in 1 .. N /\ N > Len(s)
    BY <1>1, <1>n
  <2>2. from[N] \in Seq(R)
    <3>1. from[N] = << >>
      BY <1>2, <2>1
    <3>2. << >> \in Seq(R)
      BY EmptySeq
    <3> QED
      BY <3>1, <3>2
  <2>3. \A start \in 1 .. N : N - 0 <= start => start = N
    BY <1>n
  <2> QED
    BY <2>2, <2>3
<1>5. ASSUME NEW d \in Nat, d \in S
      PROVE  d + 1 \in S
  <2> SUFFICES ASSUME NEW start \in 1 .. N, N - (d + 1) <= start
               PROVE  from[start] \in Seq(R)
    OBVIOUS
  <2>1. CASE start > Len(s)
    <3>1. from[start] = << >>
      BY <1>2, <2>1
    <3> QED
      BY <3>1
  <2>2. CASE start <= Len(s)
    <3>1. start \in 1 .. Len(s)
      BY <2>2
    <3>2. PICK end \in start .. Len(s) + 1 : end = PieceEnd(s, start)
      BY <1>1, <3>1, PieceEndProperties
    <3>3. end + 1 \in 1 .. N /\ N - d <= end + 1
      BY <1>1, <1>n, <3>1, <3>2
    <3>4. from[end + 1] \in Seq(R)
      BY <1>5, <3>3
    <3>5. SubSeq(s, start, end - 1) \in R
      BY <1>3, <3>1, <3>2
    <3>6. from[start] = <<SubSeq(s, start, end - 1)>> \o from[end + 1]
      BY <1>2, <2>2, <3>2
    <3> HIDE DEF S
    <3> QED
      BY <3>4, <3>5, <3>6, Prepend
  <2> QED
    BY <1>1, <1>n, <2>1, <2>2
<1>7. \A start \in 1 .. N : from[start] \in Seq(R)
  <2>1. \A d \in Nat : d \in S
    <3> HIDE DEF S
    <3> QED
      BY <1>4, <1>5, Induction
  <2>2. \A start \in 1 .. N : N - N <= start => from[start] \in Seq(R)
    BY <2>1
  <2>3. \A start \in 1 .. N : N - N <= start
    OBVIOUS
  <2> QED
    BY <2>2, <2>3
<1>8. FirstPiece(s) \in 1 .. N
  BY <1>1, <1>n DEF FirstPiece
<1> QED
  BY <1>7, <1>8 DEF R, from, Pieces

-----------------------------------------------------------------------------
(* THE PARSER'S ELEMENTS                                                   *)

(* Find gives the first position of a token ... *)
LEMMA FindProperties ==
  ASSUME NEW s, Len(s) \in Nat, NEW x, Has(s, x)
  PROVE  /\ Find(s, x) \in 1 .. Len(s)
         /\ s[Find(s, x)] = x
         /\ \A k \in 1 .. Find(s, x) - 1 : s[k] # x
<1>1. Positions(s, x) \subseteq Nat /\ Positions(s, x) # {}
  BY DEF Positions, Has
<1>2. \E n \in Positions(s, x) : \A k \in Positions(s, x) : n <= k
  BY <1>1, LeastElement
<1>3. /\ Find(s, x) \in Positions(s, x)
      /\ \A k \in Positions(s, x) : Find(s, x) <= k
  BY <1>2 DEF Find
<1>4. PICK n : n = Find(s, x)
  OBVIOUS
<1>5. n \in 1 .. Len(s) /\ s[n] = x
  BY <1>3, <1>4 DEF Positions
<1>6. ASSUME NEW k \in 1 .. n - 1 PROVE s[k] # x
  <2>1. k \in 1 .. Len(s) /\ ~(n <= k)
    BY <1>5
  <2>2. k \notin Positions(s, x)
    BY <1>3, <1>4, <2>1
  <2> QED
    BY <2>1, <2>2 DEF Positions
<1> QED
  BY <1>4, <1>5, <1>6

(* ... and there is only one. *)
LEMMA FindUnique ==
  ASSUME NEW s, Len(s) \in Nat, NEW x, NEW n \in 1 .. Len(s), s[n] = x,
         \A k \in 1 .. n - 1 : s[k] # x
  PROVE  Has(s, x) /\ Find(s, x) = n
<1>1. Has(s, x)
  BY DEF Has, Positions
<1>2. PICK f : f = Find(s, x)
  OBVIOUS
<1>3. f \in 1 .. Len(s) /\ s[f] = x /\ \A k \in 1 .. f - 1 : s[k] # x
  BY <1>1, <1>2, FindProperties
<1>4. ~(f < n) /\ ~(n < f)
  BY <1>3
<1>5. f = n
  BY <1>3, <1>4
<1> QED
  BY <1>1, <1>2, <1>5

(* A part of a sequence, element by element. *)
LEMMA PartOf ==
  ASSUME NEW R, NEW s, NEW low \in Nat, NEW u \in Seq(R),
         \A n \in 1 .. Len(u) : s[low + n] = u[n]
  PROVE  SubSeq(s, low + 1, low + Len(u)) = u
<1>1. PICK h \in Nat : h = Len(u)
  OBVIOUS
<1>2. \A n \in low + 1 .. low + h : s[n] \in R
  <2>1. ASSUME NEW n \in low + 1 .. low + h PROVE s[n] \in R
    <3>1. PICK k \in 1 .. h : n = low + k
      <4>1. n - low \in 1 .. h /\ n = low + (n - low)
        OBVIOUS
      <4> QED
        BY <4>1
    <3>2. s[n] = u[k] /\ u[k] \in R
      BY <1>1, <3>1
    <3> QED
      BY <3>2
  <2> QED
    BY <2>1
<1>3. PICK l \in Int : l = low + 1
  OBVIOUS
<1>4. PICK r \in Int : r = low + h
  OBVIOUS
<1>5. PICK t : t = SubSeq(s, l, r)
  OBVIOUS
<1>6. /\ t \in Seq(R)
      /\ Len(t) = IF l <= r THEN r - l + 1 ELSE 0
      /\ \A n \in 1 .. r - l + 1 : t[n] = s[l + n - 1]
  BY <1>2, <1>3, <1>4, <1>5, SubSeqProperties
<1>7. Len(t) = h
  BY <1>3, <1>4, <1>6
<1>8. ASSUME NEW n \in 1 .. h PROVE t[n] = u[n]
  <2>1. n \in 1 .. r - l + 1 /\ l + n - 1 = low + n
    BY <1>3, <1>4
  <2>2. t[n] = s[low + n]
    BY <1>6, <2>1
  <2> QED
    BY <1>1, <2>2
<1>9. t = u
  BY <1>1, <1>6, <1>7, <1>8, SeqEqual
<1> QED
  BY <1>1, <1>3, <1>4, <1>5, <1>9

(* A piece without an opening bracket is the name of an element. *)
LEMMA PlainElement ==
  ASSUME NEW p, p # << >>, ~Has(p, "[")
  PROVE  Accepts(p) /\ Element(p) = [name |-> p, key |-> << >>]
BY DEF Accepts, Element

(* A piece that is a name, an opening bracket, a key's name, an equals     *)
(* sign, a value and a closing bracket is accepted, and is an element with *)
(* that name, key and value.  In the value only a closing bracket, in the  *)
(* key's name only that and an equals sign is excluded.                    *)
LEMMA KeyedElement ==
  ASSUME NEW p \in Seq(Token), NEW a \in Nat \ {0}, NEW b \in Nat \ {0}, NEW c \in Nat \ {0},
         Len(p) = a + b + c + 3,
         p[a + 1] = "[", p[a + b + 2] = "=", p[a + b + c + 3] = "]",
         \A n \in 1 .. a : p[n] # "[" /\ p[n] # "]",
         \A n \in a + 2 .. a + b + c + 2 : p[n] # "]",
         \A n \in a + 2 .. a + b + 1 : p[n] # "="
  PROVE  /\ Accepts(p)
         /\ Element(p) = [name |-> SubSeq(p, 1, a),
                          key  |-> << <<SubSeq(p, a + 2, a + b + 1),
                                        SubSeq(p, a + b + 3, a + b + c + 2)>> >>]
<1>1. Has(p, "[") /\ Find(p, "[") = a + 1
  <2>1. \A n \in 1 .. a + 1 - 1 : p[n] # "["
    OBVIOUS
  <2>2. a + 1 \in 1 .. Len(p)
    OBVIOUS
  <2> QED
    BY <2>1, <2>2, FindUnique
<1>2. Has(p, "]") /\ Find(p, "]") = a + b + c + 3
  <2>1. ASSUME NEW n \in 1 .. a + b + c + 3 - 1 PROVE p[n] # "]"
    <3>1. CASE n \in 1 .. a
      BY <3>1
    <3>2. CASE n = a + 1
      BY <3>2
    <3>3. CASE n \in a + 2 .. a + b + c + 2
      BY <3>3
    <3> QED
      BY <3>1, <3>2, <3>3
  <2>2. a + b + c + 3 \in 1 .. Len(p)
    OBVIOUS
  <2> QED
    BY <2>1, <2>2, FindUnique
<1>w. PICK w : w = KeyValue(p)
  OBVIOUS
<1>3. w = SubSeq(p, a + 2, a + b + c + 2)
  <2>1. a + b + c + 3 > a + 1 /\ a + b + c + 3 - 1 = a + b + c + 2 /\ a + 1 + 1 = a + 2
    OBVIOUS
  <2> QED
    BY <1>1, <1>2, <1>w, <2>1 DEF KeyValue
<1>4. /\ w \in Seq(Token)
      /\ Len(w) = b + c + 1
      /\ \A n \in 1 .. b + c + 1 : w[n] = p[a + 1 + n]
  <2>1. \A n \in a + 2 .. a + b + c + 2 : p[n] \in Token
    OBVIOUS
  <2>2. PICK l \in Int : l = a + 2
    OBVIOUS
  <2>3. PICK r \in Int : r = a + b + c + 2
    OBVIOUS
  <2>4. /\ w \in Seq(Token)
        /\ Len(w) = IF l <= r THEN r - l + 1 ELSE 0
        /\ \A n \in 1 .. r - l + 1 : w[n] = p[l + n - 1]
    BY <1>3, <2>1, <2>2, <2>3, SubSeqProperties
  <2>5. r - l + 1 = b + c + 1 /\ l <= r
    BY <2>2, <2>3
  <2>6. \A n \in 1 .. b + c + 1 : l + n - 1 = a + 1 + n
    BY <2>2
  <2> QED
    BY <2>4, <2>5, <2>6
<1>5. Has(w, "=") /\ Find(w, "=") = b + 1
  <2>1. b + 1 \in 1 .. Len(w) /\ b + 1 \in 1 .. b + c + 1 /\ Len(w) \in Nat
    BY <1>4
  <2>2. w[b + 1] = "="
    <3>1. a + 1 + (b + 1) = a + b + 2
      OBVIOUS
    <3> QED
      BY <1>4, <2>1, <3>1
  <2>3. ASSUME NEW n \in 1 .. b + 1 - 1 PROVE w[n] # "="
    <3>1. n \in 1 .. b + c + 1 /\ a + 1 + n \in a + 2 .. a + b + 1
      OBVIOUS
    <3> QED
      BY <1>4, <3>1
  <2> QED
    BY <2>1, <2>2, <2>3, FindUnique
<1>6. Accepts(p)
  <2>1. p # << >>
    OBVIOUS
  <2>2. b + 1 \in 2 .. Len(w) - 1 /\ a + 1 > 1
    BY <1>4
  <2> QED
    BY <1>1, <1>2, <1>5, <1>w, <2>1, <2>2 DEF Accepts
<1>7. Element(p) = [name |-> SubSeq(p, 1, a),
                    key  |-> << <<SubSeq(w, 1, b), SubSeq(w, b + 2, b + c + 1)>> >>]
  <2>1. a + 1 - 1 = a /\ b + 1 - 1 = b /\ b + 1 + 1 = b + 2
    OBVIOUS
  <2>2. PICK first : first = SubSeq(w, 1, b)
    OBVIOUS
  <2>3. PICK second : second = SubSeq(w, b + 2, b + c + 1)
    OBVIOUS
  <2>4. SubSeq(w, 1, Find(w, "=") - 1) = first
    BY <1>5, <2>1, <2>2
  <2>5. SubSeq(w, Find(w, "=") + 1, Len(w)) = second
    BY <1>4, <1>5, <2>1, <2>3
  <2>6. Element(p) = [name |-> SubSeq(p, 1, Find(p, "[") - 1),
                      key  |-> << <<SubSeq(w, 1, Find(w, "=") - 1),
                                    SubSeq(w, Find(w, "=") + 1, Len(w))>> >>]
    BY <1>1, <1>w, Zenon DEF Element
  <2>7. Find(p, "[") - 1 = a
    BY <1>1
  <2> QED
    BY <2>2, <2>3, <2>4, <2>5, <2>6, <2>7, Zenon
<1>8. SubSeq(w, 1, b) = SubSeq(p, a + 2, a + b + 1)
  <2>1. 1 \in 1 .. b + c + 1 /\ b \in 1 .. b + c + 1
    OBVIOUS
  <2>2. a + 2 \in 1 .. Len(p) /\ a + b + c + 2 \in 1 .. Len(p)
    OBVIOUS
  <2>3. a + b + c + 2 - (a + 2) + 1 = b + c + 1
    OBVIOUS
  <2>4. a + 2 + 1 - 1 = a + 2 /\ a + 2 + b - 1 = a + b + 1
    OBVIOUS
  <2>5. SubSeq(SubSeq(p, a + 2, a + b + c + 2), 1, b) = SubSeq(p, a + 2 + 1 - 1, a + 2 + b - 1)
    BY <2>1, <2>2, <2>3, SubSeqOfSubSeq
  <2> QED
    BY <1>3, <2>4, <2>5
<1>9. SubSeq(w, b + 2, b + c + 1) = SubSeq(p, a + b + 3, a + b + c + 2)
  <2>1. b + 2 \in 1 .. b + c + 1 /\ b + c + 1 \in 1 .. b + c + 1
    OBVIOUS
  <2>2. a + 2 \in 1 .. Len(p) /\ a + b + c + 2 \in 1 .. Len(p)
    OBVIOUS
  <2>3. a + b + c + 2 - (a + 2) + 1 = b + c + 1
    OBVIOUS
  <2>4. a + 2 + (b + 2) - 1 = a + b + 3 /\ a + 2 + (b + c + 1) - 1 = a + b + c + 2
    OBVIOUS
  <2>5. SubSeq(SubSeq(p, a + 2, a + b + c + 2), b + 2, b + c + 1)
          = SubSeq(p, a + 2 + (b + 2) - 1, a + 2 + (b + c + 1) - 1)
    BY <2>1, <2>2, <2>3, SubSeqOfSubSeq
  <2> QED
    BY <1>3, <2>4, <2>5
<1> QED
  BY <1>6, <1>7, <1>8, <1>9

-----------------------------------------------------------------------------
(* THE PATH OF A KEY                                                       *)

(* Sequence t of length m is x, of length l, followed by y, of length r. *)
InARow(R, t, m, x, l, y, r) ==
  /\ t \in Seq(R)
  /\ Len(t) = m
  /\ \A n \in 1 .. l : t[n] = x[n]
  /\ \A n \in 1 .. r : t[l + n] = y[n]

(* That is what concatenation gives. *)
LEMMA Joined ==
  ASSUME NEW R, NEW t, NEW m, NEW x, NEW l, NEW y, NEW r
  PROVE  /\ x \in Seq(R) /\ Len(x) = l
         /\ y \in Seq(R) /\ Len(y) = r
         /\ t = x \o y
         /\ m = l + r
         => InARow(R, t, m, x, l, y, r)
<1> SUFFICES ASSUME x \in Seq(R), Len(x) = l, y \in Seq(R), Len(y) = r, t = x \o y, m = l + r
             PROVE  InARow(R, t, m, x, l, y, r)
  BY Zenon
<1>1. l \in Nat /\ r \in Nat
  OBVIOUS
<1>2. /\ t \in Seq(R) /\ Len(t) = l + r
      /\ \A n \in 1 .. l + r : t[n] = IF n <= l THEN x[n] ELSE y[n - l]
  BY ConcatProperties
<1>3. ASSUME NEW n \in 1 .. r PROVE t[l + n] = y[n]
  <2>1. l + n \in 1 .. l + r /\ ~(l + n <= l) /\ l + n - l = n
    BY <1>1
  <2> QED
    BY <1>2, <2>1
<1>4. ASSUME NEW n \in 1 .. l PROVE t[n] = x[n]
  BY <1>1, <1>2
<1> QED
  BY <1>2, <1>3, <1>4 DEF InARow

(* Five sequences in a row, of which the first, third and last have a      *)
(* fixed length.                                                           *)
FiveInARow(R, s, f, u, a, g, v, b, h) ==
  /\ s \in Seq(R) /\ Len(s) = a + b + 18
  /\ \A n \in 1 .. 8 : s[n] = f[n]
  /\ \A n \in 1 .. a : s[8 + n] = u[n]
  /\ \A n \in 1 .. 8 : s[a + (8 + n)] = g[n]
  /\ \A n \in 1 .. b : s[a + 16 + n] = v[n]
  /\ \A n \in 1 .. 2 : s[a + b + (16 + n)] = h[n]

(* That is what concatenating the five gives. *)
LEMMA FiveJoined ==
  ASSUME NEW R, NEW f, NEW u, NEW g, NEW v, NEW h, NEW s, NEW a \in Nat, NEW b \in Nat
  PROVE  /\ /\ f \in Seq(R) /\ Len(f) = 8
            /\ u \in Seq(R) /\ Len(u) = a
            /\ g \in Seq(R) /\ Len(g) = 8
            /\ v \in Seq(R) /\ Len(v) = b
            /\ h \in Seq(R) /\ Len(h) = 2
         /\ s = f \o u \o g \o v \o h
         => FiveInARow(R, s, f, u, a, g, v, b, h)
<1>1. SUFFICES
        ASSUME /\ f \in Seq(R) /\ Len(f) = 8
               /\ u \in Seq(R) /\ Len(u) = a
               /\ g \in Seq(R) /\ Len(g) = 8
               /\ v \in Seq(R) /\ Len(v) = b
               /\ h \in Seq(R) /\ Len(h) = 2,
               s = f \o u \o g \o v \o h
        PROVE  FiveInARow(R, s, f, u, a, g, v, b, h)
  BY Zenon
<1>2. PICK s1 : s1 = f \o u
  OBVIOUS
<1>3. PICK s2 : s2 = s1 \o g
  OBVIOUS
<1>4. PICK s3 : s3 = s2 \o v
  OBVIOUS
<1>5. s = s3 \o h
  BY <1>1, <1>2, <1>3, <1>4, Zenon
<1>a. PICK l1 \in Nat : l1 = 8
  OBVIOUS
<1>b. PICK l2 \in Nat : l2 = l1 + a
  BY <1>a
<1>c. PICK l3 \in Nat : l3 = l2 + l1
  BY <1>a, <1>b
<1>d. PICK l4 \in Nat : l4 = l3 + b
  BY <1>c
<1>e. PICK l5 \in Nat : l5 = 2
  OBVIOUS
<1>i. PICK l6 \in Nat : l6 = l4 + l5
  BY <1>d, <1>e
<1>f. f \in Seq(R) /\ Len(f) = l1
  BY <1>1, <1>a, Zenon
<1>u. u \in Seq(R) /\ Len(u) = a
  BY <1>1, Zenon
<1>g. g \in Seq(R) /\ Len(g) = l1
  BY <1>1, <1>a
<1>v. v \in Seq(R) /\ Len(v) = b
  BY <1>1
<1>h. h \in Seq(R) /\ Len(h) = l5
  BY <1>1, <1>e
<1>6. InARow(R, s1, l2, f, l1, u, a)
  BY <1>2, <1>b, <1>f, <1>u, Joined
<1>7. InARow(R, s2, l3, s1, l2, g, l1)
  <2>1. s1 \in Seq(R) /\ Len(s1) = l2
    BY <1>6, Zenon DEF InARow
  <2> QED
    BY <1>3, <1>c, <1>g, <2>1, Joined, Zenon
<1>8. InARow(R, s3, l4, s2, l3, v, b)
  <2>1. s2 \in Seq(R) /\ Len(s2) = l3
    BY <1>7, Zenon DEF InARow
  <2> QED
    BY <1>4, <1>d, <1>v, <2>1, Joined, Zenon
<1>9. InARow(R, s, l6, s3, l4, h, l5)
  <2>1. s3 \in Seq(R) /\ Len(s3) = l4
    BY <1>8, Zenon DEF InARow
  <2> QED
    BY <1>5, <1>i, <1>h, <2>1, Joined, Zenon
<1>l. l1 = 8 /\ l2 = a + 8 /\ l3 = a + 16 /\ l4 = a + b + 16 /\ l5 = 2
  BY <1>a, <1>b, <1>c, <1>d, <1>e
<1>10. ASSUME NEW n \in 1 .. 8 PROVE s[n] = f[n]
  <2>1. n \in 1 .. l1 /\ n \in 1 .. l2 /\ n \in 1 .. l3 /\ n \in 1 .. l4
    BY <1>l
  <2> QED
    BY <1>6, <1>7, <1>8, <1>9, <2>1, Zenon DEF InARow
<1>11. ASSUME NEW n \in 1 .. a PROVE s[8 + n] = u[n]
  <2>1. PICK x : x = l1 + n
    OBVIOUS
  <2>2. x \in 1 .. l2 /\ x \in 1 .. l3 /\ x \in 1 .. l4 /\ x = 8 + n
    BY <1>l, <2>1
  <2>3. s1[x] = u[n]
    BY <1>6, <2>1, Zenon DEF InARow
  <2>4. s[x] = s1[x]
    BY <1>7, <1>8, <1>9, <2>2, Zenon DEF InARow
  <2> QED
    BY <2>2, <2>3, <2>4, Zenon
<1>12. ASSUME NEW n \in 1 .. 8 PROVE s[a + (8 + n)] = g[n]
  <2>1. /\ n \in 1 .. l1 /\ l2 + n \in 1 .. l3 /\ l2 + n \in 1 .. l4
        /\ l2 + n = a + (8 + n)
    BY <1>l
  <2> QED
    BY <1>7, <1>8, <1>9, <2>1, Zenon DEF InARow
<1>13. ASSUME NEW n \in 1 .. b PROVE s[a + 16 + n] = v[n]
  <2>1. l3 + n \in 1 .. l4 /\ l3 + n = a + 16 + n
    BY <1>l
  <2> QED
    BY <1>8, <1>9, <2>1, Zenon DEF InARow
<1>14. ASSUME NEW n \in 1 .. 2 PROVE s[a + b + (16 + n)] = h[n]
  <2>1. n \in 1 .. l5 /\ l4 + n = a + b + (16 + n)
    BY <1>l
  <2> QED
    BY <1>9, <2>1, Zenon DEF InARow
<1>15. s \in Seq(R) /\ Len(s) = a + b + 18
  <2>1. l6 = a + b + 18
    BY <1>l, <1>i
  <2> QED
    BY <1>9, <2>1, Zenon DEF InARow
<1> QED
  BY <1>10, <1>11, <1>12, <1>13, <1>14, <1>15, Zenon DEF FiveInARow

(* Where the parts of a key's path text are. *)
KeyLayout(s, u, a, v, b) ==
  /\ s \in Seq(Token) /\ Len(s) = a + b + 18
  /\ s[1] = "origin:pbr-stats" /\ s[2] = "/" /\ s[3] = "policy-maps" /\ s[4] = "/"
  /\ s[5] = "policy-map" /\ s[6] = "[" /\ s[7] = "policy-name" /\ s[8] = "="
  /\ \A n \in 1 .. a : s[8 + n] = u[n]
  /\ s[a + 9] = "]" /\ s[a + 10] = "/" /\ s[a + 11] = "rule-names" /\ s[a + 12] = "/"
  /\ s[a + 13] = "rule-name" /\ s[a + 14] = "[" /\ s[a + 15] = "rule-name" /\ s[a + 16] = "="
  /\ \A n \in 1 .. b : s[a + 16 + n] = v[n]
  /\ s[a + b + 17] = "]" /\ s[a + b + 18] = "/"

(* That is what get_gnmi_paths writes. *)
LEMMA PathTextLayout ==
  ASSUME NEW key, NEW u, NEW v, NEW a \in Nat, NEW b \in Nat, NEW s
  PROVE  /\ u \in Seq(Token) /\ u = key.key_policy /\ Len(u) = a
         /\ v \in Seq(Token) /\ v = key.key_rule /\ Len(v) = b
         /\ s = PathText(key)
         => KeyLayout(s, u, a, v, b)
<1>s. SUFFICES ASSUME u \in Seq(Token) /\ Len(u) = a, v \in Seq(Token) /\ Len(v) = b,
                      u = key.key_policy, v = key.key_rule, s = PathText(key)
               PROVE  KeyLayout(s, u, a, v, b)
  BY Zenon
<1>f. PICK f : f = <<"origin:pbr-stats", "/", "policy-maps", "/",
                     "policy-map", "[", "policy-name", "=">>
  OBVIOUS
<1>g. PICK g : g = <<"]", "/", "rule-names", "/",
                     "rule-name", "[", "rule-name", "=">>
  OBVIOUS
<1>h. PICK h : h = <<"]", "/">>
  OBVIOUS
<1>1. PICK R : R = Separator \cup Fixed
  OBVIOUS
<1>2. /\ f \in Seq(R) /\ Len(f) = 8
      /\ f[1] = "origin:pbr-stats" /\ f[2] = "/" /\ f[3] = "policy-maps" /\ f[4] = "/"
      /\ f[5] = "policy-map" /\ f[6] = "[" /\ f[7] = "policy-name" /\ f[8] = "="
  BY <1>1, <1>f DEF Separator, Fixed
<1>3. /\ g \in Seq(R) /\ Len(g) = 8
      /\ g[1] = "]" /\ g[2] = "/" /\ g[3] = "rule-names" /\ g[4] = "/"
      /\ g[5] = "rule-name" /\ g[6] = "[" /\ g[7] = "rule-name" /\ g[8] = "="
  BY <1>1, <1>g DEF Separator, Fixed
<1>4. h \in Seq(R) /\ Len(h) = 2 /\ h[1] = "]" /\ h[2] = "/"
  BY <1>1, <1>h DEF Separator, Fixed
<1>5. s = f \o u \o g \o v \o h
  BY <1>s, <1>f, <1>g, <1>h, Zenon DEF PathText
<1>6. f \in Seq(Token) /\ g \in Seq(Token) /\ h \in Seq(Token)
  <2>1. R \subseteq Token
    BY <1>1, Zenon DEF Token
  <2> QED
    BY <1>2, <1>3, <1>4, <2>1, SeqMonotonic
<1>7. FiveInARow(Token, s, f, u, a, g, v, b, h)
  <2>1. Len(f) = 8 /\ Len(g) = 8 /\ Len(h) = 2
    BY <1>2, <1>3, <1>4, Zenon
  <2> QED
    BY <1>s, <1>5, <1>6, <2>1, FiveJoined, Zenon
<1>8. /\ s[1] = f[1] /\ s[2] = f[2] /\ s[3] = f[3] /\ s[4] = f[4]
      /\ s[5] = f[5] /\ s[6] = f[6] /\ s[7] = f[7] /\ s[8] = f[8]
  <2>1. \A n \in 1 .. 8 : s[n] = f[n]
    BY <1>7, Zenon DEF FiveInARow
  <2> QED
    BY <2>1
<1>9. /\ s[a + 9] = g[1] /\ s[a + 10] = g[2] /\ s[a + 11] = g[3] /\ s[a + 12] = g[4]
      /\ s[a + 13] = g[5] /\ s[a + 14] = g[6] /\ s[a + 15] = g[7] /\ s[a + 16] = g[8]
  <2>1. \A n \in 1 .. 8 : s[a + (8 + n)] = g[n]
    BY <1>7, Zenon DEF FiveInARow
  <2> QED
    BY <2>1
<1>10. s[a + b + 17] = h[1] /\ s[a + b + 18] = h[2]
  <2>1. \A n \in 1 .. 2 : s[a + b + (16 + n)] = h[n]
    BY <1>7, Zenon DEF FiveInARow
  <2> QED
    BY <2>1
<1> QED
  BY <1>2, <1>3, <1>4, <1>7, <1>8, <1>9, <1>10, Zenon DEF KeyLayout, FiveInARow

(* A part of one token. *)
LEMMA OneToken ==
  ASSUME NEW s, NEW n \in Nat, s[n] \in Token
  PROVE  SubSeq(s, n, n) = <<s[n]>>
<1>1. PICK t : t = SubSeq(s, n, n)
  OBVIOUS
<1>2. PICK z \in Token : z = s[n]
  OBVIOUS
<1>3. /\ t \in Seq(Token) /\ Len(t) = n - n + 1
      /\ \A k \in 1 .. n - n + 1 : t[k] = s[n + k - 1]
  <2>1. \A k \in n .. n : s[k] \in Token
    OBVIOUS
  <2> QED
    BY <1>1, <2>1, SubSeqProperties
<1>4. t \in Seq(Token) /\ Len(t) = 1 /\ t[1] = z
  <2>1. n - n + 1 = 1 /\ n + 1 - 1 = n
    OBVIOUS
  <2> QED
    BY <1>2, <1>3, <2>1
<1>5. t = <<z>>
  BY <1>4
<1> QED
  BY <1>1, <1>2, <1>5

(* A piece that is a part of a text. *)
IsPart(p, s, low, l) ==
  /\ p \in Seq(Token) /\ Len(p) = l
  /\ \A n \in 1 .. l : p[n] = s[low + n]

(* That is what substr gives. *)
LEMMA PieceOf ==
  ASSUME NEW s, NEW low \in Nat, NEW l \in Nat, NEW p
  PROVE  /\ s \in Seq(Token) /\ low + l <= Len(s)
         /\ p = SubSeq(s, low + 1, low + l)
         => IsPart(p, s, low, l)
<1>s. SUFFICES ASSUME s \in Seq(Token), low + l <= Len(s), p = SubSeq(s, low + 1, low + l)
               PROVE  IsPart(p, s, low, l)
  BY Zenon
<1>1. \A n \in low + 1 .. low + l : s[n] \in Token
  BY <1>s
<1>2. PICK x \in Int : x = low + 1
  OBVIOUS
<1>3. PICK y \in Int : y = low + l
  OBVIOUS
<1>4. /\ p \in Seq(Token)
      /\ Len(p) = IF x <= y THEN y - x + 1 ELSE 0
      /\ \A n \in 1 .. y - x + 1 : p[n] = s[x + n - 1]
  BY <1>s, <1>1, <1>2, <1>3, SubSeqProperties
<1>5. y - x + 1 = l /\ (x <= y <=> l # 0)
  BY <1>2, <1>3
<1>6. \A n \in 1 .. l : x + n - 1 = low + n
  BY <1>2
<1>7. Len(p) = l
  BY <1>4, <1>5
<1>8. ASSUME NEW n \in 1 .. l PROVE p[n] = s[low + n]
  BY <1>4, <1>5, <1>6
<1> QED
  BY <1>4, <1>7, <1>8 DEF IsPart

ParsedTo(p, e) == Accepts(p) /\ Element(p) = e

(* The third and the fifth piece of a key's text. *)
LEMMA KeyPiece ==
  ASSUME NEW s, NEW low \in Nat, NEW p, NEW x, NEW y, NEW u, NEW c \in Nat \ {0}
  PROVE  /\ s \in Seq(Token) /\ low + (c + 5) <= Len(s)
         /\ p = SubSeq(s, low + 1, low + (c + 5))
         /\ x \in Fixed /\ y \in Fixed /\ u \in Seq(Token) /\ Len(u) = c
         /\ s[low + 1] = x /\ s[low + 2] = "[" /\ s[low + 3] = y /\ s[low + 4] = "="
         /\ \A n \in 1 .. c : s[low + (4 + n)] = u[n]
         /\ s[low + (c + 5)] = "]"
         /\ \A n \in 1 .. c : u[n] # "]"
         => ParsedTo(p, [name |-> <<x>>, key |-> << << <<y>>, u>> >>])
<1>s. SUFFICES
        ASSUME s \in Seq(Token), low + (c + 5) <= Len(s), p = SubSeq(s, low + 1, low + (c + 5)),
               x \in Fixed, y \in Fixed, u \in Seq(Token), Len(u) = c,
               s[low + 1] = x, s[low + 2] = "[", s[low + 3] = y, s[low + 4] = "=",
               \A n \in 1 .. c : s[low + (4 + n)] = u[n],
               s[low + (c + 5)] = "]",
               \A n \in 1 .. c : u[n] # "]"
        PROVE  ParsedTo(p, [name |-> <<x>>, key |-> << << <<y>>, u>> >>])
  BY Zenon
<1>1. PICK l \in Nat : l = c + 5
  OBVIOUS
<1>2. /\ p \in Seq(Token) /\ Len(p) = l
      /\ \A n \in 1 .. l : p[n] = s[low + n]
  <2>1. s \in Seq(Token) /\ low + l <= Len(s) /\ p = SubSeq(s, low + 1, low + l)
    BY <1>s, <1>1, Zenon
  <2>2. IsPart(p, s, low, l)
    BY <2>1, PieceOf, Zenon
  <2> QED
    BY <2>2, Zenon DEF IsPart
<1>3. p[1] = x /\ p[2] = "[" /\ p[3] = y /\ p[4] = "="
  <2>1. 1 \in 1 .. l /\ 2 \in 1 .. l /\ 3 \in 1 .. l /\ 4 \in 1 .. l
    BY <1>1
  <2> QED
    BY <1>s, <1>2, <2>1, Zenon
<1>4. \A n \in 1 .. c : p[4 + n] = u[n]
  <2>1. \A n \in 1 .. c : 4 + n \in 1 .. l
    BY <1>1
  <2> QED
    BY <1>s, <1>2, <2>1, Zenon
<1>5. p[c + 5] = "]"
  <2>1. c + 5 \in 1 .. l
    BY <1>1
  <2> QED
    BY <1>s, <1>2, <2>1, Zenon
<1>6. /\ x # "[" /\ x # "]"
      /\ y # "]" /\ y # "="
  BY <1>s DEF Fixed
<1>7. Len(p) = 1 + 1 + c + 3 /\ p[1 + 1] = "[" /\ p[1 + 1 + 2] = "=" /\ p[1 + 1 + c + 3] = "]"
  <2>1. 1 + 1 + c + 3 = c + 5 /\ 1 + 1 = 2 /\ 1 + 1 + 2 = 4
    OBVIOUS
  <2> QED
    BY <1>1, <1>2, <1>3, <1>5, <2>1, Zenon
<1>8. \A n \in 1 .. 1 : p[n] # "[" /\ p[n] # "]"
  <2>1. \A n \in 1 .. 1 : n = 1
    OBVIOUS
  <2> QED
    BY <1>3, <1>6, <2>1, Zenon
<1>9. ASSUME NEW n \in 1 + 2 .. 1 + 1 + c + 2 PROVE p[n] # "]"
  <2>1. CASE n = 3
    BY <1>3, <1>6, <2>1, Zenon
  <2>2. CASE n = 4
    <3>1. p[n] = "="
      BY <1>3, <2>2, Zenon
    <3> QED
      BY <3>1
  <2>3. CASE n > 4
    <3>1. PICK k \in 1 .. c : n = 4 + k
      <4>1. n - 4 \in 1 .. c /\ n = 4 + (n - 4)
        BY <2>3
      <4> QED
        BY <4>1
    <3> QED
      BY <1>s, <1>4, <3>1, Zenon
  <2> QED
    BY <2>1, <2>2, <2>3
<1>10. \A n \in 1 + 2 .. 1 + 1 + 1 : p[n] # "="
  <2>1. \A n \in 1 + 2 .. 1 + 1 + 1 : n = 3
    OBVIOUS
  <2> QED
    BY <1>3, <1>6, <2>1, Zenon
<1>11. /\ Accepts(p)
       /\ Element(p) = [name |-> SubSeq(p, 1, 1),
                        key  |-> << <<SubSeq(p, 1 + 2, 1 + 1 + 1),
                                      SubSeq(p, 1 + 1 + 3, 1 + 1 + c + 2)>> >>]
  <2>1. 1 \in Nat \ {0}
    OBVIOUS
  <2> QED
    BY <1>2, <1>7, <1>8, <1>9, <1>10, <2>1, KeyedElement
<1>12. SubSeq(p, 1, 1) = <<x>>
  <2>1. PICK z : z = p[1]
    OBVIOUS
  <2>2. p[1] \in Token
    BY <1>1, <1>2
  <2>3. SubSeq(p, 1, 1) = <<z>>
    BY <2>1, <2>2, OneToken
  <2> QED
    BY <1>3, <2>1, <2>3, Zenon
<1>13. SubSeq(p, 1 + 2, 1 + 1 + 1) = <<y>>
  <2>1. p[3] \in Token
    BY <1>1, <1>2
  <2>2. SubSeq(p, 3, 3) = <<p[3]>>
    BY <2>1, OneToken
  <2>3. 1 + 2 = 3 /\ 1 + 1 + 1 = 3
    OBVIOUS
  <2> QED
    BY <1>3, <2>2, <2>3, Zenon
<1>14. SubSeq(p, 1 + 1 + 3, 1 + 1 + c + 2) = u
  <2>1. SubSeq(p, 4 + 1, 4 + Len(u)) = u
    <3>1. u \in Seq(Token) /\ \A n \in 1 .. Len(u) : p[4 + n] = u[n]
      BY <1>s, <1>4, Zenon
    <3> QED
      BY <3>1, PartOf
  <2>2. 4 + 1 = 1 + 1 + 3 /\ 4 + c = 1 + 1 + c + 2
    OBVIOUS
  <2> QED
    BY <1>s, <2>1, <2>2, Zenon
<1> QED
  BY <1>11, <1>12, <1>13, <1>14, Zenon DEF ParsedTo

(* The text of a key made of plain names is parsed back to the path the    *)
(* key stands for, whatever opening brackets and equals signs the names    *)
(* have.                                                                   *)
LEMMA PathTextParsed ==
  ASSUME NEW key \in PbrKey, PlainKey(key)
  PROVE  ~Throws(PathText(key)) /\ StringToPath(PathText(key)) = Intended(key)
<1>s. PICK s : s = PathText(key)
  OBVIOUS
<1>u. PICK u \in Seq(Token) : u = key.key_policy
  BY DEF PbrKey, Text, Token
<1>v. PICK v \in Seq(Token) : v = key.key_rule
  BY DEF PbrKey, Text, Token
<1>a. PICK a \in Nat : a = Len(u)
  OBVIOUS
<1>b. PICK b \in Nat : b = Len(v)
  OBVIOUS
<1>l. s \in Seq(Token) /\ Len(s) = a + b + 18 /\ KeyLayout(s, u, a, v, b)
  <2>1. KeyLayout(s, u, a, v, b)
    BY <1>s, <1>u, <1>v, <1>a, <1>b, PathTextLayout, Zenon
  <2> QED
    BY <2>1, Zenon DEF KeyLayout
<1>1. Plain(u) /\ Plain(v)
  BY <1>u, <1>v, Zenon DEF PlainKey
<1>2. /\ a # 0 /\ b # 0
      /\ \A n \in 1 .. a : u[n] # "/" /\ u[n] # "]"
      /\ \A n \in 1 .. b : v[n] # "/" /\ v[n] # "]"
  <2>1. a # 0 /\ \A n \in 1 .. a : u[n] # "/" /\ u[n] # "]"
    BY <1>1, <1>a DEF Plain, Has, Positions
  <2>2. b # 0 /\ \A n \in 1 .. b : v[n] # "/" /\ v[n] # "]"
    BY <1>1, <1>b DEF Plain, Has, Positions
  <2> QED
    BY <2>1, <2>2
<1>3. NoSlash(s, 1, 1) /\ NoSlash(s, 3, 3)
  <2>1. s[1] # "/" /\ s[3] # "/"
    <3>1. s[1] = "origin:pbr-stats" /\ s[3] = "policy-maps"
      BY <1>l, Zenon DEF KeyLayout
    <3> QED
      BY <3>1
  <2>2. \A n \in 1 .. 1 : n = 1
    OBVIOUS
  <2>3. \A n \in 3 .. 3 : n = 3
    OBVIOUS
  <2> QED
    BY <2>1, <2>2, <2>3, Zenon DEF NoSlash
<1>4. ASSUME NEW n \in 5 .. a + 9 PROVE s[n] # "/"
  <2>1. CASE n \in 5 .. 8
    <3>1. s[5] = "policy-map" /\ s[6] = "[" /\ s[7] = "policy-name" /\ s[8] = "="
      BY <1>l, Zenon DEF KeyLayout
    <3>2. n = 5 \/ n = 6 \/ n = 7 \/ n = 8
      BY <2>1
    <3> QED
      BY <3>1, <3>2
  <2>2. CASE n = a + 9
    <3>1. s[a + 9] = "]"
      BY <1>l, Zenon DEF KeyLayout
    <3> QED
      BY <2>2, <3>1
  <2>3. CASE n \in 9 .. a + 8
    <3>1. PICK k \in 1 .. a : n = 8 + k
      <4>1. n - 8 \in 1 .. a /\ n = 8 + (n - 8)
        BY <2>3
      <4> QED
        BY <4>1
    <3>2. s[n] = u[k]
      BY <1>l, <3>1, Zenon DEF KeyLayout
    <3> QED
      BY <1>2, <3>2, Zenon
  <2> QED
    BY <2>1, <2>2, <2>3
<1>5. s[a + 11] # "/"
  <2>1. s[a + 11] = "rule-names"
    BY <1>l, Zenon DEF KeyLayout
  <2> QED
    BY <2>1
<1>6. ASSUME NEW n \in a + 13 .. a + b + 17 PROVE s[n] # "/"
  <2>1. CASE n \in a + 13 .. a + 16
    <3>1. /\ s[a + 13] = "rule-name" /\ s[a + 14] = "["
          /\ s[a + 15] = "rule-name" /\ s[a + 16] = "="
      BY <1>l, Zenon DEF KeyLayout
    <3>2. n = a + 13 \/ n = a + 14 \/ n = a + 15 \/ n = a + 16
      BY <2>1
    <3> QED
      BY <3>1, <3>2
  <2>2. CASE n = a + b + 17
    <3>1. s[a + b + 17] = "]"
      BY <1>l, Zenon DEF KeyLayout
    <3> QED
      BY <2>2, <3>1
  <2>3. CASE n \in a + 17 .. a + b + 16
    <3>1. PICK k \in 1 .. b : n = a + 16 + k
      <4>1. n - (a + 16) \in 1 .. b /\ n = a + 16 + (n - (a + 16))
        BY <2>3
      <4> QED
        BY <4>1
    <3>2. s[n] = v[k]
      BY <1>l, <3>1, Zenon DEF KeyLayout
    <3> QED
      BY <1>2, <3>2, Zenon
  <2> QED
    BY <2>1, <2>2, <2>3
<1>c. PICK cut : cut = [k \in 0 .. 5 |-> IF k = 0 THEN 0 ELSE IF k = 1 THEN 2
                                         ELSE IF k = 2 THEN 4 ELSE IF k = 3 THEN a + 10
                                         ELSE IF k = 4 THEN a + 12 ELSE a + b + 18]
  OBVIOUS
<1>7. /\ cut \in [0 .. 5 -> Nat]
      /\ cut[0] = 0 /\ cut[1] = 2 /\ cut[2] = 4 /\ cut[3] = a + 10
      /\ cut[4] = a + 12 /\ cut[5] = a + b + 18
  BY <1>c
<1>8. FirstPiece(s) = 1
  <2>1. s[1] # "/"
    <3>1. s[1] = "origin:pbr-stats"
      BY <1>l, Zenon DEF KeyLayout
    <3> QED
      BY <3>1
  <2> QED
    BY <2>1, Zenon DEF FirstPiece
<1>n. PICK N \in Nat : N = Len(s) /\ N = a + b + 18
  BY <1>l
<1>9. IsCut(s, 0, 2)
  <2>1. PICK x \in Nat, y \in Nat, first \in Nat, last \in Nat :
          x = 0 /\ y = 2 /\ first = 1 /\ last = 1
    OBVIOUS
  <2>2. first = x + 1 /\ y = last + 1 /\ first <= y /\ y <= N
    BY <1>n, <2>1
  <2>3. s[y] = "/"
    BY <1>l, <2>1, Zenon DEF KeyLayout
  <2>4. NoSlash(s, first, last)
    BY <1>3, <2>1, Zenon
  <2>5. IsCut(s, x, y)
    BY <1>n, <2>2, <2>3, <2>4, CutBetween
  <2> QED
    BY <2>1, <2>5, Zenon
<1>10. IsCut(s, 2, 4)
  <2>1. PICK x \in Nat, y \in Nat, first \in Nat, last \in Nat :
          x = 2 /\ y = 4 /\ first = 3 /\ last = 3
    OBVIOUS
  <2>2. first = x + 1 /\ y = last + 1 /\ first <= y /\ y <= N
    BY <1>n, <2>1
  <2>3. s[y] = "/"
    BY <1>l, <2>1, Zenon DEF KeyLayout
  <2>4. NoSlash(s, first, last)
    BY <1>3, <2>1, Zenon
  <2>5. IsCut(s, x, y)
    BY <1>n, <2>2, <2>3, <2>4, CutBetween
  <2> QED
    BY <2>1, <2>5, Zenon
<1>11. IsCut(s, 4, a + 10)
  <2>1. PICK x \in Nat, y \in Nat, first \in Nat, last \in Nat :
          x = 4 /\ y = a + 10 /\ first = 5 /\ last = a + 9
    OBVIOUS
  <2>2. first = x + 1 /\ y = last + 1 /\ first <= y /\ y <= N
    BY <1>n, <2>1
  <2>3. s[y] = "/"
    BY <1>l, <2>1, Zenon DEF KeyLayout
  <2>4. NoSlash(s, first, last)
    BY <1>4, <2>1, Zenon DEF NoSlash
  <2>5. IsCut(s, x, y)
    BY <1>n, <2>2, <2>3, <2>4, CutBetween
  <2> QED
    BY <2>1, <2>5, Zenon
<1>12. IsCut(s, a + 10, a + 12)
  <2>1. PICK x \in Nat, y \in Nat, first \in Nat, last \in Nat :
          x = a + 10 /\ y = a + 12 /\ first = a + 11 /\ last = a + 11
    OBVIOUS
  <2>2. first = x + 1 /\ y = last + 1 /\ first <= y /\ y <= N
    BY <1>n, <2>1
  <2>3. s[y] = "/"
    BY <1>l, <2>1, Zenon DEF KeyLayout
  <2>4. NoSlash(s, first, last)
    <3>1. \A n \in a + 11 .. a + 11 : n = a + 11
      OBVIOUS
    <3> QED
      BY <1>5, <2>1, <3>1, Zenon DEF NoSlash
  <2>5. IsCut(s, x, y)
    BY <1>n, <2>2, <2>3, <2>4, CutBetween
  <2> QED
    BY <2>1, <2>5, Zenon
<1>13. IsCut(s, a + 12, a + b + 18)
  <2>1. PICK x \in Nat, y \in Nat, first \in Nat, last \in Nat :
          x = a + 12 /\ y = a + b + 18 /\ first = a + 13 /\ last = a + b + 17
    OBVIOUS
  <2>2. first = x + 1 /\ y = last + 1 /\ first <= y /\ y <= N
    BY <1>n, <2>1
  <2>3. s[y] = "/"
    BY <1>l, <2>1, Zenon DEF KeyLayout
  <2>4. NoSlash(s, first, last)
    BY <1>6, <2>1, Zenon DEF NoSlash
  <2>5. IsCut(s, x, y)
    BY <1>n, <2>2, <2>3, <2>4, CutBetween
  <2> QED
    BY <2>1, <2>5, Zenon
<1>14. ASSUME NEW k \in 1 .. 5 PROVE IsCut(s, cut[k - 1], cut[k])
  <2>1. k = 1 \/ k = 2 \/ k = 3 \/ k = 4 \/ k = 5
    OBVIOUS
  <2>2. 1 - 1 = 0 /\ 2 - 1 = 1 /\ 3 - 1 = 2 /\ 4 - 1 = 3 /\ 5 - 1 = 4
    OBVIOUS
  <2> QED
    BY <1>7, <1>9, <1>10, <1>11, <1>12, <1>13, <2>1, <2>2, Zenon
<1>p. PICK P : P = Pieces(s)
  OBVIOUS
<1>15. /\ Len(P) = 5
       /\ \A k \in 1 .. 5 : P[k] = SubSeq(s, cut[k - 1] + 1, cut[k] - 1)
  <2>1. Len(s) \in Nat /\ Len(s) <= cut[5] /\ cut[0] = FirstPiece(s) - 1
    BY <1>l, <1>7, <1>8
  <2> QED
    <3>1. \A k \in 1 .. 5 : IsCut(s, cut[k - 1], cut[k])
      BY <1>14, Zenon
    <3>2. 5 \in Nat
      OBVIOUS
    <3> QED
      BY <1>7, <1>p, <2>1, <3>1, <3>2, PiecesByCuts, Zenon
<1>16. /\ P[1] = SubSeq(s, 1, 1) /\ P[2] = SubSeq(s, 3, 3)
       /\ P[3] = SubSeq(s, 5, a + 9) /\ P[4] = SubSeq(s, a + 11, a + 11)
       /\ P[5] = SubSeq(s, a + 13, a + b + 17)
  <2>1. /\ cut[1 - 1] + 1 = 1 /\ cut[1] - 1 = 1
        /\ cut[2 - 1] + 1 = 3 /\ cut[2] - 1 = 3
        /\ cut[3 - 1] + 1 = 5 /\ cut[3] - 1 = a + 9
        /\ cut[4 - 1] + 1 = a + 11 /\ cut[4] - 1 = a + 11
        /\ cut[5 - 1] + 1 = a + 13 /\ cut[5] - 1 = a + b + 17
    BY <1>7
  <2>2. 1 \in 1 .. 5 /\ 2 \in 1 .. 5 /\ 3 \in 1 .. 5 /\ 4 \in 1 .. 5 /\ 5 \in 1 .. 5
    OBVIOUS
  <2> QED
    BY <1>15, <2>1, <2>2, Zenon
<1>17. ASSUME NEW n \in Nat, NEW x, x \in Fixed, s[n] = x
       PROVE  /\ Accepts(SubSeq(s, n, n))
              /\ Element(SubSeq(s, n, n)) = [name |-> <<x>>, key |-> << >>]
  <2>1. SubSeq(s, n, n) = <<x>>
    <3>1. s[n] \in Token
      BY <1>17, Zenon DEF Token
    <3> QED
      BY <1>17, <3>1, OneToken, Zenon
  <2>2. PICK p : p = <<x>>
    OBVIOUS
  <2>3. p # << >> /\ ~Has(p, "[")
    <3>1. p # << >> /\ Len(p) = 1 /\ p[1] = x
      BY <2>2
    <3>2. x # "["
      BY <1>17 DEF Fixed
    <3>3. \A z \in 1 .. 1 : z = 1
      OBVIOUS
    <3> QED
      BY <3>1, <3>2, <3>3, Zenon DEF Has, Positions
  <2> QED
    BY <2>1, <2>2, <2>3, PlainElement, Zenon
<1>f. /\ "origin:pbr-stats" \in Fixed /\ "policy-maps" \in Fixed /\ "policy-map" \in Fixed
      /\ "policy-name" \in Fixed /\ "rule-names" \in Fixed /\ "rule-name" \in Fixed
  BY Zenon DEF Fixed
<1>18. /\ Accepts(P[1]) /\ Element(P[1]) = Elem("origin:pbr-stats", << >>)
       /\ Accepts(P[2]) /\ Element(P[2]) = Elem("policy-maps", << >>)
       /\ Accepts(P[4]) /\ Element(P[4]) = Elem("rule-names", << >>)
  <2>1. /\ s[1] = "origin:pbr-stats" /\ s[3] = "policy-maps" /\ s[a + 11] = "rule-names"
    BY <1>l, Zenon DEF KeyLayout
  <2>2. 1 \in Nat /\ 3 \in Nat /\ a + 11 \in Nat
    OBVIOUS
  <2> QED
    BY <1>f, <1>16, <1>17, <2>1, <2>2, Zenon DEF Elem
<1>19. /\ Accepts(P[3])
       /\ Element(P[3]) = Elem("policy-map", << << <<"policy-name">>, u>> >>)
  <2>1. /\ s[5] = "policy-map" /\ s[6] = "[" /\ s[7] = "policy-name" /\ s[8] = "="
        /\ \A n \in 1 .. a : s[8 + n] = u[n]
        /\ s[a + 9] = "]"
    BY <1>l, Zenon DEF KeyLayout
  <2>2. /\ 4 + 1 = 5 /\ 4 + 2 = 6 /\ 4 + 3 = 7 /\ 4 + 4 = 8 /\ 4 + (a + 5) = a + 9
        /\ \A n \in 1 .. a : 4 + (4 + n) = 8 + n
    OBVIOUS
  <2>3. 4 + (a + 5) <= Len(s) /\ 4 \in Nat /\ a \in Nat \ {0}
    BY <1>l, <1>2
  <2>4. /\ s[4 + 1] = "policy-map" /\ s[4 + 2] = "[" /\ s[4 + 3] = "policy-name"
        /\ s[4 + 4] = "=" /\ s[4 + (a + 5)] = "]"
        /\ \A n \in 1 .. a : s[4 + (4 + n)] = u[n]
    BY <2>1, <2>2, Zenon
  <2>5. P[3] = SubSeq(s, 4 + 1, 4 + (a + 5))
    BY <1>16, <2>2, Zenon
  <2> QED
    <3>1. s \in Seq(Token) /\ u \in Seq(Token) /\ Len(u) = a
      BY <1>l, <1>u, <1>a, Zenon
    <3>2. \A n \in 1 .. a : u[n] # "]"
      BY <1>2, Zenon
    <3>3. ParsedTo(P[3], [name |-> <<"policy-map">>,
                         key |-> << << <<"policy-name">>, u>> >>])
      BY <1>f, <2>3, <2>4, <2>5, <3>1, <3>2, KeyPiece, Zenon
    <3> QED
      BY <3>3, Zenon DEF Elem, ParsedTo
<1>20. /\ Accepts(P[5])
       /\ Element(P[5]) = Elem("rule-name", << << <<"rule-name">>, v>> >>)
  <2>l. PICK low \in Nat : low = a + 12
    OBVIOUS
  <2>1. /\ s[a + 13] = "rule-name" /\ s[a + 14] = "[" /\ s[a + 15] = "rule-name"
        /\ s[a + 16] = "="
        /\ \A n \in 1 .. b : s[a + 16 + n] = v[n]
        /\ s[a + b + 17] = "]"
    BY <1>l, Zenon DEF KeyLayout
  <2>2. /\ low + 1 = a + 13 /\ low + 2 = a + 14 /\ low + 3 = a + 15 /\ low + 4 = a + 16
        /\ low + (b + 5) = a + b + 17
        /\ \A n \in 1 .. b : low + (4 + n) = a + 16 + n
    BY <2>l
  <2>3. low + (b + 5) <= Len(s) /\ b \in Nat \ {0}
    BY <1>l, <1>2, <2>l
  <2>4. /\ s[low + 1] = "rule-name" /\ s[low + 2] = "[" /\ s[low + 3] = "rule-name"
        /\ s[low + 4] = "=" /\ s[low + (b + 5)] = "]"
        /\ \A n \in 1 .. b : s[low + (4 + n)] = v[n]
    BY <2>1, <2>2, Zenon
  <2>5. P[5] = SubSeq(s, low + 1, low + (b + 5))
    BY <1>16, <2>2, Zenon
  <2> QED
    <3>1. s \in Seq(Token) /\ v \in Seq(Token) /\ Len(v) = b
      BY <1>l, <1>v, <1>b, Zenon
    <3>2. \A n \in 1 .. b : v[n] # "]"
      BY <1>2, Zenon
    <3>3. ParsedTo(P[5], [name |-> <<"rule-name">>,
                         key |-> << << <<"rule-name">>, v>> >>])
      BY <1>f, <2>3, <2>4, <2>5, <3>1, <3>2, KeyPiece, Zenon
    <3> QED
      BY <3>3, Zenon DEF Elem, ParsedTo
<1>21. ~Throws(s)
  <2>1. \A n \in 1 .. Len(P) : n = 1 \/ n = 2 \/ n = 3 \/ n = 4 \/ n = 5
    BY <1>15
  <2>2. \A n \in 1 .. Len(P) : Accepts(P[n])
    BY <1>18, <1>19, <1>20, <2>1, Zenon
  <2> QED
    BY <1>p, <2>2, Zenon DEF Throws
<1>22. StringToPath(s) = <<Element(P[1]), Element(P[2]), Element(P[3]),
                           Element(P[4]), Element(P[5])>>
  <2>1. StringToPath(s) = [n \in 1 .. 5 |-> Element(P[n])]
    BY <1>p, <1>15, Zenon DEF StringToPath
  <2>2. PICK e : e = [n \in 1 .. 5 |-> Element(P[n])]
    OBVIOUS
  <2>3. /\ e[1] = Element(P[1]) /\ e[2] = Element(P[2]) /\ e[3] = Element(P[3])
        /\ e[4] = Element(P[4]) /\ e[5] = Element(P[5])
    BY <2>2
  <2>4. e = <<e[1], e[2], e[3], e[4], e[5]>>
    BY <2>2
  <2> QED
    BY <2>1, <2>2, <2>3, <2>4, Zenon
<1> QED
  BY <1>s, <1>u, <1>v, <1>18, <1>19, <1>20, <1>21, <1>22, Zenon DEF Intended

-----------------------------------------------------------------------------
(* PRINTING AND PARSING AGAIN                                              *)

(* The shape of the printer's loop. *)
GoesLeft(f, N, t) ==
  f = [n \in 0 .. N |-> IF n = 0 THEN << >> ELSE f[n - 1] \o t[n]]

(* A function on 0 .. N that refers to itself at the next smaller argument *)
(* exists.                                                                 *)
LEMMA RecursionToTheLeft ==
  ASSUME NEW N \in Nat, NEW t
  PROVE  \E f : GoesLeft(f, N, t)
<1> DEFINE Value(g, x) == IF x = 0 THEN << >> ELSE g[x - 1] \o t[x]
           S == {n \in Nat : \E g : \A x \in 0 .. n : g[x] = Value(g, x)}
<1>1. 0 \in S
  <2>1. PICK g : g = [x \in 0 .. 0 |-> << >>]
    OBVIOUS
  <2>2. \A x \in 0 .. 0 : x = 0 /\ g[x] = << >>
    BY <2>1
  <2>3. \A x \in 0 .. 0 : g[x] = Value(g, x)
    BY <2>2, Zenon
  <2> QED
    BY <2>3
<1>2. ASSUME NEW n \in Nat, n \in S
      PROVE  n + 1 \in S
  <2>1. PICK g : \A x \in 0 .. n : g[x] = Value(g, x)
    BY <1>2
  <2> DEFINE h == [x \in 0 .. n + 1 |-> IF x = n + 1 THEN Value(g, x) ELSE g[x]]
  <2>2. ASSUME NEW x \in 0 .. n + 1
        PROVE  h[x] = Value(h, x)
    <3>1. x # 0 => h[x - 1] = g[x - 1]
      OBVIOUS
    <3>2. Value(h, x) = Value(g, x)
      <4> HIDE DEF h
      <4> QED
        BY <3>1
    <3>3. h[x] = Value(g, x)
      <4> HIDE DEF Value
      <4> QED
        BY <2>1
    <3> QED
      BY <3>2, <3>3
  <2>3. n + 1 \in Nat
    OBVIOUS
  <2> HIDE DEF h, Value
  <2> QED
    BY <2>2, <2>3
<1> HIDE DEF Value
<1>3. N \in S
  <2> HIDE DEF S
  <2> QED
    BY <1>1, <1>2, Induction
<1>4. PICK g : \A x \in 0 .. N : g[x] = Value(g, x)
  BY <1>3
<1> DEFINE f == [x \in 0 .. N |-> g[x]]
<1>5. ASSUME NEW x \in 0 .. N PROVE Value(f, x) = Value(g, x)
  <2>1. x # 0 => f[x - 1] = g[x - 1]
    OBVIOUS
  <2> HIDE DEF f
  <2> QED
    BY <2>1 DEF Value
<1>6. f = [x \in 0 .. N |-> Value(f, x)]
  <2>1. \A x \in 0 .. N : f[x] = Value(f, x)
    BY <1>4, <1>5
  <2> QED
    BY <2>1
<1> QED
  BY <1>6 DEF Value, GoesLeft

(* The loop over the elements satisfies its equations. *)
LEMMA TextUpToEquations ==
  ASSUME NEW path, Len(path) \in Nat
  PROVE  /\ TextUpTo(path)[0] = << >>
         /\ \A n \in 1 .. Len(path) :
              TextUpTo(path)[n] = TextUpTo(path)[n - 1] \o ElementText(path[n])
<1> DEFINE N == Len(path)
           t == [n \in 1 .. N |-> ElementText(path[n])]
           Is(f) == f = [n \in 0 .. N |-> IF n = 0 THEN << >> ELSE f[n - 1] \o ElementText(path[n])]
<1>1. \E f : GoesLeft(f, N, t)
  <2> HIDE DEF t
  <2> QED
    BY RecursionToTheLeft
<1>2. \E f : Is(f)
  <2>1. PICK f : GoesLeft(f, N, t)
    BY <1>1
  <2>2. ASSUME NEW n \in 0 .. N
        PROVE  (IF n = 0 THEN << >> ELSE f[n - 1] \o t[n])
                 = IF n = 0 THEN << >> ELSE f[n - 1] \o ElementText(path[n])
    <3>1. n # 0 => t[n] = ElementText(path[n])
      OBVIOUS
    <3> HIDE DEF t
    <3> QED
      BY <3>1
  <2> HIDE DEF t
  <2>3. Is(f)
    BY <2>1, <2>2 DEF GoesLeft
  <2> QED
    BY <2>3
<1>3. TextUpTo(path) = CHOOSE f : Is(f)
  BY DEF TextUpTo
<1>4. Is(TextUpTo(path))
  <2> HIDE DEF Is
  <2> QED
    BY <1>2, <1>3
<1>5. PICK u : u = TextUpTo(path)
  OBVIOUS
<1>6. u = [n \in 0 .. N |-> IF n = 0 THEN << >> ELSE u[n - 1] \o ElementText(path[n])]
  BY <1>4, <1>5
<1>7. u[0] = << >>
  BY <1>6
<1>8. ASSUME NEW n \in 1 .. N PROVE u[n] = u[n - 1] \o ElementText(path[n])
  <2>1. n \in 0 .. N /\ n # 0
    OBVIOUS
  <2>2. u[n] = IF n = 0 THEN << >> ELSE u[n - 1] \o ElementText(path[n])
    BY <1>6, <2>1, Zenon
  <2> QED
    BY <2>1, <2>2, Zenon
<1> QED
  BY <1>5, <1>7, <1>8

Without(t, x) == \A n \in 1 .. Len(t) : t[n] # x

(* What a name, a key or a value of an element parsed from a text is. *)
Part(t) == t \in Seq(Token) /\ t # << >> /\ Without(t, "/")

KeyedWith(e, name, k, v) ==
  /\ e = [name |-> name, key |-> << <<k, v>> >>]
  /\ Part(name) /\ Without(name, "[") /\ Without(name, "]")
  /\ Part(k) /\ Without(k, "=") /\ Without(k, "]")
  /\ Part(v) /\ Without(v, "]")

Printable(e) ==
  \/ \E name : /\ e = [name |-> name, key |-> << >>]
               /\ Part(name) /\ Without(name, "[")
  \/ \E name, k, v : KeyedWith(e, name, k, v)

(* The two ways to say that a token is not in a text. *)
LEMMA WithoutIsHasNot ==
  ASSUME NEW t, NEW x
  PROVE  Without(t, x) <=> ~Has(t, x)
BY DEF Without, Has, Positions

(* A part of a text, not empty, without a token that is not there. *)
LEMMA PartWithout ==
  ASSUME NEW s, NEW low \in Nat, NEW l \in Nat, NEW p, NEW x
  PROVE  /\ s \in Seq(Token) /\ low + l <= Len(s)
         /\ p = SubSeq(s, low + 1, low + l)
         /\ \A n \in low + 1 .. low + l : s[n] # x
         => Without(p, x)
<1>s. SUFFICES ASSUME s \in Seq(Token) /\ low + l <= Len(s) /\ p = SubSeq(s, low + 1, low + l),
                      \A n \in low + 1 .. low + l : s[n] # x
               PROVE  Without(p, x)
  BY Zenon
<1>1. Len(p) = l /\ \A n \in 1 .. l : p[n] = s[low + n]
  <2>1. IsPart(p, s, low, l)
    BY <1>s, PieceOf, Zenon
  <2> QED
    BY <2>1, Zenon DEF IsPart
<1>2. \A n \in 1 .. l : low + n \in low + 1 .. low + l
  OBVIOUS
<1> QED
  BY <1>s, <1>1, <1>2, Zenon DEF Without

(* A text's element is printable, unless its name has a closing bracket    *)
(* and it has a key.                                                       *)
LEMMA ElementShape ==
  ASSUME NEW p \in Seq(Token), Without(p, "/"), Accepts(p), NEW e, e = Element(p),
         e.key # << >> => Without(e.name, "]")
  PROVE  Printable(e)
<1>l. PICK l \in Nat : l = Len(p)
  OBVIOUS
<1>1. CASE ~Has(p, "[")
  <2>1. e = [name |-> p, key |-> << >>]
    BY <1>1, Zenon DEF Element
  <2>2. Part(p) /\ Without(p, "[")
    BY <1>1, WithoutIsHasNot, Zenon DEF Part, Accepts
  <2> QED
    BY <2>1, <2>2, Zenon DEF Printable
<1>2. CASE Has(p, "[")
  <2>x. PICK x : x = Find(p, "[")
    OBVIOUS
  <2>y. PICK y : y = Find(p, "]")
    OBVIOUS
  <2>w. PICK w : w = KeyValue(p)
    OBVIOUS
  <2>q. PICK q : q = Find(w, "=")
    OBVIOUS
  <2>1. Has(p, "]") /\ x > 1 /\ Has(w, "=") /\ q \in 2 .. Len(w) - 1
    BY <1>2, <2>x, <2>w, <2>q, Zenon DEF Accepts
  <2>2. x \in 2 .. l /\ p[x] = "[" /\ \A n \in 1 .. x - 1 : p[n] # "["
    BY <1>2, <1>l, <2>1, <2>x, FindProperties
  <2>3. y \in 1 .. l /\ p[y] = "]" /\ \A n \in 1 .. y - 1 : p[n] # "]"
    BY <1>l, <2>1, <2>y, FindProperties
  <2>n. PICK name : name = SubSeq(p, 1, x - 1)
    OBVIOUS
  <2>k. PICK k : k = SubSeq(w, 1, q - 1)
    OBVIOUS
  <2>v. PICK v : v = SubSeq(w, q + 1, Len(w))
    OBVIOUS
  <2>4. e = [name |-> name, key |-> << <<k, v>> >>]
    BY <1>2, <2>x, <2>w, <2>q, <2>n, <2>k, <2>v, Zenon DEF Element
  <2>5. e.name = name /\ e.key = << <<k, v>> >>
    BY <2>4
  <2>6. e.key # << >>
    BY <2>5
  <2>7. Without(name, "]")
    BY <2>5, <2>6, Zenon
  <2>8. PICK a \in Nat : a = x - 1
    BY <2>2
  <2>9. /\ 0 + a <= Len(p) /\ name = SubSeq(p, 0 + 1, 0 + a) /\ a # 0
        /\ \A n \in 0 + 1 .. 0 + a : p[n] # "[" /\ n \in 1 .. Len(p)
    <3>1. 0 + a = x - 1 /\ 0 + 1 = 1 /\ x - 1 <= l /\ a # 0
      BY <2>2, <2>8
    <3>2. \A n \in 1 .. x - 1 : n \in 1 .. l
      BY <2>2
    <3> QED
      BY <1>l, <2>2, <2>n, <3>1, <3>2, Zenon
  <2>10. name \in Seq(Token) /\ Len(name) = a /\ \A n \in 1 .. a : name[n] = p[0 + n]
    <3>1. 0 \in Nat
      OBVIOUS
    <3>2. IsPart(name, p, 0, a)
      BY <2>9, <3>1, PieceOf, Zenon
    <3> QED
      BY <3>2, Zenon DEF IsPart
  <2>11. Without(name, "[") /\ Without(name, "/") /\ name # << >>
    <3>1. 0 \in Nat
      OBVIOUS
    <3>2. \A n \in 0 + 1 .. 0 + a : p[n] # "/"
      BY <2>9, Zenon DEF Without
    <3>3. name # << >>
      BY <2>9, <2>10
    <3> QED
      BY <2>9, <3>1, <3>2, <3>3, PartWithout, Zenon
  <2>12. x < y
    <3>1. x # y
      <4>1. "[" # "]"
        OBVIOUS
      <4> QED
        BY <2>2, <2>3, <4>1, Zenon
    <3>2. ~(y < x)
      <4>1. SUFFICES ASSUME y < x PROVE FALSE
        OBVIOUS
      <4>2. y \in 1 .. a /\ 0 + y = y
        BY <2>2, <2>3, <2>8, <4>1
      <4>3. name[y] = "]"
        BY <2>3, <2>10, <4>2, Zenon
      <4> QED
        BY <2>7, <2>10, <4>2, <4>3, Zenon DEF Without
    <3> QED
      BY <2>2, <2>3, <3>1, <3>2
  <2>13. w = SubSeq(p, x + 1, y - 1)
    <3>1. y > x
      BY <2>2, <2>3, <2>12
    <3> QED
      BY <2>x, <2>y, <2>w, <3>1, Zenon DEF KeyValue
  <2>14. PICK b \in Nat : b = y - x - 1
    BY <2>2, <2>3, <2>12
  <2>15. x \in Nat /\ x + b <= Len(p) /\ w = SubSeq(p, x + 1, x + b)
    <3>1. x \in Nat /\ x + b = y - 1 /\ y - 1 <= l
      BY <2>2, <2>3, <2>14
    <3> QED
      BY <1>l, <2>13, <3>1, Zenon
  <2>16. w \in Seq(Token) /\ Len(w) = b
    <3>1. IsPart(w, p, x, b)
      BY <2>15, PieceOf, Zenon
    <3> QED
      BY <3>1, Zenon DEF IsPart
  <2>17. Without(w, "]") /\ Without(w, "/")
    <3>1. \A n \in x + 1 .. x + b : n \in 1 .. y - 1 /\ n \in 1 .. l
      BY <2>2, <2>3, <2>14
    <3>2. \A n \in x + 1 .. x + b : p[n] # "]"
      BY <2>3, <3>1, Zenon
    <3>3. \A n \in x + 1 .. x + b : p[n] # "/"
      BY <1>l, <3>1, Zenon DEF Without
    <3> QED
      BY <2>15, <3>2, <3>3, PartWithout, Zenon
  <2>18. \A n \in 1 .. q - 1 : w[n] # "="
    BY <2>1, <2>16, <2>q, FindProperties
  <2>19. q \in Nat /\ 2 <= q /\ q <= b - 1
    BY <2>1, <2>16
  <2>20. PICK c \in Nat : c = q - 1
    BY <2>19
  <2>21. PICK d \in Nat : d = b - q
    BY <2>19
  <2>22. /\ 0 \in Nat /\ 0 + c <= Len(w) /\ k = SubSeq(w, 0 + 1, 0 + c)
         /\ q + d <= Len(w) /\ v = SubSeq(w, q + 1, q + d)
         /\ c # 0 /\ d # 0
    <3>1. 0 + c = q - 1 /\ 0 + 1 = 1 /\ q - 1 <= b /\ q + d = b /\ b <= b /\ c # 0 /\ d # 0
      BY <2>19, <2>20, <2>21
    <3>2. 0 \in Nat
      OBVIOUS
    <3> QED
      BY <2>16, <2>k, <2>v, <3>1, <3>2, Zenon
  <2>23. k \in Seq(Token) /\ Len(k) = c /\ v \in Seq(Token) /\ Len(v) = d
    <3>1. IsPart(k, w, 0, c) /\ IsPart(v, w, q, d)
      BY <2>16, <2>19, <2>22, PieceOf, Zenon
    <3> QED
      BY <3>1, Zenon DEF IsPart
  <2>24. k # << >> /\ v # << >>
    BY <2>22, <2>23
  <2>25. \A n \in 0 + 1 .. 0 + c : w[n] # "=" /\ w[n] # "]" /\ w[n] # "/"
    <3>1. \A n \in 0 + 1 .. 0 + c : n \in 1 .. q - 1 /\ n \in 1 .. b
      BY <2>19, <2>20
    <3> QED
      BY <2>16, <2>17, <2>18, <3>1, Zenon DEF Without
  <2>26. \A n \in q + 1 .. q + d : w[n] # "]" /\ w[n] # "/"
    <3>1. \A n \in q + 1 .. q + d : n \in 1 .. b
      BY <2>19, <2>21
    <3> QED
      BY <2>16, <2>17, <3>1, Zenon DEF Without
  <2>27. Without(k, "=") /\ Without(k, "]") /\ Without(k, "/")
    BY <2>16, <2>22, <2>25, PartWithout, Zenon
  <2>28. Without(v, "]") /\ Without(v, "/")
    BY <2>16, <2>19, <2>22, <2>26, PartWithout, Zenon
  <2>29. KeyedWith(e, name, k, v)
    BY <2>4, <2>7, <2>10, <2>11, <2>23, <2>24, <2>27, <2>28, Zenon DEF KeyedWith, Part
  <2> QED
    BY <2>29, Zenon DEF Printable
<1> QED
  BY <1>1, <1>2

(* The text of an element with a key, element by element. *)
KeyedLayout(q, nm, a, k, b, v, c) ==
  /\ q \in Seq(Token) /\ Len(q) = a + b + c + 3
  /\ \A n \in 1 .. a : q[n] = nm[n]
  /\ q[a + 1] = "["
  /\ \A n \in 1 .. b : q[a + 1 + n] = k[n]
  /\ q[a + b + 2] = "="
  /\ \A n \in 1 .. c : q[a + b + 2 + n] = v[n]
  /\ q[a + b + c + 3] = "]"

(* That is what gnmipath_to_string prints after the slash. *)
LEMMA KeyedText ==
  ASSUME NEW nm, NEW k, NEW v, NEW a \in Nat, NEW b \in Nat, NEW c \in Nat, NEW q
  PROVE  /\ nm \in Seq(Token) /\ Len(nm) = a
         /\ k \in Seq(Token) /\ Len(k) = b
         /\ v \in Seq(Token) /\ Len(v) = c
         /\ q = nm \o (<<"[">> \o k \o <<"=">> \o v \o <<"]">>)
         => KeyedLayout(q, nm, a, k, b, v, c)
<1>s. SUFFICES ASSUME /\ nm \in Seq(Token) /\ Len(nm) = a
                      /\ k \in Seq(Token) /\ Len(k) = b
                      /\ v \in Seq(Token) /\ Len(v) = c,
                      q = nm \o (<<"[">> \o k \o <<"=">> \o v \o <<"]">>)
               PROVE  KeyedLayout(q, nm, a, k, b, v, c)
  BY Zenon
<1>1. PICK open : open = <<"[">>
  OBVIOUS
<1>2. PICK equals : equals = <<"=">>
  OBVIOUS
<1>3. PICK close : close = <<"]">>
  OBVIOUS
<1>4. PICK one \in Nat : one = 1
  OBVIOUS
<1>5. /\ open \in Seq(Separator) /\ Len(open) = 1 /\ open[1] = "["
      /\ equals \in Seq(Separator) /\ Len(equals) = 1 /\ equals[1] = "="
      /\ close \in Seq(Separator) /\ Len(close) = 1 /\ close[1] = "]"
  BY <1>1, <1>2, <1>3 DEF Separator
<1>6. /\ open \in Seq(Token) /\ Len(open) = one
      /\ equals \in Seq(Token) /\ Len(equals) = one
      /\ close \in Seq(Token) /\ Len(close) = one
  <2>1. Separator \subseteq Token
    BY Zenon DEF Token
  <2>2. open \in Seq(Token) /\ equals \in Seq(Token) /\ close \in Seq(Token)
    BY <1>5, <2>1, SeqMonotonic
  <2> QED
    BY <1>4, <1>5, <2>2, Zenon
<1>7. PICK t1 : t1 = open \o k
  OBVIOUS
<1>8. PICK t2 : t2 = t1 \o equals
  OBVIOUS
<1>9. PICK t3 : t3 = t2 \o v
  OBVIOUS
<1>10. PICK t4 : t4 = t3 \o close
  OBVIOUS
<1>11. q = nm \o t4
  BY <1>s, <1>1, <1>2, <1>3, <1>7, <1>8, <1>9, <1>10, Zenon
<1>12. PICK l1 \in Nat : l1 = one + b
  OBVIOUS
<1>13. PICK l2 \in Nat : l2 = l1 + one
  OBVIOUS
<1>14. PICK l3 \in Nat : l3 = l2 + c
  OBVIOUS
<1>15. PICK l4 \in Nat : l4 = l3 + one
  OBVIOUS
<1>16. PICK l5 \in Nat : l5 = a + l4
  OBVIOUS
<1>17. InARow(Token, t1, l1, open, one, k, b)
  BY <1>s, <1>6, <1>7, <1>12, Joined, Zenon
<1>18. InARow(Token, t2, l2, t1, l1, equals, one)
  <2>1. t1 \in Seq(Token) /\ Len(t1) = l1
    BY <1>17, Zenon DEF InARow
  <2> QED
    BY <1>6, <1>8, <1>13, <2>1, Joined, Zenon
<1>19. InARow(Token, t3, l3, t2, l2, v, c)
  <2>1. t2 \in Seq(Token) /\ Len(t2) = l2
    BY <1>18, Zenon DEF InARow
  <2> QED
    BY <1>s, <1>9, <1>14, <2>1, Joined, Zenon
<1>20. InARow(Token, t4, l4, t3, l3, close, one)
  <2>1. t3 \in Seq(Token) /\ Len(t3) = l3
    BY <1>19, Zenon DEF InARow
  <2> QED
    BY <1>6, <1>10, <1>15, <2>1, Joined, Zenon
<1>21. InARow(Token, q, l5, nm, a, t4, l4)
  <2>1. t4 \in Seq(Token) /\ Len(t4) = l4
    BY <1>20, Zenon DEF InARow
  <2> QED
    BY <1>s, <1>11, <1>16, <2>1, Joined, Zenon
<1>l. l1 = b + 1 /\ l2 = b + 2 /\ l3 = b + c + 2 /\ l4 = b + c + 3 /\ l5 = a + b + c + 3
  BY <1>4, <1>12, <1>13, <1>14, <1>15, <1>16
<1>22. q \in Seq(Token) /\ Len(q) = a + b + c + 3
  BY <1>l, <1>21, Zenon DEF InARow
<1>23. \A n \in 1 .. a : q[n] = nm[n]
  BY <1>21, Zenon DEF InARow
<1>24. q[a + 1] = "["
  <2>1. 1 \in 1 .. one /\ 1 \in 1 .. l1 /\ 1 \in 1 .. l2 /\ 1 \in 1 .. l3 /\ 1 \in 1 .. l4
    BY <1>4, <1>l
  <2>2. t4[1] = "["
    BY <1>5, <1>17, <1>18, <1>19, <1>20, <2>1, Zenon DEF InARow
  <2> QED
    BY <1>21, <2>1, <2>2, Zenon DEF InARow
<1>25. ASSUME NEW n \in 1 .. b PROVE q[a + 1 + n] = k[n]
  <2>1. PICK x : x = one + n
    OBVIOUS
  <2>2. x \in 1 .. l2 /\ x \in 1 .. l3 /\ x \in 1 .. l4 /\ x \in 1 .. l1 /\ a + x = a + 1 + n
    BY <1>4, <1>l, <2>1
  <2>3. t1[x] = k[n]
    BY <1>17, <2>1, Zenon DEF InARow
  <2>4. t4[x] = t1[x]
    BY <1>18, <1>19, <1>20, <2>2, Zenon DEF InARow
  <2>5. q[a + x] = t4[x]
    BY <1>21, <2>2, Zenon DEF InARow
  <2> QED
    BY <2>2, <2>3, <2>4, <2>5, Zenon
<1>26. q[a + b + 2] = "="
  <2>1. PICK x : x = l1 + 1
    OBVIOUS
  <2>2. x \in 1 .. l2 /\ x \in 1 .. l3 /\ x \in 1 .. l4 /\ a + x = a + b + 2 /\ 1 \in 1 .. one
    BY <1>4, <1>l, <2>1
  <2>3. t2[x] = "="
    BY <1>5, <1>18, <2>1, <2>2, Zenon DEF InARow
  <2>4. t4[x] = t2[x]
    BY <1>19, <1>20, <2>2, Zenon DEF InARow
  <2>5. q[a + x] = t4[x]
    BY <1>21, <2>2, Zenon DEF InARow
  <2> QED
    BY <2>2, <2>3, <2>4, <2>5, Zenon
<1>27. ASSUME NEW n \in 1 .. c PROVE q[a + b + 2 + n] = v[n]
  <2>1. PICK x : x = l2 + n
    OBVIOUS
  <2>2. x \in 1 .. l3 /\ x \in 1 .. l4 /\ a + x = a + b + 2 + n
    BY <1>l, <2>1
  <2>3. t3[x] = v[n]
    BY <1>19, <2>1, Zenon DEF InARow
  <2>4. t4[x] = t3[x]
    BY <1>20, <2>2, Zenon DEF InARow
  <2>5. q[a + x] = t4[x]
    BY <1>21, <2>2, Zenon DEF InARow
  <2> QED
    BY <2>2, <2>3, <2>4, <2>5, Zenon
<1>28. q[a + b + c + 3] = "]"
  <2>1. PICK x : x = l3 + 1
    OBVIOUS
  <2>2. x \in 1 .. l4 /\ a + x = a + b + c + 3 /\ 1 \in 1 .. one
    BY <1>4, <1>l, <2>1
  <2>3. t4[x] = "]"
    BY <1>5, <1>20, <2>1, <2>2, Zenon DEF InARow
  <2>4. q[a + x] = t4[x]
    BY <1>21, <2>2, Zenon DEF InARow
  <2> QED
    BY <2>2, <2>3, <2>4, Zenon
<1> QED
  BY <1>22, <1>23, <1>24, <1>25, <1>26, <1>27, <1>28, Zenon DEF KeyedLayout

(* An element is printed as a slash and a piece that is parsed to it. *)
PrintedAs(e, q) ==
  /\ q \in Seq(Token) /\ Without(q, "/")
  /\ ElementText(e) = <<"/">> \o q
  /\ ParsedTo(q, e)

(* Every printable element is printed as one. *)
LEMMA ElementPrinted ==
  ASSUME NEW e, Printable(e)
  PROVE  \E q : PrintedAs(e, q)
<1>0. <<"/">> \in Seq(Token)
  <2>1. "/" \in Token
    BY DEF Token, Separator
  <2> QED
    BY <2>1
<1>1. ASSUME NEW name, e = [name |-> name, key |-> << >>], Part(name), Without(name, "[")
      PROVE  \E q : PrintedAs(e, q)
  <2>1. e.name = name /\ e.key = << >>
    BY <1>1
  <2>2. ElementText(e) = <<"/">> \o name \o << >>
    BY <2>1, Zenon DEF ElementText
  <2>3. <<"/">> \o name \o << >> = <<"/">> \o name
    <3>1. <<"/">> \o name \in Seq(Token)
      BY <1>0, <1>1, ConcatProperties DEF Part
    <3> QED
      BY <3>1, ConcatEmptySeq
  <2>4. ParsedTo(name, e)
    BY <1>1, WithoutIsHasNot, PlainElement, Zenon DEF ParsedTo, Part
  <2>5. PrintedAs(e, name)
    BY <1>1, <2>2, <2>3, <2>4, Zenon DEF PrintedAs, Part
  <2> QED
    BY <2>5, Zenon
<1>2. ASSUME NEW nm, NEW k, NEW v, KeyedWith(e, nm, k, v)
      PROVE  \E q : PrintedAs(e, q)
  <2>1. nm \in Seq(Token) /\ k \in Seq(Token) /\ v \in Seq(Token)
    BY <1>2, Zenon DEF KeyedWith, Part
  <2>a. PICK a \in Nat : a = Len(nm)
    BY <2>1
  <2>b. PICK b \in Nat : b = Len(k)
    BY <2>1
  <2>c. PICK c \in Nat : c = Len(v)
    BY <2>1
  <2>2. a # 0 /\ b # 0 /\ c # 0
    <3>1. nm # << >> /\ k # << >> /\ v # << >>
      BY <1>2, Zenon DEF KeyedWith, Part
    <3> QED
      BY <2>1, <2>a, <2>b, <2>c, <3>1, EmptySeq
  <2>t. PICK t : t = <<"[">> \o k \o <<"=">> \o v \o <<"]">>
    OBVIOUS
  <2>q. PICK q : q = nm \o t
    OBVIOUS
  <2>3. /\ q \in Seq(Token) /\ Len(q) = a + b + c + 3
        /\ \A n \in 1 .. a : q[n] = nm[n]
        /\ q[a + 1] = "["
        /\ \A n \in 1 .. b : q[a + 1 + n] = k[n]
        /\ q[a + b + 2] = "="
        /\ \A n \in 1 .. c : q[a + b + 2 + n] = v[n]
        /\ q[a + b + c + 3] = "]"
    <3>1. KeyedLayout(q, nm, a, k, b, v, c)
      BY <2>1, <2>a, <2>b, <2>c, <2>t, <2>q, KeyedText, Zenon
    <3> QED
      BY <3>1, Zenon DEF KeyedLayout
  <2>4. \A n \in 1 .. a : q[n] # "[" /\ q[n] # "]" /\ q[n] # "/"
    BY <1>2, <2>3, <2>a, Zenon DEF KeyedWith, Part, Without
  <2>5. \A n \in 1 .. b : q[a + 1 + n] # "=" /\ q[a + 1 + n] # "]" /\ q[a + 1 + n] # "/"
    BY <1>2, <2>3, <2>b, Zenon DEF KeyedWith, Part, Without
  <2>6. \A n \in 1 .. c : q[a + b + 2 + n] # "]" /\ q[a + b + 2 + n] # "/"
    BY <1>2, <2>3, <2>c, Zenon DEF KeyedWith, Part, Without
  <2>7. ASSUME NEW n \in a + 2 .. a + b + 1 PROVE q[n] # "=" /\ q[n] # "]" /\ q[n] # "/"
    <3>1. n - (a + 1) \in 1 .. b /\ a + 1 + (n - (a + 1)) = n
      OBVIOUS
    <3> QED
      BY <2>5, <3>1, Zenon
  <2>8. ASSUME NEW n \in a + b + 3 .. a + b + c + 2 PROVE q[n] # "]" /\ q[n] # "/"
    <3>1. n - (a + b + 2) \in 1 .. c /\ a + b + 2 + (n - (a + b + 2)) = n
      OBVIOUS
    <3> QED
      BY <2>6, <3>1, Zenon
  <2>s. "[" # "/" /\ "=" # "/" /\ "]" # "/" /\ "=" # "]"
    OBVIOUS
  <2>9. ASSUME NEW n \in a + 2 .. a + b + c + 2 PROVE q[n] # "]"
    <3>1. n \in a + 2 .. a + b + 1 \/ n = a + b + 2 \/ n \in a + b + 3 .. a + b + c + 2
      OBVIOUS
    <3> QED
      BY <2>3, <2>7, <2>8, <2>s, <3>1, Zenon
  <2>10. Without(q, "/")
    <3>1. ASSUME NEW n \in 1 .. a + b + c + 3 PROVE q[n] # "/"
      <4>1. \/ n \in 1 .. a \/ n = a + 1 \/ n \in a + 2 .. a + b + 1 \/ n = a + b + 2
            \/ n \in a + b + 3 .. a + b + c + 2 \/ n = a + b + c + 3
        OBVIOUS
      <4> QED
        BY <2>3, <2>4, <2>7, <2>8, <2>s, <4>1, Zenon
    <3> QED
      BY <2>3, <3>1, Zenon DEF Without
  <2>11. ParsedTo(q, e)
    <3>1. a \in Nat \ {0} /\ b \in Nat \ {0} /\ c \in Nat \ {0}
      BY <2>2
    <3>2. /\ Accepts(q)
          /\ Element(q) = [name |-> SubSeq(q, 1, a),
                           key  |-> << <<SubSeq(q, a + 2, a + b + 1),
                                         SubSeq(q, a + b + 3, a + b + c + 2)>> >>]
      BY <2>3, <2>4, <2>7, <2>9, <3>1, KeyedElement, Zenon
    <3>3. SubSeq(q, 1, a) = nm
      <4>1. \A n \in 1 .. Len(nm) : q[0 + n] = nm[n]
        <5>1. \A n \in 1 .. a : 0 + n = n
          OBVIOUS
        <5> QED
          BY <2>3, <2>a, <5>1, Zenon
      <4>2. SubSeq(q, 0 + 1, 0 + Len(nm)) = nm
        BY <2>1, <4>1, PartOf
      <4>3. 0 + 1 = 1 /\ 0 + a = a
        OBVIOUS
      <4> QED
        BY <2>a, <4>2, <4>3, Zenon
    <3>4. SubSeq(q, a + 2, a + b + 1) = k
      <4>1. PICK low \in Nat : low = a + 1
        OBVIOUS
      <4>2. \A n \in 1 .. Len(k) : q[low + n] = k[n]
        BY <2>3, <2>b, <4>1, Zenon
      <4>3. SubSeq(q, low + 1, low + Len(k)) = k
        BY <2>1, <4>2, PartOf
      <4>4. low + 1 = a + 2 /\ low + b = a + b + 1
        BY <4>1
      <4> QED
        BY <2>b, <4>3, <4>4, Zenon
    <3>5. SubSeq(q, a + b + 3, a + b + c + 2) = v
      <4>1. PICK low \in Nat : low = a + b + 2
        OBVIOUS
      <4>2. \A n \in 1 .. Len(v) : q[low + n] = v[n]
        BY <2>3, <2>c, <4>1, Zenon
      <4>3. SubSeq(q, low + 1, low + Len(v)) = v
        BY <2>1, <4>2, PartOf
      <4>4. low + 1 = a + b + 3 /\ low + c = a + b + c + 2
        BY <4>1
      <4> QED
        BY <2>c, <4>3, <4>4, Zenon
    <3> QED
      BY <1>2, <3>2, <3>3, <3>4, <3>5, Zenon DEF ParsedTo, KeyedWith
  <2>12. ElementText(e) = <<"/">> \o q
    <3>1. e.name = nm /\ e.key = << <<k, v>> >>
      BY <1>2, Zenon DEF KeyedWith
    <3>2. e.key # << >> /\ e.key[1][1] = k /\ e.key[1][2] = v
      BY <3>1
    <3>3. ElementText(e) = (<<"/">> \o nm) \o t
      BY <2>t, <3>1, <3>2, Zenon DEF ElementText
    <3>4. t \in Seq(Token)
      <4>1. "[" \in Token /\ "=" \in Token /\ "]" \in Token
        BY DEF Token, Separator
      <4>2. <<"[">> \in Seq(Token) /\ <<"=">> \in Seq(Token) /\ <<"]">> \in Seq(Token)
        BY <4>1
      <4> QED
        BY <2>1, <2>t, <4>2, ConcatProperties
    <3>5. (<<"/">> \o nm) \o t = <<"/">> \o (nm \o t)
      BY <1>0, <2>1, <3>4, ConcatAssociative
    <3> QED
      BY <2>q, <3>3, <3>5, Zenon
  <2>13. PrintedAs(e, q)
    BY <2>3, <2>10, <2>11, <2>12, Zenon DEF PrintedAs
  <2> QED
    BY <2>13, Zenon
<1> QED
  BY <1>1, <1>2, Zenon DEF Printable

(* Where the elements of a path are in its text: len[n] is the length of   *)
(* what is printed of the first n, and q[n] is the piece of element n.     *)
PrintedLayout(s, m, len, q) ==
  /\ len \in [0 .. m -> Nat]
  /\ len[0] = 0 /\ len[m] = Len(s)
  /\ s \in Seq(Token)
  /\ \A n \in 1 .. m :
       /\ len[n] = len[n - 1] + 1 + Len(q[n])
       /\ len[n] <= Len(s)
       /\ s[len[n - 1] + 1] = "/"
       /\ \A x \in 1 .. Len(q[n]) : s[len[n - 1] + 1 + x] = q[n][x]

(* That is what gnmipath_to_string prints, by induction on the number of   *)
(* elements.                                                               *)
LEMMA PathIsPrinted ==
  ASSUME NEW path, NEW m \in Nat, NEW q
  PROVE  Len(path) = m /\ (\A n \in 1 .. m : PrintedAs(path[n], q[n]))
         => \E len : PrintedLayout(PathToString(path), m, len, q)
<1>h. SUFFICES ASSUME Len(path) = m, \A n \in 1 .. m : PrintedAs(path[n], q[n])
               PROVE  \E len : PrintedLayout(PathToString(path), m, len, q)
  BY Zenon
<1>u. PICK U : U = TextUpTo(path)
  OBVIOUS
<1>s. PICK s : s = PathToString(path)
  OBVIOUS
<1>1. U[0] = << >>
  BY <1>h, <1>u, TextUpToEquations
<1>2. ASSUME NEW n \in 1 .. m PROVE U[n] = U[n - 1] \o (<<"/">> \o q[n])
  <2>1. U[n] = U[n - 1] \o ElementText(path[n])
    BY <1>h, <1>u, TextUpToEquations
  <2>2. PrintedAs(path[n], q[n])
    BY <1>h, Zenon
  <2> QED
    BY <2>1, <2>2, Zenon DEF PrintedAs
<1>3. s = U[m]
  BY <1>h, <1>u, <1>s, Zenon DEF PathToString
<1>4. PICK one \in Nat : one = 1
  OBVIOUS
<1>5. PICK slash : slash = <<"/">>
  OBVIOUS
<1>6. slash \in Seq(Token) /\ Len(slash) = one /\ slash[1] = "/"
  <2>1. "/" \in Token
    BY DEF Token, Separator
  <2> QED
    BY <1>4, <1>5, <2>1
<1>7. ASSUME NEW n \in 1 .. m
      PROVE  /\ q[n] \in Seq(Token) /\ Len(q[n]) \in Nat
             /\ InARow(Token, <<"/">> \o q[n], 1 + Len(q[n]), slash, one, q[n], Len(q[n]))
  <2>1. PrintedAs(path[n], q[n])
    BY <1>h, Zenon
  <2>2. q[n] \in Seq(Token)
    BY <2>1, Zenon DEF PrintedAs
  <2>3. Len(q[n]) \in Nat
    BY <2>2
  <2> QED
    BY <1>4, <1>5, <1>6, <2>2, <2>3, Joined, Zenon
<1>8. \A n \in Nat : n \in {x \in Nat : x <= m => U[x] \in Seq(Token)}
  <2> DEFINE S == {x \in Nat : x <= m => U[x] \in Seq(Token)}
  <2>1. 0 \in S
    <3>1. U[0] \in Seq(Token)
      BY <1>1, EmptySeq
    <3> QED
      BY <3>1
  <2>2. ASSUME NEW n \in Nat, n \in S PROVE n + 1 \in S
    <3> SUFFICES ASSUME n + 1 <= m PROVE U[n + 1] \in Seq(Token)
      OBVIOUS
    <3>1. PICK x \in 1 .. m : x = n + 1 /\ x - 1 = n
      OBVIOUS
    <3>2. U[n] \in Seq(Token)
      BY <2>2
    <3>3. PICK t : t = <<"/">> \o q[x]
      OBVIOUS
    <3>4. t \in Seq(Token)
      BY <1>7, <3>3, Zenon DEF InARow
    <3>5. U[x] = U[n] \o t
      BY <1>2, <3>1, <3>3, Zenon
    <3>6. U[n] \o t \in Seq(Token)
      BY <3>2, <3>4, ConcatProperties, Zenon
    <3> QED
      BY <3>1, <3>5, <3>6, Zenon
  <2> HIDE DEF S
  <2>3. \A n \in Nat : n \in S
    BY <2>1, <2>2, Induction
  <2> QED
    BY <2>3 DEF S
<1>9. ASSUME NEW n \in 0 .. m PROVE U[n] \in Seq(Token) /\ Len(U[n]) \in Nat
  <2>1. n \in Nat /\ n <= m
    OBVIOUS
  <2>2. U[n] \in Seq(Token)
    BY <1>8, <2>1, Zenon
  <2> QED
    BY <2>2
<1>l. PICK len : len = [n \in 0 .. m |-> Len(U[n])]
  OBVIOUS
<1>10. len \in [0 .. m -> Nat] /\ \A n \in 0 .. m : len[n] = Len(U[n])
  BY <1>9, <1>l
<1>11. ASSUME NEW n \in 1 .. m
       PROVE  /\ len[n] = len[n - 1] + 1 + Len(q[n])
              /\ InARow(Token, U[n], len[n], U[n - 1], len[n - 1], <<"/">> \o q[n], 1 + Len(q[n]))
  <2>1. n \in 0 .. m /\ n - 1 \in 0 .. m
    OBVIOUS
  <2>t. PICK t : t = <<"/">> \o q[n]
    OBVIOUS
  <2>x. PICK x \in Nat : x = 1 + Len(q[n])
    BY <1>7
  <2>2. t \in Seq(Token) /\ Len(t) = x
    BY <1>7, <2>t, <2>x, Zenon DEF InARow
  <2>a. PICK a \in Nat : a = len[n - 1]
    BY <1>10, <2>1
  <2>3. U[n] = U[n - 1] \o t /\ U[n - 1] \in Seq(Token) /\ Len(U[n - 1]) = a
    BY <1>2, <1>9, <1>10, <2>1, <2>t, <2>a, Zenon
  <2>4. InARow(Token, U[n], a + x, U[n - 1], a, t, x)
    BY <2>2, <2>3, Joined, Zenon
  <2>5. Len(U[n]) = a + x
    BY <2>4, Zenon DEF InARow
  <2>6. len[n] = a + x
    BY <1>10, <2>1, <2>5, Zenon
  <2>7. a + x = a + 1 + Len(q[n])
    <3>1. PICK y \in Nat : y = Len(q[n])
      BY <1>7
    <3>2. x = 1 + y
      BY <2>x, <3>1, Zenon
    <3>3. a + x = a + 1 + y
      BY <3>2
    <3> QED
      BY <3>1, <3>3, Zenon
  <2> QED
    BY <2>4, <2>6, <2>7, <2>a, <2>x, <2>t, Zenon
<1> DEFINE Prefix(n) == len[n] <= len[m] /\ \A x \in 1 .. len[n] : s[x] = U[n][x]
<1>12. \A d \in Nat : d \in {x \in Nat : x <= m => Prefix(m - x)}
  <2> DEFINE S == {x \in Nat : x <= m => Prefix(m - x)}
  <2>1. 0 \in S
    <3>1. m - 0 = m /\ m \in 0 .. m
      OBVIOUS
    <3>2. len[m] <= len[m]
      BY <1>10, <3>1
    <3>3. Prefix(m)
      BY <1>3, <3>2, Zenon
    <3> HIDE DEF Prefix
    <3> QED
      BY <3>1, <3>3
  <2>2. ASSUME NEW d \in Nat, d \in S PROVE d + 1 \in S
    <3> SUFFICES ASSUME d + 1 <= m PROVE Prefix(m - (d + 1))
      <4> HIDE DEF Prefix
      <4> QED
        OBVIOUS
    <3>1. PICK n \in 1 .. m : n = m - d /\ m - (d + 1) = n - 1
      OBVIOUS
    <3>2. Prefix(n)
      <4> HIDE DEF Prefix
      <4>1. d <= m
        OBVIOUS
      <4> QED
        BY <2>2, <3>1, <4>1
    <3>3. n \in 0 .. m /\ n - 1 \in 0 .. m
      OBVIOUS
    <3>4. PICK a \in Nat : a = len[n - 1]
      BY <1>10, <3>3
    <3>5. PICK b \in Nat : b = len[n]
      BY <1>10, <3>3
    <3>6. PICK c \in Nat : c = len[m]
      BY <1>10
    <3>7. a <= b /\ b <= c
      <4>y. PICK y \in Nat : y = Len(q[n])
        BY <1>7
      <4>1. b = a + 1 + y
        BY <1>11, <3>4, <3>5, <4>y, Zenon
      <4>2. b <= c
        BY <3>2, <3>5, <3>6, Zenon
      <4> QED
        BY <4>1, <4>2
    <3>8. ASSUME NEW x \in 1 .. a PROVE s[x] = U[n - 1][x]
      <4>1. x \in 1 .. b
        BY <3>7
      <4>2. s[x] = U[n][x]
        BY <3>2, <3>5, <4>1, Zenon
      <4>3. U[n][x] = U[n - 1][x]
        BY <1>11, <3>4, Zenon DEF InARow
      <4> QED
        BY <4>2, <4>3, Zenon
    <3>9. a <= c
      BY <3>7
    <3>10. Prefix(n - 1)
      BY <3>4, <3>6, <3>8, <3>9, Zenon
    <3> HIDE DEF Prefix
    <3> QED
      BY <3>1, <3>10, Zenon
  <2> HIDE DEF S
  <2>3. \A d \in Nat : d \in S
    BY <2>1, <2>2, Induction
  <2> QED
    BY <2>3 DEF S
<1>13. ASSUME NEW n \in 0 .. m PROVE Prefix(n)
  <2>1. m - n \in Nat /\ m - n <= m /\ m - (m - n) = n
    OBVIOUS
  <2>2. m - n <= m => Prefix(m - (m - n))
    <3> HIDE DEF Prefix
    <3> QED
      BY <1>12, <2>1
  <2> HIDE DEF Prefix
  <2> QED
    BY <2>1, <2>2, Zenon
<1>14. s \in Seq(Token) /\ len[m] = Len(s) /\ len[0] = 0
  <2>1. m \in 0 .. m /\ 0 \in 0 .. m
    OBVIOUS
  <2>2. len[0] = Len(<< >>)
    BY <1>1, <1>10, <2>1, Zenon
  <2>3. Len(<< >>) = 0
    OBVIOUS
  <2> QED
    BY <1>3, <1>9, <1>10, <2>1, <2>2, <2>3, Zenon
<1>15. ASSUME NEW n \in 1 .. m
       PROVE  /\ len[n] = len[n - 1] + 1 + Len(q[n])
              /\ len[n] <= Len(s)
              /\ s[len[n - 1] + 1] = "/"
              /\ \A x \in 1 .. Len(q[n]) : s[len[n - 1] + 1 + x] = q[n][x]
  <2>1. n \in 0 .. m /\ n - 1 \in 0 .. m
    OBVIOUS
  <2>2. len[n] <= Len(s) /\ \A x \in 1 .. len[n] : s[x] = U[n][x]
    BY <1>13, <1>14, <2>1, Zenon
  <2>a. PICK a \in Nat : a = len[n - 1]
    BY <1>10, <2>1
  <2>b. PICK b \in Nat : b = Len(q[n])
    BY <1>7
  <2>t. PICK t : t = <<"/">> \o q[n]
    OBVIOUS
  <2>3. len[n] = a + 1 + b
    BY <1>11, <2>a, <2>b, Zenon
  <2>4. \A x \in 1 .. 1 + b : U[n][a + x] = t[x]
    BY <1>11, <2>a, <2>b, <2>t, Zenon DEF InARow
  <2>5. t[1] = "/" /\ \A x \in 1 .. b : t[1 + x] = q[n][x]
    <3>1. InARow(Token, t, 1 + b, slash, one, q[n], b)
      BY <1>7, <2>b, <2>t, Zenon
    <3>2. 1 \in 1 .. one
      BY <1>4
    <3> QED
      BY <1>4, <1>6, <3>1, <3>2, Zenon DEF InARow
  <2>6. ASSUME NEW x \in 1 .. 1 + b PROVE s[a + x] = t[x]
    <3>1. a + x \in 1 .. a + 1 + b
      OBVIOUS
    <3> QED
      BY <2>2, <2>3, <2>4, <3>1, Zenon
  <2>7. s[a + 1] = "/"
    <3>1. 1 \in 1 .. 1 + b
      OBVIOUS
    <3> QED
      BY <2>5, <2>6, <3>1, Zenon
  <2>8. ASSUME NEW x \in 1 .. b PROVE s[a + 1 + x] = q[n][x]
    <3>1. 1 + x \in 1 .. 1 + b /\ a + (1 + x) = a + 1 + x
      OBVIOUS
    <3> QED
      BY <2>5, <2>6, <3>1, Zenon
  <2> QED
    BY <2>2, <2>3, <2>7, <2>8, <2>a, <2>b, Zenon
<1>16. PrintedLayout(s, m, len, q)
  BY <1>10, <1>14, <1>15, Zenon DEF PrintedLayout
<1> QED
  BY <1>s, <1>16, Zenon

(* A text laid out like this is parsed into the pieces q. *)
LEMMA PrintedIsParsed ==
  ASSUME NEW s, NEW m \in Nat, NEW len, NEW q
  PROVE  /\ PrintedLayout(s, m, len, q)
         /\ \A n \in 1 .. m : q[n] \in Seq(Token) /\ q[n] # << >> /\ Without(q[n], "/")
         => Len(Pieces(s)) = m /\ \A n \in 1 .. m : Pieces(s)[n] = q[n]
<1>h. SUFFICES
        ASSUME PrintedLayout(s, m, len, q),
               \A n \in 1 .. m : q[n] \in Seq(Token) /\ q[n] # << >> /\ Without(q[n], "/")
        PROVE  Len(Pieces(s)) = m /\ \A n \in 1 .. m : Pieces(s)[n] = q[n]
  BY Zenon
<1>1. s \in Seq(Token) /\ len \in [0 .. m -> Nat] /\ len[0] = 0 /\ len[m] = Len(s)
  BY <1>h, Zenon DEF PrintedLayout
<1>L. PICK L \in Nat : L = Len(s)
  BY <1>1
<1>2. CASE m = 0
  <2>1. Len(s) = 0
    BY <1>1, <1>2, Zenon
  <2>2. FirstPiece(s) = 1
    BY <1>1, <2>1 DEF FirstPiece
  <2>3. PiecesFrom(s)[1] = << >>
    <3>1. Len(s) \in Nat /\ 1 \in 1 .. Len(s) + 2 /\ 1 > Len(s)
      BY <2>1
    <3> QED
      BY <3>1, PiecesFromStep
  <2>4. Pieces(s) = << >>
    BY <2>2, <2>3, Zenon DEF Pieces
  <2>5. Len(<< >>) = 0 /\ 1 .. 0 = {}
    OBVIOUS
  <2> QED
    BY <1>2, <2>4, <2>5, Zenon
<1>3. CASE m # 0
  <2>0. m \in 1 .. m /\ 1 \in 1 .. m /\ 1 - 1 = 0
    BY <1>3
  <2>c. PICK cut : cut = [k \in 0 .. m |-> len[k] + 1]
    OBVIOUS
  <2>1. cut \in [0 .. m -> Nat] /\ \A k \in 0 .. m : cut[k] = len[k] + 1
    BY <1>1, <2>c
  <2>2. ASSUME NEW k \in 1 .. m
        PROVE  IsCut(s, cut[k - 1], cut[k]) /\ SubSeq(s, cut[k - 1] + 1, cut[k] - 1) = q[k]
    <3>1. k \in 0 .. m /\ k - 1 \in 0 .. m
      OBVIOUS
    <3>q. PICK p \in Seq(Token) : p = q[k]
      BY <1>h
    <3>2. p # << >> /\ Without(p, "/")
      BY <1>h, <3>q, Zenon
    <3>b. PICK b \in Nat : b = Len(p)
      BY <3>q
    <3>a. PICK a \in Nat : a = len[k - 1]
      BY <1>1, <3>1
    <3>3. b # 0
      BY <3>q, <3>2, <3>b, EmptySeq
    <3>4. /\ len[k] = a + 1 + b
          /\ len[k] <= L
          /\ \A x \in 1 .. b : s[a + 1 + x] = p[x]
      BY <1>h, <1>L, <3>a, <3>b, <3>q, Zenon DEF PrintedLayout
    <3>5. a + 1 + b <= L
      BY <3>4, Zenon
    <3>x. PICK x \in Nat : x = a + 1
      OBVIOUS
    <3>y. PICK y \in Nat : y = a + b + 2
      OBVIOUS
    <3>6. cut[k - 1] = x
      BY <2>1, <3>1, <3>a, <3>x, Zenon
    <3>7. cut[k] = y
      <4>1. cut[k] = a + 1 + b + 1
        BY <2>1, <3>1, <3>4, Zenon
      <4>2. a + 1 + b + 1 = a + b + 2
        OBVIOUS
      <4> QED
        BY <3>y, <4>1, <4>2, Zenon
    <3>8. x < L /\ y \in x + 1 .. L + 1
      BY <3>3, <3>5, <3>x, <3>y
    <3>9. NoSlash(s, x + 1, y - 1)
      <4>1. ASSUME NEW n \in x + 1 .. y - 1 PROVE s[n] # "/"
        <5>1. n - x \in 1 .. b /\ a + 1 + (n - x) = n
          BY <3>x, <3>y
        <5>2. s[n] = p[n - x]
          BY <3>4, <5>1, Zenon
        <5>3. p[n - x] # "/"
          BY <3>2, <3>b, <5>1, Zenon DEF Without
        <5> QED
          BY <5>2, <5>3, Zenon
      <4> QED
        BY <4>1, Zenon DEF NoSlash
    <3>10. y <= L => s[y] = "/"
      <4>1. CASE k = m
        <5>1. L = a + 1 + b
          BY <1>1, <1>L, <3>4, <4>1, Zenon
        <5>2. ~(y <= L)
          BY <3>y, <5>1
        <5> QED
          BY <5>2
      <4>2. CASE k # m
        <5>1. PICK n \in 1 .. m : n - 1 = k
          <6>1. k + 1 \in 1 .. m /\ k + 1 - 1 = k
            BY <4>2
          <6> QED
            BY <6>1
        <5>2. s[len[k] + 1] = "/"
          <6>1. s[len[n - 1] + 1] = "/"
            BY <1>h, <5>1, Zenon DEF PrintedLayout
          <6> QED
            BY <5>1, <6>1, Zenon
        <5>3. a + 1 + b + 1 = y
          BY <3>y
        <5> QED
          BY <3>4, <5>2, <5>3, Zenon
      <4> QED
        BY <4>1, <4>2
    <3>11. IsCut(s, x, y)
      BY <1>L, <3>8, <3>9, <3>10, Zenon DEF IsCut
    <3>12. SubSeq(s, x + 1, y - 1) = p
      <4>1. \A n \in 1 .. Len(p) : s[x + n] = p[n]
        BY <3>4, <3>b, <3>x, Zenon
      <4>2. SubSeq(s, x + 1, x + Len(p)) = p
        BY <3>q, <4>1, PartOf
      <4>3. y - 1 = x + b
        BY <3>x, <3>y
      <4> QED
        BY <3>b, <4>2, <4>3, Zenon
    <3> QED
      BY <3>6, <3>7, <3>q, <3>11, <3>12, Zenon
  <2>3. cut[0] = FirstPiece(s) - 1
    <3>1. s[len[0] + 1] = "/" /\ len[1] = len[0] + 1 + Len(q[1]) /\ len[1] <= L
      BY <1>h, <1>L, <2>0, Zenon DEF PrintedLayout
    <3>2. 0 + 1 = 1
      OBVIOUS
    <3>3. s[1] = "/"
      BY <1>1, <3>1, <3>2, Zenon
    <3>4. s # << >>
      <4>1. IsCut(s, cut[0], cut[1])
        BY <2>0, <2>2, Zenon
      <4>2. cut[0] < L /\ cut[0] \in Nat
        BY <1>L, <2>1, <4>1 DEF IsCut
      <4>3. L # 0
        BY <4>2
      <4> QED
        BY <1>L, <4>3
    <3>5. FirstPiece(s) = 2
      BY <3>3, <3>4, Zenon DEF FirstPiece
    <3>6. cut[0] = 0 + 1
      <4>1. 0 \in 0 .. m
        OBVIOUS
      <4> QED
        BY <1>1, <2>1, <4>1, Zenon
    <3> QED
      BY <3>5, <3>6
  <2>4. Len(s) <= cut[m]
    <3>1. cut[m] = L + 1
      <4>1. m \in 0 .. m
        OBVIOUS
      <4> QED
        BY <1>1, <1>L, <2>1, <4>1, Zenon
    <3> QED
      BY <1>L, <3>1
  <2>5. /\ Len(Pieces(s)) = m
        /\ \A k \in 1 .. m : Pieces(s)[k] = SubSeq(s, cut[k - 1] + 1, cut[k] - 1)
    <3>1. \A k \in 1 .. m : IsCut(s, cut[k - 1], cut[k])
      BY <2>2, Zenon
    <3>2. Len(s) \in Nat
      BY <1>L
    <3> QED
      BY <2>1, <2>3, <2>4, <3>1, <3>2, PiecesByCuts, Zenon
  <2> QED
    BY <2>2, <2>5, Zenon
<1> QED
  BY <1>2, <1>3

(* Parsing the text s gives the path. *)
RoundTrips(s, path) == ~Throws(s) /\ StringToPath(s) = path

(* A path of printable elements is parsed back from its text. *)
LEMMA PrintableRoundTrip ==
  ASSUME NEW path, NEW m \in Nat, NEW s
  PROVE  /\ path = [n \in 1 .. m |-> path[n]] /\ Len(path) = m
         /\ \A n \in 1 .. m : Printable(path[n])
         /\ s = PathToString(path)
         => RoundTrips(s, path)
<1>h. SUFFICES ASSUME path = [n \in 1 .. m |-> path[n]], Len(path) = m,
                      \A n \in 1 .. m : Printable(path[n]),
                      s = PathToString(path)
               PROVE  RoundTrips(s, path)
  BY Zenon
<1>q. PICK q : q = [n \in 1 .. m |-> CHOOSE p : PrintedAs(path[n], p)]
  OBVIOUS
<1>1. ASSUME NEW n \in 1 .. m PROVE PrintedAs(path[n], q[n])
  <2>1. \E p : PrintedAs(path[n], p)
    BY <1>h, ElementPrinted, Zenon
  <2>2. q[n] = CHOOSE p : PrintedAs(path[n], p)
    BY <1>q
  <2> QED
    BY <2>1, <2>2, Zenon
<1>2. PICK len : PrintedLayout(s, m, len, q)
  <2>1. \E len : PrintedLayout(PathToString(path), m, len, q)
    <3>1. \A n \in 1 .. m : PrintedAs(path[n], q[n])
      BY <1>1, Zenon
    <3> QED
      BY <1>h, <3>1, PathIsPrinted, Zenon
  <2> QED
    BY <1>h, <2>1, Zenon
<1>3. Len(Pieces(s)) = m /\ \A n \in 1 .. m : Pieces(s)[n] = q[n]
  <2>1. \A n \in 1 .. m : q[n] \in Seq(Token) /\ q[n] # << >> /\ Without(q[n], "/")
    BY <1>1, Zenon DEF PrintedAs, ParsedTo, Accepts
  <2> QED
    BY <1>2, <2>1, PrintedIsParsed, Zenon
<1>4. ~Throws(s)
  BY <1>1, <1>3, Zenon DEF Throws, PrintedAs, ParsedTo
<1>5. StringToPath(s) = [n \in 1 .. m |-> Element(Pieces(s)[n])]
  BY <1>3, Zenon DEF StringToPath
<1>6. \A n \in 1 .. m : Element(Pieces(s)[n]) = path[n]
  BY <1>1, <1>3, Zenon DEF PrintedAs, ParsedTo
<1>7. PICK r : r = [n \in 1 .. m |-> Element(Pieces(s)[n])]
  OBVIOUS
<1>8. r = [n \in 1 .. m |-> path[n]]
  BY <1>6, <1>7
<1> QED
  BY <1>h, <1>4, <1>5, <1>7, <1>8, Zenon DEF RoundTrips

(* get_gnmi_paths writes texts. *)
LEMMA TextOfKey ==
  ASSUME NEW key \in PbrKey
  PROVE  PathText(key) \in Text
<1>s. PICK s : s = PathText(key)
  OBVIOUS
<1>u. PICK u \in Seq(Token) : u = key.key_policy
  BY DEF PbrKey, Text, Token
<1>v. PICK v \in Seq(Token) : v = key.key_rule
  BY DEF PbrKey, Text, Token
<1>1. Len(u) \in Nat /\ Len(v) \in Nat
  OBVIOUS
<1>2. KeyLayout(s, u, Len(u), v, Len(v))
  BY <1>s, <1>u, <1>v, <1>1, PathTextLayout, Zenon
<1>3. s \in Seq(Token)
  BY <1>2, Zenon DEF KeyLayout
<1> QED
  BY <1>s, <1>3, Zenon DEF Text, Token

(* What is parsed from a text is printed and parsed to the same path, if   *)
(* no name of an element with a key has a closing bracket.                 *)
LEMMA ParsedRoundTrip ==
  ASSUME NEW text \in Text, NEW path, NEW s
  PROVE  /\ ~Throws(text) /\ path = StringToPath(text)
         /\ \A n \in 1 .. Len(path) : path[n].key # << >> => ~Has(path[n].name, "]")
         /\ s = PathToString(path)
         => RoundTrips(s, path)
<1>h. SUFFICES
        ASSUME ~Throws(text), path = StringToPath(text),
               \A n \in 1 .. Len(path) : path[n].key # << >> => ~Has(path[n].name, "]"),
               s = PathToString(path)
        PROVE  RoundTrips(s, path)
  BY Zenon
<1>p. PICK P : P = Pieces(text)
  OBVIOUS
<1>1. P \in Seq({p \in Text : ~Has(p, "/")})
  BY <1>p, PiecesHaveNoSlash
<1>m. PICK m \in Nat : m = Len(P)
  BY <1>1
<1>2. ASSUME NEW n \in 1 .. m
      PROVE  P[n] \in Seq(Token) /\ Without(P[n], "/") /\ Accepts(P[n])
  <2>1. P[n] \in {p \in Text : ~Has(p, "/")}
    BY <1>1, <1>m
  <2>2. P[n] \in Seq(Token) /\ Without(P[n], "/")
    BY <2>1, WithoutIsHasNot, Zenon DEF Text, Token
  <2> QED
    BY <1>h, <1>m, <1>p, <2>2, Zenon DEF Throws
<1>3. path = [n \in 1 .. m |-> Element(P[n])]
  BY <1>h, <1>p, <1>m, Zenon DEF StringToPath
<1>4. /\ Len(path) = m
      /\ \A n \in 1 .. m : path[n] = Element(P[n])
      /\ path = [n \in 1 .. m |-> path[n]]
  BY <1>3
<1>5. ASSUME NEW n \in 1 .. m PROVE Printable(path[n])
  <2>e. PICK e : e = Element(P[n])
    OBVIOUS
  <2>1. path[n] = e
    BY <1>4, <2>e, Zenon
  <2>2. e.key # << >> => Without(e.name, "]")
    BY <1>h, <1>4, <2>1, WithoutIsHasNot, Zenon
  <2>3. Printable(e)
    BY <1>2, <2>e, <2>2, ElementShape, Zenon
  <2> QED
    BY <2>1, <2>3, Zenon
<1> QED
  BY <1>h, <1>4, <1>5, PrintableRoundTrip, Zenon

-----------------------------------------------------------------------------
(* THE REQUEST                                                             *)

PathFor(key) == IF Throws(PathText(key)) THEN NoPath ELSE StringToPath(PathText(key))

(* The subscriptions are the paths of the keys converted so far, in their  *)
(* order, and the helper returns SUCCESS only after the last of them.      *)
RequestInv ==
  /\ TypeOK
  /\ subscription = [n \in 1 .. i |-> PathFor(asked.keys[n])]
  /\ pc \in {"encoding", "paths"} => err = "none"
  /\ err = "SUCCESS" => i = Len(asked.keys)

(* The types of what the application asks for. *)
LEMMA AskedTypes ==
  ASSUME asked \in Requests
  PROVE  /\ asked.encoding \in Encodings
         /\ asked.keys \in Seq(PbrKey)
         /\ Len(asked.keys) \in Nat
         /\ \A n \in 1 .. Len(asked.keys) : asked.keys[n] \in PbrKey
<1>1. asked.encoding \in Encodings /\ asked.keys \in Seq(PbrKey)
  BY RequestAssumption, Zenon
<1>2. PICK keys \in Seq(PbrKey) : keys = asked.keys
  BY <1>1
<1>3. Len(keys) \in Nat /\ \A n \in 1 .. Len(keys) : keys[n] \in PbrKey
  OBVIOUS
<1> QED
  BY <1>1, <1>2, <1>3, Zenon

(* The first n values of F. *)
Upto(F, n) == [x \in 1 .. n |-> F[x]]

(* add_subscription appends. *)
LEMMA OneMore ==
  ASSUME NEW F, NEW n \in Nat, NEW t, NEW e
  PROVE  t = Upto(F, n) /\ e = F[n + 1] => t \o <<e>> = Upto(F, n + 1)
<1> SUFFICES ASSUME t = [x \in 1 .. n |-> F[x]], e = F[n + 1]
             PROVE  t \o <<e>> = [x \in 1 .. n + 1 |-> F[x]]
  BY Zenon DEF Upto
<1> DEFINE R == {F[x] : x \in 1 .. n + 1}
           r == [x \in 1 .. n + 1 |-> F[x]]
<1>1. t \in Seq(R) /\ Len(t) = n /\ \A x \in 1 .. n : t[x] = F[x]
  <2>1. \A x \in 1 .. n : F[x] \in R
    OBVIOUS
  <2> HIDE DEF R
  <2> QED
    BY <2>1
<1>2. <<e>> \in Seq(R) /\ Len(<<e>>) = 1 /\ <<e>>[1] = F[n + 1]
  <2>1. e \in R
    OBVIOUS
  <2> HIDE DEF R
  <2> QED
    BY <2>1
<1>3. r \in Seq(R) /\ Len(r) = n + 1 /\ \A x \in 1 .. n + 1 : r[x] = F[x]
  <2>1. \A x \in 1 .. n + 1 : F[x] \in R
    OBVIOUS
  <2> HIDE DEF R
  <2> QED
    BY <2>1
<1> HIDE DEF R, r
<1>4. InARow(R, t \o <<e>>, n + 1, t, n, <<e>>, 1)
  BY <1>1, <1>2, Joined, Zenon
<1>5. ASSUME NEW x \in 1 .. n + 1 PROVE (t \o <<e>>)[x] = F[x]
  <2>1. CASE x \in 1 .. n
    BY <1>1, <1>4, <2>1, Zenon DEF InARow
  <2>2. CASE x = n + 1
    <3>1. 1 \in 1 .. 1
      OBVIOUS
    <3> QED
      BY <1>2, <1>4, <2>2, <3>1, Zenon DEF InARow
  <2> QED
    BY <2>1, <2>2
<1>u. PICK u : u = t \o <<e>>
  OBVIOUS
<1>6. u \in Seq(R) /\ Len(u) = n + 1 /\ \A x \in 1 .. n + 1 : u[x] = F[x]
  BY <1>4, <1>5, <1>u, Zenon DEF InARow
<1>7. u = r
  BY <1>3, <1>6, SeqEqual
<1> QED
  BY <1>7, <1>u DEF r

(* The invariant holds at first ... *)
LEMMA RequestInit == Init => RequestInv
<1> SUFFICES ASSUME Init PROVE RequestInv
  OBVIOUS
<1>1. i = 0 /\ subscription = << >> /\ asked \in Requests
  BY DEF Init
<1>2. Len(asked.keys) \in Nat
  BY <1>1, AskedTypes
<1>3. [n \in 1 .. 0 |-> PathFor(asked.keys[n])] = << >>
  OBVIOUS
<1>4. Len(<< >>) = 0
  OBVIOUS
<1>5. TypeOK
  BY <1>2, <1>4 DEF Init, TypeOK
<1> QED
  BY <1>1, <1>3, <1>5 DEF Init, RequestInv

(* ... and every step of the helper and its caller keeps it. *)
LEMMA RequestStep == RequestInv /\ [Next]_vars => RequestInv'
<1> SUFFICES ASSUME RequestInv, [Next]_vars PROVE RequestInv'
  OBVIOUS
<1>1. /\ TypeOK
      /\ subscription = [n \in 1 .. i |-> PathFor(asked.keys[n])]
      /\ pc \in {"encoding", "paths"} => err = "none"
      /\ err = "SUCCESS" => i = Len(asked.keys)
  BY DEF RequestInv
<1>2. Len(asked.keys) \in Nat /\ asked.encoding \in Encodings
  BY <1>1, AskedTypes DEF TypeOK
<1>3. CASE SetEncoding
  <2>1. UNCHANGED <<asked, i, subscription>>
    BY <1>3 DEF SetEncoding
  <2>2. TypeOK'
    BY <1>1, <1>3 DEF SetEncoding, Supported, TypeOK
  <2>3. (pc \in {"encoding", "paths"} => err = "none")' /\ err' # "SUCCESS"
    BY <1>1, <1>3 DEF SetEncoding
  <2> QED
    BY <1>1, <2>1, <2>2, <2>3 DEF RequestInv
<1>4. CASE AddSubscription
  <2>1. /\ UNCHANGED <<asked, pc, encoding, err>>
        /\ i < Len(asked.keys) /\ i' = i + 1 /\ i \in Nat /\ err = "none"
    BY <1>1, <1>2, <1>4 DEF AddSubscription, TypeOK
  <2>2. PathsOf(PathText(asked.keys[i + 1])) = <<PathFor(asked.keys[i + 1])>>
    BY Zenon DEF PathsOf, PathFor
  <2>3. subscription' = subscription \o <<PathFor(asked.keys[i + 1])>>
    BY <1>4, <2>2, Zenon DEF AddSubscription
  <2>4. PICK F : F = [n \in 1 .. Len(asked.keys) |-> PathFor(asked.keys[n])]
    OBVIOUS
  <2>5. subscription = [n \in 1 .. i |-> F[n]] /\ F[i + 1] = PathFor(asked.keys[i + 1])
    <3>1. \A n \in 1 .. i : n \in 1 .. Len(asked.keys)
      BY <1>2, <2>1
    <3>2. i + 1 \in 1 .. Len(asked.keys)
      BY <1>2, <2>1
    <3> QED
      BY <1>1, <2>4, <3>1, <3>2
  <2>6. subscription' = [n \in 1 .. i + 1 |-> F[n]]
    <3>1. PICK e : e = PathFor(asked.keys[i + 1])
      OBVIOUS
    <3>2. PICK t : t = subscription
      OBVIOUS
    <3>3. i \in Nat /\ t = [n \in 1 .. i |-> F[n]] /\ e = F[i + 1]
      BY <2>1, <2>5, <3>1, <3>2, Zenon
    <3>4. t = Upto(F, i) /\ e = F[i + 1]
      BY <3>3, Zenon DEF Upto
    <3>5. t \o <<e>> = Upto(F, i + 1)
      BY <3>3, <3>4, OneMore, Zenon
    <3> QED
      BY <2>3, <3>1, <3>2, <3>5, Zenon DEF Upto
  <2>7. [n \in 1 .. i + 1 |-> F[n]] = [n \in 1 .. i + 1 |-> PathFor(asked.keys[n])]
    <3>1. \A n \in 1 .. i + 1 : F[n] = PathFor(asked.keys[n])
      <4>1. \A n \in 1 .. i + 1 : n \in 1 .. Len(asked.keys)
        BY <1>2, <2>1
      <4> QED
        BY <2>4, <4>1
    <3> QED
      BY <3>1
  <2>8. subscription' = [n \in 1 .. i' |-> PathFor(asked'.keys[n])]
    BY <2>1, <2>6, <2>7
  <2>9. Len(subscription') \in Nat
    BY <2>1, <2>8
  <2>10. TypeOK'
    <3>1. i' \in 0 .. Len(asked'.keys)
      BY <1>2, <2>1
    <3> QED
      BY <1>1, <2>1, <2>9, <3>1 DEF TypeOK
  <2> QED
    BY <2>1, <2>8, <2>10, <1>1 DEF RequestInv
<1>5. CASE EndPaths
  <2>1. UNCHANGED <<asked, i, encoding, subscription>> /\ i = Len(asked.keys) /\ pc' = "send" /\ err' = "SUCCESS"
    BY <1>5 DEF EndPaths
  <2>2. TypeOK'
    BY <1>1, <2>1 DEF TypeOK
  <2> QED
    BY <1>1, <2>1, <2>2 DEF RequestInv
<1>6. CASE Send
  <2>1. UNCHANGED <<asked, i, encoding, subscription, err>> /\ pc' = "sent"
    BY <1>6 DEF Send
  <2>2. TypeOK'
    BY <1>1, <2>1 DEF TypeOK
  <2> QED
    BY <1>1, <2>1, <2>2 DEF RequestInv
<1>7. CASE UNCHANGED vars
  BY <1>1, <1>7 DEF vars, RequestInv, TypeOK
<1> QED
  BY <1>3, <1>4, <1>5, <1>6, <1>7 DEF Next, Sent

(* RequestInv holds in every reachable state. *)
THEOREM RequestInvariance == Spec => []RequestInv
BY RequestInit, RequestStep, PTL DEF Spec

(* The variables of subscribe_request_helper and of its caller keep their  *)
(* types: the encoding sent is one that the helper supports, or none.      *)
THEOREM RequestTypeCorrect == Spec => []TypeOK
<1>1. RequestInv => TypeOK
  BY DEF RequestInv
<1> QED
  BY <1>1, RequestInvariance, PTL

(* Every request that subscribe_request_helper completes asks for each key *)
(* of the application, in order, and a key of plain names, of any length,  *)
(* is asked for exactly: string_to_gnmipath undoes what get_gnmi_paths     *)
(* wrote.                                                                  *)
THEOREM RequestAsksForKeys == Spec => []KeysRequested
<1>1. RequestInv => KeysRequested
  <2> SUFFICES ASSUME RequestInv, err = "SUCCESS"
               PROVE  /\ Len(subscription) = Len(asked.keys)
                      /\ \A n \in 1 .. Len(subscription) :
                           PlainKey(asked.keys[n]) => subscription[n] = Intended(asked.keys[n])
    BY DEF KeysRequested
  <2>1. i = Len(asked.keys) /\ i \in Nat /\ asked \in Requests
    BY AskedTypes DEF RequestInv, TypeOK
  <2>2. subscription = [n \in 1 .. i |-> PathFor(asked.keys[n])]
    BY DEF RequestInv
  <2>3. Len(subscription) = i /\ \A n \in 1 .. i : subscription[n] = PathFor(asked.keys[n])
    BY <2>1, <2>2
  <2>4. ASSUME NEW n \in 1 .. i, PlainKey(asked.keys[n])
        PROVE  subscription[n] = Intended(asked.keys[n])
    <3>1. asked.keys[n] \in PbrKey
      BY <2>1, AskedTypes
    <3>2. PathFor(asked.keys[n]) = Intended(asked.keys[n])
      BY <2>4, <3>1, PathTextParsed, Zenon DEF PathFor
    <3> QED
      BY <2>3, <3>2, Zenon
  <2> QED
    BY <2>1, <2>3, <2>4, Zenon
<1> QED
  BY <1>1, RequestInvariance, PTL

(* The empty path, which asks for everything, is in a request only for a   *)
(* key with a name that is empty or has a slash or a closing bracket.      *)
THEOREM RequestAsksForRoot == Spec => []RootOnlyForBadKey
<1>1. RequestInv => RootOnlyForBadKey
  <2> SUFFICES ASSUME RequestInv, NEW n \in 1 .. Len(subscription), subscription[n] = NoPath
               PROVE  ~PlainKey(asked.keys[n])
    BY Zenon DEF RootOnlyForBadKey, PlainKey
  <2>1. i \in Nat /\ asked \in Requests /\ i <= Len(asked.keys)
    BY AskedTypes DEF RequestInv, TypeOK
  <2>2. subscription = [x \in 1 .. i |-> PathFor(asked.keys[x])]
    BY DEF RequestInv
  <2>3. Len(subscription) = i /\ \A x \in 1 .. i : subscription[x] = PathFor(asked.keys[x])
    BY <2>1, <2>2
  <2>4. n \in 1 .. i /\ n \in 1 .. Len(asked.keys)
    BY <2>1, <2>3, AskedTypes
  <2>5. PathFor(asked.keys[n]) = NoPath /\ asked.keys[n] \in PbrKey
    BY <2>1, <2>3, <2>4, AskedTypes, Zenon
  <2>6. Intended(asked.keys[n]) # NoPath
    BY DEF Intended, NoPath
  <2> QED
    BY <2>5, <2>6, PathTextParsed, Zenon DEF PathFor
<1> QED
  BY <1>1, RequestInvariance, PTL

(* What string_to_gnmipath made of any key's text, gnmipath_to_string      *)
(* prints in a form that is parsed to the same path, unless the name of an *)
(* element with a key has a closing bracket.                               *)
THEOREM RequestRoundTrip == Spec => []PathsRoundTrip
<1>1. RequestInv => PathsRoundTrip
  <2> SUFFICES ASSUME RequestInv, NEW n \in 1 .. Len(subscription),
                      NEW path, path = subscription[n], NEW s, s = PathToString(path),
                      \A m \in 1 .. Len(path) : path[m].key # << >> => ~Has(path[m].name, "]")
               PROVE  RoundTrips(s, path)
    BY Zenon DEF PathsRoundTrip, RoundTrips
  <2>1. i \in Nat /\ asked \in Requests /\ i <= Len(asked.keys)
    BY AskedTypes DEF RequestInv, TypeOK
  <2>2. subscription = [x \in 1 .. i |-> PathFor(asked.keys[x])]
    BY DEF RequestInv
  <2>3. Len(subscription) = i /\ \A x \in 1 .. i : subscription[x] = PathFor(asked.keys[x])
    BY <2>1, <2>2
  <2>4. n \in 1 .. i /\ n \in 1 .. Len(asked.keys)
    BY <2>1, <2>3, AskedTypes
  <2>5. PICK key \in PbrKey : key = asked.keys[n]
    BY <2>1, <2>4, AskedTypes
  <2>6. path = PathFor(key)
    BY <2>3, <2>4, <2>5, Zenon
  <2>7. CASE Throws(PathText(key))
    <3>1. path = << >>
      BY <2>6, <2>7, Zenon DEF PathFor, NoPath
    <3>2. path = [x \in 1 .. 0 |-> path[x]] /\ Len(path) = 0 /\ 0 \in Nat /\ 1 .. 0 = {}
      BY <3>1
    <3>3. \A x \in 1 .. 0 : Printable(path[x])
      BY <3>2, Zenon
    <3>4. path = [x \in 1 .. 0 |-> path[x]] /\ Len(path) = 0 /\ 0 \in Nat
      BY <3>2, Zenon
    <3>5. s = PathToString(path)
      OBVIOUS
    <3> QED
      BY <3>3, <3>4, <3>5, PrintableRoundTrip, Zenon
  <2>8. CASE ~Throws(PathText(key))
    <3>1. path = StringToPath(PathText(key))
      BY <2>6, <2>8, Zenon DEF PathFor
    <3>2. PathText(key) \in Text
      BY TextOfKey, Zenon
    <3> QED
      BY <2>8, <3>1, <3>2, ParsedRoundTrip, Zenon
  <2> QED
    BY <2>7, <2>8
<1> QED
  BY <1>1, RequestInvariance, PTL

=============================================================================
