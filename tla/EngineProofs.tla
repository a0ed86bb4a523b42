---------------------------- MODULE EngineProofs ----------------------------
(***************************************************************************)
(* The engine implements Indexer, and no cursor runs ahead of the data:    *)
(* for any contracts, any chain, any sizes of ranges and pages, and any    *)
(* number of failures and crashes.                                         *)
(*                                                                         *)
(* The argument is one about positions. A cursor stands for a position in  *)
(* the events of its contract: the end of the block of its head, or of its *)
(* pending transaction. What is committed is the part before that          *)
(* position; every step of a fetch takes the part between two positions,   *)
(* and the growth of the chain moves none of them.                         *)
(***************************************************************************)
EXTENDS Engine, TLAPS

-----------------------------------------------------------------------------
(* Parts of a sequence of events *)

Ev == [block : Nat, tx : Nat, index : Nat]

(* What lies between two positions. *)
Part(E, a, b) == SubSeq(E, a + 1, b)

(* A part has the elements of the sequence from its first position on. *)
LEMMA PartElements ==
    ASSUME NEW E \in Seq(Ev), NEW a \in Nat, NEW b \in Nat, a <= b, b <= Len(E)
    PROVE  /\ Part(E, a, b) \in Seq(Ev)
           /\ Len(Part(E, a, b)) = b - a
           /\ \A i \in 1..(b - a) : Part(E, a, b)[i] = E[a + i]
  BY DEF Part

(* A sequence is determined by its elements. *)
LEMMA SameElements ==
    ASSUME NEW s \in Seq(Ev), NEW t \in Seq(Ev), Len(s) = Len(t),
           \A i \in 1..Len(s) : s[i] = t[i]
    PROVE  s = t
  OBVIOUS

(* What one sequence after another is. *)
LEMMA ConcatElements ==
    ASSUME NEW s \in Seq(Ev), NEW t \in Seq(Ev)
    PROVE  /\ s \o t \in Seq(Ev)
           /\ Len(s \o t) = Len(s) + Len(t)
           /\ \A i \in 1..Len(s) : (s \o t)[i] = s[i]
           /\ \A i \in 1..Len(t) : (s \o t)[Len(s) + i] = t[i]
  OBVIOUS

(* The part between a position and itself is empty, and no other is. *)
LEMMA PartEmpty ==
    ASSUME NEW E \in Seq(Ev), NEW a \in Nat, NEW b \in Nat, a <= b, b <= Len(E)
    PROVE  Part(E, a, b) = << >> <=> a = b
<1>1. Part(E, a, b) \in Seq(Ev) /\ Len(Part(E, a, b)) = b - a
  BY PartElements, Zenon
<1> QED BY <1>1

(* A part of a part. *)
LEMMA PartOfPart ==
    ASSUME NEW E \in Seq(Ev), NEW a \in Nat, NEW b \in Nat, a <= b, b <= Len(E)
    PROVE  \A x, y \in Nat :
               x <= y /\ y <= b - a => Part(Part(E, a, b), x, y) = Part(E, a + x, a + y)
<1> SUFFICES ASSUME NEW x \in Nat, NEW y \in Nat, x <= y, y <= b - a
             PROVE  Part(Part(E, a, b), x, y) = Part(E, a + x, a + y)
  OBVIOUS
<1> DEFINE P == Part(E, a, b)
           s == Part(P, x, y)
           t == Part(E, a + x, a + y)
<1>1. P \in Seq(Ev) /\ Len(P) = b - a /\ \A i \in 1..(b - a) : P[i] = E[a + i]
  BY PartElements, Zenon
<1>2. s \in Seq(Ev) /\ Len(s) = y - x /\ \A i \in 1..(y - x) : s[i] = P[x + i]
  <2> HIDE DEF P
  <2>1. y <= Len(P)
    BY <1>1
  <2> QED BY <1>1, <2>1, PartElements, Zenon
<1>3. t \in Seq(Ev) /\ Len(t) = y - x /\ \A i \in 1..(y - x) : t[i] = E[(a + x) + i]
  <2>1. a + x \in Nat /\ a + y \in Nat /\ a + x <= a + y /\ a + y <= Len(E) /\ (a + y) - (a + x) = y - x
    OBVIOUS
  <2>2. /\ t \in Seq(Ev) /\ Len(t) = (a + y) - (a + x)
        /\ \A i \in 1..((a + y) - (a + x)) : t[i] = E[(a + x) + i]
    BY <2>1, PartElements, Zenon
  <2> QED BY <2>1, <2>2, Zenon
<1>4. \A i \in 1..(y - x) : P[x + i] = E[(a + x) + i]
  <2> HIDE DEF P
  <2>1. ASSUME NEW i \in 1..(y - x) PROVE P[x + i] = E[(a + x) + i]
    <3>1. x + i \in 1..(b - a) /\ a + (x + i) = (a + x) + i
      OBVIOUS
    <3> QED BY <1>1, <3>1, Zenon
  <2> QED BY Zenon, <2>1
<1> HIDE DEF s, t, P
<1>5. Len(s) = Len(t) /\ \A i \in 1..Len(s) : s[i] = t[i]
  BY <1>2, <1>3, <1>4, Zenon
<1>6. s = t
  BY <1>2, <1>3, <1>5, SameElements, Zenon
<1> QED BY <1>6 DEF s, t, P

(* Parts next to each other make one. *)
LEMMA PartConcat ==
    ASSUME NEW E \in Seq(Ev), NEW a \in Nat, NEW b \in Nat, NEW d \in Nat,
           a <= b, b <= d, d <= Len(E)
    PROVE  Part(E, a, b) \o Part(E, b, d) = Part(E, a, d)
<1> DEFINE p == Part(E, a, b)
           q == Part(E, b, d)
           t == Part(E, a, d)
<1>0. b <= Len(E) /\ a <= d
  OBVIOUS
<1>1. p \in Seq(Ev) /\ Len(p) = b - a /\ \A i \in 1..(b - a) : p[i] = E[a + i]
  BY <1>0, PartElements, Zenon
<1>2. q \in Seq(Ev) /\ Len(q) = d - b /\ \A i \in 1..(d - b) : q[i] = E[b + i]
  BY PartElements, Zenon
<1>3. t \in Seq(Ev) /\ Len(t) = d - a /\ \A i \in 1..(d - a) : t[i] = E[a + i]
  BY <1>0, PartElements, Zenon
<1> HIDE DEF p, q, t
<1>4. p \o q \in Seq(Ev) /\ Len(p \o q) = d - a
  <2>1. p \o q \in Seq(Ev) /\ Len(p \o q) = Len(p) + Len(q)
    BY <1>1, <1>2, ConcatElements, Zenon
  <2>2. (b - a) + (d - b) = d - a
    OBVIOUS
  <2> QED BY <1>1, <1>2, <2>1, <2>2, Zenon
<1>5. ASSUME NEW i \in 1..(d - a) PROVE (p \o q)[i] = t[i]
  <2>1. CASE i <= b - a
    <3>1. i \in 1..Len(p) /\ i \in 1..(b - a)
      BY <1>1, <2>1
    <3>2. (p \o q)[i] = p[i]
      BY <1>1, <1>2, <3>1, ConcatElements, Zenon
    <3> QED BY <1>1, <1>3, <3>1, <3>2, Zenon
  <2>2. CASE i > b - a
    <3>2. i - (b - a) \in 1..(d - b) /\ b + (i - (b - a)) = a + i /\ (b - a) + (i - (b - a)) = i
      BY <2>2
    <3>1. (p \o q)[i] = q[i - (b - a)]
      <4>1. \A k \in 1..Len(q) : (p \o q)[Len(p) + k] = q[k]
        BY <1>1, <1>2, ConcatElements, Zenon
      <4>2. \A k \in 1..(d - b) : (p \o q)[(b - a) + k] = q[k]
        BY <1>1, <1>2, <4>1, Zenon
      <4>3. (p \o q)[(b - a) + (i - (b - a))] = q[i - (b - a)]
        BY <3>2, <4>2, Zenon
      <4> QED BY <3>2, <4>3, Zenon
    <3>3. q[i - (b - a)] = E[b + (i - (b - a))]
      BY <1>2, <3>2, Zenon
    <3> QED BY <1>3, <3>1, <3>2, <3>3, Zenon
  <2>3. i <= b - a \/ i > b - a
    OBVIOUS
  <2> QED BY <2>1, <2>2, <2>3, Zenon
<1>6. p \o q = t
  BY <1>3, <1>4, <1>5, SameElements, Zenon
<1> QED BY <1>6 DEF p, q, t

(* What is appended to a sequence leaves its parts alone. *)
LEMMA PartOfLonger ==
    ASSUME NEW E \in Seq(Ev), NEW N \in Seq(Ev), NEW a \in Nat, NEW b \in Nat, a <= b, b <= Len(E)
    PROVE  Part(E \o N, a, b) = Part(E, a, b)
<1> DEFINE L == E \o N
           s == Part(L, a, b)
           t == Part(E, a, b)
<1>1. L \in Seq(Ev) /\ b <= Len(L) /\ \A i \in 1..Len(E) : L[i] = E[i]
  <2>1. L \in Seq(Ev) /\ Len(L) = Len(E) + Len(N) /\ \A i \in 1..Len(E) : L[i] = E[i]
    BY ConcatElements, Zenon
  <2> HIDE DEF L
  <2>2. b <= Len(L)
    BY <2>1
  <2> QED BY <2>1, <2>2, Zenon
<1>2. t \in Seq(Ev) /\ Len(t) = b - a /\ \A i \in 1..(b - a) : t[i] = E[a + i]
  BY PartElements, Zenon
<1> HIDE DEF L
<1>3. s \in Seq(Ev) /\ Len(s) = b - a /\ \A i \in 1..(b - a) : s[i] = L[a + i]
  BY <1>1, PartElements, Zenon
<1>4. \A i \in 1..(b - a) : L[a + i] = E[a + i]
  BY <1>1
<1> HIDE DEF s, t
<1>5. Len(s) = Len(t) /\ \A i \in 1..Len(s) : s[i] = t[i]
  BY <1>2, <1>3, <1>4, Zenon
<1>6. s = t
  BY <1>2, <1>3, <1>5, SameElements, Zenon
<1> QED BY <1>6 DEF s, t, L

(* What zero and the length of a sequence are. *)
LEMMA Ends ==
    ASSUME NEW E \in Seq(Ev)
    PROVE  0 \in Nat /\ Len(E) \in Nat /\ 0 <= Len(E) /\ Len(E) <= Len(E)
  OBVIOUS

(* Arithmetic on numbers. *)
LEMMA FromZero ==
    ASSUME NEW a \in Nat
    PROVE  0 \in Nat /\ 0 <= a /\ a <= a /\ a - 0 = a /\ 0 + a = a /\ 0 + 0 = 0
  OBVIOUS

(* The least and the greatest number of an interval. *)
LEMMA IntervalEnds ==
    ASSUME NEW I, NEW a \in I, NEW b \in I, \A x \in I : x \in Int /\ a <= x /\ x <= b
    PROVE  Min(I) = a /\ Max(I) = b
<1>1. /\ \E x \in I : \A y \in I : x <= y
      /\ \E x \in I : \A y \in I : x >= y
  OBVIOUS
<1>2. Min(I) \in I /\ \A y \in I : Min(I) <= y
  BY <1>1, Zenon DEF Min
<1>3. Max(I) \in I /\ \A y \in I : Max(I) >= y
  BY <1>1, Zenon DEF Max
<1> QED BY <1>2, <1>3

(* A sequence is the part from its beginning to its end. *)
LEMMA PartWhole ==
    ASSUME NEW E \in Seq(Ev)
    PROVE  Part(E, 0, Len(E)) = E
<1> DEFINE n == Len(E)
           s == Part(E, 0, n)
<1>1. n \in Nat /\ 0 \in Nat /\ 0 <= n /\ n <= Len(E)
  BY Ends, Zenon
<1>2. s \in Seq(Ev) /\ Len(s) = n - 0 /\ \A i \in 1..(n - 0) : s[i] = E[0 + i]
  BY <1>1, PartElements, Zenon
<1> HIDE DEF s
<1>3. Len(s) = n /\ \A i \in 1..n : s[i] = E[i]
  BY <1>1, <1>2
<1>4. s = E
  BY <1>2, <1>3, SameElements, Zenon
<1> QED BY <1>4 DEF s

(* A beginning of a sequence has the elements up to its end. *)
LEMMA Beginning ==
    ASSUME NEW E \in Seq(Ev), NEW b \in Nat, b <= Len(E)
    PROVE  /\ Part(E, 0, b) \in Seq(Ev)
           /\ Len(Part(E, 0, b)) = b
           /\ \A i \in 1..b : Part(E, 0, b)[i] = E[i]
<1> DEFINE s == Part(E, 0, b)
<1>1. s \in Seq(Ev) /\ Len(s) = b - 0 /\ \A i \in 1..(b - 0) : s[i] = E[0 + i]
  BY FromZero, PartElements, Zenon
<1> HIDE DEF s
<1>2. s \in Seq(Ev) /\ Len(s) = b /\ \A i \in 1..b : s[i] = E[i]
  BY <1>1
<1> QED BY <1>2 DEF s

(* What begins at the same position and ends before is a beginning. *)
LEMMA PartPrefix ==
    ASSUME NEW E \in Seq(Ev), NEW a \in Nat, NEW b \in Nat, a <= b, b <= Len(E)
    PROVE  Abstract!Begins(Part(E, 0, a), Part(E, 0, b))
<1> DEFINE s == Part(E, 0, a)
           t == Part(E, 0, b)
<1>0. a <= Len(E)
  OBVIOUS
<1>1. s \in Seq(Ev) /\ Len(s) = a
  BY <1>0, Beginning, Zenon
<1>2. t \in Seq(Ev) /\ Len(t) = b
  BY Beginning, Zenon
<1>3. Part(t, 0, a) = s
  <2> DEFINE u == Part(t, 0, a)
  <2>1. \A i \in 1..a : s[i] = E[i]
    BY <1>0, Beginning, Zenon
  <2>2. \A i \in 1..b : t[i] = E[i]
    BY Beginning, Zenon
  <2> HIDE DEF s, t
  <2>3. a <= Len(t)
    BY <1>2
  <2>4. u \in Seq(Ev) /\ Len(u) = a /\ \A i \in 1..a : u[i] = t[i]
    BY <1>2, <2>3, Beginning, Zenon
  <2>5. \A i \in 1..a : i \in 1..b
    OBVIOUS
  <2> HIDE DEF u
  <2>6. Len(u) = Len(s) /\ \A i \in 1..Len(u) : u[i] = s[i]
    BY <1>1, <2>1, <2>2, <2>4, <2>5, Zenon
  <2>7. u = s
    BY <1>1, <2>4, <2>6, SameElements, Zenon
  <2> QED BY <2>7 DEF u
<1> HIDE DEF s, t
<1>4. a \in 0..Len(t) /\ s = SubSeq(t, 1, a)
  BY <1>2, <1>3 DEF Part
<1>5. Abstract!Begins(s, t)
  BY <1>4 DEF Abstract!Begins
<1> QED BY <1>5 DEF s, t

(* A slice at the positions of an interval. *)
LEMMA SliceOfInterval ==
    ASSUME NEW E \in Seq(Ev), NEW a \in Nat, NEW b \in Nat, a <= b, b <= Len(E)
    PROVE  Slice(E, (a + 1)..b) = Part(E, a, b)
<1> DEFINE I == (a + 1)..b
<1>1. CASE a = b
  <2>1. I = {}
    BY <1>1
  <2>2. Part(E, a, b) = << >>
    BY <1>1, PartEmpty, ZenonT(40)
  <2> QED BY <2>1, <2>2 DEF Slice
<1>2. CASE a < b
  <2>1. a + 1 \in I /\ b \in I /\ (\A x \in I : x \in Int /\ a + 1 <= x /\ x <= b)
    BY <1>2
  <2> HIDE DEF I
  <2>2. Min(I) = a + 1
    BY <2>1, IntervalEnds, Zenon
  <2>3. Max(I) = b
    BY <2>1, IntervalEnds, Zenon
  <2>4. I # {}
    BY <2>1
  <2>5. Slice(E, I) = SubSeq(E, a + 1, b)
    BY <2>2, <2>3, <2>4 DEF Slice
  <2> QED BY <2>5 DEF Part, I
<1> QED BY <1>1, <1>2

-----------------------------------------------------------------------------
(* The events of a contract *)

(* The first n events are those up to a block, or up to a transaction. *)
EndOfBlock(E, b, n) == \A i \in 1..Len(E) : E[i].block <= b <=> i <= n
EndOfTx(E, t, n) == \A i \in 1..Len(E) : E[i].tx <= t <=> i <= n

BlockEnd(E, b) == CHOOSE n \in 0..Len(E) : EndOfBlock(E, b, n)
TxEnd(E, t) == CHOOSE n \in 0..Len(E) : EndOfTx(E, t, n)

(* The events of a contract when block m is the latest, k transactions were made and
   those of pre are in the preconfirmed block: they lie in the order of blocks and
   of transactions. *)
Stream(E, m, k, pre) ==
    /\ E \in Seq(Ev)
    /\ \A b \in Int : \E n \in 0..Len(E) : EndOfBlock(E, b, n)
    /\ \A t \in Nat : \E n \in 0..Len(E) : EndOfTx(E, t, n)
    /\ \A i \in 1..Len(E) :
          /\ E[i].block \in 1..(m + 1) /\ world_block <= E[i].block
          /\ E[i].tx \in 1..k
          /\ E[i].tx \in pre <=> E[i].block = m + 1

(* Every block has an end. *)
LEMMA BlockEndIs ==
    ASSUME NEW E, NEW m, NEW k, NEW pre, Stream(E, m, k, pre), NEW b \in Int
    PROVE  BlockEnd(E, b) \in 0..Len(E) /\ EndOfBlock(E, b, BlockEnd(E, b))
<1>1. \E n \in 0..Len(E) : EndOfBlock(E, b, n)
  BY Zenon DEF Stream
<1> QED BY <1>1, Zenon DEF BlockEnd

(* Every transaction has an end. *)
LEMMA TxEndIs ==
    ASSUME NEW E, NEW m, NEW k, NEW pre, Stream(E, m, k, pre), NEW t \in Nat
    PROVE  TxEnd(E, t) \in 0..Len(E) /\ EndOfTx(E, t, TxEnd(E, t))
<1>1. \E n \in 0..Len(E) : EndOfTx(E, t, n)
  BY Zenon DEF Stream
<1> QED BY <1>1, Zenon DEF TxEnd

(* Two ends of the same block are one. *)
LEMMA SameEnd ==
    ASSUME NEW L \in Nat, NEW x \in 0..L, NEW y \in 0..L,
           \A i \in 1..L : i <= x <=> i <= y
    PROVE  x = y
<1>1. ~ x < y
  <2> SUFFICES ASSUME x < y PROVE FALSE
    OBVIOUS
  <2>1. y \in 1..L /\ y <= y /\ ~ y <= x
    OBVIOUS
  <2> QED BY <2>1, Zenon
<1>2. ~ y < x
  <2> SUFFICES ASSUME y < x PROVE FALSE
    OBVIOUS
  <2>1. x \in 1..L /\ x <= x /\ ~ x <= y
    OBVIOUS
  <2> QED BY <2>1, Zenon
<1> QED BY <1>1, <1>2

(* What is an end of a block is the end. *)
LEMMA BlockEndUnique ==
    ASSUME NEW E, NEW m, NEW k, NEW pre, Stream(E, m, k, pre), NEW b \in Int,
           NEW n \in 0..Len(E), EndOfBlock(E, b, n)
    PROVE  BlockEnd(E, b) = n
<1>1. BlockEnd(E, b) \in 0..Len(E) /\ EndOfBlock(E, b, BlockEnd(E, b))
  BY BlockEndIs, Zenon
<1>2. \A i \in 1..Len(E) : i <= BlockEnd(E, b) <=> i <= n
  BY <1>1, Zenon DEF EndOfBlock
<1>3. E \in Seq(Ev)
  BY Zenon DEF Stream
<1>4. Len(E) \in Nat
  BY <1>3, Ends, Zenon
<1> QED BY <1>1, <1>2, <1>4, SameEnd, Zenon

(* What is an end of a transaction is the end. *)
LEMMA TxEndUnique ==
    ASSUME NEW E, NEW m, NEW k, NEW pre, Stream(E, m, k, pre), NEW t \in Nat,
           NEW n \in 0..Len(E), EndOfTx(E, t, n)
    PROVE  TxEnd(E, t) = n
<1>1. TxEnd(E, t) \in 0..Len(E) /\ EndOfTx(E, t, TxEnd(E, t))
  BY TxEndIs, Zenon
<1>2. \A i \in 1..Len(E) : i <= TxEnd(E, t) <=> i <= n
  BY <1>1, Zenon DEF EndOfTx
<1>3. E \in Seq(Ev)
  BY Zenon DEF Stream
<1>4. Len(E) \in Nat
  BY <1>3, Ends, Zenon
<1> QED BY <1>1, <1>2, <1>4, SameEnd, Zenon

(* What is known of the position and of the events of a stream. *)
LEMMA StreamEvents ==
    ASSUME NEW E, NEW m \in Nat, NEW k \in Nat, NEW pre, Stream(E, m, k, pre)
    PROVE  /\ E \in Seq(Ev) /\ Len(E) \in Nat
           /\ \A i \in 1..Len(E) :
                 /\ E[i] \in Ev /\ E[i].block \in Nat /\ E[i].tx \in Nat
                 /\ 1 <= E[i].block /\ E[i].block <= m + 1 /\ world_block <= E[i].block
                 /\ 1 <= E[i].tx /\ E[i].tx <= k
                 /\ E[i].tx \in pre <=> E[i].block = m + 1
<1>1. E \in Seq(Ev)
  BY Zenon DEF Stream
<1>2. Len(E) \in Nat
  BY <1>1, Ends, Zenon
<1>3. ASSUME NEW i \in 1..Len(E)
      PROVE  /\ E[i] \in Ev /\ E[i].block \in Nat /\ E[i].tx \in Nat
             /\ 1 <= E[i].block /\ E[i].block <= m + 1 /\ world_block <= E[i].block
             /\ 1 <= E[i].tx /\ E[i].tx <= k
             /\ E[i].tx \in pre <=> E[i].block = m + 1
  <2>1. /\ E[i].block \in 1..(m + 1) /\ world_block <= E[i].block
        /\ E[i].tx \in 1..k
        /\ E[i].tx \in pre <=> E[i].block = m + 1
    BY Zenon DEF Stream
  <2>2. E[i] \in Ev
    BY <1>1
  <2>3. E[i].block \in Nat /\ 1 <= E[i].block /\ E[i].block <= m + 1
    BY <2>1
  <2>4. E[i].tx \in Nat /\ 1 <= E[i].tx /\ E[i].tx <= k
    BY <2>1
  <2> QED BY <2>1, <2>2, <2>3, <2>4, Zenon
<1> QED BY <1>1, <1>2, <1>3, Zenon

(* Later blocks end later. *)
LEMMA BlockEndGrows ==
    ASSUME NEW E, NEW m \in Nat, NEW k \in Nat, NEW pre, Stream(E, m, k, pre),
           NEW b \in Int, NEW d \in Int, b <= d
    PROVE  BlockEnd(E, b) <= BlockEnd(E, d)
<1> DEFINE x == BlockEnd(E, b)
           y == BlockEnd(E, d)
<1>1. x \in 0..Len(E) /\ EndOfBlock(E, b, x)
  BY BlockEndIs, Zenon
<1>2. y \in 0..Len(E) /\ EndOfBlock(E, d, y)
  BY BlockEndIs, Zenon
<1>3. Len(E) \in Nat /\ \A i \in 1..Len(E) : E[i].block \in Nat
  BY StreamEvents, Zenon
<1> HIDE DEF x, y
<1>4. CASE x = 0
  BY <1>2, <1>3, <1>4 DEF x, y
<1>5. CASE x # 0
  <2>1. x \in 1..Len(E) /\ x <= x
    BY <1>1, <1>3, <1>5
  <2>2. E[x].block <= b /\ E[x].block \in Nat
    BY <1>1, <1>3, <2>1, Zenon DEF EndOfBlock
  <2>3. E[x].block <= d
    BY <2>2
  <2>4. x <= y
    BY <1>2, <2>1, <2>3, Zenon DEF EndOfBlock
  <2> QED BY <2>4 DEF x, y
<1> QED BY <1>4, <1>5

(* What a new transaction emits, and what it leaves where it was. *)
NewEvents(N, m, k) ==
    /\ N \in Seq(Ev)
    /\ \A i \in 1..Len(N) : N[i].block = m + 1 /\ N[i].tx = k + 1 /\ world_block <= m + 1

SameEnds(G, E, m, k) ==
    /\ \A b \in Int : b <= m => BlockEnd(G, b) = BlockEnd(E, b)
    /\ \A t \in Nat : t <= k => TxEnd(G, t) = TxEnd(E, t)

(* The events of a new transaction come last. *)
LEMMA StreamGrows ==
    ASSUME NEW E, NEW m \in Nat, NEW k \in Nat, NEW pre, Stream(E, m, k, pre),
           NEW N, NewEvents(N, m, k)
    PROVE  Stream(E \o N, m, k + 1, pre \cup {k + 1}) /\ SameEnds(E \o N, E, m, k)
<1> DEFINE L == E \o N
<1>0. /\ N \in Seq(Ev)
      /\ \A i \in 1..Len(N) : N[i].block = m + 1 /\ N[i].tx = k + 1 /\ world_block <= m + 1
  BY Zenon DEF NewEvents
<1>1. /\ E \in Seq(Ev) /\ Len(E) \in Nat
      /\ \A i \in 1..Len(E) :
            /\ E[i] \in Ev /\ E[i].block \in Nat /\ E[i].tx \in Nat
            /\ 1 <= E[i].block /\ E[i].block <= m + 1 /\ world_block <= E[i].block
            /\ 1 <= E[i].tx /\ E[i].tx <= k
            /\ E[i].tx \in pre <=> E[i].block = m + 1
  BY StreamEvents
<1>2. /\ L \in Seq(Ev) /\ Len(L) = Len(E) + Len(N)
      /\ \A i \in 1..Len(E) : L[i] = E[i]
      /\ \A i \in 1..Len(N) : L[Len(E) + i] = N[i]
  BY <1>0, <1>1, ConcatElements, Zenon
<1>3. Len(N) \in Nat
  BY <1>0, Ends, Zenon
<1> HIDE DEF L
<1>4. /\ Len(L) \in Nat /\ Len(E) <= Len(L)
      /\ \A i \in 1..Len(E) : i \in 1..Len(L)
      /\ \A i \in 1..Len(L) : i \in 1..Len(E) \/ Len(E) < i
  BY <1>1, <1>2, <1>3
<1>5. ASSUME NEW i \in 1..Len(L), Len(E) < i
      PROVE  L[i].block = m + 1 /\ L[i].tx = k + 1 /\ world_block <= m + 1
  <2>1. i - Len(E) \in 1..Len(N) /\ Len(E) + (i - Len(E)) = i
    BY <1>1, <1>2, <1>3, <1>5
  <2>2. L[Len(E) + (i - Len(E))] = N[i - Len(E)]
    BY <1>2, <2>1, Zenon
  <2>3. L[i] = N[i - Len(E)]
    BY <2>1, <2>2, Zenon
  <2> QED BY <1>0, <2>1, <2>3, Zenon
<1>6. ASSUME NEW b \in Int, b <= m
      PROVE  BlockEnd(E, b) \in 0..Len(L) /\ EndOfBlock(L, b, BlockEnd(E, b))
  <2> DEFINE n == BlockEnd(E, b)
  <2>1. n \in 0..Len(E) /\ EndOfBlock(E, b, n)
    BY BlockEndIs, Zenon
  <2> HIDE DEF n
  <2>2. n \in 0..Len(L) /\ n \in Int /\ n <= Len(E)
    BY <1>1, <1>4, <2>1
  <2>3. ASSUME NEW i \in 1..Len(L) PROVE L[i].block <= b <=> i <= n
    <3>1. CASE i \in 1..Len(E)
      BY <1>2, <2>1, <3>1, Zenon DEF EndOfBlock
    <3>2. CASE Len(E) < i
      <4>1. L[i].block = m + 1
        BY <1>5, <3>2, Zenon
      <4>2. ~ i <= n
        BY <1>1, <1>4, <2>2, <3>2
      <4>3. ~ m + 1 <= b
        BY <1>6
      <4> QED BY <4>1, <4>2, <4>3, Zenon
    <3> QED BY <1>4, <3>1, <3>2, Zenon
  <2> QED BY <2>2, <2>3, Zenon DEF EndOfBlock, n
<1>7. ASSUME NEW t \in Nat, t <= k
      PROVE  TxEnd(E, t) \in 0..Len(L) /\ EndOfTx(L, t, TxEnd(E, t))
  <2> DEFINE n == TxEnd(E, t)
  <2>1. n \in 0..Len(E) /\ EndOfTx(E, t, n)
    BY TxEndIs, Zenon
  <2> HIDE DEF n
  <2>2. n \in 0..Len(L) /\ n \in Int /\ n <= Len(E)
    BY <1>1, <1>4, <2>1
  <2>3. ASSUME NEW i \in 1..Len(L) PROVE L[i].tx <= t <=> i <= n
    <3>1. CASE i \in 1..Len(E)
      BY <1>2, <2>1, <3>1, Zenon DEF EndOfTx
    <3>2. CASE Len(E) < i
      <4>1. L[i].tx = k + 1
        BY <1>5, <3>2, Zenon
      <4>2. ~ i <= n
        BY <1>1, <1>4, <2>2, <3>2
      <4>3. ~ k + 1 <= t
        BY <1>7
      <4> QED BY <4>1, <4>2, <4>3, Zenon
    <3> QED BY <1>4, <3>1, <3>2, Zenon
  <2> QED BY <2>2, <2>3, Zenon DEF EndOfTx, n
<1>8. ASSUME NEW b \in Int, m < b
      PROVE  Len(L) \in 0..Len(L) /\ EndOfBlock(L, b, Len(L))
  <2>1. ASSUME NEW i \in 1..Len(L) PROVE L[i].block <= b /\ i <= Len(L)
    <3>1. i <= Len(L)
      BY <1>4
    <3>2. CASE i \in 1..Len(E)
      <4>1. L[i].block = E[i].block /\ E[i].block \in Nat /\ E[i].block <= m + 1
        BY <1>1, <1>2, <3>2, Zenon
      <4>2. E[i].block <= b
        BY <1>8, <4>1
      <4> QED BY <3>1, <4>1, <4>2, Zenon
    <3>3. CASE Len(E) < i
      <4>1. L[i].block = m + 1
        BY <1>5, <3>3, Zenon
      <4>2. m + 1 <= b
        BY <1>8
      <4> QED BY <3>1, <4>1, <4>2, Zenon
    <3> QED BY <1>4, <3>2, <3>3, Zenon
  <2>2. Len(L) \in 0..Len(L)
    BY <1>4
  <2> QED BY <2>1, <2>2, Zenon DEF EndOfBlock
<1>9. ASSUME NEW t \in Nat, k < t
      PROVE  Len(L) \in 0..Len(L) /\ EndOfTx(L, t, Len(L))
  <2>1. ASSUME NEW i \in 1..Len(L) PROVE L[i].tx <= t /\ i <= Len(L)
    <3>1. i <= Len(L)
      BY <1>4
    <3>2. CASE i \in 1..Len(E)
      <4>1. L[i].tx = E[i].tx /\ E[i].tx \in Nat /\ E[i].tx <= k
        BY <1>1, <1>2, <3>2, Zenon
      <4>2. E[i].tx <= t
        BY <1>9, <4>1
      <4> QED BY <3>1, <4>1, <4>2, Zenon
    <3>3. CASE Len(E) < i
      <4>1. L[i].tx = k + 1
        BY <1>5, <3>3, Zenon
      <4>2. k + 1 <= t
        BY <1>9
      <4> QED BY <3>1, <4>1, <4>2, Zenon
    <3> QED BY <1>4, <3>2, <3>3, Zenon
  <2>2. Len(L) \in 0..Len(L)
    BY <1>4
  <2> QED BY <2>1, <2>2, Zenon DEF EndOfTx
<1>10. \A b \in Int : \E n \in 0..Len(L) : EndOfBlock(L, b, n)
  <2>1. \A b \in Int : b <= m \/ m < b
    OBVIOUS
  <2> QED BY <1>6, <1>8, <2>1, Zenon
<1>11. \A t \in Nat : \E n \in 0..Len(L) : EndOfTx(L, t, n)
  <2>1. \A t \in Nat : t <= k \/ k < t
    OBVIOUS
  <2> QED BY <1>7, <1>9, <2>1, Zenon
<1>12. ASSUME NEW i \in 1..Len(L)
       PROVE  /\ L[i].block \in 1..(m + 1) /\ world_block <= L[i].block
              /\ L[i].tx \in 1..(k + 1)
              /\ L[i].tx \in pre \cup {k + 1} <=> L[i].block = m + 1
  <2>1. CASE i \in 1..Len(E)
    <3>1. /\ L[i] = E[i] /\ E[i].block \in Nat /\ E[i].tx \in Nat
          /\ 1 <= E[i].block /\ E[i].block <= m + 1 /\ world_block <= E[i].block
          /\ 1 <= E[i].tx /\ E[i].tx <= k
          /\ E[i].tx \in pre <=> E[i].block = m + 1
      BY <1>1, <1>2, <2>1, Zenon
    <3>2. E[i].block \in 1..(m + 1) /\ E[i].tx \in 1..(k + 1) /\ E[i].tx # k + 1
      BY <3>1
    <3> QED BY <3>1, <3>2, Zenon
  <2>2. CASE Len(E) < i
    <3>1. L[i].block = m + 1 /\ L[i].tx = k + 1 /\ world_block <= m + 1
      BY <1>5, <2>2, Zenon
    <3>2. m + 1 \in 1..(m + 1) /\ k + 1 \in 1..(k + 1)
      OBVIOUS
    <3> QED BY <3>1, <3>2, Zenon
  <2> QED BY <1>4, <2>1, <2>2, Zenon
<1>13. Stream(L, m, k + 1, pre \cup {k + 1})
  BY <1>2, <1>10, <1>11, <1>12, Zenon DEF Stream
<1>14. ASSUME NEW b \in Int, b <= m PROVE BlockEnd(L, b) = BlockEnd(E, b)
  BY <1>6, <1>13, <1>14, BlockEndUnique, Zenon
<1>15. ASSUME NEW t \in Nat, t <= k PROVE TxEnd(L, t) = TxEnd(E, t)
  BY <1>7, <1>13, <1>15, TxEndUnique, Zenon
<1> QED BY <1>13, <1>14, <1>15, Zenon DEF SameEnds, L

(* A block is mined. *)
LEMMA StreamMined ==
    ASSUME NEW E, NEW m \in Nat, NEW k \in Nat, NEW pre, Stream(E, m, k, pre)
    PROVE  Stream(E, m + 1, k, {})
<1>1. /\ E \in Seq(Ev)
      /\ \A i \in 1..Len(E) : /\ E[i].block \in Nat /\ 1 <= E[i].block /\ E[i].block <= m + 1
                              /\ world_block <= E[i].block
  BY StreamEvents, Zenon
<1>2. \A i \in 1..Len(E) : E[i].block \in 1..((m + 1) + 1) /\ E[i].block # (m + 1) + 1
  BY <1>1
<1>3. \A i \in 1..Len(E) :
          /\ E[i].block \in 1..((m + 1) + 1) /\ world_block <= E[i].block
          /\ E[i].tx \in 1..k
          /\ E[i].tx \in {} <=> E[i].block = (m + 1) + 1
  BY <1>1, <1>2, Zenon DEF Stream
<1> QED BY <1>3, Zenon DEF Stream

(* What getEvents answers is the part between the ends of two blocks. *)
LEMMA EventsFromIs ==
    ASSUME NEW E, NEW m \in Nat, NEW k \in Nat, NEW pre, Stream(E, m, k, pre),
           NEW from \in Nat, NEW to \in Nat, BlockEnd(E, from - 1) <= BlockEnd(E, to)
    PROVE  EventsFrom(E, from, to) = Part(E, BlockEnd(E, from - 1), BlockEnd(E, to))
<1> DEFINE a == BlockEnd(E, from - 1)
           b == BlockEnd(E, to)
           I == {i \in DOMAIN E : E[i].block \in from..to}
<1>1. E \in Seq(Ev) /\ Len(E) \in Nat /\ \A i \in 1..Len(E) : E[i].block \in Nat
  BY StreamEvents, Zenon
<1>2. DOMAIN E = 1..Len(E)
  BY <1>1
<1>3. a \in 0..Len(E) /\ EndOfBlock(E, from - 1, a)
  <2>1. from - 1 \in Int
    OBVIOUS
  <2> QED BY <2>1, BlockEndIs, Zenon
<1>4. b \in 0..Len(E) /\ EndOfBlock(E, to, b)
  <2>1. to \in Int
    OBVIOUS
  <2> QED BY <2>1, BlockEndIs, Zenon
<1>5. a <= b
  OBVIOUS
<1> HIDE DEF a, b
<1>6. \A i \in 1..Len(E) : E[i].block \in from..to <=> i \in (a + 1)..b
  <2> SUFFICES ASSUME NEW i \in 1..Len(E) PROVE E[i].block \in from..to <=> i \in (a + 1)..b
    OBVIOUS
  <2>1. E[i].block \in Nat /\ (E[i].block <= from - 1 <=> i <= a) /\ (E[i].block <= to <=> i <= b)
    BY <1>1, <1>3, <1>4, Zenon DEF EndOfBlock
  <2>2. a \in Int /\ b \in Int
    BY <1>1, <1>3, <1>4
  <2> QED BY <2>1, <2>2
<1>7. \A i \in (a + 1)..b : i \in 1..Len(E)
  BY <1>1, <1>3, <1>4
<1>8. I = (a + 1)..b
  BY <1>2, <1>6, <1>7, Zenon
<1>9. a \in Nat /\ b \in Nat /\ b <= Len(E)
  BY <1>1, <1>3, <1>4
<1>10. EventsFrom(E, from, to) = Slice(E, I)
  BY Zenon DEF EventsFrom
<1> HIDE DEF I
<1>11. EventsFrom(E, from, to) = Part(E, a, b)
  BY <1>1, <1>5, <1>8, <1>9, <1>10, SliceOfInterval, Zenon
<1> QED BY <1>11 DEF a, b

-----------------------------------------------------------------------------
(* What a cursor stands for *)

Cursor == [head : Nat \cup {None}, pending : Nat \cup {None}]

(* The position up to which a cursor says that events are processed. *)
Position(E, cur) ==
    IF cur.pending # None THEN TxEnd(E, cur.pending)
    ELSE IF cur.head = None THEN 0 ELSE BlockEnd(E, cur.head)

(* A pending transaction has events, and the last of them is one of the block after
   the head. *)
GoodCursor(E, m, cur) ==
    /\ cur \in Cursor
    /\ cur.head # None => cur.head <= m
    /\ cur.pending # None =>
          /\ cur.head # None
          /\ TxEnd(E, cur.pending) # 0
          /\ E[TxEnd(E, cur.pending)].tx = cur.pending
          /\ E[TxEnd(E, cur.pending)].block = cur.head + 1

(* The log is what the cursor says. *)
StandsFor(E, m, log, cur) == GoodCursor(E, m, cur) /\ log = Part(E, 0, Position(E, cur))

(* The fields of a cursor. *)
LEMMA CursorFields ==
    ASSUME NEW cur \in Cursor
    PROVE  /\ cur.head # None => cur.head \in Nat
           /\ cur.pending # None => cur.pending \in Nat
  BY DEF Cursor

(* A cursor stands for a position. *)
LEMMA PositionIs ==
    ASSUME NEW E, NEW m \in Nat, NEW k \in Nat, NEW pre, Stream(E, m, k, pre),
           NEW cur, GoodCursor(E, m, cur)
    PROVE  Position(E, cur) \in Nat /\ Position(E, cur) <= Len(E)
<1>1. Len(E) \in Nat
  BY StreamEvents, Zenon
<1>2. cur \in Cursor
  BY Zenon DEF GoodCursor
<1>3. CASE cur.pending # None
  <2>1. cur.pending \in Nat
    BY <1>2, <1>3, CursorFields, Zenon
  <2>2. TxEnd(E, cur.pending) \in 0..Len(E)
    BY <2>1, TxEndIs, Zenon
  <2>3. Position(E, cur) = TxEnd(E, cur.pending)
    BY <1>3, Zenon DEF Position
  <2> QED BY <1>1, <2>2, <2>3
<1>4. CASE cur.pending = None /\ cur.head = None
  <2>1. Position(E, cur) = 0
    BY <1>4, Zenon DEF Position
  <2> QED BY <1>1, <2>1
<1>5. CASE cur.pending = None /\ cur.head # None
  <2>1. cur.head \in Nat
    BY <1>2, <1>5, CursorFields, Zenon
  <2>2. cur.head \in Int
    BY <2>1
  <2>3. BlockEnd(E, cur.head) \in 0..Len(E)
    BY <2>2, BlockEndIs, Zenon
  <2>4. Position(E, cur) = BlockEnd(E, cur.head)
    BY <1>5, Zenon DEF Position
  <2> QED BY <1>1, <2>3, <2>4
<1> QED BY <1>3, <1>4, <1>5, Zenon

(* No cursor moves when a transaction is added or a block is mined: what it stands
   for stays. *)
LEMMA StandsStill ==
    ASSUME NEW E, NEW m \in Nat, NEW k \in Nat, NEW pre, Stream(E, m, k, pre),
           NEW N, NewEvents(N, m, k),
           NEW log, NEW cur, StandsFor(E, m, log, cur)
    PROVE  StandsFor(E \o N, m, log, cur)
<1> DEFINE L == E \o N
<1>0. Stream(L, m, k + 1, pre \cup {k + 1}) /\ SameEnds(L, E, m, k) /\ N \in Seq(Ev)
  BY StreamGrows, Zenon DEF NewEvents
<1>1. /\ \A b \in Int : b <= m => BlockEnd(L, b) = BlockEnd(E, b)
      /\ \A t \in Nat : t <= k => TxEnd(L, t) = TxEnd(E, t)
  BY <1>0, Zenon DEF SameEnds
<1>2. GoodCursor(E, m, cur) /\ log = Part(E, 0, Position(E, cur)) /\ cur \in Cursor
  BY Zenon DEF StandsFor, GoodCursor
<1>3. Position(E, cur) \in Nat /\ Position(E, cur) <= Len(E)
  BY <1>2, PositionIs, Zenon
<1>4. E \in Seq(Ev) /\ Len(E) \in Nat /\ \A i \in 1..Len(E) : E[i].tx \in Nat /\ E[i].tx <= k
  BY StreamEvents, Zenon
<1>5. \A i \in 1..Len(E) : L[i] = E[i]
  BY <1>0, <1>4, ConcatElements, Zenon
<1>6. Part(L, 0, Position(E, cur)) = Part(E, 0, Position(E, cur))
  BY <1>0, <1>3, <1>4, FromZero, PartOfLonger
<1> HIDE DEF L
<1>7. CASE cur.pending # None
  <2>1. cur.pending \in Nat
    BY <1>2, <1>7, CursorFields, Zenon
  <2> DEFINE n == TxEnd(E, cur.pending)
  <2>2. /\ cur.head # None /\ cur.head <= m
        /\ n # 0 /\ E[n].tx = cur.pending /\ E[n].block = cur.head + 1
    BY <1>2, <1>7, Zenon DEF GoodCursor
  <2>3. n \in 0..Len(E)
    BY <2>1, TxEndIs, Zenon
  <2> HIDE DEF n
  <2>4. n \in 1..Len(E)
    BY <1>4, <2>2, <2>3
  <2>5. cur.pending <= k
    BY <1>4, <2>2, <2>4, Zenon
  <2>6. TxEnd(L, cur.pending) = n
    BY <1>1, <2>1, <2>5, Zenon DEF n
  <2>7. L[n] = E[n]
    BY <1>5, <2>4, Zenon
  <2>8. GoodCursor(L, m, cur)
    BY <1>2, <2>2, <2>6, <2>7, Zenon DEF GoodCursor
  <2>9. Position(L, cur) = Position(E, cur)
    BY <1>7, <2>6, Zenon DEF Position, n
  <2> QED BY <1>2, <1>6, <2>8, <2>9, Zenon DEF StandsFor, L
<1>8. CASE cur.pending = None
  <2>1. GoodCursor(L, m, cur)
    BY <1>2, <1>8, Zenon DEF GoodCursor
  <2>2. Position(L, cur) = Position(E, cur)
    <3>1. CASE cur.head = None
      BY <1>8, <3>1, Zenon DEF Position
    <3>2. CASE cur.head # None
      <4>1. cur.head \in Nat /\ cur.head <= m
        BY <1>2, <3>2, CursorFields, Zenon DEF GoodCursor
      <4>2. cur.head \in Int
        BY <4>1
      <4>3. BlockEnd(L, cur.head) = BlockEnd(E, cur.head)
        BY <1>1, <4>1, <4>2, Zenon
      <4> QED BY <1>8, <3>2, <4>3, Zenon DEF Position
    <3> QED BY <3>1, <3>2, Zenon
  <2> QED BY <1>2, <1>6, <2>1, <2>2, Zenon DEF StandsFor, L
<1> QED BY <1>7, <1>8, Zenon

(* A cursor stands for the same log after a block is mined. *)
LEMMA StandsMined ==
    ASSUME NEW E, NEW m \in Nat, NEW log, NEW cur, StandsFor(E, m, log, cur)
    PROVE  StandsFor(E, m + 1, log, cur)
<1>1. GoodCursor(E, m, cur) /\ log = Part(E, 0, Position(E, cur)) /\ cur \in Cursor
  BY Zenon DEF StandsFor, GoodCursor
<1>2. cur.head # None => cur.head \in Nat /\ cur.head <= m
  BY <1>1, CursorFields, Zenon DEF GoodCursor
<1>3. cur.head # None => cur.head <= m + 1
  BY <1>2
<1>4. GoodCursor(E, m + 1, cur)
  BY <1>1, <1>3, Zenon DEF GoodCursor
<1> QED BY <1>1, <1>4, Zenon DEF StandsFor

-----------------------------------------------------------------------------
(* A fetch *)

(* The position a request begins at. *)
Start(E, cur) == BlockEnd(E, FirstBlock(cur) - 1)

(* A request begins where the cursor stands, or before the events of the block that
   is processed up to its pending transaction. *)
LEMMA StartIs ==
    ASSUME NEW E, NEW m \in Nat, NEW k \in Nat, NEW pre, Stream(E, m, k, pre),
           NEW cur, GoodCursor(E, m, cur)
    PROVE  /\ FirstBlock(cur) \in Nat
           /\ Start(E, cur) \in Nat /\ Start(E, cur) <= Position(E, cur)
           /\ cur.pending = None => Start(E, cur) = Position(E, cur)
           /\ cur.head = None => Start(E, cur) = 0
           /\ cur.head # None => FirstBlock(cur) <= cur.head + 1 /\ Start(E, cur) = BlockEnd(E, cur.head)
<1>0. world_block \in Nat
  BY ChunkSizes, Zenon
<1>1. /\ E \in Seq(Ev) /\ Len(E) \in Nat
      /\ \A i \in 1..Len(E) : E[i].block \in Nat /\ 1 <= E[i].block /\ world_block <= E[i].block
  BY StreamEvents, Zenon
<1>2. cur \in Cursor
  BY Zenon DEF GoodCursor
<1>3. CASE cur.head = None
  <2>1. FirstBlock(cur) = world_block
    BY <1>3, Zenon DEF FirstBlock
  <2>2. world_block - 1 \in Int /\ 0 \in 0..Len(E)
    BY <1>0, <1>1
  <2>3. \A i \in 1..Len(E) : ~ E[i].block <= world_block - 1 /\ ~ i <= 0
    BY <1>0, <1>1
  <2>4. EndOfBlock(E, world_block - 1, 0)
    BY <2>3, Zenon DEF EndOfBlock
  <2>5. BlockEnd(E, world_block - 1) = 0
    BY <2>2, <2>4, BlockEndUnique, Zenon
  <2>6. Start(E, cur) = 0
    BY <2>1, <2>5, Zenon DEF Start
  <2>7. cur.pending = None
    BY <1>3, Zenon DEF GoodCursor
  <2>8. Position(E, cur) = 0
    BY <1>3, <2>7, Zenon DEF Position
  <2> QED BY <1>0, <1>3, <2>1, <2>6, <2>8, FromZero, Zenon
<1>4. CASE cur.head # None
  <2>1. cur.head \in Nat
    BY <1>2, <1>4, CursorFields, Zenon
  <2>2. cur.head \in Int /\ -1 \in Int /\ 0 \in Int
    BY <2>1
  <2>3. FirstBlock(cur) \in Nat /\ FirstBlock(cur) <= cur.head + 1
    BY <1>4, <2>1 DEF FirstBlock
  <2>4. Start(E, cur) = BlockEnd(E, cur.head)
    <3>1. CASE cur.head = 0
      <4>1. FirstBlock(cur) - 1 = -1
        BY <1>4, <3>1 DEF FirstBlock
      <4>2. \A i \in 1..Len(E) : ~ E[i].block <= -1 /\ ~ E[i].block <= 0 /\ ~ i <= 0
        BY <1>1
      <4>3. EndOfBlock(E, -1, 0) /\ EndOfBlock(E, 0, 0)
        BY <4>2, Zenon DEF EndOfBlock
      <4>4. 0 \in 0..Len(E)
        BY <1>1
      <4>5. BlockEnd(E, -1) = 0 /\ BlockEnd(E, 0) = 0
        BY <2>2, <4>3, <4>4, BlockEndUnique, Zenon
      <4> QED BY <3>1, <4>1, <4>5, Zenon DEF Start
    <3>2. CASE cur.head # 0
      <4>1. FirstBlock(cur) = cur.head + 1
        BY <1>4, <3>2, Zenon DEF FirstBlock
      <4>2. (cur.head + 1) - 1 = cur.head
        BY <2>1
      <4> QED BY <4>1, <4>2, Zenon DEF Start
    <3> QED BY <3>1, <3>2, Zenon
  <2>5. BlockEnd(E, cur.head) \in 0..Len(E) /\ EndOfBlock(E, cur.head, BlockEnd(E, cur.head))
    BY <2>2, BlockEndIs, Zenon
  <2>6. BlockEnd(E, cur.head) \in Nat
    BY <1>1, <2>5
  <2>7. CASE cur.pending = None
    <3>1. Position(E, cur) = BlockEnd(E, cur.head)
      BY <1>4, <2>7, Zenon DEF Position
    <3> QED BY <1>4, <2>3, <2>4, <2>6, <2>7, <3>1, FromZero, Zenon
  <2>8. CASE cur.pending # None
    <3> DEFINE n == TxEnd(E, cur.pending)
    <3>1. cur.pending \in Nat
      BY <1>2, <2>8, CursorFields, Zenon
    <3>2. n # 0 /\ E[n].block = cur.head + 1
      BY <2>8, Zenon DEF GoodCursor
    <3>3. n \in 0..Len(E)
      BY <3>1, TxEndIs, Zenon
    <3>4. Position(E, cur) = n
      BY <2>8, Zenon DEF Position
    <3> HIDE DEF n
    <3>5. n \in 1..Len(E)
      BY <1>1, <3>2, <3>3
    <3>6. ~ E[n].block <= cur.head
      BY <2>1, <3>2
    <3>7. ~ n <= BlockEnd(E, cur.head)
      BY <2>5, <3>5, <3>6, Zenon DEF EndOfBlock
    <3>8. BlockEnd(E, cur.head) <= n
      BY <2>6, <3>5, <3>7
    <3> QED BY <1>4, <2>3, <2>4, <2>6, <2>8, <3>4, <3>8, Zenon
  <2> QED BY <2>7, <2>8, Zenon
<1> QED BY <1>3, <1>4, Zenon

(* A request of a fetch that saw block L as the latest: what it has read lies in its
   range, next to each other, and at the end it has read the range. *)
GoodRequest(E, L, cur, r) ==
    /\ cur.head = L => r.done
    /\ cur.head # L =>
          /\ r.from \in Nat /\ r.to \in Nat /\ r.read \in Nat /\ r.done \in BOOLEAN
          /\ r.to <= L /\ r.to_block = r.to
          /\ cur.head # None => cur.head < r.to
          /\ r.from = 0 => r.to = Lesser(blocks_chunk_size, L)
          /\ Start(E, cur) <= BlockEnd(E, r.to)
          /\ ~ r.done => /\ Start(E, cur) + r.read <= BlockEnd(E, r.to)
                         /\ r.events = Part(E, Start(E, cur), Start(E, cur) + r.read)
          /\ r.done => r.events = Part(E, Start(E, cur), BlockEnd(E, r.to))

(* The lesser and the greater of two numbers. *)
LEMMA LesserIs ==
    ASSUME NEW a \in Nat, NEW b \in Nat
    PROVE  /\ Lesser(a, b) \in Nat /\ Lesser(a, b) <= a /\ Lesser(a, b) <= b
           /\ Lesser(a, b) = a \/ Lesser(a, b) = b
  BY DEF Lesser

(* The first request. *)
LEMMA NewRequestIs ==
    ASSUME NEW E, NEW m \in Nat, NEW k \in Nat, NEW pre, Stream(E, m, k, pre),
           NEW cur, GoodCursor(E, m, cur)
    PROVE  GoodRequest(E, m, cur, NewRequest(cur, m))
<1> DEFINE r == NewRequest(cur, m)
           F == FirstBlock(cur)
           to == Lesser(F + blocks_chunk_size, m)
           A == Start(E, cur)
<1>1. blocks_chunk_size \in Nat /\ 1 <= blocks_chunk_size
  BY ChunkSizes
<1>2. /\ F \in Nat /\ A \in Nat
      /\ cur.head = None => A = 0
      /\ cur.head # None => F <= cur.head + 1 /\ A = BlockEnd(E, cur.head)
  BY StartIs, Zenon
<1>3. /\ r.from = F /\ r.to = to /\ r.to_block = to /\ r.read = 0 /\ r.events = << >>
      /\ r.done = (cur.head = m)
  BY DEF NewRequest
<1>4. E \in Seq(Ev) /\ Len(E) \in Nat
  BY StreamEvents, Zenon
<1>5. A <= Len(E)
  <2>1. A <= Position(E, cur) /\ Position(E, cur) <= Len(E) /\ Position(E, cur) \in Nat
    BY StartIs, PositionIs, Zenon
  <2> HIDE DEF A
  <2> QED BY <1>2, <1>4, <2>1
<1>6. cur.head # None => cur.head \in Nat /\ cur.head <= m
  BY CursorFields, Zenon DEF GoodCursor
<1> HIDE DEF r, F, A
<1>7. to \in Nat /\ to <= m
  <2>1. F + blocks_chunk_size \in Nat
    BY <1>1, <1>2
  <2> QED BY <2>1, LesserIs, Zenon
<1>8. ASSUME cur.head # None, cur.head # m PROVE cur.head < to
  <2>1. cur.head < F + blocks_chunk_size
    BY <1>1, <1>2, <1>6, <1>8 DEF F, FirstBlock
  <2> QED BY <1>6, <1>8, <2>1 DEF Lesser
<1>9. F = 0 => to = Lesser(blocks_chunk_size, m)
  BY <1>1
<1>10. BlockEnd(E, to) \in 0..Len(E)
  <2>1. to \in Int
    BY <1>7
  <2> QED BY <2>1, BlockEndIs, Zenon
<1>11. cur.head # m => A <= BlockEnd(E, to)
  <2>1. CASE cur.head = None
    BY <1>2, <1>4, <1>10, <2>1
  <2>2. CASE cur.head # None /\ cur.head # m
    <3>1. cur.head \in Int /\ to \in Int /\ cur.head <= to
      BY <1>6, <1>7, <1>8, <2>2
    <3>2. BlockEnd(E, cur.head) <= BlockEnd(E, to)
      BY <3>1, BlockEndGrows, Zenon
    <3> QED BY <1>2, <2>2, <3>2, Zenon
  <2> QED BY <2>1, <2>2, Zenon
<1>12. A + 0 = A /\ A <= A
  BY <1>2
<1>13. Part(E, A, A + 0) = << >>
  <2>1. Part(E, A, A) = << >>
    BY <1>2, <1>4, <1>5, <1>12, PartEmpty, Zenon
  <2> QED BY <1>12, <2>1, Zenon
<1> HIDE DEF to
<1>14. cur.head = m => r.done
  BY <1>3, Zenon
<1>15. ASSUME cur.head # m PROVE ~ r.done
  BY <1>3, <1>15, Zenon
<1>16. r.read \in Nat /\ r.done \in BOOLEAN
  BY <1>3
<1>17. cur.head # m => /\ A + r.read <= BlockEnd(E, r.to)
                       /\ r.events = Part(E, A, A + r.read)
  BY <1>3, <1>11, <1>12, <1>13, Zenon
<1> QED BY <1>2, <1>3, <1>7, <1>8, <1>9, <1>11, <1>14, <1>15, <1>16, <1>17, Zenon DEF GoodRequest, A, r

(* The events of a page that are in the range. *)
LEMMA InRangeIs ==
    ASSUME NEW E, NEW m \in Nat, NEW k \in Nat, NEW pre, Stream(E, m, k, pre),
           NEW q \in Nat, NEW z \in Nat, q <= z, z <= Len(E),
           NEW to \in Nat, q <= BlockEnd(E, to)
    PROVE  InRange(Part(E, q, z), to) = Part(E, q, Lesser(BlockEnd(E, to), z))
<1> DEFINE P == BlockEnd(E, to)
           w == Lesser(P, z)
           page == Part(E, q, z)
           I == {i \in DOMAIN page : \A j \in 1..i : page[j].block <= to}
<1>1. E \in Seq(Ev) /\ Len(E) \in Nat
  BY StreamEvents, Zenon
<1>2. P \in 0..Len(E) /\ EndOfBlock(E, to, P)
  <2>1. to \in Int
    OBVIOUS
  <2> QED BY <2>1, BlockEndIs, Zenon
<1>3. page \in Seq(Ev) /\ Len(page) = z - q /\ \A i \in 1..(z - q) : page[i] = E[q + i]
  BY <1>1, PartElements, Zenon
<1>4. InRange(page, to) = Slice(page, I)
  BY Zenon DEF InRange
<1>5. q <= P
  OBVIOUS
<1> HIDE DEF P, page
<1>6. P \in Nat
  BY <1>1, <1>2
<1>7. w \in Nat /\ q <= w /\ w <= z /\ w <= P
  BY <1>5, <1>6 DEF Lesser
<1>8. DOMAIN page = 1..(z - q)
  BY <1>3
<1>9. ASSUME NEW i \in 1..(z - q) PROVE page[i].block <= to <=> q + i <= P
  <2>1. q + i \in 1..Len(E)
    BY <1>1
  <2> QED BY <1>2, <1>3, <2>1, Zenon DEF EndOfBlock
<1>10. ASSUME NEW i \in 1..(z - q) PROVE (\A j \in 1..i : page[j].block <= to) <=> i <= w - q
  <2>1. \A j \in 1..i : j \in 1..(z - q)
    OBVIOUS
  <2>2. (\A j \in 1..i : page[j].block <= to) <=> (\A j \in 1..i : q + j <= P)
    BY <1>9, <2>1, Zenon
  <2>3. (\A j \in 1..i : q + j <= P) <=> q + i <= P
    <3>1. i \in 1..i
      OBVIOUS
    <3>2. q + i <= P => \A j \in 1..i : q + j <= P
      BY <1>6
    <3> QED BY <3>1, <3>2, Zenon
  <2>4. q + i <= P <=> i <= w - q
    BY <1>6 DEF Lesser
  <2> QED BY <2>2, <2>3, <2>4, Zenon
<1> HIDE DEF w
<1>11. \A i : i \in 1..(z - q) /\ i <= w - q <=> i \in (0 + 1)..(w - q)
  BY <1>7
<1>12. \A i : i \in I <=> i \in (0 + 1)..(w - q)
  BY <1>8, <1>10, <1>11, Zenon
<1>13. I = (0 + 1)..(w - q)
  BY <1>12, Zenon
<1>14. 0 \in Nat /\ w - q \in Nat /\ 0 <= w - q /\ w - q <= Len(page) /\ w - q <= z - q
  BY <1>3, <1>7
<1> HIDE DEF I
<1>15. Slice(page, I) = Part(page, 0, w - q)
  BY <1>3, <1>13, <1>14, SliceOfInterval, Zenon
<1>16. Part(page, 0, w - q) = Part(E, q + 0, q + (w - q))
  <2>1. \A u, v \in Nat :
              u <= v /\ v <= z - q => Part(Part(E, q, z), u, v) = Part(E, q + u, q + v)
    BY <1>1, PartOfPart
  <2> QED BY <1>14, <2>1, Zenon DEF page
<1>17. q + 0 = q /\ q + (w - q) = w
  BY <1>7
<1> QED BY <1>4, <1>15, <1>16, <1>17, Zenon DEF page, w, P

(* Where the page after the first n events ends. *)
PageEnd(A, B, n) == A + Lesser(n + events_chunk_size, B - A)

(* The next page. *)
LEMMA PageIs ==
    ASSUME NEW E \in Seq(Ev), NEW A \in Nat, NEW B \in Nat, A <= B, B <= Len(E),
           NEW n \in Nat, A + n <= B
    PROVE  /\ PageEnd(A, B, n) \in Nat /\ A + n <= PageEnd(A, B, n) /\ PageEnd(A, B, n) <= B
           /\ Page(Part(E, A, B), n) = Part(E, A + n, PageEnd(A, B, n))
<1> DEFINE all == Part(E, A, B)
           y == Lesser(n + events_chunk_size, B - A)
<1>1. Len(all) = B - A
  BY PartElements, Zenon
<1>2. Page(all, n) = SubSeq(all, n + 1, y)
  <2> HIDE DEF all
  <2> QED BY <1>1, Zenon DEF Page
<1>3. y \in Nat /\ n <= y /\ y <= B - A
  BY ChunkSizes DEF Lesser
<1>0. PageEnd(A, B, n) = A + y
  BY Zenon DEF PageEnd
<1> HIDE DEF y
<1>4. Part(all, n, y) = Part(E, A + n, A + y)
  <2>1. \A u, v \in Nat :
              u <= v /\ v <= B - A => Part(Part(E, A, B), u, v) = Part(E, A + u, A + v)
    BY <1>1, PartOfPart
  <2> QED BY <1>3, <2>1, Zenon
<1>5. A + y \in Nat /\ A + n <= A + y /\ A + y <= B
  BY <1>3
<1>6. Page(all, n) = Part(E, A + n, A + y)
  BY <1>2, <1>4, Zenon DEF Part
<1> QED BY <1>0, <1>5, <1>6, Zenon DEF all

(* A range that follows the first event of a page does not shrink. *)
LEMMA NextRange ==
    ASSUME NEW L \in Nat, NEW from \in Nat, NEW to \in Nat, to <= L,
           from = 0 => to = Lesser(blocks_chunk_size, L),
           NEW first \in Nat, 1 <= first, first <= L, first > to \/ from = 0
    PROVE  /\ Lesser(first + blocks_chunk_size, L) \in Nat
           /\ to <= Lesser(first + blocks_chunk_size, L)
           /\ Lesser(first + blocks_chunk_size, L) <= L
  BY ChunkSizes DEF Lesser

(* What a request says that is not done. *)
LEMMA OpenRequest ==
    ASSUME NEW E, NEW L \in Nat, NEW cur, NEW r, GoodRequest(E, L, cur, r), ~ r.done
    PROVE  /\ cur.head # L
           /\ r.from \in Nat /\ r.to \in Nat /\ r.read \in Nat
           /\ r.to <= L /\ r.to_block = r.to
           /\ cur.head # None => cur.head < r.to
           /\ r.from = 0 => r.to = Lesser(blocks_chunk_size, L)
           /\ Start(E, cur) <= BlockEnd(E, r.to)
           /\ Start(E, cur) + r.read <= BlockEnd(E, r.to)
           /\ r.events = Part(E, Start(E, cur), Start(E, cur) + r.read)
  BY Zenon DEF GoodRequest

(* One more page, from position q to position z, leaves the request a good one. *)
LEMMA ReadPageIs ==
    ASSUME NEW E, NEW m \in Nat, NEW k \in Nat, NEW pre, Stream(E, m, k, pre),
           NEW L \in Nat, L <= m, NEW cur, GoodCursor(E, m, cur),
           cur.head # None => cur.head <= L,
           NEW r, GoodRequest(E, L, cur, r), ~ r.done
    PROVE  GoodRequest(E, L, cur, ReadPage(r, EventsFrom(E, FirstBlock(cur), L), L))
<1> DEFINE A == Start(E, cur)
           B == BlockEnd(E, L)
           R == BlockEnd(E, r.to)
           n == r.read
           q == A + n
           all == EventsFrom(E, FirstBlock(cur), L)
           page == Page(all, n)
           jump == page # << >> /\ (page[1].block > r.to \/ r.from = 0)
           from == IF jump THEN page[1].block ELSE r.from
           to == IF jump THEN Lesser(from + blocks_chunk_size, L) ELSE r.to
           P == BlockEnd(E, to)
           s == ReadPage(r, all, L)
<1>1. /\ cur.head # L
      /\ r.from \in Nat /\ r.to \in Nat /\ n \in Nat
      /\ r.to <= L /\ r.to_block = r.to
      /\ cur.head # None => cur.head < r.to
      /\ r.from = 0 => r.to = Lesser(blocks_chunk_size, L)
      /\ A <= R /\ q <= R /\ r.events = Part(E, A, q)
  BY OpenRequest
<1>2. /\ E \in Seq(Ev) /\ Len(E) \in Nat
      /\ \A i \in 1..Len(E) : E[i].block \in Nat /\ 1 <= E[i].block
  BY StreamEvents, Zenon
<1>3. FirstBlock(cur) \in Nat /\ A \in Nat
  BY StartIs, Zenon
<1>4. R \in 0..Len(E) /\ B \in 0..Len(E) /\ EndOfBlock(E, L, B) /\ R <= B
  <2>1. r.to \in Int /\ L \in Int /\ r.to <= L
    BY <1>1
  <2> QED BY <2>1, BlockEndIs, BlockEndGrows, Zenon
<1>5. /\ A \in Nat /\ B \in Nat /\ q \in Nat /\ R \in Nat
      /\ A <= B /\ A <= q /\ q <= B /\ B <= Len(E)
  <2> HIDE DEF A, B, R
  <2> QED BY <1>1, <1>2, <1>3, <1>4, SMTT(30)
<1>6. all = Part(E, A, B)
  <2>1. BlockEnd(E, FirstBlock(cur) - 1) <= BlockEnd(E, L)
    BY <1>5, Zenon DEF Start
  <2> QED BY <1>3, <2>1, EventsFromIs, Zenon DEF Start
<1>7. Len(all) = B - A
  BY <1>2, <1>5, <1>6, PartElements, Zenon
<1> DEFINE z == PageEnd(A, B, r.read)
<1>8. z \in Nat /\ q <= z /\ z <= B /\ page = Part(E, q, z)
  <2> HIDE DEF all, A, B, z
  <2>1. /\ E \in Seq(Ev) /\ A \in Nat /\ B \in Nat /\ A <= B /\ B <= Len(E)
        /\ r.read \in Nat /\ A + r.read <= B
    BY <1>1, <1>2, <1>5, Zenon
  <2>2. z \in Nat /\ A + r.read <= z /\ z <= B
    BY <2>1, PageIs, Zenon DEF z
  <2>3. Page(Part(E, A, B), r.read) = Part(E, A + r.read, z)
    BY <2>1, PageIs DEF z
  <2> QED BY <1>6, <2>2, <2>3, Zenon
<1> HIDE DEF z
<1>9. z <= Len(E)
  <2> HIDE DEF B
  <2> QED BY <1>2, <1>5, <1>8
<1>10. page \in Seq(Ev) /\ Len(page) = z - q /\ \A i \in 1..(z - q) : page[i] = E[q + i]
  <2> DEFINE y == Part(E, q, z)
  <2> HIDE DEF page, q
  <2>1. y \in Seq(Ev) /\ Len(y) = z - q /\ \A i \in 1..(z - q) : y[i] = E[q + i]
    BY <1>2, <1>5, <1>8, <1>9, PartElements, ZenonT(40)
  <2>2. page = y
    BY <1>8, Zenon
  <2> HIDE DEF y
  <2> QED BY <2>1, <2>2, Zenon
<1>11. /\ s.from = from /\ s.to = to
       /\ s.to_block = IF n = 0 THEN to ELSE Greater(r.to_block, to)
       /\ s.read = n + Len(page)
       /\ s.events = r.events \o InRange(page, to)
       /\ s.done = (n + Len(page) = Len(all) \/ \E i \in DOMAIN page : page[i].block > to)
  <2> DEFINE last == n + Len(page) = Len(all) \/ \E i \in DOMAIN page : page[i].block > to
             high == IF n = 0 THEN to ELSE Greater(r.to_block, to)
             got == r.events \o InRange(page, to)
  <2> HIDE DEF all
  <2>1. s = [from |-> from, to |-> to, to_block |-> high, read |-> n + Len(page),
             events |-> got, done |-> last]
    BY Zenon DEF ReadPage
  <2> HIDE DEF page, from, to, s, high, got, last
  <2>2. s.from = from /\ s.to = to /\ s.to_block = high /\ s.read = n + Len(page) /\ s.events = got
    BY <2>1
  <2>3. s.done = last
    BY <2>1, Zenon
  <2> QED BY <2>2, <2>3, Zenon DEF high, got, last
<1> HIDE DEF s, page, all, A, B, R, q
<1>12. /\ from \in Nat /\ to \in Nat /\ r.to <= to /\ to <= L
       /\ from = 0 => to = Lesser(blocks_chunk_size, L)
  <2>1. CASE jump
    <3>1. q < z
      BY <1>5, <1>8, <1>10, <2>1
    <3>2. 1 \in 1..(z - q) /\ q + 1 \in 1..Len(E) /\ q + 1 <= B
      BY <1>2, <1>5, <1>8, <3>1
    <3>3. page[1].block \in Nat /\ 1 <= page[1].block /\ page[1].block <= L
      BY <1>2, <1>4, <1>10, <3>2, Zenon DEF EndOfBlock
    <3>4. page[1].block > r.to \/ r.from = 0
      BY <2>1, Zenon
    <3>5. from = page[1].block /\ to = Lesser(page[1].block + blocks_chunk_size, L)
      BY <2>1, Zenon
    <3>6. to \in Nat /\ r.to <= to /\ to <= L
      <4> DEFINE e == Lesser(page[1].block + blocks_chunk_size, L)
      <4>1. e \in Nat /\ r.to <= e /\ e <= L
        BY <1>1, <3>3, <3>4, NextRange
      <4> QED BY <3>5, <4>1, Zenon
    <3>7. from \in Nat /\ from # 0
      BY <3>3, <3>5
    <3> QED BY <3>6, <3>7, Zenon
  <2>2. CASE ~ jump
    <3>1. from = r.from /\ to = r.to
      BY <2>2, Zenon
    <3>2. r.to <= r.to
      BY <1>1
    <3> QED BY <1>1, <3>1, <3>2, Zenon
  <2> QED BY <2>1, <2>2, Zenon
<1> HIDE DEF jump, from, to
<1>13. P \in 0..Len(E) /\ EndOfBlock(E, to, P) /\ R <= P /\ P <= B
  <2>1. r.to \in Int /\ L \in Int /\ to \in Int
    BY <1>1, <1>12
  <2> QED BY <1>12, <2>1, BlockEndIs, BlockEndGrows, Zenon DEF R, B
<1>14. InRange(page, to) = Part(E, q, Lesser(P, z))
  <2>1. q <= P
    BY <1>1, <1>2, <1>5, <1>13
  <2> QED BY <1>5, <1>8, <1>9, <1>12, <2>1, InRangeIs
<1> HIDE DEF P
<1> DEFINE w == Lesser(P, z)
<1>15. /\ P \in Nat /\ A <= P /\ q <= P
       /\ w \in Nat /\ q <= w /\ w <= Len(E)
       /\ z <= P => w = z
       /\ P <= z => w = P
  BY <1>1, <1>2, <1>5, <1>8, <1>9, <1>13 DEF Lesser
<1> HIDE DEF w
<1>16. s.events = Part(E, A, w)
  <2>1. Part(E, A, q) \o Part(E, q, w) = Part(E, A, w)
    <3>1. E \in Seq(Ev) /\ A \in Nat /\ q \in Nat /\ w \in Nat /\ A <= q /\ q <= w /\ w <= Len(E)
      BY <1>2, <1>5, <1>15, Zenon
    <3> QED BY <3>1, PartConcat, SMTT(30)
  <2> QED BY <1>1, <1>11, <1>14, <2>1, Zenon DEF w
<1>17. s.read \in Nat /\ A + s.read = z
  <2>1. s.read = n + (z - q)
    BY <1>10, <1>11, Zenon
  <2>2. n \in Nat /\ A \in Nat /\ z \in Nat /\ q <= z /\ q = A + n
    BY <1>1, <1>3, <1>8, Zenon DEF q
  <2> HIDE DEF n
  <2> QED BY <2>1, <2>2
<1>18. s.to_block = s.to
  BY <1>1, <1>11, <1>12 DEF Greater
<1>19. cur.head # None => cur.head < s.to
  <2>1. cur.head # None => cur.head \in Nat
    BY CursorFields, Zenon DEF GoodCursor
  <2> QED BY <1>1, <1>11, <1>12, <2>1
<1>20. DOMAIN page = 1..(z - q)
  BY <1>10
<1>21. ASSUME NEW i \in 1..(z - q) PROVE page[i].block > to <=> P < q + i
  <2>1. q + i \in 1..Len(E)
    BY <1>2, <1>5, <1>8, <1>9
  <2>2. page[i] = E[q + i] /\ E[q + i].block \in Nat /\ (E[q + i].block <= to <=> q + i <= P)
    BY <1>2, <1>10, <1>13, <2>1, Zenon DEF EndOfBlock
  <2>3. E[q + i].block > to <=> ~ E[q + i].block <= to
    BY <1>12, <2>2
  <2>4. P < q + i <=> ~ q + i <= P
    BY <1>5, <1>15
  <2> QED BY <2>2, <2>3, <2>4, Zenon
<1>22. ~ s.done => z <= P
  <2> SUFFICES ASSUME ~ s.done, P < z PROVE FALSE
    BY <1>8, <1>15
  <2>1. z - q \in 1..(z - q) /\ P < q + (z - q)
    BY <1>5, <1>8, <1>15
  <2> QED BY <1>11, <1>20, <1>21, <2>1, Zenon
<1>23. s.done => P <= z
  <2>1. CASE n + Len(page) = Len(all)
    <3>1. n + (z - q) = B - A
      BY <1>7, <1>10, <2>1, Zenon
    <3>2. n \in Nat /\ A \in Nat /\ B \in Nat /\ z \in Nat /\ q = A + n /\ P <= B
      BY <1>1, <1>5, <1>8, <1>13, Zenon DEF q
    <3> HIDE DEF n
    <3>3. z = B
      BY <3>1, <3>2
    <3> QED BY <3>2, <3>3, Zenon
  <2>2. CASE \E i \in DOMAIN page : page[i].block > to
    <3>1. PICK i \in 1..(z - q) : P < q + i
      BY <1>20, <1>21, <2>2, Zenon
    <3> QED BY <1>5, <1>8, <1>15, <3>1
  <2> QED BY <1>11, <2>1, <2>2, Zenon
<1>24. s.done \in BOOLEAN
  BY <1>11
<1>25. s.from \in Nat /\ s.to \in Nat /\ s.to <= L /\ (s.from = 0 => s.to = Lesser(blocks_chunk_size, L))
  BY <1>11, <1>12, Zenon
<1>26. /\ A <= BlockEnd(E, s.to)
       /\ ~ s.done => A + s.read <= BlockEnd(E, s.to) /\ s.events = Part(E, A, A + s.read)
       /\ s.done => s.events = Part(E, A, BlockEnd(E, s.to))
  <2>1. BlockEnd(E, s.to) = P
    BY <1>11, Zenon DEF P
  <2> QED BY <1>15, <1>16, <1>17, <1>22, <1>23, <2>1, Zenon
<1>27. GoodRequest(E, L, cur, s)
  BY <1>1, <1>17, <1>18, <1>19, <1>24, <1>25, <1>26, Zenon DEF GoodRequest, A
<1> QED BY <1>27, Zenon DEF s, all

(* A new transaction changes nothing of a request. *)
LEMMA RequestStill ==
    ASSUME NEW E, NEW m \in Nat, NEW k \in Nat, NEW pre, Stream(E, m, k, pre),
           NEW N, NewEvents(N, m, k),
           NEW L \in Nat, L <= m, NEW cur, GoodCursor(E, m, cur),
           NEW r, GoodRequest(E, L, cur, r)
    PROVE  GoodRequest(E \o N, L, cur, r)
<1> DEFINE G == E \o N
           A == Start(E, cur)
<1>0. SameEnds(G, E, m, k) /\ N \in Seq(Ev)
  BY StreamGrows, Zenon DEF NewEvents
<1>1. /\ Stream(G, m, k + 1, pre \cup {k + 1})
      /\ \A b \in Int : b <= m => BlockEnd(G, b) = BlockEnd(E, b)
  BY <1>0, StreamGrows, Zenon DEF SameEnds
<1>2. E \in Seq(Ev) /\ Len(E) \in Nat
  BY StreamEvents, Zenon
<1>3. GoodCursor(G, m, cur)
  <2>1. StandsFor(E, m, Part(E, 0, Position(E, cur)), cur)
    BY Zenon DEF StandsFor
  <2>2. StandsFor(G, m, Part(E, 0, Position(E, cur)), cur)
    BY <2>1, StandsStill, Zenon
  <2> QED BY <2>2, Zenon DEF StandsFor
<1>4. ASSUME NEW a \in Nat, NEW b \in Nat, a <= b, b <= Len(E)
      PROVE  Part(G, a, b) = Part(E, a, b)
  BY <1>0, <1>2, <1>4, PartOfLonger
<1> HIDE DEF G
<1>5. k + 1 \in Nat
  OBVIOUS
<1>6. Start(G, cur) = A
  <2>1. CASE cur.head = None
    BY <1>1, <1>3, <1>5, <2>1, StartIs, Zenon
  <2>2. CASE cur.head # None
    <3>1. Start(G, cur) = BlockEnd(G, cur.head) /\ A = BlockEnd(E, cur.head)
      BY <1>1, <1>3, <1>5, <2>2, StartIs, Zenon
    <3>2. cur.head \in Nat /\ cur.head <= m
      BY <2>2, CursorFields, Zenon DEF GoodCursor
    <3>3. cur.head \in Int
      BY <3>2
    <3> QED BY <1>1, <3>1, <3>2, <3>3, Zenon
  <2> QED BY <2>1, <2>2, Zenon
<1>7. A \in Nat
  BY StartIs, Zenon
<1>8. CASE cur.head = L
  BY <1>8, Zenon DEF GoodRequest, G
<1>9. CASE cur.head # L
  <2> DEFINE P == BlockEnd(E, r.to)
  <2>1. /\ r.from \in Nat /\ r.to \in Nat /\ r.read \in Nat /\ r.done \in BOOLEAN
        /\ r.to <= L /\ r.to_block = r.to
        /\ cur.head # None => cur.head < r.to
        /\ r.from = 0 => r.to = Lesser(blocks_chunk_size, L)
        /\ A <= P
        /\ ~ r.done => A + r.read <= P /\ r.events = Part(E, A, A + r.read)
        /\ r.done => r.events = Part(E, A, P)
    BY <1>9, Zenon DEF GoodRequest
  <2>2. r.to \in Int /\ r.to <= m
    BY <2>1
  <2>3. BlockEnd(G, r.to) = P
    BY <1>1, <2>2, Zenon
  <2>4. P \in 0..Len(E)
    BY <2>2, BlockEndIs, Zenon
  <2> HIDE DEF P, A
  <2>5. P \in Nat /\ P <= Len(E) /\ A + r.read \in Nat /\ A <= A + r.read
    BY <1>2, <1>7, <2>1, <2>4
  <2>6. A + r.read <= P => A + r.read <= Len(E)
    BY <1>2, <1>7, <2>1, <2>4
  <2>7. ~ r.done => r.events = Part(G, A, A + r.read)
    BY <1>4, <1>7, <2>1, <2>5, <2>6, Zenon
  <2>8. r.done => r.events = Part(G, A, P)
    BY <1>4, <1>7, <2>1, <2>5, Zenon
  <2>9. GoodRequest(G, L, cur, r)
    BY <1>6, <1>9, <2>1, <2>3, <2>7, <2>8, Zenon DEF GoodRequest
  <2> QED BY <2>9, Zenon DEF G
<1> QED BY <1>8, <1>9, Zenon

(* What is left of a batch is what follows the pending transaction. *)
LEMMA AfterPendingIs ==
    ASSUME NEW E \in Seq(Ev), NEW A \in Nat, NEW p \in Nat, NEW Q \in Nat, A < p, p <= Q, Q <= Len(E),
           NEW t \in Nat, EndOfTx(E, t, p), E[p].tx = t
    PROVE  AfterPending(Part(E, A, Q), t) = Part(E, p, Q)
<1> DEFINE s == Part(E, A, Q)
           last == {i \in DOMAIN s : s[i].tx = t}
<1>1. Len(E) \in Nat
  OBVIOUS
<1>2. A <= Q
  OBVIOUS
<1>3. s \in Seq(Ev) /\ Len(s) = Q - A /\ \A i \in 1..(Q - A) : s[i] = E[A + i]
  BY <1>1, <1>2, PartElements, Zenon
<1>4. AfterPending(s, t) = IF last = {} THEN s ELSE SubSeq(s, Max(last) + 1, Len(s))
  BY Zenon DEF AfterPending
<1> HIDE DEF s
<1>5. DOMAIN s = 1..(Q - A)
  BY <1>3
<1>6. p - A \in last
  <2>1. p - A \in 1..(Q - A) /\ A + (p - A) = p
    OBVIOUS
  <2> QED BY <1>3, <1>5, <2>1, Zenon
<1>7. ASSUME NEW i \in last PROVE i \in Int /\ i <= p - A
  <2>1. i \in 1..(Q - A) /\ s[i].tx = t
    BY <1>5, Zenon
  <2>2. A + i \in 1..Len(E)
    BY <1>1, <2>1
  <2>3. E[A + i].tx = t
    BY <1>3, <2>1, Zenon
  <2>4. E[A + i].tx <= t
    BY <2>3
  <2>5. A + i <= p
    BY <2>2, <2>4, Zenon DEF EndOfTx
  <2> QED BY <2>1, <2>5
<1> HIDE DEF last
<1>8. Max(last) = p - A
  <2>1. \A x \in last : x \in Int /\ x <= p - A
    BY <1>7
  <2>2. \A y \in last : p - A >= y
    BY <2>1
  <2>3. Max(last) \in last /\ \A y \in last : Max(last) >= y
    BY <1>6, <2>2, Zenon DEF Max
  <2> QED BY <1>6, <2>1, <2>3
<1>9. AfterPending(s, t) = SubSeq(s, (p - A) + 1, Q - A)
  BY <1>3, <1>4, <1>6, <1>8, Zenon
<1>10. Part(s, p - A, Q - A) = Part(E, A + (p - A), A + (Q - A))
  <2>1. /\ E \in Seq(Ev) /\ A \in Nat /\ Q \in Nat /\ A <= Q /\ Q <= Len(E)
        /\ p - A \in Nat /\ Q - A \in Nat /\ p - A <= Q - A /\ Q - A <= Q - A
    BY <1>1
  <2>2. \A u, v \in Nat :
              u <= v /\ v <= Q - A => Part(Part(E, A, Q), u, v) = Part(E, A + u, A + v)
    BY <2>1, PartOfPart
  <2> QED BY <2>1, <2>2, Zenon DEF s
<1>11. A + (p - A) = p /\ A + (Q - A) = Q
  OBVIOUS
<1> QED BY <1>9, <1>10, <1>11, Zenon DEF Part, s

(* The batch of a range brings the log to the end of the range. *)
LEMMA PreprocessIs ==
    ASSUME NEW E, NEW m \in Nat, NEW k \in Nat, NEW pre, Stream(E, m, k, pre),
           NEW L \in Nat, L <= m, NEW log, NEW cur, StandsFor(E, m, log, cur),
           NEW r, GoodRequest(E, L, cur, r), r.done
    PROVE  LET res == preprocess_fetched_events(r, cur, L)
           IN  res.events \in Seq(Ev) /\ StandsFor(E, m, log \o res.events, res.cursor)
<1> DEFINE res == preprocess_fetched_events(r, cur, L)
           A == Start(E, cur)
           p == Position(E, cur)
           P == BlockEnd(E, r.to)
<1>1. E \in Seq(Ev) /\ Len(E) \in Nat /\ \A i \in 1..Len(E) : E[i].tx \in Nat /\ E[i].block \in Nat
  BY StreamEvents, Zenon
<1>2. GoodCursor(E, m, cur) /\ cur \in Cursor /\ log = Part(E, 0, p)
  BY Zenon DEF StandsFor, GoodCursor
<1>3. p \in Nat /\ p <= Len(E)
  BY <1>2, PositionIs, Zenon
<1>4. /\ A \in Nat /\ A <= p
      /\ cur.pending = None => A = p
      /\ cur.head # None => A = BlockEnd(E, cur.head)
  BY <1>2, StartIs, Zenon
<1>5. log \in Seq(Ev)
  BY <1>1, <1>2, <1>3, Beginning, Zenon
<1>6. CASE cur.head = L
  <2>1. res = [events |-> << >>, cursor |-> cur]
    BY <1>6, Zenon DEF preprocess_fetched_events
  <2>2. res.events = << >> /\ res.cursor = cur
    BY <2>1
  <2>3. << >> \in Seq(Ev) /\ log \o << >> = log
    BY <1>5
  <2> QED BY <2>2, <2>3, Zenon
<1>7. CASE cur.head # L
  <2>1. /\ r.to \in Nat /\ r.to <= L /\ r.to_block = r.to
        /\ cur.head # None => cur.head < r.to
        /\ A <= P /\ r.events = Part(E, A, P)
    BY <1>7, Zenon DEF GoodRequest
  <2>2. r.to \in Int /\ r.to <= m
    BY <2>1
  <2>3. P \in 0..Len(E) /\ EndOfBlock(E, r.to, P)
    BY <2>2, BlockEndIs, Zenon
  <2>4. P \in Nat /\ P <= Len(E)
    <3> HIDE DEF P
    <3> QED BY <1>1, <2>3
  <2>5. cur.head # r.to
    <3>1. cur.head # None => cur.head \in Nat
      BY <1>2, CursorFields, Zenon
    <3>2. CASE cur.head = None
      BY <2>1, <3>2, NoneIsNoNumber, Zenon
    <3>3. CASE cur.head # None
      BY <2>1, <3>1, <3>3
    <3> QED BY <3>2, <3>3, Zenon
  <2> DEFINE new == [head |-> r.to, pending |-> None]
  <2>6. /\ res.events = AfterPending(r.events, cur.pending)
        /\ res.cursor = new
    <3>1. res = [events |-> AfterPending(r.events, cur.pending), cursor |-> new]
      BY <1>7, <2>1, <2>5, Zenon DEF preprocess_fetched_events
    <3> HIDE DEF res, new
    <3> QED BY <3>1
  <2>7. r.to # None
    BY <2>1, NoneIsNoNumber, Zenon
  <2>8. GoodCursor(E, m, new) /\ Position(E, new) = P
    <3>1. new.head = r.to /\ new.pending = None /\ new \in Cursor
      BY <2>1 DEF Cursor
    <3> HIDE DEF new
    <3> QED BY <2>2, <2>7, <3>1, Zenon DEF GoodCursor, Position
  <2>9. p <= P /\ AfterPending(r.events, cur.pending) = Part(E, p, P)
    <3>1. CASE cur.pending = None
      <4> DEFINE s == Part(E, A, P)
                 last == {i \in DOMAIN s : s[i].tx = None}
      <4>1. s \in Seq(Ev)
        BY <1>1, <1>4, <2>1, <2>4, PartElements, Zenon
      <4> HIDE DEF s
      <4>2. \A i \in DOMAIN s : s[i].tx \in Nat
        <5>1. \A i \in DOMAIN s : s[i] \in Ev
          BY <4>1
        <5>2. \A e \in Ev : e.tx \in Nat
          BY DEF Ev
        <5> QED BY <5>1, <5>2, Zenon
      <4>3. last = {}
        BY <4>2, NoneIsNoNumber, Zenon
      <4>4. AfterPending(s, None) = s
        BY <4>3, Zenon DEF AfterPending
      <4> QED BY <1>4, <2>1, <3>1, <4>4, Zenon DEF s
    <3>2. CASE cur.pending # None
      <4>1. cur.pending \in Nat
        BY <1>2, <3>2, CursorFields, Zenon
      <4>2. p = TxEnd(E, cur.pending)
        BY <3>2, Zenon DEF Position
      <4>3. EndOfTx(E, cur.pending, p)
        BY <4>1, <4>2, TxEndIs, Zenon
      <4>4. /\ cur.head # None /\ p # 0 /\ E[p].tx = cur.pending /\ E[p].block = cur.head + 1
        BY <1>2, <3>2, <4>2, Zenon DEF GoodCursor
      <4>5. cur.head \in Nat
        BY <1>2, <4>4, CursorFields, Zenon
      <4> HIDE DEF p, P, A
      <4>6. p \in 1..Len(E)
        BY <1>3, <4>4
      <4>7. E[p].block <= r.to /\ ~ E[p].block <= cur.head
        BY <2>1, <4>4, <4>5
      <4>8. p <= P
        BY <2>3, <4>6, <4>7, Zenon DEF EndOfBlock
      <4>9. A < p
        <5>1. cur.head \in Int
          BY <4>5
        <5>2. EndOfBlock(E, cur.head, A)
          BY <1>4, <4>4, <5>1, BlockEndIs, Zenon
        <5>3. ~ p <= A
          BY <4>6, <4>7, <5>2, Zenon DEF EndOfBlock
        <5> QED BY <1>3, <1>4, <5>3
      <4>10. AfterPending(Part(E, A, P), cur.pending) = Part(E, p, P)
        <5>1. /\ E \in Seq(Ev) /\ A \in Nat /\ p \in Nat /\ P \in Nat /\ A < p /\ p <= P /\ P <= Len(E)
              /\ cur.pending \in Nat /\ EndOfTx(E, cur.pending, p) /\ E[p].tx = cur.pending
          BY <1>1, <1>3, <1>4, <2>4, <4>1, <4>3, <4>4, <4>8, <4>9, Zenon
        <5> QED BY <5>1, AfterPendingIs
      <4> QED BY <2>1, <4>8, <4>10, Zenon
    <3> QED BY <3>1, <3>2, Zenon
  <2> HIDE DEF res, new, p, P
  <2>10. Part(E, p, P) \in Seq(Ev) /\ log \o Part(E, p, P) = Part(E, 0, P)
    <3>1. 0 \in Nat /\ 0 <= p
      BY <1>3, FromZero, Zenon
    <3>2. Part(E, p, P) \in Seq(Ev)
      BY <1>1, <1>3, <2>4, <2>9, PartElements, Zenon
    <3>3. Part(E, 0, p) \o Part(E, p, P) = Part(E, 0, P)
      <4>1. E \in Seq(Ev) /\ p \in Nat /\ P \in Nat /\ p <= P /\ P <= Len(E)
        BY <1>1, <1>3, <2>4, <2>9, Zenon
      <4> QED BY <3>1, <4>1, PartConcat, ZenonT(40)
    <3> QED BY <1>2, <3>2, <3>3, Zenon
  <2>11. StandsFor(E, m, log \o res.events, res.cursor)
    BY <2>6, <2>8, <2>9, <2>10, Zenon DEF StandsFor
  <2> QED BY <2>6, <2>9, <2>10, <2>11, Zenon DEF res
<1> QED BY <1>6, <1>7, Zenon

(* Sequences one after another. *)
LEMMA ConcatAssoc ==
    ASSUME NEW s \in Seq(Ev), NEW t \in Seq(Ev), NEW u \in Seq(Ev)
    PROVE  (s \o t) \o u = s \o (t \o u)
  OBVIOUS

(* The events of a contract that is up to date in the transactions after the pending
   one are those after the position of its cursor. *)
LEMMA EventsInIs ==
    ASSUME NEW E, NEW m \in Nat, NEW k \in Nat, NEW pre, Stream(E, m, k, pre),
           NEW cur, GoodCursor(E, m, cur), cur.head = m
    PROVE  EventsIn(E, AfterLast(pre, cur.pending)) = Part(E, Position(E, cur), Len(E))
<1> DEFINE p == Position(E, cur)
           T == AfterLast(pre, cur.pending)
           I == {i \in DOMAIN E : E[i].tx \in T}
           B == BlockEnd(E, m)
<1>1. /\ E \in Seq(Ev) /\ Len(E) \in Nat
      /\ \A i \in 1..Len(E) : /\ E[i].block \in Nat /\ E[i].tx \in Nat /\ E[i].block <= m + 1
                              /\ E[i].tx \in pre <=> E[i].block = m + 1
  BY StreamEvents
<1>2. p \in Nat /\ p <= Len(E)
  BY PositionIs, Zenon
<1>3. cur \in Cursor /\ m # None
  BY NoneIsNoNumber, Zenon DEF GoodCursor
<1>4. B \in 0..Len(E) /\ EndOfBlock(E, m, B)
  <2>1. m \in Int
    OBVIOUS
  <2> QED BY <2>1, BlockEndIs, Zenon
<1> HIDE DEF B
<1>5. ASSUME NEW i \in 1..Len(E) PROVE E[i].tx \in pre <=> B < i
  <2>1. E[i].block \in Nat /\ E[i].block <= m + 1 /\ (E[i].tx \in pre <=> E[i].block = m + 1)
    BY <1>1, Zenon
  <2>2. E[i].block <= m <=> i <= B
    BY <1>4, Zenon DEF EndOfBlock
  <2>3. E[i].block = m + 1 <=> ~ E[i].block <= m
    BY <2>1
  <2>4. ~ i <= B <=> B < i
    BY <1>1, <1>4
  <2> QED BY <2>1, <2>2, <2>3, <2>4, Zenon
<1>6. ASSUME NEW i \in 1..Len(E) PROVE E[i].tx \in T <=> p < i
  <2>1. CASE cur.pending = None
    <3>1. p = B /\ T = pre
      BY <1>3, <2>1, Zenon DEF Position, AfterLast, B
    <3> QED BY <1>5, <3>1, Zenon
  <2>2. CASE cur.pending # None
    <3>1. cur.pending \in Nat
      BY <1>3, <2>2, CursorFields, Zenon
    <3>2. p = TxEnd(E, cur.pending)
      BY <2>2, Zenon DEF Position
    <3>3. EndOfTx(E, cur.pending, p)
      BY <3>1, <3>2, TxEndIs, Zenon
    <3>4. p # 0 /\ E[p].tx = cur.pending /\ E[p].block = m + 1
      BY <2>2, <3>2, Zenon DEF GoodCursor
    <3> HIDE DEF p
    <3>5. p \in 1..Len(E)
      BY <1>2, <3>4
    <3>6. cur.pending \in pre /\ B < p
      BY <1>1, <1>5, <3>4, <3>5, Zenon
    <3>7. T = {t \in pre : t > cur.pending}
      BY <2>2, <3>6, Zenon DEF AfterLast
    <3>8. E[i].tx <= cur.pending <=> i <= p
      BY <3>3, Zenon DEF EndOfTx
    <3>9. E[i].tx > cur.pending <=> p < i
      <4>1. E[i].tx \in Nat
        BY <1>1, Zenon
      <4> QED BY <1>2, <3>1, <3>8, <4>1
    <3>10. p < i => B < i
      BY <1>1, <1>2, <1>4, <3>6
    <3> QED BY <1>5, <3>7, <3>9, <3>10, Zenon
  <2> QED BY <2>1, <2>2, Zenon
<1> HIDE DEF p, T
<1>7. DOMAIN E = 1..Len(E) /\ Len(E) <= Len(E)
  BY <1>1
<1>8. \A i : i \in (p + 1)..Len(E) <=> i \in 1..Len(E) /\ p < i
  BY <1>1, <1>2
<1>9. \A i : i \in I <=> i \in (p + 1)..Len(E)
  BY <1>6, <1>7, <1>8, Zenon
<1>10. I = (p + 1)..Len(E)
  BY <1>9, Zenon
<1>11. Slice(E, (p + 1)..Len(E)) = Part(E, p, Len(E))
  BY <1>1, <1>2, <1>7, SliceOfInterval, Zenon
<1>12. EventsIn(E, T) = Slice(E, I)
  BY Zenon DEF EventsIn
<1> HIDE DEF I
<1> QED BY <1>10, <1>11, <1>12, Zenon DEF p, T

(* The preconfirmed block brings the log to the last event of the contract. *)
LEMMA PreconfirmedIs ==
    ASSUME NEW E, NEW m \in Nat, NEW k \in Nat, NEW pre, Stream(E, m, k, pre),
           NEW log \in Seq(Ev), NEW res, res.events \in Seq(Ev),
           StandsFor(E, m, log \o res.events, res.cursor)
    PROVE  LET out == fetch_preconfirmed_of(E, pre, m, res)
           IN  out.events \in Seq(Ev) /\ StandsFor(E, m, log \o out.events, out.cursor)
<1> DEFINE out == fetch_preconfirmed_of(E, pre, m, res)
           cur == res.cursor
           news == EventsIn(E, AfterLast(pre, cur.pending))
           p == Position(E, cur)
           z == Len(E)
<1>1. CASE cur.head # m \/ news = << >>
  <2>1. out = res
    BY <1>1, Zenon DEF fetch_preconfirmed_of
  <2> QED BY <2>1, Zenon
<1>2. CASE cur.head = m /\ news # << >>
  <2>1. /\ E \in Seq(Ev) /\ z \in Nat
        /\ \A i \in 1..z : E[i].block \in Nat /\ E[i].tx \in Nat /\ E[i].block <= m + 1
                           /\ (E[i].tx \in pre <=> E[i].block = m + 1)
    BY StreamEvents
  <2>2. GoodCursor(E, m, cur) /\ cur \in Cursor /\ log \o res.events = Part(E, 0, p)
    BY Zenon DEF StandsFor, GoodCursor
  <2>3. p \in Nat /\ p <= z
    BY <2>2, PositionIs, Zenon
  <2>4. news = Part(E, p, z)
    BY <1>2, <2>2, EventsInIs
  <2>5. z <= z
    BY <2>1
  <2>6. /\ news \in Seq(Ev) /\ Len(news) = z - p
        /\ \A i \in 1..(z - p) : news[i] = E[p + i]
    <3> DEFINE y == Part(E, p, z)
    <3> HIDE DEF news, p, z
    <3>1. y \in Seq(Ev) /\ Len(y) = z - p /\ \A i \in 1..(z - p) : y[i] = E[p + i]
      BY <2>1, <2>3, <2>5, PartElements, ZenonT(40) DEF z
    <3>2. news = y
      BY <2>4, Zenon
    <3> HIDE DEF y
    <3> QED BY <3>1, <3>2, Zenon
  <2> DEFINE t == E[z].tx
             new == [head |-> m, pending |-> t]
  <2>7. out = [events |-> res.events \o news, cursor |-> [cur EXCEPT !.pending = news[Len(news)].tx]]
    BY <1>2, Zenon DEF fetch_preconfirmed_of
  <2> HIDE DEF out, news, p
  <2>8. p < z
    BY <1>2, <2>1, <2>3, <2>6
  <2>9. news[Len(news)] = E[z] /\ z \in 1..z
    <3>1. z - p \in 1..(z - p) /\ p + (z - p) = z /\ z \in 1..z
      BY <2>1, <2>3, <2>8
    <3> QED BY <2>6, <3>1, Zenon
  <2>10. [cur EXCEPT !.pending = t] = new
    BY <1>2, <2>2 DEF Cursor
  <2>11. out.events = res.events \o news /\ out.cursor = new
    <3>1. out = [events |-> res.events \o news, cursor |-> new]
      BY <2>7, <2>9, <2>10, Zenon
    <3> HIDE DEF new
    <3> QED BY <3>1
  <2>12. E[z].tx \in Nat /\ E[z].block \in Nat /\ E[z].block <= m + 1
    BY <2>1, <2>9, Zenon
  <2>13. E[z].block = m + 1
    <3>1. m \in Int /\ m # None
      BY NoneIsNoNumber
    <3>2. EndOfBlock(E, m, BlockEnd(E, m)) /\ BlockEnd(E, m) \in 0..z
      BY <3>1, BlockEndIs, Zenon
    <3>3. BlockEnd(E, m) <= p
      <4>1. Start(E, cur) <= p /\ Start(E, cur) = BlockEnd(E, m)
        BY <1>2, <2>2, <3>1, StartIs, Zenon DEF p
      <4> QED BY <4>1, Zenon
    <3>4. ~ z <= BlockEnd(E, m)
      BY <2>1, <2>3, <2>8, <3>2, <3>3
    <3>5. ~ E[z].block <= m
      BY <2>9, <3>2, <3>4, Zenon DEF EndOfBlock
    <3> QED BY <2>12, <3>5
  <2>14. TxEnd(E, t) = z
    <3> DEFINE n == TxEnd(E, t)
    <3>1. n \in 0..z /\ EndOfTx(E, t, n)
      BY <2>12, TxEndIs, Zenon
    <3>2. t <= t
      BY <2>12
    <3>3. z <= n
      BY <2>9, <3>1, <3>2, Zenon DEF EndOfTx
    <3> HIDE DEF n
    <3> QED BY <2>1, <3>1, <3>3 DEF n
  <2>15. GoodCursor(E, m, new) /\ Position(E, new) = z
    <3>1. new.head = m /\ new.pending = t /\ new \in Cursor
      BY <2>12 DEF Cursor
    <3>2. t # None /\ m # None /\ m <= m /\ z # 0
      BY <2>3, <2>8, <2>12, NoneIsNoNumber
    <3> HIDE DEF new, t
    <3>3. E[z].tx = t
      BY DEF t
    <3> QED BY <2>13, <2>14, <3>1, <3>2, <3>3, Zenon DEF GoodCursor, Position
  <2> HIDE DEF new
  <2>16. log \o (res.events \o news) = Part(E, 0, z)
    <3>1. (log \o res.events) \o news = log \o (res.events \o news)
      BY <2>6, ConcatAssoc, Zenon
    <3>2. 0 \in Nat /\ 0 <= p
      BY <2>3, FromZero, Zenon
    <3>3. Part(E, 0, p) \o Part(E, p, z) = Part(E, 0, z)
      BY <2>1, <2>3, <2>5, <3>2, PartConcat, ZenonT(40)
    <3> QED BY <2>2, <2>4, <3>1, <3>3, Zenon
  <2>17. res.events \o news \in Seq(Ev)
    BY <2>6, ConcatElements, Zenon
  <2>18. StandsFor(E, m, log \o out.events, out.cursor)
    BY <2>11, <2>15, <2>16, Zenon DEF StandsFor
  <2> QED BY <2>11, <2>17, <2>18, Zenon DEF out
<1> QED BY <1>1, <1>2, Zenon

-----------------------------------------------------------------------------
(* The inductive invariant *)

(* A fetched batch and its cursor go on where the log ends. *)
Ready(E, m, log, res) ==
    res.events \in Seq(Ev) /\ StandsFor(E, m, log \o res.events, res.cursor)

Store == [log : [Contract -> Seq(Ev)], cursors : [Contract -> Cursor]]

AllReady(results) == \A c \in Contract : Ready(emitted[c], mined, disk.log[c], results[c])
AllStand(store) == \A c \in Contract : StandsFor(emitted[c], mined, store.log[c], store.cursors[c])

(* The events are a stream, and the committed log is what the committed cursors stand
   for. So is what a request, a fetched batch, a cached one and the open transaction
   would make of it. *)
IInv ==
    /\ mined \in Nat /\ txs \in Nat
    /\ \A c \in Contract : Stream(emitted[c], mined, txs, preconf)
    /\ disk \in Store /\ work \in Store
    /\ AllStand(disk)
    /\ pc \in {"pages", "preconf"} => latest \in Nat /\ latest <= mined
    /\ pc = "pages" =>
          \A c \in Contract :
             /\ disk.cursors[c].head # None => disk.cursors[c].head <= latest
             /\ GoodRequest(emitted[c], latest, disk.cursors[c], requests[c])
    /\ pc \in {"preconf", "fetched", "process", "cursors"} => AllReady(result)
    /\ cached # None => AllReady(cached)
    /\ pc \in {"idle", "pages", "preconf", "fetched", "process"} => work = disk
    /\ pc = "cursors" => \A c \in Contract : work.log[c] = disk.log[c] \o result[c].events
    /\ pc = "execute" => /\ cached = None
                         /\ AllStand(work)
                         /\ Abstract!Grows(disk.log, work.log)

(* No events, and a cursor that stands for none. *)
LEMMA InitialStream ==
    Stream(<< >>, 0, 0, {}) /\ StandsFor(<< >>, 0, << >>, NewCursor)
<1>1. << >> \in Seq(Ev) /\ Len(<< >>) = 0 /\ 0 \in 0..0 /\ 1..0 = {}
  OBVIOUS
<1>2. \A b : EndOfBlock(<< >>, b, 0) /\ EndOfTx(<< >>, b, 0)
  BY <1>1, Zenon DEF EndOfBlock, EndOfTx
<1>3. Stream(<< >>, 0, 0, {})
  BY <1>1, <1>2, Zenon DEF Stream
<1>4. NewCursor.head = None /\ NewCursor.pending = None /\ NewCursor \in Cursor
  BY DEF NewCursor, Cursor
<1>5. GoodCursor(<< >>, 0, NewCursor) /\ Position(<< >>, NewCursor) = 0
  BY <1>4, Zenon DEF GoodCursor, Position
<1>6. Part(<< >>, 0, 0) = << >>
  BY DEF Part
<1> QED BY <1>3, <1>5, <1>6, Zenon DEF StandsFor

(* Nothing is committed, and nothing is to be. *)
LEMMA InitIInv == Init => IInv
<1> SUFFICES ASSUME Init PROVE IInv
  OBVIOUS
<1>1. /\ mined = 0 /\ txs = 0 /\ preconf = {} /\ emitted = [c \in Contract |-> << >>]
      /\ disk = EmptyStore /\ work = EmptyStore /\ pc = "idle" /\ cached = None
  BY Zenon DEF Init
<1>2. EmptyStore \in Store
  <2>1. << >> \in Seq(Ev) /\ NewCursor \in Cursor
    BY DEF NewCursor, Cursor
  <2> QED BY <2>1 DEF EmptyStore, Store
<1>3. ASSUME NEW c \in Contract
      PROVE  emitted[c] = << >> /\ disk.log[c] = << >> /\ disk.cursors[c] = NewCursor
  BY <1>1 DEF EmptyStore
<1>4. AllStand(disk) /\ \A c \in Contract : Stream(emitted[c], mined, txs, preconf)
  BY <1>1, <1>3, InitialStream, Zenon DEF AllStand
<1>5. mined \in Nat /\ txs \in Nat
  BY <1>1
<1> QED BY <1>1, <1>2, <1>4, <1>5, Zenon DEF IInv

(* A step that leaves the chain and the store alone leaves alone what stands for it. *)
LEMMA ChainStill ==
    ASSUME IInv, UNCHANGED <<envVars, disk>>
    PROVE  /\ mined' \in Nat /\ txs' \in Nat /\ disk' \in Store
           /\ \A c \in Contract : Stream(emitted[c], mined, txs, preconf)'
           /\ AllStand(disk)'
           /\ cached # None /\ cached' = cached => AllReady(cached)'
  BY Zenon DEF IInv, AllStand, AllReady, envVars

(* A batch that is ready stays so while the chain grows. *)
LEMMA ReadyStill ==
    ASSUME NEW E, NEW m \in Nat, NEW k \in Nat, NEW pre, Stream(E, m, k, pre),
           NEW N, NewEvents(N, m, k), NEW log, NEW res, Ready(E, m, log, res)
    PROVE  Ready(E \o N, m, log, res)
<1>1. res.events \in Seq(Ev) /\ StandsFor(E, m, log \o res.events, res.cursor)
  BY Zenon DEF Ready
<1>2. StandsFor(E \o N, m, log \o res.events, res.cursor)
  BY <1>1, StandsStill, Zenon
<1> QED BY <1>1, <1>2, Zenon DEF Ready

(* What a transaction emits. *)
LEMMA EmittedIs ==
    ASSUME NEW m \in Nat, NEW k \in Nat, NEW n \in Nat, n > 0 => world_block <= m + 1
    PROVE  NewEvents(EventsOfTx(m + 1, k + 1, n), m, k)
<1> DEFINE N == EventsOfTx(m + 1, k + 1, n)
<1>1. N = [i \in 1..n |-> [block |-> m + 1, tx |-> k + 1, index |-> i]]
  BY DEF EventsOfTx, Event
<1>2. \A i \in 1..n : [block |-> m + 1, tx |-> k + 1, index |-> i] \in Ev
  BY DEF Ev
<1>3. N \in Seq(Ev) /\ Len(N) = n
  BY <1>1, <1>2
<1>4. \A i \in 1..n : N[i].block = m + 1 /\ N[i].tx = k + 1 /\ world_block <= m + 1
  BY <1>1
<1> HIDE DEF N
<1>5. NewEvents(N, m, k)
  BY <1>3, <1>4, Zenon DEF NewEvents
<1> QED BY <1>5 DEF N

(* The chain grows by a transaction: no position moves. *)
LEMMA AddTransactionStep == IInv /\ AddTransaction => IInv'
<1> SUFFICES ASSUME IInv, AddTransaction PROVE IInv'
  OBVIOUS
<1>1. PICK emits \in Emits :
        /\ \A c \in Contract : emits[c] > 0 => mined + 1 >= world_block
        /\ emitted' = [c \in Contract |-> emitted[c] \o EventsOfTx(mined + 1, txs + 1, emits[c])]
  BY Zenon DEF AddTransaction
<1> DEFINE N(c) == EventsOfTx(mined + 1, txs + 1, emits[c])
<1>2. /\ mined' = mined /\ txs' = txs + 1 /\ preconf' = preconf \cup {txs + 1}
      /\ disk' = disk /\ work' = work /\ pc' = pc /\ latest' = latest
      /\ requests' = requests /\ result' = result /\ cached' = cached
  BY Zenon DEF AddTransaction
<1>3. mined \in Nat /\ txs \in Nat /\ txs + 1 \in Nat
  <2>1. mined \in Nat /\ txs \in Nat
    BY Zenon DEF IInv
  <2> QED BY <2>1
<1>4. ASSUME NEW c \in Contract
      PROVE  /\ emitted'[c] = emitted[c] \o N(c)
             /\ NewEvents(N(c), mined, txs)
             /\ Stream(emitted[c], mined, txs, preconf)
  <2>1. emits[c] \in Nat
    BY EmitsType
  <2>2. emits[c] > 0 => world_block <= mined + 1
    BY <1>1, <1>3, ChunkSizes
  <2> QED BY <1>1, <1>3, <2>1, <2>2, EmittedIs, Zenon DEF IInv
<1> HIDE DEF N
<1>5. ASSUME NEW c \in Contract PROVE Stream(emitted'[c], mined, txs + 1, preconf \cup {txs + 1})
  <2>1. Stream(emitted[c] \o N(c), mined, txs + 1, preconf \cup {txs + 1})
    BY <1>3, <1>4, StreamGrows, Zenon
  <2> QED BY <1>4, <2>1, Zenon
<1>6. ASSUME NEW store, AllStand(store), NEW c \in Contract
      PROVE  StandsFor(emitted'[c], mined, store.log[c], store.cursors[c])
  <2>1. StandsFor(emitted[c], mined, store.log[c], store.cursors[c])
    BY <1>6, Zenon DEF AllStand
  <2> QED BY <1>3, <1>4, <2>1, StandsStill, Zenon
<1>7. ASSUME NEW results, AllReady(results), NEW c \in Contract
      PROVE  Ready(emitted'[c], mined, disk.log[c], results[c])
  <2>1. Ready(emitted[c], mined, disk.log[c], results[c])
    BY <1>7, Zenon DEF AllReady
  <2> QED BY <1>3, <1>4, <2>1, ReadyStill, Zenon
<1>8. ASSUME pc = "pages", NEW c \in Contract
      PROVE  GoodRequest(emitted'[c], latest, disk.cursors[c], requests[c])
  <2>1. latest \in Nat /\ latest <= mined /\ GoodRequest(emitted[c], latest, disk.cursors[c], requests[c])
    BY <1>8, Zenon DEF IInv
  <2>2. GoodCursor(emitted[c], mined, disk.cursors[c])
    BY Zenon DEF IInv, AllStand, StandsFor
  <2>3. GoodRequest(emitted[c] \o N(c), latest, disk.cursors[c], requests[c])
    BY <1>3, <1>4, <2>1, <2>2, RequestStill, Zenon
  <2> QED BY <1>4, <2>3, Zenon
<1>9. /\ mined' \in Nat /\ txs' \in Nat /\ disk' \in Store /\ work' \in Store
      /\ \A c \in Contract : Stream(emitted[c], mined, txs, preconf)'
  <2>1. disk \in Store /\ work \in Store
    BY Zenon DEF IInv
  <2>2. mined' \in Nat /\ txs' \in Nat /\ disk' \in Store /\ work' \in Store
    BY <1>2, <1>3, <2>1 DEF Store
  <2> QED BY <1>2, <1>5, <2>2
<1>10. AllStand(disk)'
  BY <1>2, <1>6, Zenon DEF IInv, AllStand
<1>11. pc' = "execute" => cached' = None /\ AllStand(work)' /\ Abstract!Grows(disk.log, work.log)'
  <2> SUFFICES ASSUME pc = "execute"
               PROVE  cached' = None /\ AllStand(work)' /\ Abstract!Grows(disk.log, work.log)'
    BY <1>2
  <2>1. cached = None /\ AllStand(work) /\ Abstract!Grows(disk.log, work.log)
    BY Zenon DEF IInv
  <2>2. AllStand(work)'
    BY <1>2, <1>6, <2>1 DEF AllStand
  <2>3. Abstract!Grows(disk.log, work.log)'
    BY <1>2, <2>1 DEF Abstract!Grows
  <2> QED BY <1>2, <2>1, <2>2, <2>3
<1>12. pc' \in {"preconf", "fetched", "process", "cursors"} => AllReady(result)'
  BY <1>2, <1>7, Zenon DEF IInv, AllReady
<1>13. cached' # None => AllReady(cached)'
  BY <1>2, <1>7, Zenon DEF IInv, AllReady
<1>14. pc' = "pages" =>
          \A c \in Contract :
             /\ disk'.cursors[c].head # None => disk'.cursors[c].head <= latest'
             /\ GoodRequest(emitted'[c], latest', disk'.cursors[c], requests'[c])
  BY <1>2, <1>8, Zenon DEF IInv
<1>15. /\ pc' \in {"pages", "preconf"} => latest' \in Nat /\ latest' <= mined'
       /\ pc' \in {"idle", "pages", "preconf", "fetched", "process"} => work' = disk'
       /\ pc' = "cursors" => \A c \in Contract : work'.log[c] = disk'.log[c] \o result'[c].events
  BY <1>2, Zenon DEF IInv
<1> QED BY <1>9, <1>10, <1>11, <1>12, <1>13, <1>14, <1>15, Zenon DEF IInv

(* The preconfirmed block is mined: its events stay where they are. *)
LEMMA MineBlockStep == IInv /\ MineBlock => IInv'
<1> SUFFICES ASSUME IInv, MineBlock PROVE IInv'
  OBVIOUS
<1>1. /\ mined' = mined + 1 /\ txs' = txs /\ preconf' = {} /\ emitted' = emitted
      /\ disk' = disk /\ work' = work /\ pc' = pc /\ latest' = latest
      /\ requests' = requests /\ result' = result /\ cached' = cached
  BY Zenon DEF MineBlock
<1>2. mined \in Nat /\ txs \in Nat /\ mined + 1 \in Nat
  <2>1. mined \in Nat /\ txs \in Nat
    BY Zenon DEF IInv
  <2> QED BY <2>1
<1>3. ASSUME NEW c \in Contract PROVE Stream(emitted[c], mined + 1, txs, {})
  BY <1>2, StreamMined, Zenon DEF IInv
<1>4. ASSUME NEW store, AllStand(store), NEW c \in Contract
      PROVE  StandsFor(emitted[c], mined + 1, store.log[c], store.cursors[c])
  BY <1>2, <1>4, StandsMined, Zenon DEF AllStand
<1>5. ASSUME NEW results, AllReady(results), NEW c \in Contract
      PROVE  Ready(emitted[c], mined + 1, disk.log[c], results[c])
  BY <1>2, <1>5, StandsMined, Zenon DEF AllReady, Ready
<1>6. /\ mined' \in Nat /\ txs' \in Nat /\ disk' \in Store /\ work' \in Store
      /\ \A c \in Contract : Stream(emitted[c], mined, txs, preconf)'
  BY <1>1, <1>2, <1>3, Zenon DEF IInv
<1>7. AllStand(disk)'
  BY <1>1, <1>4, Zenon DEF IInv, AllStand
<1>8. pc' = "execute" => cached' = None /\ AllStand(work)' /\ Abstract!Grows(disk.log, work.log)'
  <2> SUFFICES ASSUME pc = "execute"
               PROVE  cached' = None /\ AllStand(work)' /\ Abstract!Grows(disk.log, work.log)'
    BY <1>1
  <2>1. cached = None /\ AllStand(work) /\ Abstract!Grows(disk.log, work.log)
    BY Zenon DEF IInv
  <2>2. AllStand(work)'
    BY <1>1, <1>4, <2>1 DEF AllStand
  <2>3. Abstract!Grows(disk.log, work.log)'
    BY <1>1, <2>1 DEF Abstract!Grows
  <2> QED BY <1>1, <2>1, <2>2, <2>3
<1>9. pc' \in {"preconf", "fetched", "process", "cursors"} => AllReady(result)'
  BY <1>1, <1>5, Zenon DEF IInv, AllReady
<1>10. cached' # None => AllReady(cached)'
  BY <1>1, <1>5, Zenon DEF IInv, AllReady
<1>11. pc' \in {"pages", "preconf"} => latest' \in Nat /\ latest' <= mined'
  <2>1. pc \in {"pages", "preconf"} => latest \in Nat /\ latest <= mined
    BY Zenon DEF IInv
  <2> QED BY <1>1, <1>2, <2>1
<1>12. pc' = "pages" =>
          \A c \in Contract :
             /\ disk'.cursors[c].head # None => disk'.cursors[c].head <= latest'
             /\ GoodRequest(emitted'[c], latest', disk'.cursors[c], requests'[c])
  BY <1>1, Zenon DEF IInv
<1>13. /\ pc' \in {"idle", "pages", "preconf", "fetched", "process"} => work' = disk'
       /\ pc' = "cursors" => \A c \in Contract : work'.log[c] = disk'.log[c] \o result'[c].events
  BY <1>1, Zenon DEF IInv
<1> QED BY <1>6, <1>7, <1>8, <1>9, <1>10, <1>11, <1>12, <1>13, Zenon DEF IInv

(* The first requests. *)
LEMMA StartFetchStep == IInv /\ StartFetch => IInv'
<1> SUFFICES ASSUME IInv, StartFetch PROVE IInv'
  OBVIOUS
<1>1. /\ pc = "idle" /\ cached = None /\ latest' = mined /\ pc' = "pages"
      /\ requests' = [c \in Contract |-> NewRequest(disk.cursors[c], mined)]
      /\ UNCHANGED <<envVars, disk>> /\ work' = work /\ cached' = cached
  BY Zenon DEF StartFetch
<1>2. /\ mined' \in Nat /\ txs' \in Nat /\ disk' \in Store
      /\ \A c \in Contract : Stream(emitted[c], mined, txs, preconf)'
      /\ AllStand(disk)'
  BY <1>1, ChainStill, Zenon
<1>3. work' = disk' /\ work' \in Store
  BY <1>1, Zenon DEF IInv
<1>4. mined \in Nat /\ txs \in Nat /\ mined <= mined
  <2>1. mined \in Nat /\ txs \in Nat
    BY Zenon DEF IInv
  <2> QED BY <2>1
<1>5. ASSUME NEW c \in Contract
      PROVE  /\ disk.cursors[c].head # None => disk.cursors[c].head <= mined
             /\ GoodRequest(emitted[c], mined, disk.cursors[c], NewRequest(disk.cursors[c], mined))
  <2>1. GoodCursor(emitted[c], mined, disk.cursors[c]) /\ Stream(emitted[c], mined, txs, preconf)
    BY Zenon DEF IInv, AllStand, StandsFor
  <2>2. disk.cursors[c].head # None => disk.cursors[c].head <= mined
    BY <2>1, Zenon DEF GoodCursor
  <2> QED BY <1>4, <2>1, <2>2, NewRequestIs, Zenon
<1>6. ASSUME NEW c \in Contract
      PROVE  /\ disk'.cursors[c].head # None => disk'.cursors[c].head <= latest'
             /\ GoodRequest(emitted'[c], latest', disk'.cursors[c], requests'[c])
  <2>1. requests'[c] = NewRequest(disk.cursors[c], mined) /\ emitted' = emitted /\ disk' = disk
    BY <1>1 DEF envVars
  <2> QED BY <1>1, <1>5, <2>1, Zenon
<1>7. latest' \in Nat /\ latest' <= mined'
  BY <1>1, <1>4 DEF envVars
<1> QED BY <1>1, <1>2, <1>3, <1>6, <1>7, Zenon DEF IInv

(* The cached batch is processed again. *)
LEMMA RetryCachedStep == IInv /\ RetryCached => IInv'
<1> SUFFICES ASSUME IInv, RetryCached PROVE IInv'
  OBVIOUS
<1>1. /\ pc = "idle" /\ cached # None /\ result' = cached /\ pc' = "process"
      /\ UNCHANGED <<envVars, disk>> /\ work' = work /\ cached' = cached
  BY Zenon DEF RetryCached
<1>2. /\ mined' \in Nat /\ txs' \in Nat /\ disk' \in Store
      /\ \A c \in Contract : Stream(emitted[c], mined, txs, preconf)'
      /\ AllStand(disk)' /\ AllReady(cached)'
  BY <1>1, ChainStill, Zenon
<1>3. AllReady(result)'
  BY <1>1, <1>2 DEF AllReady
<1>4. work' = disk' /\ work' \in Store
  BY <1>1, Zenon DEF IInv
<1> QED BY <1>1, <1>2, <1>3, <1>4, Zenon DEF IInv

(* One page for every contract that needs more. *)
LEMMA FetchPagesStep == IInv /\ FetchPages => IInv'
<1> SUFFICES ASSUME IInv, FetchPages PROVE IInv'
  OBVIOUS
<1> DEFINE next(c) == ReadPage(requests[c], EventsFrom(emitted[c], FirstBlock(disk.cursors[c]), latest), latest)
<1>1. /\ pc = "pages" /\ pc' = pc /\ latest' = latest /\ work' = work /\ cached' = cached
      /\ UNCHANGED <<envVars, disk>>
      /\ requests' = [c \in Contract |-> IF requests[c].done THEN requests[c] ELSE next(c)]
  BY Zenon DEF FetchPages
<1>2. /\ mined' \in Nat /\ txs' \in Nat /\ disk' \in Store
      /\ \A c \in Contract : Stream(emitted[c], mined, txs, preconf)'
      /\ AllStand(disk)'
      /\ cached # None /\ cached' = cached => AllReady(cached)'
  BY <1>1, ChainStill, Zenon
<1>3. work' = disk' /\ work' \in Store
  BY <1>1, Zenon DEF IInv
<1>4. mined \in Nat /\ txs \in Nat /\ latest \in Nat /\ latest <= mined
  BY <1>1, Zenon DEF IInv
<1>5. ASSUME NEW c \in Contract
      PROVE  /\ disk.cursors[c].head # None => disk.cursors[c].head <= latest
             /\ GoodRequest(emitted[c], latest, disk.cursors[c], requests[c])
             /\ ~ requests[c].done => GoodRequest(emitted[c], latest, disk.cursors[c], next(c))
  <2>1. /\ disk.cursors[c].head # None => disk.cursors[c].head <= latest
        /\ GoodRequest(emitted[c], latest, disk.cursors[c], requests[c])
    BY <1>1, Zenon DEF IInv
  <2>2. GoodCursor(emitted[c], mined, disk.cursors[c]) /\ Stream(emitted[c], mined, txs, preconf)
    BY Zenon DEF IInv, AllStand, StandsFor
  <2>3. ASSUME ~ requests[c].done
        PROVE  GoodRequest(emitted[c], latest, disk.cursors[c], next(c))
    BY <1>4, <2>1, <2>2, <2>3, ReadPageIs
  <2> QED BY <2>1, <2>3, Zenon
<1> HIDE DEF next
<1>6. ASSUME NEW c \in Contract
      PROVE  /\ disk'.cursors[c].head # None => disk'.cursors[c].head <= latest'
             /\ GoodRequest(emitted'[c], latest', disk'.cursors[c], requests'[c])
  <2>1. /\ emitted' = emitted /\ disk' = disk
        /\ requests'[c] = IF requests[c].done THEN requests[c] ELSE next(c)
    BY <1>1 DEF envVars
  <2> QED BY <1>1, <1>5, <2>1, Zenon
<1>7. latest' \in Nat /\ latest' <= mined'
  BY <1>1, <1>4 DEF envVars
<1> QED BY <1>1, <1>2, <1>3, <1>6, <1>7, Zenon DEF IInv

(* The range is read. *)
LEMMA FetchRangeStep == IInv /\ FetchRange => IInv'
<1> SUFFICES ASSUME IInv, FetchRange PROVE IInv'
  OBVIOUS
<1> DEFINE res(c) == preprocess_fetched_events(requests[c], disk.cursors[c], latest)
<1>1. /\ pc = "pages" /\ pc' \in {"preconf", "fetched"}
      /\ \A c \in Contract : requests[c].done
      /\ latest' = latest /\ work' = work /\ cached' = cached
      /\ UNCHANGED <<envVars, disk>>
      /\ result' = [c \in Contract |-> res(c)]
  BY DEF FetchRange
<1>2. /\ mined' \in Nat /\ txs' \in Nat /\ disk' \in Store
      /\ \A c \in Contract : Stream(emitted[c], mined, txs, preconf)'
      /\ AllStand(disk)'
      /\ cached # None /\ cached' = cached => AllReady(cached)'
  BY <1>1, ChainStill, Zenon
<1>3. work' = disk' /\ work' \in Store
  BY <1>1, Zenon DEF IInv
<1>4. mined \in Nat /\ txs \in Nat /\ latest \in Nat /\ latest <= mined
  BY <1>1, Zenon DEF IInv
<1>5. ASSUME NEW c \in Contract PROVE Ready(emitted[c], mined, disk.log[c], res(c))
  <2>1. GoodRequest(emitted[c], latest, disk.cursors[c], requests[c]) /\ requests[c].done
    BY <1>1, Zenon DEF IInv
  <2>2. /\ StandsFor(emitted[c], mined, disk.log[c], disk.cursors[c])
        /\ Stream(emitted[c], mined, txs, preconf)
    BY Zenon DEF IInv, AllStand
  <2>3. /\ res(c).events \in Seq(Ev)
        /\ StandsFor(emitted[c], mined, disk.log[c] \o res(c).events, res(c).cursor)
    BY <1>4, <2>1, <2>2, PreprocessIs
  <2> QED BY <2>3, Zenon DEF Ready
<1> HIDE DEF res
<1>6. AllReady(result)'
  <2>1. mined' = mined /\ emitted' = emitted /\ disk' = disk
    BY <1>1 DEF envVars
  <2> QED BY <1>1, <1>5, <2>1 DEF AllReady
<1>7. latest' \in Nat /\ latest' <= mined'
  BY <1>1, <1>4 DEF envVars
<1>8. pc' # "pages" /\ pc' # "cursors" /\ pc' # "execute"
  BY <1>1
<1>9. cached' # None => AllReady(cached)'
  BY <1>1, <1>2, Zenon
<1> QED BY <1>2, <1>3, <1>6, <1>7, <1>8, <1>9, Zenon DEF IInv

(* The preconfirmed block is read. *)
LEMMA FetchPreconfirmedStep == IInv /\ FetchPreconfirmed => IInv'
<1> SUFFICES ASSUME IInv, FetchPreconfirmed PROVE IInv'
  OBVIOUS
<1>1. /\ pc = "preconf" /\ pc' = "fetched" /\ work' = work /\ cached' = cached
      /\ UNCHANGED <<envVars, disk>>
      /\ result' = fetch_preconfirmed_block(emitted, mined + 1, preconf, latest, result)
  BY Zenon DEF FetchPreconfirmed
<1>2. /\ mined' \in Nat /\ txs' \in Nat /\ disk' \in Store
      /\ \A c \in Contract : Stream(emitted[c], mined, txs, preconf)'
      /\ AllStand(disk)'
      /\ cached # None /\ cached' = cached => AllReady(cached)'
  BY <1>1, ChainStill, Zenon
<1>3. work' = disk' /\ work' \in Store
  BY <1>1, Zenon DEF IInv
<1>4. mined \in Nat /\ txs \in Nat /\ latest \in Nat /\ AllReady(result)
  BY <1>1, Zenon DEF IInv
<1>5. AllReady(result)'
  <2>0. mined' = mined /\ emitted' = emitted /\ disk' = disk
    BY <1>1 DEF envVars
  <2>1. CASE mined + 1 # latest + 1
    <3>1. result' = result
      BY <1>1, <2>1, Zenon DEF fetch_preconfirmed_block
    <3> QED BY <1>4, <2>0, <3>1 DEF AllReady
  <2>2. CASE mined + 1 = latest + 1
    <3> DEFINE out(c) == fetch_preconfirmed_of(emitted[c], preconf, mined, result[c])
    <3>1. latest = mined
      BY <1>4, <2>2
    <3>2. result' = [c \in Contract |-> out(c)]
      BY <1>1, <2>2, <3>1, Zenon DEF fetch_preconfirmed_block
    <3>3. ASSUME NEW c \in Contract PROVE Ready(emitted[c], mined, disk.log[c], out(c))
      <4>1. /\ result[c].events \in Seq(Ev)
            /\ StandsFor(emitted[c], mined, disk.log[c] \o result[c].events, result[c].cursor)
        BY <1>4, Zenon DEF AllReady, Ready
      <4>2. disk.log[c] \in Seq(Ev)
        BY Zenon DEF IInv, Store
      <4>3. Stream(emitted[c], mined, txs, preconf)
        BY Zenon DEF IInv
      <4>4. /\ out(c).events \in Seq(Ev)
            /\ StandsFor(emitted[c], mined, disk.log[c] \o out(c).events, out(c).cursor)
        BY <1>4, <4>1, <4>2, <4>3, PreconfirmedIs
      <4> QED BY <4>4, Zenon DEF Ready
    <3> HIDE DEF out
    <3> QED BY <2>0, <3>2, <3>3 DEF AllReady
  <2> QED BY <2>1, <2>2, Zenon
<1> QED BY <1>1, <1>2, <1>3, <1>5, Zenon DEF IInv

(* The batch is cached, and processed inside the open transaction. *)
LEMMA FetchedStep == IInv /\ Fetched => IInv'
<1> SUFFICES ASSUME IInv, Fetched PROVE IInv'
  OBVIOUS
<1>1. /\ pc = "fetched" /\ pc' = "process" /\ work' = work /\ cached' = result /\ result' = result
      /\ UNCHANGED <<envVars, disk>>
  BY Zenon DEF Fetched
<1>2. /\ mined' \in Nat /\ txs' \in Nat /\ disk' \in Store
      /\ \A c \in Contract : Stream(emitted[c], mined, txs, preconf)'
      /\ AllStand(disk)'
  BY <1>1, ChainStill, Zenon
<1>3. work' = disk' /\ work' \in Store
  BY <1>1, Zenon DEF IInv
<1>4. AllReady(result)
  BY <1>1, Zenon DEF IInv
<1>5. AllReady(result)' /\ AllReady(cached)'
  BY <1>1, <1>4 DEF AllReady, envVars
<1> QED BY <1>1, <1>2, <1>3, <1>5, Zenon DEF IInv

(* A store with another log, or with other cursors. *)
LEMMA StoreWith ==
    ASSUME NEW d \in Store, NEW l, NEW cs
    PROVE  /\ d.log \in [Contract -> Seq(Ev)] /\ d.cursors \in [Contract -> Cursor]
           /\ [d EXCEPT !.log = l] = [log |-> l, cursors |-> d.cursors]
           /\ [d EXCEPT !.cursors = cs] = [log |-> d.log, cursors |-> cs]
           /\ l \in [Contract -> Seq(Ev)] => [log |-> l, cursors |-> d.cursors] \in Store
           /\ cs \in [Contract -> Cursor] => [log |-> d.log, cursors |-> cs] \in Store
           /\ [log |-> l, cursors |-> cs].log = l /\ [log |-> l, cursors |-> cs].cursors = cs
  BY DEF Store

(* The events are appended to the log of the open transaction. *)
LEMMA ProcessEventsStep == IInv /\ ProcessEvents => IInv'
<1> SUFFICES ASSUME IInv, ProcessEvents PROVE IInv'
  OBVIOUS
<1>1. /\ pc = "process" /\ pc' = "cursors" /\ cached' = cached /\ result' = result
      /\ UNCHANGED <<envVars, disk>>
      /\ work' = [work EXCEPT !.log = [c \in Contract |-> @[c] \o result[c].events]]
  BY Zenon DEF ProcessEvents
<1>2. /\ mined' \in Nat /\ txs' \in Nat /\ disk' \in Store
      /\ \A c \in Contract : Stream(emitted[c], mined, txs, preconf)'
      /\ AllStand(disk)'
      /\ cached # None /\ cached' = cached => AllReady(cached)'
  BY <1>1, ChainStill, Zenon
<1>3. work = disk /\ work \in Store /\ AllReady(result)
  BY <1>1, Zenon DEF IInv
<1>4. AllReady(result)'
  BY <1>1, <1>3 DEF AllReady, envVars
<1>5. \A c \in Contract : result[c].events \in Seq(Ev)
  BY <1>3, Zenon DEF AllReady, Ready
<1> DEFINE l == [c \in Contract |-> disk.log[c] \o result[c].events]
<1>6. work' = [log |-> l, cursors |-> disk.cursors]
  <2>1. work' = [disk EXCEPT !.log = l]
    BY <1>1, <1>3, Zenon
  <2> QED BY <1>3, <2>1, StoreWith, Zenon
<1>7. \A c \in Contract : disk.log[c] \in Seq(Ev)
  BY <1>3 DEF Store
<1>8. \A c \in Contract : disk.log[c] \o result[c].events \in Seq(Ev)
  BY <1>5, <1>7, ConcatElements, Zenon
<1>9. work' \in Store
  <2>1. l \in [Contract -> Seq(Ev)]
    BY <1>8
  <2> QED BY <1>3, <1>6, <2>1, StoreWith, Zenon
<1>10. \A c \in Contract : work'.log[c] = disk'.log[c] \o result'[c].events
  <2>1. \A c \in Contract : l[c] = disk.log[c] \o result[c].events
    BY Zenon
  <2> HIDE DEF l
  <2>2. work'.log = l
    BY <1>6
  <2> QED BY <1>1, <2>1, <2>2, Zenon
<1>11. pc' # "execute" /\ pc' \notin {"idle", "pages", "preconf", "fetched", "process"}
  BY <1>1
<1>12. pc' \notin {"pages", "preconf"} /\ pc' # "pages"
  BY <1>1
<1> QED BY <1>1, <1>2, <1>4, <1>9, <1>10, <1>11, <1>12, Zenon DEF IInv

(* The cursors are written beside them. *)
LEMMA UpdateCursorsStep == IInv /\ UpdateCursors => IInv'
<1> SUFFICES ASSUME IInv, UpdateCursors PROVE IInv'
  OBVIOUS
<1>1. /\ pc = "cursors" /\ pc' = "execute" /\ cached' = None
      /\ UNCHANGED <<envVars, disk>>
      /\ work' = [work EXCEPT !.cursors = [c \in Contract |-> result[c].cursor]]
  BY Zenon DEF UpdateCursors
<1>2. /\ mined' \in Nat /\ txs' \in Nat /\ disk' \in Store
      /\ \A c \in Contract : Stream(emitted[c], mined, txs, preconf)'
      /\ AllStand(disk)'
  BY <1>1, ChainStill, Zenon
<1>3. /\ work \in Store /\ AllReady(result) /\ mined \in Nat /\ txs \in Nat
      /\ \A c \in Contract : work.log[c] = disk.log[c] \o result[c].events
  BY <1>1, Zenon DEF IInv
<1> DEFINE cs == [c \in Contract |-> result[c].cursor]
<1>4. work' = [log |-> work.log, cursors |-> cs]
  BY <1>1, <1>3, StoreWith, Zenon
<1>5. ASSUME NEW c \in Contract
      PROVE  StandsFor(emitted[c], mined, work'.log[c], work'.cursors[c])
  <2>1. StandsFor(emitted[c], mined, disk.log[c] \o result[c].events, result[c].cursor)
    BY <1>3, Zenon DEF AllReady, Ready
  <2>2. work'.log[c] = disk.log[c] \o result[c].events /\ work'.cursors[c] = result[c].cursor
    <3>1. work'.log = work.log /\ work'.cursors = cs
      BY <1>4
    <3>2. cs[c] = result[c].cursor
      OBVIOUS
    <3> QED BY <1>3, <3>1, <3>2, Zenon
  <2> QED BY <2>1, <2>2, Zenon
<1>6. work' \in Store
  <2>1. \A c \in Contract : result[c].cursor \in Cursor
    BY <1>3, Zenon DEF AllReady, Ready, StandsFor, GoodCursor
  <2>2. cs \in [Contract -> Cursor]
    BY <2>1
  <2> QED BY <1>3, <1>4, <2>2, StoreWith, Zenon
<1>7. AllStand(work)'
  <2>1. mined' = mined /\ emitted' = emitted
    BY <1>1 DEF envVars
  <2> QED BY <1>5, <2>1, Zenon DEF AllStand
<1>8. Abstract!Grows(disk.log, work.log)'
  <2>1. ASSUME NEW c \in Contract PROVE Abstract!Begins(disk.log[c], work'.log[c])
    <3> DEFINE s == disk.log[c]
               t == result[c].events
    <3>1. s \in Seq(Ev)
      BY Zenon DEF IInv, Store
    <3>2. t \in Seq(Ev)
      BY <1>3, Zenon DEF AllReady, Ready
    <3>3. work'.log[c] = s \o t
      <4>1. work'.log = work.log
        BY <1>4
      <4> QED BY <1>3, <4>1, Zenon
    <3> HIDE DEF s, t
    <3>4. Part(s \o t, 0, Len(s)) = s
      <4>1. 0 \in Nat /\ Len(s) \in Nat /\ 0 <= Len(s) /\ Len(s) <= Len(s)
        BY <3>1, Ends, Zenon
      <4>2. Part(s \o t, 0, Len(s)) = Part(s, 0, Len(s))
        BY <3>1, <3>2, <4>1, PartOfLonger, Zenon
      <4> QED BY <3>1, <4>2, PartWhole, Zenon
    <3>5. s = SubSeq(s \o t, 1, Len(s)) /\ Len(s) \in 0..Len(s \o t)
      BY <3>1, <3>2, <3>4 DEF Part
    <3>6. Abstract!Begins(s, s \o t)
      BY <3>5, Zenon DEF Abstract!Begins
    <3> QED BY <3>3, <3>6, Zenon DEF s
  <2>2. disk' = disk
    BY <1>1
  <2> QED BY <2>1, <2>2, Zenon DEF Abstract!Grows
<1> QED BY <1>1, <1>2, <1>6, <1>7, <1>8, Zenon DEF IInv

(* What is committed is what the new cursors stand for. *)
LEMMA ExecuteStep == IInv /\ Execute => IInv'
<1> SUFFICES ASSUME IInv, Execute PROVE IInv'
  OBVIOUS
<1>1. /\ pc = "execute" /\ pc' = "idle" /\ disk' = work /\ work' = work /\ cached' = cached
      /\ mined' = mined /\ txs' = txs /\ preconf' = preconf /\ emitted' = emitted
  BY Zenon DEF Execute, envVars
<1>2. cached = None /\ AllStand(work) /\ work \in Store /\ mined \in Nat /\ txs \in Nat
  BY <1>1, Zenon DEF IInv
<1>3. AllStand(disk)' /\ disk' \in Store /\ work' \in Store
  BY <1>1, <1>2 DEF AllStand
<1>4. \A c \in Contract : Stream(emitted[c], mined, txs, preconf)'
  BY <1>1, Zenon DEF IInv
<1> QED BY <1>1, <1>2, <1>3, <1>4, Zenon DEF IInv

(* The transaction is dropped. *)
LEMMA RollbackStep == IInv /\ Rollback => IInv'
<1> SUFFICES ASSUME IInv, Rollback PROVE IInv'
  OBVIOUS
<1>1. /\ pc' = "idle" /\ work' = disk /\ cached' = cached /\ UNCHANGED <<envVars, disk>>
  BY Zenon DEF Rollback
<1>2. /\ mined' \in Nat /\ txs' \in Nat /\ disk' \in Store
      /\ \A c \in Contract : Stream(emitted[c], mined, txs, preconf)'
      /\ AllStand(disk)'
      /\ cached # None /\ cached' = cached => AllReady(cached)'
  BY <1>1, ChainStill, Zenon
<1> QED BY <1>1, <1>2, Zenon DEF IInv

(* A fetch or a batch fails. *)
LEMMA FailStep == IInv /\ (FetchFails \/ ProcessFails) => IInv'
<1> SUFFICES ASSUME IInv, FetchFails \/ ProcessFails PROVE IInv'
  OBVIOUS
<1>1. UNCHANGED <<envVars, disk>> /\ work' = work
  BY Zenon DEF FetchFails, ProcessFails
<1>2. /\ mined' \in Nat /\ txs' \in Nat /\ disk' \in Store
      /\ \A c \in Contract : Stream(emitted[c], mined, txs, preconf)'
      /\ AllStand(disk)'
      /\ cached # None /\ cached' = cached => AllReady(cached)'
  BY <1>1, ChainStill, Zenon
<1>3. CASE FetchFails
  <2>1. pc \in {"pages", "preconf"} /\ pc' = "idle" /\ cached' = None
    BY <1>3, Zenon DEF FetchFails
  <2>2. work' = disk' /\ work' \in Store
    BY <1>1, <2>1, Zenon DEF IInv
  <2> QED BY <1>2, <2>1, <2>2, Zenon DEF IInv
<1>4. CASE ProcessFails
  <2>1. pc' = "rollback" /\ cached' = cached
    BY <1>4, Zenon DEF ProcessFails
  <2>2. work' \in Store
    BY <1>1, Zenon DEF IInv
  <2> QED BY <1>2, <2>1, <2>2, Zenon DEF IInv
<1> QED BY <1>3, <1>4, Zenon

(* The process ends, before or after a commit, and begins again. *)
LEMMA CrashStep == IInv /\ Crash => IInv'
<1> SUFFICES ASSUME IInv, Crash PROVE IInv'
  OBVIOUS
<1>1. /\ pc' = "idle" /\ work' = disk' /\ cached' = None
      /\ mined' = mined /\ txs' = txs /\ preconf' = preconf /\ emitted' = emitted
      /\ disk' = disk \/ (pc = "execute" /\ disk' = work)
  BY Zenon DEF Crash, envVars
<1>2. \A c \in Contract : Stream(emitted[c], mined, txs, preconf)'
  BY <1>1, Zenon DEF IInv
<1>3. mined' \in Nat /\ txs' \in Nat
  BY <1>1, Zenon DEF IInv
<1>4. AllStand(disk)' /\ disk' \in Store
  <2>1. CASE disk' = disk
    BY <1>1, <2>1, Zenon DEF IInv, AllStand
  <2>2. CASE pc = "execute" /\ disk' = work
    BY <1>1, <2>2, Zenon DEF IInv, AllStand
  <2> QED BY <1>1, <2>1, <2>2, Zenon
<1> QED BY <1>1, <1>2, <1>3, <1>4, Zenon DEF IInv

(* Every step keeps the invariant. *)
LEMMA IInvStep == IInv /\ [Next]_vars => IInv'
<1> SUFFICES ASSUME IInv, [Next]_vars PROVE IInv'
  OBVIOUS
<1>1. CASE Loop
  BY <1>1, StartFetchStep, RetryCachedStep, FetchPagesStep, FetchRangeStep, FetchPreconfirmedStep,
     FetchedStep, ProcessEventsStep, UpdateCursorsStep, ExecuteStep, RollbackStep, Zenon DEF Loop
<1>2. CASE Faults
  BY <1>2, FailStep, CrashStep, Zenon DEF Faults
<1>3. CASE UNCHANGED vars
  <2>1. /\ UNCHANGED <<envVars, disk>>
        /\ work' = work /\ pc' = pc /\ latest' = latest /\ requests' = requests /\ result' = result
        /\ cached' = cached
    BY <1>3, Zenon DEF vars
  <2>2. mined' = mined /\ txs' = txs /\ preconf' = preconf /\ emitted' = emitted /\ disk' = disk
    BY <2>1, Zenon DEF envVars
  <2> QED BY <2>1, <2>2, Zenon DEF IInv, AllStand, AllReady
<1> QED BY <1>1, <1>2, <1>3, AddTransactionStep, MineBlockStep, Zenon DEF Next

(* In every reachable state of the engine the committed log is what the committed
   cursors stand for. *)
THEOREM EngineInvariant == Spec => []IInv
  BY InitIInv, IInvStep, PTL DEF Spec

(* The end of the blocks before the first. *)
LEMMA BeforeAll ==
    ASSUME NEW E, NEW m \in Nat, NEW k \in Nat, NEW pre, Stream(E, m, k, pre)
    PROVE  BlockEnd(E, 0 - 1) = 0
<1>1. E \in Seq(Ev) /\ Len(E) \in Nat /\ \A i \in 1..Len(E) : E[i].block \in Nat
  BY StreamEvents
<1>2. 0 - 1 \in Int /\ 0 \in 0..Len(E)
  BY <1>1
<1>3. \A i \in 1..Len(E) : ~ E[i].block <= 0 - 1 /\ ~ i <= 0
  BY <1>1
<1>4. EndOfBlock(E, 0 - 1, 0)
  BY <1>3, Zenon DEF EndOfBlock
<1> QED BY <1>2, <1>4, BlockEndUnique, Zenon

(* What a cursor that stands for the log says of it. *)
LEMMA Covered ==
    ASSUME NEW E, NEW m \in Nat, NEW k \in Nat, NEW pre, Stream(E, m, k, pre),
           NEW log, NEW cur, StandsFor(E, m, log, cur),
           NEW settled, settled = IF cur.head = None THEN << >> ELSE EventsFrom(E, 0, cur.head)
    PROVE  /\ Abstract!Begins(settled, log)
           /\ cur.pending = None => log = settled
           /\ cur.pending # None => log # << >> /\ log[Len(log)].tx = cur.pending
<1> DEFINE p == Position(E, cur)
           b == IF cur.head = None THEN 0 ELSE BlockEnd(E, cur.head)
<1>1. E \in Seq(Ev) /\ Len(E) \in Nat
  BY StreamEvents
<1>2. GoodCursor(E, m, cur) /\ cur \in Cursor /\ log = Part(E, 0, p)
  BY Zenon DEF StandsFor, GoodCursor
<1>3. p \in Nat /\ p <= Len(E)
  BY <1>2, PositionIs, Zenon
<1>4. b \in Nat /\ b <= p /\ settled = Part(E, 0, b) /\ (cur.pending = None => b = p)
  <2>1. CASE cur.head = None
    <3>1. b = 0 /\ settled = << >>
      BY <2>1, Zenon
    <3>2. Part(E, 0, 0) = << >>
      BY <1>1 DEF Part
    <3>3. cur.pending = None => p = 0
      BY <2>1, Zenon DEF Position
    <3> HIDE DEF b, p
    <3> QED BY <1>3, <3>1, <3>2, <3>3, FromZero, Zenon
  <2>2. CASE cur.head # None
    <3>1. cur.head \in Nat
      BY <1>2, <2>2, CursorFields, Zenon
    <3>2. /\ Start(E, cur) \in Nat /\ Start(E, cur) <= p /\ Start(E, cur) = BlockEnd(E, cur.head)
          /\ cur.pending = None => Start(E, cur) = p
      BY <1>2, <2>2, StartIs
    <3>3. b = BlockEnd(E, cur.head) /\ settled = EventsFrom(E, 0, cur.head)
      BY <2>2, Zenon
    <3> HIDE DEF b, p
    <3>4. b \in Nat /\ b <= p /\ (cur.pending = None => b = p)
      BY <3>2, <3>3, Zenon
    <3>5. BlockEnd(E, 0 - 1) = 0 /\ 0 \in Nat
      BY BeforeAll
    <3>6. BlockEnd(E, 0 - 1) <= BlockEnd(E, cur.head)
      BY <3>3, <3>4, <3>5
    <3>7. EventsFrom(E, 0, cur.head) = Part(E, BlockEnd(E, 0 - 1), BlockEnd(E, cur.head))
      BY <3>1, <3>5, <3>6, EventsFromIs
    <3> QED BY <3>3, <3>4, <3>5, <3>7, Zenon
  <2> QED BY <2>1, <2>2, Zenon
<1> HIDE DEF b, p
<1>5. Abstract!Begins(settled, log)
  BY <1>1, <1>2, <1>3, <1>4, PartPrefix, Zenon
<1>6. cur.pending = None => log = settled
  BY <1>2, <1>4, Zenon
<1>7. ASSUME cur.pending # None PROVE log # << >> /\ log[Len(log)].tx = cur.pending
  <2>1. p # 0 /\ E[p].tx = cur.pending
    BY <1>2, <1>7, Zenon DEF GoodCursor, Position, p
  <2>2. log \in Seq(Ev) /\ Len(log) = p /\ \A i \in 1..p : log[i] = E[i]
    BY <1>1, <1>2, <1>3, Beginning
  <2>3. p \in 1..p
    BY <1>3, <2>1
  <2>4. log[Len(log)] = E[p] /\ log # << >>
    BY <2>1, <2>2, <2>3
  <2> QED BY <2>1, <2>4, Zenon
<1> QED BY <1>5, <1>6, <1>7, Zenon

(* No committed cursor runs ahead of the committed data. *)
THEOREM CursorsCovered == Spec => []CursorCovered
<1>1. IInv => CursorCovered
  <2> SUFFICES ASSUME IInv PROVE CursorCovered
    OBVIOUS
  <2> DEFINE settled(c) == IF disk.cursors[c].head = None THEN << >>
                           ELSE EventsFrom(emitted[c], 0, disk.cursors[c].head)
  <2>1. ASSUME NEW c \in Contract
        PROVE  /\ Abstract!Begins(settled(c), disk.log[c])
               /\ disk.cursors[c].pending = None => disk.log[c] = settled(c)
               /\ disk.cursors[c].pending # None =>
                     disk.log[c] # << >> /\ disk.log[c][Len(disk.log[c])].tx = disk.cursors[c].pending
    <3>1. /\ mined \in Nat /\ txs \in Nat /\ Stream(emitted[c], mined, txs, preconf)
          /\ StandsFor(emitted[c], mined, disk.log[c], disk.cursors[c])
      BY Zenon DEF IInv, AllStand
    <3>2. settled(c) = IF disk.cursors[c].head = None THEN << >>
                       ELSE EventsFrom(emitted[c], 0, disk.cursors[c].head)
      OBVIOUS
    <3> HIDE DEF settled
    <3> QED BY <3>1, <3>2, Covered
  <2> QED BY <2>1, Zenon DEF CursorCovered
<1> QED BY <1>1, EngineInvariant, PTL

(* What the cursors of a store stand for is a beginning of what was emitted. *)
LEMMA StoredBegins ==
    ASSUME IInv, NEW store, AllStand(store)
    PROVE  Abstract!Grows(store.log, emitted)
<1>1. ASSUME NEW c \in Contract PROVE Abstract!Begins(store.log[c], emitted[c])
  <2> DEFINE E == emitted[c]
             p == Position(E, store.cursors[c])
  <2>1. mined \in Nat /\ txs \in Nat /\ Stream(E, mined, txs, preconf)
    BY Zenon DEF IInv
  <2>2. GoodCursor(E, mined, store.cursors[c]) /\ store.log[c] = Part(E, 0, p)
    BY Zenon DEF AllStand, StandsFor
  <2>3. p \in Nat /\ p <= Len(E)
    BY <2>1, <2>2, PositionIs, Zenon
  <2> HIDE DEF E, p
  <2>4. E \in Seq(Ev) /\ Len(E) \in Nat
    BY <2>1, StreamEvents
  <2>5. p \in 0..Len(E) /\ store.log[c] = SubSeq(E, 1, p)
    BY <2>2, <2>3, <2>4 DEF Part
  <2> QED BY <2>5, Zenon DEF Abstract!Begins, E
<1> QED BY <1>1, Zenon DEF Abstract!Grows

(* The chain grows: every contract's events go on where they ended. *)
LEMMA EmitStep == IInv /\ AddTransaction => Abstract!Emit
<1> SUFFICES ASSUME IInv, AddTransaction PROVE Abstract!Emit
  OBVIOUS
<1>1. PICK emits \in Emits :
        emitted' = [c \in Contract |-> emitted[c] \o EventsOfTx(mined + 1, txs + 1, emits[c])]
  BY Zenon DEF AddTransaction
<1>2. disk' = disk
  BY Zenon DEF AddTransaction
<1>3. ASSUME NEW c \in Contract PROVE Abstract!Begins(emitted[c], emitted'[c])
  <2> DEFINE s == emitted[c]
             t == EventsOfTx(mined + 1, txs + 1, emits[c])
  <2>1. s \in Seq(Ev)
    BY Zenon DEF IInv, Stream
  <2>2. t \in Seq(Ev)
    <3>1. mined \in Nat /\ txs \in Nat /\ emits[c] \in Nat
      BY EmitsType, Zenon DEF IInv
    <3>2. \A i \in 1..emits[c] : Event(mined + 1, txs + 1, i) \in Ev
      BY <3>1 DEF Event, Ev
    <3> QED BY <3>1, <3>2 DEF EventsOfTx
  <2>3. emitted'[c] = s \o t
    BY <1>1, Zenon
  <2> HIDE DEF s, t
  <2>4. 0 \in Nat /\ Len(s) \in Nat /\ 0 <= Len(s) /\ Len(s) <= Len(s)
    BY <2>1, Ends, Zenon
  <2>5. Part(s \o t, 0, Len(s)) = Part(s, 0, Len(s))
    BY <2>1, <2>2, <2>4, PartOfLonger
  <2>6. Part(s, 0, Len(s)) = s
    BY <2>1, PartWhole, Zenon
  <2>7. s = SubSeq(s \o t, 1, Len(s)) /\ Len(s) \in 0..Len(s \o t)
    BY <2>1, <2>2, <2>5, <2>6 DEF Part
  <2> QED BY <2>3, <2>7, Zenon DEF Abstract!Begins, s
<1> QED BY <1>2, <1>3, Zenon DEF Abstract!Emit, Abstract!Grows

(* A commit, also one that the process does not survive. *)
LEMMA CommitStep == IInv /\ pc = "execute" /\ disk' = work /\ emitted' = emitted => Abstract!Index
<1> SUFFICES ASSUME IInv, pc = "execute", disk' = work, emitted' = emitted PROVE Abstract!Index
  OBVIOUS
<1>1. AllStand(work) /\ Abstract!Grows(disk.log, work.log)
  BY Zenon DEF IInv
<1>2. Abstract!Grows(work.log, emitted)
  BY <1>1, StoredBegins, Zenon
<1> QED BY <1>1, <1>2, Zenon DEF Abstract!Index, Abstract!Grows

(* A step of the engine is a step of the indexer, or none. *)
LEMMA IndexerStep == IInv /\ [Next]_vars => [Abstract!Emit \/ Abstract!Index]_(Abstract!iVars)
<1> SUFFICES ASSUME IInv, [Next]_vars
             PROVE  Abstract!Emit \/ Abstract!Index \/ (emitted' = emitted /\ disk' = disk)
  BY Zenon DEF Abstract!iVars
<1>1. CASE AddTransaction
  BY <1>1, EmitStep, Zenon
<1>2. CASE MineBlock
  BY <1>2, Zenon DEF MineBlock
<1>3. CASE Loop
  <2>1. CASE Execute
    BY <2>1, CommitStep, Zenon DEF Execute, envVars
  <2>2. CASE StartFetch \/ RetryCached \/ FetchPages \/ FetchRange \/ FetchPreconfirmed \/ Fetched
    BY <2>2, Zenon DEF StartFetch, RetryCached, FetchPages, FetchRange, FetchPreconfirmed, Fetched, envVars
  <2>3. CASE ProcessEvents \/ UpdateCursors \/ Rollback
    BY <2>3, Zenon DEF ProcessEvents, UpdateCursors, Rollback, envVars
  <2> QED BY <1>3, <2>1, <2>2, <2>3, Zenon DEF Loop
<1>4. CASE Faults
  <2>1. CASE FetchFails \/ ProcessFails
    BY <2>1, Zenon DEF FetchFails, ProcessFails, envVars
  <2>2. CASE Crash
    BY <2>2, CommitStep, Zenon DEF Crash, envVars
  <2> QED BY <1>4, <2>1, <2>2, Zenon DEF Faults
<1>5. CASE UNCHANGED vars
  BY <1>5, Zenon DEF vars, envVars
<1> QED BY <1>1, <1>2, <1>3, <1>4, <1>5, Zenon DEF Next

(* The engine implements the indexer's promise: across ranges, pages, the
   preconfirmed block becoming a mined one, retries and crashes, what is committed
   of a contract is a beginning of what it emitted, and it never shrinks. *)
THEOREM EngineImplementsIndexer == Spec => ImplementsIndexer
<1>1. Init => Abstract!IInit
  BY DEF Init, EmptyStore, Abstract!IInit
<1> QED BY <1>1, EngineInvariant, IndexerStep, PTL DEF Spec, ImplementsIndexer, Abstract!ISpec

=============================================================================
