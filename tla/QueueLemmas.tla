------------------------------ MODULE QueueLemmas ------------------------------
(***************************************************************************)
(* What the operators of sequences do to a queue and to the set of its      *)
(* elements, whatever these are.                                             *)
(***************************************************************************)
EXTENDS Integers, Sequences, SequencesExt, SequenceTheorems, WellFoundedInduction, TLAPS

IsQueue(q) == q \in Seq(Range(q))

LEMMA QueueFacts ==
    ASSUME NEW q, IsQueue(q)
    PROVE  /\ Len(q) \in Nat
           /\ DOMAIN q = 1..Len(q)
           /\ \A i \in 1..Len(q) : q[i] \in Range(q)
           /\ \A e \in Range(q) : \E i \in 1..Len(q) : q[i] = e
           /\ q # <<>> => Len(q) > 0
  <1>1. Len(q) \in Nat /\ DOMAIN q = 1..Len(q)
    BY LenProperties DEF IsQueue
  <1>2. q # <<>> => Len(q) \in Nat \ {0}
    BY EmptySeq DEF IsQueue
  <1> QED BY <1>1, <1>2 DEF Range

LEMMA QueueOf ==
    ASSUME NEW S, NEW q \in Seq(S) PROVE IsQueue(q)
  BY SeqOfRange DEF IsQueue

LEMMA AppendFacts ==
    ASSUME NEW q, IsQueue(q), NEW e
    PROVE  LET r == Append(q, e) IN
           /\ IsQueue(r) /\ Len(r) = Len(q) + 1
           /\ Range(r) = Range(q) \cup {e}
           /\ \A i \in 1..Len(q) : r[i] = q[i]
           /\ r[Len(q) + 1] = e
  <1> DEFINE S == Range(q) \cup {e}
             r == Append(q, e)
  <1>1. q \in Seq(S)
    BY SeqMonotonic DEF IsQueue
  <1>2. /\ r \in Seq(S) /\ Len(r) = Len(q) + 1
        /\ \A i \in 1..Len(q) : r[i] = q[i]
        /\ r[Len(q) + 1] = e
    BY <1>1, AppendProperties
  <1> HIDE DEF r
  <1>3. IsQueue(r)
    BY <1>2, QueueOf
  <1>4. Range(r) = S
    <2>1. DOMAIN r = 1..(Len(q) + 1) /\ Len(q) \in Nat /\ DOMAIN q = 1..Len(q)
      BY <1>2, <1>3, QueueFacts
    <2>2. \A i \in DOMAIN r : i = Len(q) + 1 \/ i \in 1..Len(q)
      BY <2>1
    <2>3. Range(r) \subseteq S
      BY <1>2, <2>1, <2>2 DEF Range
    <2>4. S \subseteq Range(r)
      BY <1>2, <2>1 DEF Range
    <2> QED BY <2>3, <2>4
  <1> QED BY <1>2, <1>3, <1>4 DEF r

LEMMA TailFacts ==
    ASSUME NEW q, IsQueue(q), q # <<>>
    PROVE  /\ IsQueue(Tail(q)) /\ Len(Tail(q)) = Len(q) - 1
           /\ \A i \in 1..Len(Tail(q)) : Tail(q)[i] = q[i + 1]
           /\ Range(Tail(q)) \subseteq Range(q)
           /\ Head(q) \in Range(q) /\ Head(q) = q[1]
  <1> DEFINE t == Tail(q)
  <1>1. /\ Head(q) \in Range(q) /\ t \in Seq(Range(q)) /\ Len(t) = Len(q) - 1
        /\ \A i \in 1..Len(t) : t[i] = q[i + 1]
    BY HeadTailProperties DEF IsQueue
  <1>2. Head(q) = q[1]
    BY DEF IsQueue
  <1> HIDE DEF t
  <1>3. IsQueue(t)
    BY <1>1, QueueOf
  <1>4. Range(t) \subseteq Range(q)
    <2>1. DOMAIN t = 1..Len(t)
      BY <1>3, QueueFacts
    <2>2. \A i \in 1..Len(t) : t[i] \in Range(q)
      BY <1>1, ElementOfSeq
    <2> QED BY <2>1, <2>2 DEF Range
  <1> QED BY <1>1, <1>2, <1>3, <1>4 DEF t

LEMMA ConsFacts ==
    ASSUME NEW q, IsQueue(q), NEW e
    PROVE  LET r == <<e>> \o q IN
           /\ IsQueue(r) /\ Len(r) = Len(q) + 1
           /\ Range(r) = Range(q) \cup {e}
           /\ r[1] = e
           /\ \A i \in 1..Len(q) : r[i + 1] = q[i]
  <1> DEFINE S == Range(q) \cup {e}
             r == <<e>> \o q
  <1>1. q \in Seq(S) /\ <<e>> \in Seq(S) /\ Len(<<e>>) = 1 /\ <<e>>[1] = e
    BY SeqMonotonic DEF IsQueue
  <1>2. /\ r \in Seq(S) /\ Len(r) = 1 + Len(q)
        /\ \A i \in 1..(1 + Len(q)) : r[i] = IF i <= 1 THEN <<e>>[i] ELSE q[i - 1]
    BY <1>1, ConcatProperties
  <1> HIDE DEF r
  <1>3. IsQueue(r)
    BY <1>2, QueueOf
  <1>4. Len(q) \in Nat /\ DOMAIN q = 1..Len(q) /\ DOMAIN r = 1..(1 + Len(q))
    BY <1>2, <1>3, QueueFacts
  <1>5. r[1] = e
    BY <1>1, <1>2, <1>4
  <1>6. ASSUME NEW i \in 1..Len(q) PROVE r[i + 1] = q[i]
    <2>1. i + 1 \in 1..(1 + Len(q)) /\ ~(i + 1 <= 1) /\ (i + 1) - 1 = i
      BY <1>4
    <2> QED BY <1>2, <2>1
  <1>7. Range(r) = S
    <2>1. Range(r) \subseteq S
      BY <1>2, <1>4, ElementOfSeq DEF Range
    <2>2. e \in Range(r)
      BY <1>4, <1>5 DEF Range
    <2>3. ASSUME NEW x \in Range(q) PROVE x \in Range(r)
      <3>1. PICK i \in 1..Len(q) : q[i] = x
        BY <1>4 DEF Range
      <3>2. i + 1 \in DOMAIN r /\ r[i + 1] = x
        BY <1>4, <1>6, <3>1
      <3> QED BY <3>2 DEF Range
    <2> QED BY <2>1, <2>2, <2>3
  <1> QED BY <1>2, <1>3, <1>4, <1>5, <1>6, <1>7 DEF r

LEMMA FirstFacts ==
    ASSUME NEW p, IsQueue(p), NEW q, IsQueue(q)
    PROVE  /\ p \o q # <<>> <=> p # <<>> \/ q # <<>>
           /\ p # <<>> => Head(p \o q) = Head(p)
           /\ p = <<>> => Head(p \o q) = Head(q)
  <1> DEFINE S == Range(p) \cup Range(q)
  <1>1. p \in Seq(S) /\ q \in Seq(S)
    BY SeqMonotonic DEF IsQueue
  <1>2. p \o q = <<>> <=> p = <<>> /\ q = <<>>
    BY <1>1, ConcatEqualIffEmpty
  <1>3. p = <<>> => p \o q = q
    BY <1>1, ConcatEmptySeq
  <1>4. CASE p # <<>>
    <2>1. /\ p \o q \in Seq(S)
          /\ (p \o q)[1] = p[1] /\ Head(p) = p[1]
      <3>1. Len(p) \in Nat /\ Len(p) > 0 /\ Len(q) \in Nat
        BY <1>4, QueueFacts
      <3>2. 1 \in 1..(Len(p) + Len(q)) /\ 1 <= Len(p)
        BY <3>1
      <3>3. /\ p \o q \in Seq(S)
            /\ \A i \in 1..Len(p) + Len(q) : (p \o q)[i] =
                     IF i <= Len(p) THEN p[i] ELSE q[i - Len(p)]
        BY <1>1, ConcatProperties
      <3>4. Head(p) = p[1]
        BY <1>4, TailFacts
      <3> QED BY <3>2, <3>3, <3>4
    <2>2. IsQueue(p \o q) /\ p \o q # <<>>
      BY <1>2, <1>4, <2>1, QueueOf
    <2>3. Head(p \o q) = (p \o q)[1]
      BY <2>2, TailFacts
    <2> QED BY <1>2, <1>4, <2>1, <2>3
  <1>5. CASE p = <<>>
    BY <1>2, <1>3, <1>5
  <1> QED BY <1>4, <1>5

LEMMA EmptyQueue == IsQueue(<<>>) /\ Range(<<>>) = {} /\ Len(<<>>) = 0
  <1>1. <<>> \in Seq({}) /\ DOMAIN <<>> = {}
    OBVIOUS
  <1> QED BY <1>1, QueueOf DEF Range

LEMMA JoinFacts ==
    ASSUME NEW p, IsQueue(p), NEW q, IsQueue(q)
    PROVE  LET r == p \o q IN
           /\ IsQueue(r) /\ Len(r) = Len(p) + Len(q)
           /\ \A i \in 1..Len(p) : r[i] = p[i]
           /\ \A i \in 1..Len(r) : i > Len(p) => i - Len(p) \in 1..Len(q) /\ r[i] = q[i - Len(p)]
  <1> DEFINE S == Range(p) \cup Range(q)
             r == p \o q
  <1>1. p \in Seq(S) /\ q \in Seq(S)
    BY SeqMonotonic DEF IsQueue
  <1>2. /\ r \in Seq(S) /\ Len(r) = Len(p) + Len(q)
        /\ \A i \in 1..Len(p) + Len(q) : r[i] = IF i <= Len(p) THEN p[i] ELSE q[i - Len(p)]
    BY <1>1, ConcatProperties
  <1> HIDE DEF r
  <1>3. Len(p) \in Nat /\ Len(q) \in Nat
    BY QueueFacts
  <1>4. IsQueue(r)
    BY <1>2, QueueOf
  <1> QED BY <1>2, <1>3, <1>4 DEF r

LEMMA CutFacts ==
    ASSUME NEW q, IsQueue(q), NEW a \in Nat, NEW b \in Nat,
           1 <= a, a <= b + 1, b <= Len(q)
    PROVE  LET r == SubSeq(q, a, b) IN
           /\ IsQueue(r) /\ Len(r) = b - a + 1
           /\ \A i \in 1..Len(r) : a + i - 1 \in 1..Len(q) /\ r[i] = q[a + i - 1]
  <1> DEFINE r == SubSeq(q, a, b)
  <1>1. Len(q) \in Nat /\ \A i \in a..b : q[i] \in Range(q)
    BY QueueFacts
  <1>2. /\ r \in Seq(Range(q)) /\ Len(r) = IF a <= b THEN b - a + 1 ELSE 0
        /\ \A i \in 1..b - a + 1 : r[i] = q[a + i - 1]
    BY <1>1, SubSeqProperties
  <1> HIDE DEF r
  <1>3. IsQueue(r)
    BY <1>2, QueueOf
  <1> QED BY <1>1, <1>2, <1>3 DEF r

LEMMA Least == ASSUME NEW S, S \subseteq Nat, S # {}
   PROVE \E n \in S : \A m \in S : n <= m
  <1> DEFINE R == OpToRel(<,Nat)
  <1>1. IsWellFoundedOn(R, Nat)
    BY NatLessThanWellFounded
  <1>3. \A x, y \in Nat : y < x => <<y, x>> \in R
    BY DEF OpToRel
  <1> HIDE DEF R
  <1>2. \E x \in S : \A y \in S : ~ (<<y, x>> \in R)
    BY <1>1, WFMin
  <1>4. PICK x \in S : \A y \in S : ~ (<<y, x>> \in R)
    BY <1>2
  <1>5. ASSUME NEW m \in S PROVE x <= m
    <2>1. x \in Nat /\ m \in Nat /\ ~(m < x)
      BY <1>3, <1>4
    <2> QED BY <2>1
  <1> QED BY <1>5
=============================================================================
