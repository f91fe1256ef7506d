-------------------------- MODULE MobileUplink_proofs --------------------------
(***************************************************************************)
(* Proofs about MobileUplink and its queue, for a queue and a flush of any size     *)
(* and any number of fixes, connections, crashes and failing storage operations:   *)
(* where every fix is, in which order the queue is replayed, and what of it is in    *)
(* storage.                                                                    *)
(***************************************************************************)
EXTENDS MobileUplink, SequenceTheorems, FiniteSetTheorems, TLAPS

Sorted(q) == \A i, j \in 1..Len(q) : i < j => q[i] < q[j]

-----------------------------------------------------------------------------
(* Sequences: their elements and their order.                                    *)

LEMMA ElementsAppend ==
  ASSUME NEW S, NEW q \in Seq(S), NEW x \in S
  PROVE  Elements(Append(q, x)) = Elements(q) \cup {x}
<1>1. /\ Len(Append(q, x)) = Len(q) + 1 /\ Len(q) \in Nat
      /\ \A i \in 1..Len(q) : Append(q, x)[i] = q[i]
      /\ Append(q, x)[Len(q) + 1] = x
  BY AppendProperties
<1> QED
  BY <1>1 DEF Elements

LEMMA ElementsConcat ==
  ASSUME NEW S, NEW q \in Seq(S), NEW r \in Seq(S)
  PROVE  Elements(q \o r) = Elements(q) \cup Elements(r)
<1>1. /\ Len(q \o r) = Len(q) + Len(r) /\ Len(q) \in Nat /\ Len(r) \in Nat
      /\ \A i \in 1..(Len(q) + Len(r)) :
           (q \o r)[i] = IF i <= Len(q) THEN q[i] ELSE r[i - Len(q)]
  BY ConcatProperties
<1>2. ASSUME NEW x \in Elements(q \o r) PROVE x \in Elements(q) \cup Elements(r)
  <2>1. PICK i \in 1..(Len(q) + Len(r)) : x = (q \o r)[i]
    BY <1>1 DEF Elements
  <2>2. CASE i <= Len(q)
    BY <1>1, <2>1, <2>2 DEF Elements
  <2>3. CASE i > Len(q)
    <3>1. i - Len(q) \in 1..Len(r) /\ x = r[i - Len(q)]
      BY <1>1, <2>1, <2>3
    <3> QED
      BY <3>1 DEF Elements
  <2> QED
    BY <1>1, <2>2, <2>3
<1>3. ASSUME NEW x \in Elements(q) PROVE x \in Elements(q \o r)
  <2>1. PICK i \in 1..Len(q) : x = q[i]
    BY DEF Elements
  <2>2. i \in 1..Len(q \o r) /\ x = (q \o r)[i]
    BY <1>1, <2>1
  <2> QED
    BY <2>2 DEF Elements
<1>4. ASSUME NEW x \in Elements(r) PROVE x \in Elements(q \o r)
  <2>1. PICK i \in 1..Len(r) : x = r[i]
    BY DEF Elements
  <2>2. i + Len(q) \in 1..Len(q \o r) /\ x = (q \o r)[i + Len(q)]
    BY <1>1, <2>1
  <2> QED
    BY <2>2 DEF Elements
<1> QED
  BY <1>2, <1>3, <1>4

(* A queue cut after n items.                                                    *)
LEMMA Cut ==
  ASSUME NEW S, NEW q \in Seq(S), NEW n \in 0..Len(q)
  PROVE  LET front == SubSeq(q, 1, n)
             back == SubSeq(q, n + 1, Len(q))
         IN /\ front \in Seq(S) /\ Len(front) = n /\ \A i \in 1..n : front[i] = q[i]
            /\ back \in Seq(S) /\ Len(back) = Len(q) - n
            /\ \A i \in 1..(Len(q) - n) : back[i] = q[i + n]
            /\ Elements(q) = Elements(front) \cup Elements(back)
<1> DEFINE front == SubSeq(q, 1, n)
<1> DEFINE back == SubSeq(q, n + 1, Len(q))
<1>1. Len(q) \in Nat /\ n \in Nat /\ n <= Len(q) /\ \A i \in 1..Len(q) : q[i] \in S
  BY ElementOfSeq
<1>2. front \in Seq(S) /\ Len(front) = n /\ \A i \in 1..n : front[i] = q[i]
  <2>1. \A i \in 1..n : q[i] \in S
    BY <1>1
  <2>2. Len(front) = IF 1 <= n THEN n - 1 + 1 ELSE 0
    BY <1>1, <2>1, SubSeqProperties
  <2>3. front \in Seq(S) /\ \A i \in 1..(n - 1 + 1) : front[i] = q[1 + i - 1]
    BY <1>1, <2>1, SubSeqProperties
  <2> HIDE DEF front
  <2>4. \A i \in 1..n : front[i] = q[i]
    BY <1>1, <2>3
  <2> QED
    BY <1>1, <2>2, <2>3, <2>4
<1>3. /\ back \in Seq(S) /\ Len(back) = Len(q) - n
      /\ \A i \in 1..(Len(q) - n) : back[i] = q[i + n]
  <2>1. \A i \in (n + 1)..Len(q) : q[i] \in S
    BY <1>1
  <2>2. Len(back) = IF n + 1 <= Len(q) THEN Len(q) - (n + 1) + 1 ELSE 0
    BY <1>1, <2>1, SubSeqProperties
  <2>3. /\ back \in Seq(S)
        /\ \A i \in 1..(Len(q) - (n + 1) + 1) : back[i] = q[n + 1 + i - 1]
    BY <1>1, <2>1, SubSeqProperties
  <2> HIDE DEF back
  <2>4. \A i \in 1..(Len(q) - n) : back[i] = q[i + n]
    BY <1>1, <2>3
  <2> QED
    BY <1>1, <2>2, <2>3, <2>4
<1> HIDE DEF front, back
<1>4. Elements(q) = Elements(front) \cup Elements(back)
  <2>1. ASSUME NEW i \in 1..Len(q) PROVE q[i] \in Elements(front) \cup Elements(back)
    <3>1. CASE i <= n
      BY <1>1, <1>2, <3>1 DEF Elements
    <3>2. CASE i > n
      <4>1. i - n \in 1..Len(back) /\ q[i] = back[i - n]
        BY <1>1, <1>3, <3>2
      <4> QED
        BY <4>1 DEF Elements
    <3> QED
      BY <1>1, <3>1, <3>2
  <2>2. ASSUME NEW i \in 1..n PROVE front[i] \in Elements(q)
    BY <1>1, <1>2 DEF Elements
  <2>3. ASSUME NEW i \in 1..(Len(q) - n) PROVE back[i] \in Elements(q)
    BY <1>1, <1>3 DEF Elements
  <2>4. Elements(front) \subseteq Elements(q)
    <3>1. \A i \in 1..Len(front) : front[i] \in Elements(q)
      BY <1>2, <2>2
    <3> QED
      BY <3>1 DEF Elements
  <2>5. Elements(back) \subseteq Elements(q)
    <3>1. \A i \in 1..Len(back) : back[i] \in Elements(q)
      BY <1>3, <2>3
    <3> QED
      BY <3>1 DEF Elements
  <2>6. Elements(q) \subseteq Elements(front) \cup Elements(back)
    BY <2>1 DEF Elements
  <2> QED
    BY <2>4, <2>5, <2>6
<1> QED
  BY <1>2, <1>3, <1>4 DEF front, back

LEMMA ElementsHead ==
  ASSUME NEW S, NEW q \in Seq(S), q # << >>
  PROVE  /\ Head(q) = q[1] /\ Head(q) \in S /\ Tail(q) \in Seq(S)
         /\ Len(q) \in Nat /\ Len(q) >= 1 /\ Len(Tail(q)) = Len(q) - 1
         /\ \A i \in 1..(Len(q) - 1) : Tail(q)[i] = q[i + 1]
         /\ Elements(q) = {Head(q)} \cup Elements(Tail(q))
         /\ q = << Head(q) >> \o Tail(q)
<1>1. /\ Head(q) = q[1] /\ Head(q) \in S /\ Tail(q) \in Seq(S)
      /\ Len(q) \in Nat /\ Len(q) >= 1 /\ Len(Tail(q)) = Len(q) - 1
      /\ \A i \in 1..(Len(q) - 1) : Tail(q)[i] = q[i + 1]
  BY HeadTailProperties
<1>2. SubSeq(q, 1, Len(q)) = << q[1] >> \o SubSeq(q, 1 + 1, Len(q))
  BY <1>1, SubSeqRecursiveFirst
<1>3. SubSeq(q, 1, Len(q)) = q /\ SubSeq(q, 2, Len(q)) = Tail(q)
  BY SubSeqFull, TailIsSubSeq
<1>4. ASSUME NEW i \in 1..Len(q) PROVE q[i] \in {Head(q)} \cup Elements(Tail(q))
  <2>1. CASE i = 1
    BY <1>1, <2>1
  <2>2. CASE i # 1
    <3>1. i - 1 \in 1..Len(Tail(q)) /\ q[i] = Tail(q)[i - 1]
      BY <1>1, <2>2
    <3> QED
      BY <3>1 DEF Elements
  <2> QED
    BY <2>1, <2>2
<1>5. ASSUME NEW i \in 1..Len(Tail(q)) PROVE Tail(q)[i] \in Elements(q)
  BY <1>1 DEF Elements
<1>6. Head(q) \in Elements(q)
  BY <1>1 DEF Elements
<1>7. Elements(q) = {Head(q)} \cup Elements(Tail(q))
  BY <1>4, <1>5, <1>6 DEF Elements
<1> QED
  BY <1>1, <1>2, <1>3, <1>7

LEMMA SortedAppend ==
  ASSUME NEW q \in Seq(Int), NEW x \in Int, Sorted(q), \A e \in Elements(q) : e < x
  PROVE  Sorted(Append(q, x))
<1>1. /\ Len(Append(q, x)) = Len(q) + 1 /\ Len(q) \in Nat
      /\ \A i \in 1..Len(q) : Append(q, x)[i] = q[i]
      /\ Append(q, x)[Len(q) + 1] = x
  BY AppendProperties
<1>2. \A i \in 1..Len(q) : q[i] < x
  BY DEF Elements
<1> DEFINE longer == Append(q, x)
<1> HIDE DEF longer
<1>3. ASSUME NEW i \in 1..(Len(q) + 1), NEW j \in 1..(Len(q) + 1), i < j
      PROVE  longer[i] < longer[j]
  <2>1. i \in 1..Len(q) /\ longer[i] = q[i]
    BY <1>1, <1>3 DEF longer
  <2>2. CASE j = Len(q) + 1
    BY <1>1, <1>2, <2>1, <2>2 DEF longer
  <2>3. CASE j # Len(q) + 1
    <3>1. j \in 1..Len(q) /\ longer[j] = q[j]
      BY <1>1, <2>3 DEF longer
    <3> QED
      BY <1>3, <2>1, <3>1 DEF Sorted
  <2> QED
    BY <2>2, <2>3
<1>4. Len(longer) = Len(q) + 1
  BY <1>1 DEF longer
<1>5. Sorted(longer)
  BY <1>3, <1>4 DEF Sorted
<1> QED
  BY <1>5 DEF longer

LEMMA SortedCut ==
  ASSUME NEW q \in Seq(Int), Sorted(q), NEW n \in 0..Len(q)
  PROVE  LET front == SubSeq(q, 1, n)
             back == SubSeq(q, n + 1, Len(q))
         IN /\ Sorted(front) /\ Sorted(back)
            /\ \A x \in Elements(front) : \A y \in Elements(back) : x < y
<1> DEFINE front == SubSeq(q, 1, n)
<1> DEFINE back == SubSeq(q, n + 1, Len(q))
<1>1. /\ Len(front) = n /\ \A i \in 1..n : front[i] = q[i]
      /\ Len(back) = Len(q) - n /\ \A i \in 1..(Len(q) - n) : back[i] = q[i + n]
      /\ Len(q) \in Nat /\ n \in Nat /\ n <= Len(q)
  BY Cut
<1> HIDE DEF front, back
<1>2. Sorted(front)
  <2>1. ASSUME NEW i \in 1..n, NEW j \in 1..n, i < j PROVE front[i] < front[j]
    <3>1. i \in 1..Len(q) /\ j \in 1..Len(q)
      BY <1>1
    <3> QED
      BY <1>1, <2>1, <3>1 DEF Sorted
  <2> QED
    BY <1>1, <2>1 DEF Sorted
<1>3. Sorted(back)
  <2>1. ASSUME NEW i \in 1..(Len(q) - n), NEW j \in 1..(Len(q) - n), i < j
        PROVE  back[i] < back[j]
    <3>1. i + n \in 1..Len(q) /\ j + n \in 1..Len(q) /\ i + n < j + n
      BY <1>1, <2>1
    <3>2. q[i + n] < q[j + n]
      BY <3>1 DEF Sorted
    <3>3. back[i] = q[i + n] /\ back[j] = q[j + n]
      BY <1>1
    <3> QED
      BY <3>2, <3>3
  <2> QED
    BY <1>1, <2>1 DEF Sorted
<1>4. ASSUME NEW i \in 1..n, NEW j \in 1..(Len(q) - n) PROVE front[i] < back[j]
  <2>1. i \in 1..Len(q) /\ j + n \in 1..Len(q) /\ i < j + n
    BY <1>1
  <2> QED
    BY <1>1, <2>1 DEF Sorted
<1> QED
  BY <1>1, <1>2, <1>3, <1>4 DEF front, back, Elements

(* A sorted queue has as many items as elements.                                  *)
LEMMA SortedCount ==
  ASSUME NEW q \in Seq(Int), Sorted(q)
  PROVE  Cardinality(Elements(q)) = Len(q)
<1>1. Len(q) \in Nat /\ q \in [1..Len(q) -> Elements(q)]
  BY LenProperties DEF Elements
<1>2. \A i, j \in 1..Len(q) : q[i] = q[j] => i = j
  <2> SUFFICES ASSUME NEW i \in 1..Len(q), NEW j \in 1..Len(q), q[i] = q[j] PROVE i = j
    OBVIOUS
  <2>1. q[i] \in Int /\ q[j] \in Int /\ i \in Int /\ j \in Int
    BY ElementOfSeq
  <2>2. ~(i < j) /\ ~(j < i)
    BY <2>1 DEF Sorted
  <2> QED
    BY <2>1, <2>2
<1>3. q \in Bijection(1..Len(q), Elements(q))
  BY <1>1, <1>2 DEF Bijection, Injection, Surjection, IsInjective, Elements
<1> QED
  BY <1>1, <1>3, FS_CountingElements DEF ExistsBijection

-----------------------------------------------------------------------------
(* Messages.                                                                   *)

(* What the server has written and what is still on its way.                      *)
Wire == csv \o net

Once(w) == \A i, j \in 1..Len(w) : i # j => w[i].fix # w[j].fix

ReplayedInOrder(w) ==
  \A i, j \in 1..Len(w) :
    (i < j /\ w[i].stamped /\ w[j].stamped) => w[i].fix < w[j].fix

(* Replayed before anything in m.                                                *)
Before(w, m) ==
  \A a \in Elements(w), b \in Elements(m) : (a.stamped /\ b.stamped) => a.fix < b.fix

LEMMA FixesConcat ==
  ASSUME NEW w \in Seq(Messages), NEW m \in Seq(Messages)
  PROVE  FixesOf(w \o m) = FixesOf(w) \cup FixesOf(m)
<1>1. Elements(w \o m) = Elements(w) \cup Elements(m)
  BY ElementsConcat
<1> QED
  BY <1>1 DEF FixesOf

LEMMA MessagesAssociative ==
  \A a, b, c \in Seq(Messages) : (a \o b) \o c = a \o (b \o c)
BY ConcatAssociative

LEMMA OnceConcat ==
  ASSUME NEW w \in Seq(Messages), NEW m \in Seq(Messages),
         Once(w), Once(m), FixesOf(w) \cap FixesOf(m) = {}
  PROVE  Once(w \o m)
<1> DEFINE c == w \o m
<1>1. /\ Len(c) = Len(w) + Len(m) /\ Len(w) \in Nat /\ Len(m) \in Nat
      /\ \A i \in 1..(Len(w) + Len(m)) : c[i] = IF i <= Len(w) THEN w[i] ELSE m[i - Len(w)]
  BY ConcatProperties
<1> HIDE DEF c
<1>2. ASSUME NEW i \in 1..Len(w), NEW j \in 1..Len(m) PROVE w[i].fix # m[j].fix
  BY DEF FixesOf, Elements
<1>3. ASSUME NEW i \in 1..Len(c), NEW j \in 1..Len(c), i # j PROVE c[i].fix # c[j].fix
  <2>1. CASE i <= Len(w) /\ j <= Len(w)
    BY <1>1, <1>3, <2>1 DEF Once
  <2>2. CASE i <= Len(w) /\ j > Len(w)
    <3>1. i \in 1..Len(w) /\ j - Len(w) \in 1..Len(m) /\ c[i] = w[i] /\ c[j] = m[j - Len(w)]
      BY <1>1, <2>2
    <3> QED
      BY <1>2, <3>1
  <2>3. CASE i > Len(w) /\ j <= Len(w)
    <3>1. j \in 1..Len(w) /\ i - Len(w) \in 1..Len(m) /\ c[j] = w[j] /\ c[i] = m[i - Len(w)]
      BY <1>1, <2>3
    <3> QED
      BY <1>2, <3>1
  <2>4. CASE i > Len(w) /\ j > Len(w)
    <3>1. /\ i - Len(w) \in 1..Len(m) /\ j - Len(w) \in 1..Len(m)
          /\ i - Len(w) # j - Len(w)
          /\ c[i] = m[i - Len(w)] /\ c[j] = m[j - Len(w)]
      BY <1>1, <1>3, <2>4
    <3> QED
      BY <3>1 DEF Once
  <2> QED
    BY <1>1, <2>1, <2>2, <2>3, <2>4
<1>4. Once(c)
  BY <1>3 DEF Once
<1> QED
  BY <1>4 DEF c

LEMMA OrderConcat ==
  ASSUME NEW w \in Seq(Messages), NEW m \in Seq(Messages),
         ReplayedInOrder(w), ReplayedInOrder(m), Before(w, m)
  PROVE  ReplayedInOrder(w \o m)
<1> DEFINE c == w \o m
<1>1. /\ Len(c) = Len(w) + Len(m) /\ Len(w) \in Nat /\ Len(m) \in Nat
      /\ \A i \in 1..(Len(w) + Len(m)) : c[i] = IF i <= Len(w) THEN w[i] ELSE m[i - Len(w)]
  BY ConcatProperties
<1> HIDE DEF c
<1>2. ASSUME NEW i \in 1..Len(w), NEW j \in 1..Len(m), w[i].stamped, m[j].stamped
      PROVE  w[i].fix < m[j].fix
  <2>1. w[i] \in Elements(w) /\ m[j] \in Elements(m)
    BY DEF Elements
  <2> QED
    BY <1>2, <2>1 DEF Before
<1>3. ASSUME NEW i \in 1..Len(c), NEW j \in 1..Len(c), i < j, c[i].stamped, c[j].stamped
      PROVE  c[i].fix < c[j].fix
  <2>1. CASE j <= Len(w)
    <3>1. i \in 1..Len(w) /\ j \in 1..Len(w) /\ c[i] = w[i] /\ c[j] = w[j]
      BY <1>1, <1>3, <2>1
    <3> QED
      BY <1>3, <3>1 DEF ReplayedInOrder
  <2>2. CASE i <= Len(w) /\ j > Len(w)
    <3>1. i \in 1..Len(w) /\ j - Len(w) \in 1..Len(m) /\ c[i] = w[i] /\ c[j] = m[j - Len(w)]
      BY <1>1, <2>2
    <3> QED
      BY <1>2, <1>3, <3>1
  <2>3. CASE i > Len(w)
    <3>1. /\ i - Len(w) \in 1..Len(m) /\ j - Len(w) \in 1..Len(m)
          /\ i - Len(w) < j - Len(w)
          /\ c[i] = m[i - Len(w)] /\ c[j] = m[j - Len(w)]
      BY <1>1, <1>3, <2>3
    <3> QED
      BY <1>3, <3>1 DEF ReplayedInOrder
  <2> QED
    BY <1>1, <2>1, <2>2, <2>3
<1>4. ReplayedInOrder(c)
  BY <1>3 DEF ReplayedInOrder
<1> QED
  BY <1>4 DEF c

(* Dropping the end of the wire, as a lost connection does.                        *)
LEMMA WirePrefix ==
  ASSUME NEW w \in Seq(Messages), NEW m \in Seq(Messages)
  PROVE  /\ Once(w \o m) => Once(w)
         /\ ReplayedInOrder(w \o m) => ReplayedInOrder(w)
<1> DEFINE c == w \o m
<1>1. /\ Len(c) = Len(w) + Len(m) /\ Len(w) \in Nat /\ Len(m) \in Nat
      /\ \A i \in 1..(Len(w) + Len(m)) : c[i] = IF i <= Len(w) THEN w[i] ELSE m[i - Len(w)]
  BY ConcatProperties
<1> HIDE DEF c
<1>2. \A i \in 1..Len(w) : i \in 1..Len(c) /\ c[i] = w[i]
  BY <1>1
<1>3. (Once(c) => Once(w)) /\ (ReplayedInOrder(c) => ReplayedInOrder(w))
  BY <1>2 DEF Once, ReplayedInOrder
<1> QED
  BY <1>3 DEF c

(* A message of each fix: as many messages as fixes.                              *)
LEMMA OnceCount ==
  ASSUME NEW w \in Seq(Messages), Once(w)
  PROVE  Cardinality(FixesOf(w)) = Len(w)
<1> DEFINE f == [i \in 1..Len(w) |-> w[i].fix]
<1>1. Len(w) \in Nat /\ f \in [1..Len(w) -> FixesOf(w)]
  BY DEF FixesOf, Elements
<1>2. \A i, j \in 1..Len(w) : f[i] = f[j] => i = j
  BY DEF Once
<1>3. \A x \in FixesOf(w) : \E i \in 1..Len(w) : f[i] = x
  BY DEF FixesOf, Elements
<1> HIDE DEF f
<1>4. f \in Bijection(1..Len(w), FixesOf(w))
  BY <1>1, <1>2, <1>3 DEF Bijection, Injection, Surjection, IsInjective
<1> QED
  BY <1>1, <1>4, FS_CountingElements DEF ExistsBijection

(* The messages of a flush.                                                     *)
LEMMA ReplaysAre ==
  ASSUME NEW q \in Seq(FixNumbers)
  PROVE  /\ Replays(q) \in Seq(Messages)
         /\ \A m \in Elements(Replays(q)) : m.fix \in Elements(q)
         /\ FixesOf(Replays(q)) = Elements(q)
         /\ Sorted(q) => Once(Replays(q)) /\ ReplayedInOrder(Replays(q))
<1> DEFINE r == Replays(q)
<1>1. Len(q) \in Nat /\ \A i \in 1..Len(q) : q[i] \in FixNumbers
  BY ElementOfSeq
<1>2. r \in [1..Len(q) -> Messages] /\ \A i \in 1..Len(q) : r[i].fix = q[i]
  BY <1>1 DEF Replays, Messages
<1> HIDE DEF r
<1>3. r \in Seq(Messages)
  BY <1>1, <1>2, IsASeq
<1>4. Len(r) = Len(q)
  BY <1>1, <1>2, <1>3, LenProperties
<1>5. /\ \A m \in Elements(r) : m.fix \in Elements(q)
      /\ \A x \in Elements(q) : \E m \in Elements(r) : m.fix = x
  BY <1>2, <1>4 DEF Elements
<1>6. FixesOf(r) = Elements(q)
  BY <1>5 DEF FixesOf
<1>7. ASSUME Sorted(q) PROVE Once(r) /\ ReplayedInOrder(r)
  <2>1. ASSUME NEW i \in 1..Len(q), NEW j \in 1..Len(q), i # j PROVE q[i] # q[j]
    <3>1. q[i] \in Int /\ q[j] \in Int /\ i \in Int /\ j \in Int /\ (i < j \/ j < i)
      BY <1>1, <2>1 DEF FixNumbers
    <3> QED
      BY <1>7, <3>1 DEF Sorted
  <2> QED
    BY <1>2, <1>4, <1>7, <2>1 DEF Once, ReplayedInOrder, Sorted
<1> QED
  BY <1>3, <1>5, <1>6, <1>7 DEF r

(* The message of a fix that is sent live.                                       *)
LEMMA LiveIs ==
  ASSUME NEW f \in FixNumbers
  PROVE  /\ << Live(f) >> \in Seq(Messages)
         /\ Elements(<< Live(f) >>) = {Live(f)} /\ ~Live(f).stamped
         /\ FixesOf(<< Live(f) >>) = {f}
         /\ Once(<< Live(f) >>) /\ ReplayedInOrder(<< Live(f) >>)
<1>1. Live(f) \in Messages /\ Live(f).fix = f /\ ~Live(f).stamped
  BY DEF Live, Messages
<1> DEFINE one == << Live(f) >>
<1>2. one \in Seq(Messages) /\ Len(one) = 1 /\ one[1] = Live(f)
  BY <1>1
<1> HIDE DEF one
<1>3. Elements(one) = {Live(f)}
  BY <1>2 DEF Elements
<1>4. FixesOf(one) = {f} /\ Once(one) /\ ReplayedInOrder(one)
  BY <1>1, <1>2, <1>3 DEF FixesOf, Once, ReplayedInOrder
<1> QED
  BY <1>1, <1>2, <1>3, <1>4 DEF one

-----------------------------------------------------------------------------
(* What the two operations of the queue do to it.                                 *)

Kept(q, fix) ==
  LET grown == Append(q, fix) IN SubSeq(grown, Excess(Len(grown)) + 1, Len(grown))

LEMMA PushKeeps ==
  ASSUME NEW q \in Seq(FixNumbers), Len(q) <= MaxItems, NEW fix \in FixNumbers
  PROVE  /\ Kept(q, fix) \in Seq(FixNumbers) /\ Len(Kept(q, fix)) <= MaxItems
         /\ Elements(q) \cup {fix} = Elements(Kept(q, fix)) \cup Overflow(q, fix)
         /\ \/ Excess(Len(Append(q, fix))) = 0 /\ Overflow(q, fix) = {}
            \/ /\ Excess(Len(Append(q, fix))) = 1
               /\ \E x \in FixNumbers : Overflow(q, fix) = {x}
<1> DEFINE grown == Append(q, fix)
<1> DEFINE d == Excess(Len(grown))
<1>1. /\ grown \in Seq(FixNumbers) /\ Len(grown) = Len(q) + 1 /\ Len(q) \in Nat
      /\ Elements(grown) = Elements(q) \cup {fix}
  BY AppendProperties, ElementsAppend
<1> HIDE DEF grown
<1>2. d = IF Len(q) + 1 > MaxItems THEN 1 ELSE 0
  BY <1>1, MaxItemsAssumption DEF Excess
<1>3. d \in 0..Len(grown) /\ Len(grown) - d <= MaxItems
  BY <1>1, <1>2, MaxItemsAssumption
<1> HIDE DEF d
<1> DEFINE front == SubSeq(grown, 1, d)
<1> DEFINE back == SubSeq(grown, d + 1, Len(grown))
<1>4. /\ front \in Seq(FixNumbers) /\ Len(front) = d /\ \A i \in 1..d : front[i] = grown[i]
      /\ back \in Seq(FixNumbers) /\ Len(back) = Len(grown) - d
      /\ Elements(grown) = Elements(front) \cup Elements(back)
  BY <1>1, <1>3, Cut
<1> HIDE DEF front, back
<1>5. Overflow(q, fix) = {grown[i] : i \in 1..d}
  BY DEF Overflow, grown, d
<1>6. Overflow(q, fix) = Elements(front)
  BY <1>4, <1>5 DEF Elements
<1>7. d = 0 => Overflow(q, fix) = {}
  BY <1>5
<1>8. d = 1 => Overflow(q, fix) = {grown[1]} /\ grown[1] \in FixNumbers
  BY <1>1, <1>5, ElementOfSeq
<1>9. Kept(q, fix) = back
  BY DEF Kept, back, grown, d
<1>10. d = 0 \/ d = 1
  BY <1>2
<1> QED
  BY <1>1, <1>3, <1>4, <1>6, <1>7, <1>8, <1>9, <1>10 DEF d, grown

(* Pushed behind older fixes, a fix leaves the order, and what the bound drops is older   *)
(* than all it keeps.                                                           *)
LEMMA PushSorted ==
  ASSUME NEW q \in Seq(FixNumbers), Len(q) <= MaxItems, NEW fix \in FixNumbers,
         Sorted(q), \A x \in Elements(q) : x < fix
  PROVE  /\ Sorted(Kept(q, fix))
         /\ \A x \in Overflow(q, fix), y \in Elements(Kept(q, fix)) : x < y
<1> DEFINE grown == Append(q, fix)
<1> DEFINE d == Excess(Len(grown))
<1>1. q \in Seq(Int) /\ fix \in Int
  <2>1. FixNumbers \subseteq Int
    BY DEF FixNumbers
  <2> QED
    BY <2>1, SeqMonotonic
<1>2. grown \in Seq(Int) /\ Sorted(grown) /\ Len(grown) = Len(q) + 1 /\ Len(q) \in Nat
  BY <1>1, AppendProperties, SortedAppend
<1>3. d \in 0..Len(grown)
  BY <1>2, MaxItemsAssumption DEF Excess
<1> HIDE DEF grown, d
<1> DEFINE front == SubSeq(grown, 1, d)
<1> DEFINE back == SubSeq(grown, d + 1, Len(grown))
<1>4. /\ Sorted(back)
      /\ \A x \in Elements(front), y \in Elements(back) : x < y
      /\ Len(front) = d /\ \A i \in 1..d : front[i] = grown[i]
  BY <1>2, <1>3, Cut, SortedCut
<1> HIDE DEF front, back
<1>5. Overflow(q, fix) = {grown[i] : i \in 1..d}
  BY DEF Overflow, grown, d
<1>6. Overflow(q, fix) = Elements(front)
  BY <1>4, <1>5 DEF Elements
<1>7. Kept(q, fix) = back
  BY DEF Kept, back, grown, d
<1> QED
  BY <1>4, <1>6, <1>7

Left(q, open) == SubSeq(q, FlushCount(q, open) + 1, Len(q))

LEMMA DrainLeaves ==
  ASSUME NEW q \in Seq(FixNumbers), NEW open \in BOOLEAN
  PROVE  /\ Left(q, open) \in Seq(FixNumbers) /\ Len(Left(q, open)) <= Len(q)
         /\ Sent(q, open) \in Seq(FixNumbers)
         /\ Elements(q) = Elements(Sent(q, open)) \cup Elements(Left(q, open))
         /\ Sorted(q) =>
              /\ Sorted(Left(q, open)) /\ Sorted(Sent(q, open))
              /\ \A x \in Elements(Sent(q, open)), y \in Elements(Left(q, open)) : x < y
<1> DEFINE n == FlushCount(q, open)
<1>1. Len(q) \in Nat /\ n \in 0..Len(q) /\ q \in Seq(Int)
  <2>1. FixNumbers \subseteq Int
    BY DEF FixNumbers
  <2>2. n \in 0..Len(q)
    BY FlushLimitAssumption DEF FlushCount
  <2>3. q \in Seq(Int)
    BY <2>1, SeqMonotonic
  <2> QED
    BY <2>2, <2>3
<1> HIDE DEF n
<1>2. /\ SubSeq(q, n + 1, Len(q)) \in Seq(FixNumbers)
      /\ Len(SubSeq(q, n + 1, Len(q))) = Len(q) - n
      /\ SubSeq(q, 1, n) \in Seq(FixNumbers)
      /\ Elements(q) = Elements(SubSeq(q, 1, n)) \cup Elements(SubSeq(q, n + 1, Len(q)))
  BY <1>1, Cut
<1>3. Sorted(q) =>
        /\ Sorted(SubSeq(q, n + 1, Len(q))) /\ Sorted(SubSeq(q, 1, n))
        /\ \A x \in Elements(SubSeq(q, 1, n)), y \in Elements(SubSeq(q, n + 1, Len(q))) : x < y
  BY <1>1, SortedCut
<1>4. Len(q) - n <= Len(q)
  BY <1>1
<1> QED
  BY <1>2, <1>3, <1>4 DEF Left, Sent, n

-----------------------------------------------------------------------------
(* The inductive invariant.                                                      *)

(* Every copy of the queue: in memory, in storage, and to be written.               *)
Copies ==
  {items} \cup (IF storage = << >> THEN {} ELSE {storage[1]})
          \cup {op.value : op \in Elements(ops)}

(* All of them are bounded, hold fixes that were taken, and as long as getItem is not     *)
(* repeated they are in the order of the fixes.                                     *)
CopiesInv ==
  \A q \in Copies : /\ Len(q) <= MaxItems
                    /\ \A x \in Elements(q) : x <= fixes
                    /\ ~rereads => Sorted(q)

(* Before the mount effect's read has returned nothing is queued and nothing written,     *)
(* and that read is the first to return.                                            *)
CallsInv ==
  /\ ~loaded => /\ items = << >>
                /\ ops # << >> /\ Head(ops).then = "mount"
                /\ \A op \in Elements(Tail(ops)) : op.then # "mount"
                /\ \A op \in Elements(ops) : op.kind = "get"
  /\ loaded => \A op \in Elements(ops) : op.then # "mount"
  /\ \A x \in Waiting : x <= fixes
  /\ overflowed \subseteq 1..fixes

(* Without a crash: where the fixes are, and in which order.                          *)
PlaceInv ==
  (crashes = 0 /\ ~rereads) =>
    /\ ~loaded => Stored = {}
    /\ Waiting \cup Elements(items) \cup overflowed \cup Accepted = 1..fixes
    /\ Waiting \cap (Elements(items) \cup overflowed \cup Accepted) = {}
    /\ Elements(items) \cap (overflowed \cup Accepted) = {}
    /\ overflowed \cap Accepted = {}
    /\ Once(Wire) /\ ReplayedInOrder(Wire)
    /\ \A m \in Elements(Wire), x \in Elements(items) : m.stamped => m.fix < x
    /\ \A x \in overflowed, y \in Elements(items) : x < y
    /\ IsFiniteSet(overflowed) /\ overflowCount = Cardinality(overflowed)

(* What the queue no longer has to keep.                                           *)
Gone == Accepted \cup overflowed

(* An item is in every copy that is written after the first with it, until it is gone.    *)
DurableInv ==
  (~readFailed /\ ~rereads) =>
    /\ durable \subseteq Stored \cup Gone
    /\ \A i \in SetOps : Stored \subseteq Elements(ops[i].value) \cup Gone
    /\ \A i, j \in SetOps :
         i < j => Elements(ops[i].value) \subseteq Elements(ops[j].value) \cup Gone
    /\ loaded => /\ Stored \subseteq Elements(items) \cup Gone
                 /\ \A i \in SetOps : Elements(ops[i].value) \subseteq Elements(items) \cup Gone

IInv ==
  /\ TypeOK
  /\ CallsInv
  /\ CopiesInv
  /\ PlaceInv
  /\ DurableInv
  /\ NewestWriteIsCurrent

(* All but the types, which are proved first.                                       *)
Rest == CallsInv /\ CopiesInv /\ PlaceInv /\ DurableInv /\ NewestWriteIsCurrent

-----------------------------------------------------------------------------
(* Types.                                                                      *)

LEMMA OpTypes ==
  /\ GetOp("mount", NoFix) \in Operations /\ GetOp("flush", NoFix) \in Operations
  /\ \A f \in FixNumbers : GetOp("enqueue", f) \in Operations
  /\ \A q \in Seq(FixNumbers), t \in {"none", "release"} : SetOp(t, q) \in Operations
<1>1. GetOp("mount", NoFix) \in Operations /\ GetOp("flush", NoFix) \in Operations
  BY DEF GetOp, Operations
<1>2. \A f \in FixNumbers : GetOp("enqueue", f) \in Operations
  BY DEF GetOp, Operations
<1>3. \A q \in Seq(FixNumbers), t \in {"none", "release"} : SetOp(t, q) \in Operations
  BY DEF SetOp, Operations
<1> QED
  BY <1>1, <1>2, <1>3

LEMMA OpShapes ==
  ASSUME NEW op \in Operations
  PROVE  /\ op.kind \in {"get", "set"} /\ op.value \in Seq(FixNumbers)
         /\ op.kind = "get" => op.then \in {"mount", "enqueue", "flush"} /\ op.value = << >>
         /\ op.kind = "set" => op.then \in {"none", "release"}
         /\ op.then = "enqueue" => op.fix \in FixNumbers
<1>1. << >> \in Seq(FixNumbers)
  BY EmptySeq
<1>2. CASE op \in [kind : {"get"}, then : {"mount", "flush"}, fix : {NoFix}, value : {<< >>}]
  BY <1>1, <1>2
<1>3. CASE op \in [kind : {"get"}, then : {"enqueue"}, fix : FixNumbers, value : {<< >>}]
  BY <1>1, <1>3
<1>4. CASE op \in [kind : {"set"}, then : {"none", "release"}, fix : {NoFix},
                   value : Seq(FixNumbers)]
  BY <1>4
<1> QED
  BY <1>2, <1>3, <1>4 DEF Operations

LEMMA AfterReadTypes ==
  ASSUME TypeOK, NEW ok \in BOOLEAN
  PROVE  AfterRead(ok) \in Seq(FixNumbers)
<1>1. << >> \in Seq(FixNumbers)
  BY EmptySeq
<1> QED
  BY <1>1 DEF TypeOK, AfterRead

LEMMA HeadOp ==
  ASSUME TypeOK, ops # << >>
  PROVE  /\ Head(ops) \in Operations /\ Tail(ops) \in Seq(Operations)
         /\ Elements(ops) = {Head(ops)} \cup Elements(Tail(ops))
BY ElementsHead DEF TypeOK

(* What flushQueuedGps does: nothing, an await of init, or a flush of a queue that is      *)
(* loaded, behind the messages sent before it.                                      *)
LEMMA FlushIs ==
  ASSUME TypeOK, NEW msgs, FlushQueuedGps(msgs)
  PROVE  /\ flushing' \in BOOLEAN
         /\ UNCHANGED overflowCount
         /\ \/ /\ net' = net \o msgs
               /\ UNCHANGED items
               /\ UNCHANGED ops \/ (~loaded /\ ops' = Append(ops, GetOp("flush", NoFix)))
            \/ /\ loaded /\ wsOpen
               /\ net' = net \o msgs \o Replays(Sent(items, TRUE))
               /\ items' = Left(items, TRUE)
               /\ ops' = Append(ops, SetOp("release", items'))
<1>1. CASE flushing \/ ~wsOpen
  BY <1>1 DEF FlushQueuedGps, TypeOK
<1>2. CASE ~(flushing \/ ~wsOpen) /\ loaded
  <2>1. wsOpen = TRUE
    BY <1>2 DEF TypeOK
  <2>2. Drain(items, TRUE, ops) /\ net' = net \o msgs \o Replays(Sent(items, TRUE)) /\ flushing' = TRUE
    BY <1>2, <2>1 DEF FlushQueuedGps
  <2> QED
    BY <1>2, <2>2 DEF Drain, Left
<1>3. CASE ~(flushing \/ ~wsOpen) /\ ~loaded
  BY <1>3 DEF FlushQueuedGps, AwaitInit
<1> QED
  BY <1>1, <1>2, <1>3

LEMMA FlushTypes ==
  ASSUME TypeOK, NEW msgs \in Seq(Messages), FlushQueuedGps(msgs)
  PROVE  /\ items' \in Seq(FixNumbers) /\ ops' \in Seq(Operations)
         /\ net' \in Seq(Messages) /\ flushing' \in BOOLEAN
<1>1. /\ items \in Seq(FixNumbers) /\ ops \in Seq(Operations) /\ net \in Seq(Messages)
      /\ net \o msgs \in Seq(Messages)
  BY ConcatProperties DEF TypeOK
<1>2. CASE /\ net' = net \o msgs
           /\ UNCHANGED items
           /\ UNCHANGED ops \/ (~loaded /\ ops' = Append(ops, GetOp("flush", NoFix)))
  <2>1. Append(ops, GetOp("flush", NoFix)) \in Seq(Operations)
    BY <1>1, OpTypes, AppendProperties
  <2> QED
    BY <1>1, <1>2, <2>1, FlushIs
<1>3. CASE /\ net' = net \o msgs \o Replays(Sent(items, TRUE))
           /\ items' = Left(items, TRUE)
           /\ ops' = Append(ops, SetOp("release", items'))
  <2>1. Left(items, TRUE) \in Seq(FixNumbers) /\ Sent(items, TRUE) \in Seq(FixNumbers)
    BY <1>1, DrainLeaves
  <2>2. Append(ops, SetOp("release", items')) \in Seq(Operations)
    BY <1>1, <1>3, <2>1, OpTypes, AppendProperties
  <2>3. Replays(Sent(items, TRUE)) \in Seq(Messages)
    BY <2>1, ReplaysAre
  <2>4. net' \in Seq(Messages)
    BY <1>1, <1>3, <2>3, ConcatProperties
  <2> QED
    BY <1>3, <2>1, <2>2, <2>4, FlushIs
<1> QED
  BY <1>2, <1>3, FlushIs

(* What a push leaves behind, of any queue and behind any pending operations.           *)
LEMMA PushIs ==
  ASSUME TypeOK, NEW q \in Seq(FixNumbers), Len(q) <= MaxItems, NEW fix \in FixNumbers,
         NEW pending \in Seq(Operations), Push(q, fix, pending)
  PROVE  /\ items' = Kept(q, fix)
         /\ items' \in Seq(FixNumbers) /\ Len(items') <= MaxItems
         /\ ops' = Append(pending, SetOp("none", items'))
         /\ SetOp("none", items') \in Operations
         /\ ops' \in Seq(Operations)
         /\ overflowCount' = overflowCount + Excess(Len(Append(q, fix)))
         /\ overflowCount' \in Nat
         /\ Overflow(q, fix) \subseteq FixNumbers
<1>1. /\ items' = Kept(q, fix) /\ ops' = Append(pending, SetOp("none", items'))
      /\ overflowCount' = overflowCount + Excess(Len(Append(q, fix)))
  BY DEF Push, Kept
<1>2. items' \in Seq(FixNumbers) /\ Len(items') <= MaxItems
  BY <1>1, PushKeeps
<1>3. SetOp("none", items') \in Operations
  BY <1>2, OpTypes
<1>4. ops' \in Seq(Operations)
  BY <1>1, <1>3, AppendProperties
<1>5. Excess(Len(Append(q, fix))) \in {0, 1} /\ Overflow(q, fix) \subseteq FixNumbers
  BY PushKeeps
<1>6. overflowCount' \in Nat
  BY <1>1, <1>5 DEF TypeOK
<1> QED
  BY <1>1, <1>2, <1>3, <1>4, <1>5, <1>6

LEMMA InvInit == Init => IInv
<1> SUFFICES ASSUME Init PROVE IInv
  OBVIOUS
<1> DEFINE mount == GetOp("mount", NoFix)
<1>1. ops = << mount >> /\ mount \in Operations /\ mount.kind = "get" /\ mount.then = "mount"
      /\ mount.value = << >>
  BY OpTypes DEF Init, GetOp
<1> HIDE DEF mount
<1>2. /\ ops \in Seq(Operations) /\ Elements(ops) = {mount} /\ Len(ops) = 1 /\ ops[1] = mount
      /\ ops # << >> /\ Head(ops) = mount /\ Tail(ops) = << >>
  BY <1>1 DEF Elements
<1>3. << >> \in Seq(FixNumbers) /\ << >> \in Seq(Messages) /\ Len(<< >>) = 0
      /\ Elements(<< >>) = {}
  BY EmptySeq DEF Elements
<1>4. storage = << >> \/ (storage = << << >> >> /\ storage[1] = << >> /\ storage # << >>)
  BY DEF Init, QueueInit
<1>5. TypeOK
  <2>1. storage = << >> \/ (storage = << storage[1] >> /\ storage[1] \in Seq(FixNumbers))
    BY <1>3, <1>4
  <2>2. 0 \in 0..MaxFixes /\ 0 \in 0..MaxOpens /\ 0 \in 0..MaxCrashes /\ 0 \in 0..MaxFailures
    BY BoundsAssumption
  <2> QED
    BY <1>2, <1>3, <2>1, <2>2 DEF Init, QueueInit, TypeOK
<1>6. Waiting = {} /\ Stored = {} /\ SetOps = {}
  <2>1. Stored = {}
    BY <1>3, <1>4 DEF Stored
  <2> QED
    BY <1>1, <1>2, <2>1 DEF Waiting, SetOps
<1>7. csv = << >> /\ net = << >> /\ Wire = << >> /\ items = << >>
  <2>1. csv = << >> /\ net = << >> /\ items = << >>
    BY DEF Init, QueueInit
  <2> QED
    BY <1>3, <2>1, ConcatEmptySeq DEF Wire
<1>8. Accepted = {} /\ Elements(items) = {} /\ Elements(Wire) = {}
  BY <1>3, <1>7 DEF Init, Accepted, FixesOf
<1>9. CallsInv
  BY <1>1, <1>2, <1>3, <1>6 DEF Init, QueueInit, CallsInv
<1>10. CopiesInv
  <2>1. Copies = {<< >>}
    BY <1>1, <1>2, <1>4, <1>7 DEF Copies
  <2>2. Sorted(<< >>) /\ 0 <= MaxItems
    BY MaxItemsAssumption DEF Sorted
  <2> QED
    BY <1>3, <2>1, <2>2 DEF CopiesInv
<1>11. PlaceInv
  <2>1. Once(Wire) /\ ReplayedInOrder(Wire)
    BY <1>3, <1>7 DEF Once, ReplayedInOrder
  <2>2. overflowed = {} /\ fixes = 0 /\ overflowCount = 0 /\ 1..0 = {}
    BY DEF Init, QueueInit
  <2> QED
    BY <1>6, <1>8, <2>1, <2>2, FS_EmptySet DEF PlaceInv
<1>12. DurableInv
  BY <1>6 DEF Init, QueueInit, DurableInv
<1>13. NewestWriteIsCurrent
  BY DEF Init, QueueInit, NewestWriteIsCurrent
<1> QED
  BY <1>5, <1>9, <1>10, <1>11, <1>12, <1>13 DEF IInv

LEMMA TypeNext == IInv /\ [Next]_vars => TypeOK'
<1> SUFFICES ASSUME IInv, [Next]_vars PROVE TypeOK'
  OBVIOUS
<1>1. TypeOK
  BY DEF IInv
<1> USE <1>1 DEF queueVars, netVars, boundVars, historyVars
<1>2. items \in Seq(FixNumbers) /\ Len(items) <= MaxItems /\ ops \in Seq(Operations)
  BY DEF IInv, CopiesInv, Copies, TypeOK
<1>3. ASSUME GpsFix PROVE TypeOK'
  <2>1. fixes + 1 \in FixNumbers /\ fixes' \in 0..MaxFixes
    BY <1>3, BoundsAssumption DEF GpsFix, TypeOK, FixNumbers
  <2>2. CASE wsOpen
    <3>1. << Live(fixes + 1) >> \in Seq(Messages)
      BY <2>1, LiveIs
    <3>2. FlushQueuedGps(<< Live(fixes + 1) >>) /\ UNCHANGED overflowed
      BY <1>3, <2>2 DEF GpsFix
    <3>3. /\ items' \in Seq(FixNumbers) /\ ops' \in Seq(Operations)
          /\ net' \in Seq(Messages) /\ flushing' \in BOOLEAN /\ UNCHANGED overflowCount
      BY <3>1, <3>2, FlushTypes, FlushIs
    <3> QED
      BY <1>3, <2>1, <3>2, <3>3 DEF GpsFix, TypeOK
  <2>3. CASE ~wsOpen /\ loaded
    <3>1. /\ Push(items, fixes + 1, ops)
          /\ overflowed' = overflowed \cup Overflow(items, fixes + 1)
          /\ UNCHANGED <<net, flushing>>
      BY <1>3, <2>3 DEF GpsFix
    <3>2. /\ items' \in Seq(FixNumbers) /\ ops' \in Seq(Operations)
          /\ overflowCount' \in Nat /\ Overflow(items, fixes + 1) \subseteq FixNumbers
      BY <1>2, <2>1, <3>1, PushIs
    <3> QED
      BY <1>3, <2>1, <3>1, <3>2 DEF GpsFix, TypeOK
  <2>4. CASE ~wsOpen /\ ~loaded
    <3>1. /\ ops' = Append(ops, GetOp("enqueue", fixes + 1))
          /\ UNCHANGED <<items, overflowCount, overflowed, net, flushing>>
      BY <1>3, <2>4 DEF GpsFix, AwaitInit
    <3>2. ops' \in Seq(Operations)
      BY <1>2, <2>1, <3>1, OpTypes, AppendProperties
    <3> QED
      BY <1>3, <2>1, <3>1, <3>2 DEF GpsFix, TypeOK
  <2> QED
    BY <2>2, <2>3, <2>4
<1>4. ASSUME ConnectedEffect PROVE TypeOK'
  <2>1. << >> \in Seq(Messages) /\ FlushQueuedGps(<< >>)
    BY <1>4, EmptySeq DEF ConnectedEffect
  <2>2. /\ items' \in Seq(FixNumbers) /\ ops' \in Seq(Operations)
        /\ net' \in Seq(Messages) /\ flushing' \in BOOLEAN /\ UNCHANGED overflowCount
    BY <2>1, FlushTypes, FlushIs
  <2> QED
    BY <1>4, <2>2 DEF ConnectedEffect, TypeOK
<1>5. ASSUME NEW ok \in BOOLEAN, ReadReturns(ok) PROVE TypeOK'
  <2> DEFINE q == AfterRead(ok)
  <2>1. q \in Seq(FixNumbers) /\ Len(q) <= MaxItems
    <3>1. q = << >> \/ q = items \/ (storage # << >> /\ q = storage[1])
      BY DEF AfterRead
    <3>2. Len(<< >>) = 0 /\ 0 <= MaxItems
      BY MaxItemsAssumption
    <3>3. storage # << >> => Len(storage[1]) <= MaxItems
      BY DEF IInv, CopiesInv, Copies
    <3> QED
      BY <1>2, <3>1, <3>2, <3>3, AfterReadTypes
  <2> HIDE DEF q
  <2>2. ops # << >> /\ Head(ops) \in Operations /\ Tail(ops) \in Seq(Operations)
    BY <1>5, HeadOp DEF ReadReturns
  <2>3. /\ failures' \in 0..MaxFailures
        /\ {loaded', rereads', readFailed'} \subseteq BOOLEAN
    BY <1>5, BoundsAssumption DEF ReadReturns, TypeOK
  <2>4. CASE Head(ops).then = "mount" /\ items' = q /\ ops' = Tail(ops)
             /\ UNCHANGED <<overflowCount, overflowed, net>>
    BY <1>5, <2>1, <2>2, <2>3, <2>4 DEF ReadReturns, TypeOK
  <2>5. CASE /\ Head(ops).then = "enqueue"
             /\ Push(q, Head(ops).fix, Tail(ops))
             /\ overflowed' = overflowed \cup Overflow(q, Head(ops).fix)
             /\ UNCHANGED net
    <3>1. Head(ops).fix \in FixNumbers
      BY <2>2, <2>5, OpShapes
    <3>2. /\ items' \in Seq(FixNumbers) /\ ops' \in Seq(Operations)
          /\ overflowCount' \in Nat /\ Overflow(q, Head(ops).fix) \subseteq FixNumbers
      BY <2>1, <2>2, <2>5, <3>1, PushIs
    <3> QED
      BY <1>5, <2>3, <2>5, <3>2 DEF ReadReturns, TypeOK
  <2>6. CASE /\ Drain(q, wsOpen, Tail(ops))
             /\ net' = net \o Replays(Sent(q, wsOpen))
             /\ UNCHANGED overflowed
    <3>1. items' = Left(q, wsOpen) /\ ops' = Append(Tail(ops), SetOp("release", items'))
          /\ UNCHANGED overflowCount
      BY <2>6 DEF Drain, Left
    <3>2. items' \in Seq(FixNumbers) /\ Sent(q, wsOpen) \in Seq(FixNumbers)
      BY <2>1, <3>1, DrainLeaves DEF TypeOK
    <3>3. ops' \in Seq(Operations)
      BY <2>2, <3>1, <3>2, OpTypes, AppendProperties
    <3>4. net' \in Seq(Messages)
      <4>1. Replays(Sent(q, wsOpen)) \in Seq(Messages) /\ net \in Seq(Messages)
        BY <3>2, ReplaysAre DEF TypeOK
      <4> QED
        BY <2>6, <4>1, ConcatProperties
    <3> QED
      BY <1>5, <2>3, <2>6, <3>1, <3>2, <3>3, <3>4 DEF ReadReturns, TypeOK
  <2> QED
    BY <1>5, <2>4, <2>5, <2>6 DEF ReadReturns, q
<1>6. ASSUME NEW ok \in BOOLEAN, WriteReturns(ok) PROVE TypeOK'
  <2> DEFINE v == Head(ops).value
  <2>1. ops # << >> /\ Head(ops) \in Operations /\ Tail(ops) \in Seq(Operations)
    BY <1>6, HeadOp DEF WriteReturns
  <2>2. v \in Seq(FixNumbers)
    BY <2>1, OpShapes
  <2>3. Elements(v) \subseteq FixNumbers
    BY <2>2, ElementOfSeq DEF Elements
  <2>4. /\ failures' \in 0..MaxFailures
        /\ {flushing', writeFailed'} \subseteq BOOLEAN
    <3>1. failures \in 0..MaxFailures /\ flushing \in BOOLEAN
      BY DEF TypeOK
    <3>2. failures' \in 0..MaxFailures
      BY <1>6, <3>1, BoundsAssumption DEF WriteReturns
    <3> QED
      BY <1>6, <3>1, <3>2 DEF WriteReturns
  <2>5. storage' = IF ok THEN << v >> ELSE storage
    BY <1>6 DEF WriteReturns, StoreWrite
  <2>6. durable' \subseteq FixNumbers
    BY <1>6, <2>3 DEF WriteReturns, TypeOK
  <2> HIDE DEF v
  <2>7. storage' = << >> \/ (storage' = << storage'[1] >> /\ storage'[1] \in Seq(FixNumbers))
    BY <2>2, <2>5 DEF TypeOK
  <2> QED
    BY <1>6, <2>1, <2>4, <2>6, <2>7 DEF WriteReturns, TypeOK
<1>7. ASSUME WsOpens PROVE TypeOK'
  BY <1>7, BoundsAssumption DEF WsOpens, TypeOK
<1>8. Elements(net) \subseteq Messages
  BY ElementOfSeq DEF TypeOK, Elements
<1>9. ASSUME WsCloses PROVE TypeOK'
  <2>1. net' \in Seq(Messages)
    BY <1>9, EmptySeq DEF WsCloses
  <2> QED
    BY <1>8, <1>9, <2>1 DEF WsCloses, TypeOK
<1>10. ASSUME NetDelivers PROVE TypeOK'
  <2>1. Head(net) \in Messages /\ Tail(net) \in Seq(Messages)
    BY <1>10, ElementsHead DEF NetDelivers, TypeOK
  <2>2. Append(csv, Head(net)) \in Seq(Messages)
    BY <2>1, AppendProperties DEF TypeOK
  <2> QED
    BY <1>10, <2>1, <2>2 DEF NetDelivers, TypeOK
<1>11. ASSUME Crash PROVE TypeOK'
  <2>1. /\ << >> \in Seq(FixNumbers) /\ << >> \in Seq(Messages)
        /\ << GetOp("mount", NoFix) >> \in Seq(Operations)
    BY EmptySeq, OpTypes
  <2>2. crashes' \in 0..MaxCrashes
    BY <1>11, BoundsAssumption DEF Crash, TypeOK
  <2> QED
    BY <1>8, <1>11, <2>1, <2>2 DEF Crash, TypeOK
<1>12. CASE UNCHANGED vars
  BY <1>12 DEF vars, TypeOK
<1> QED
  BY <1>3, <1>4, <1>5, <1>6, <1>7, <1>9, <1>10, <1>11, <1>12 DEF Next, StorageReturns

-----------------------------------------------------------------------------
(* How the parts of the invariant move.                                           *)

LEMMA AcceptedIs ==
  ASSUME TypeOK
  PROVE  /\ Wire \in Seq(Messages)
         /\ Accepted = FixesOf(Wire) \cup {m.fix : m \in netLost}
<1>1. net \in Seq(Messages) /\ csv \in Seq(Messages)
  BY DEF TypeOK
<1>2. FixesOf(csv \o net) = FixesOf(csv) \cup FixesOf(net)
  BY <1>1, FixesConcat
<1>3. csv \o net \in Seq(Messages)
  BY <1>1, ConcatProperties
<1> QED
  BY <1>2, <1>3 DEF Wire, Accepted

LEMMA WireGrows ==
  ASSUME TypeOK, NEW m \in Seq(Messages), net' = net \o m, UNCHANGED <<csv, netLost>>
  PROVE  Wire' = Wire \o m /\ Accepted' = Accepted \cup FixesOf(m)
<1>1. net \in Seq(Messages) /\ csv \in Seq(Messages)
  BY DEF TypeOK
<1>2. Wire' = csv \o (net \o m)
  BY DEF Wire
<1>3. Wire' = Wire \o m
  <2>1. (csv \o net) \o m = csv \o (net \o m)
    BY <1>1, MessagesAssociative
  <2> QED
    BY <1>2, <2>1 DEF Wire
<1>4. FixesOf(net') = FixesOf(net) \cup FixesOf(m)
  BY <1>1, FixesConcat
<1> QED
  BY <1>3, <1>4 DEF Accepted

(* Another operation behind those pending.                                        *)
LEMMA OpsAppend ==
  ASSUME TypeOK, NEW op \in Operations, ops' = Append(ops, op)
  PROVE  /\ ops' # << >> /\ (ops # << >> => Head(ops') = Head(ops))
         /\ ops # << >> => Elements(Tail(ops')) = Elements(Tail(ops)) \cup {op}
         /\ Elements(ops') = Elements(ops) \cup {op}
         /\ Waiting' = Waiting \cup (IF op.then = "enqueue" THEN {op.fix} ELSE {})
         /\ SetOps' = SetOps \cup (IF op.kind = "set" THEN {Len(ops) + 1} ELSE {})
         /\ \A i \in SetOps : ops'[i] = ops[i] /\ i < Len(ops) + 1
         /\ ops'[Len(ops) + 1] = op
         /\ Len(ops) \in Nat /\ SetOps \subseteq Int
<1>1. /\ Len(ops') = Len(ops) + 1 /\ Len(ops) \in Nat /\ ops' # << >>
      /\ \A i \in 1..Len(ops) : ops'[i] = ops[i]
      /\ ops'[Len(ops) + 1] = op
      /\ Elements(ops') = Elements(ops) \cup {op}
      /\ ops # << >> => Head(ops') = Head(ops)
  BY AppendProperties, ElementsAppend, HeadTailAppend DEF TypeOK
<1>2. Waiting' = Waiting \cup (IF op.then = "enqueue" THEN {op.fix} ELSE {})
  BY <1>1 DEF Waiting
<1>4. ASSUME ops # << >> PROVE Elements(Tail(ops')) = Elements(Tail(ops)) \cup {op}
  <2>1. Tail(ops') = Append(Tail(ops), op) /\ Tail(ops) \in Seq(Operations)
    BY <1>4, HeadTailAppend, HeadTailProperties DEF TypeOK
  <2>2. ASSUME NEW rest \in Seq(Operations)
        PROVE  Elements(Append(rest, op)) = Elements(rest) \cup {op}
    BY ElementsAppend
  <2>3. Elements(Append(Tail(ops), op)) = Elements(Tail(ops)) \cup {op}
    BY <2>1, <2>2
  <2> QED
    BY <2>1, <2>3
<1>3. SetOps' = SetOps \cup (IF op.kind = "set" THEN {Len(ops) + 1} ELSE {})
  BY <1>1 DEF SetOps
<1> QED
  BY <1>1, <1>2, <1>3, <1>4 DEF SetOps

(* The first of the pending operations is over.                                     *)
LEMMA OpsTail ==
  ASSUME TypeOK, ops # << >>, ops' = Tail(ops)
  PROVE  /\ Elements(ops) = Elements(ops') \cup {Head(ops)}
         /\ Head(ops).then # "enqueue" => Waiting' = Waiting
         /\ \A i : i \in SetOps' => i \in Nat /\ i + 1 \in SetOps /\ ops'[i] = ops[i + 1]
         /\ \A i \in SetOps : i \in Nat /\ (i > 1 => i - 1 \in SetOps' /\ ops'[i - 1] = ops[i])
         /\ Head(ops).kind = "set" => 1 \in SetOps
         /\ ops[1] = Head(ops)
<1>1. /\ Head(ops) = ops[1] /\ Len(ops) \in Nat /\ Len(ops) >= 1 /\ Len(ops') = Len(ops) - 1
      /\ \A i \in 1..(Len(ops) - 1) : ops'[i] = ops[i + 1]
      /\ Elements(ops) = {Head(ops)} \cup Elements(ops')
  BY ElementsHead DEF TypeOK
<1>2. Head(ops).then # "enqueue" => Waiting' = Waiting
  BY <1>1 DEF Waiting
<1>3. ASSUME NEW i, i \in SetOps' PROVE i \in Nat /\ i + 1 \in SetOps /\ ops'[i] = ops[i + 1]
  <2>1. i \in 1..(Len(ops) - 1) /\ ops'[i].kind = "set"
    BY <1>1, <1>3 DEF SetOps
  <2> QED
    BY <1>1, <2>1 DEF SetOps
<1>4. ASSUME NEW i \in SetOps PROVE i \in Nat /\ (i > 1 => i - 1 \in SetOps' /\ ops'[i - 1] = ops[i])
  <2>1. i \in 1..Len(ops) /\ ops[i].kind = "set"
    BY DEF SetOps
  <2>2. ASSUME i > 1 PROVE i - 1 \in SetOps' /\ ops'[i - 1] = ops[i]
    <3>1. i - 1 \in 1..(Len(ops) - 1) /\ ops'[i - 1] = ops[i]
      BY <1>1, <2>1, <2>2
    <3> QED
      BY <1>1, <2>1, <3>1 DEF SetOps
  <2> QED
    BY <1>1, <2>1, <2>2
<1>5. Head(ops).kind = "set" => 1 \in SetOps
  BY <1>1 DEF SetOps
<1> QED
  BY <1>1, <1>2, <1>3, <1>4, <1>5

(* A step adds one copy at most, the queue in memory; the rest is time.                *)
LEMMA CopiesGrow ==
  ASSUME CopiesInv, fixes' \in Nat, fixes \in Nat, fixes <= fixes', TypeOK,
         Copies' \subseteq Copies \cup {items', << >>},
         rereads => rereads',
         Len(items') <= MaxItems, \A x \in Elements(items') : x <= fixes',
         ~rereads' => Sorted(items')
  PROVE  CopiesInv'
<1>1. ASSUME NEW q \in Copies
      PROVE  /\ Len(q) <= MaxItems /\ \A x \in Elements(q) : x <= fixes'
             /\ ~rereads' => Sorted(q)
  <2>1. q \in Seq(FixNumbers)
    <3>1. \A op \in Elements(ops) : op.value \in Seq(FixNumbers)
      BY OpShapes, ElementOfSeq DEF TypeOK, Elements
    <3> QED
      BY <3>1 DEF Copies, TypeOK
  <2>2. Elements(q) \subseteq FixNumbers
    BY <2>1, ElementOfSeq DEF Elements
  <2>3. Elements(q) \subseteq Int
    BY <2>2 DEF FixNumbers
  <2> QED
    BY <2>3 DEF CopiesInv
<1>2. /\ Len(<< >>) <= MaxItems /\ \A x \in Elements(<< >>) : x <= fixes'
      /\ Sorted(<< >>)
  BY MaxItemsAssumption DEF Elements, Sorted
<1> QED
  BY <1>1, <1>2 DEF CopiesInv

(* A write of the queue is issued: it is the newest, and every older one that will be     *)
(* executed has nothing that the queue has lost.                                     *)
LEMMA WriteIssued ==
  ASSUME TypeOK, DurableInv, loaded,
         NEW t \in {"none", "release"}, items' \in Seq(FixNumbers),
         ops' = Append(ops, SetOp(t, items')),
         Gone \subseteq Gone', Elements(items) \subseteq Elements(items') \cup Gone',
         UNCHANGED <<storage, durable, loaded, readFailed, rereads>>
  PROVE  DurableInv' /\ NewestWriteIsCurrent'
<1> DEFINE op == SetOp(t, items')
<1>1. op \in Operations /\ op.kind = "set" /\ op.value = items'
  BY OpTypes DEF SetOp
<1> HIDE DEF op
<1>2. /\ SetOps' = SetOps \cup {Len(ops) + 1}
      /\ \A i \in SetOps : ops'[i] = ops[i] /\ i < Len(ops) + 1
      /\ ops'[Len(ops) + 1] = op
      /\ Len(ops) \in Nat /\ SetOps \subseteq Int
  BY <1>1, OpsAppend DEF op
<1>3. NewestWriteIsCurrent'
  <2>1. Len(ops) + 1 \in SetOps' /\ ops'[Len(ops) + 1].value = items'
    BY <1>1, <1>2
  <2>2. \A j \in SetOps' : j <= Len(ops) + 1
    BY <1>2
  <2> QED
    BY <2>1, <2>2 DEF NewestWriteIsCurrent
<1>4. ASSUME ~readFailed, ~rereads PROVE DurableInv'
  <2>1. Stored' = Stored
    BY DEF Stored
  <2>2. /\ durable \subseteq Stored \cup Gone
        /\ \A i \in SetOps : Stored \subseteq Elements(ops[i].value) \cup Gone
        /\ \A i, j \in SetOps :
             i < j => Elements(ops[i].value) \subseteq Elements(ops[j].value) \cup Gone
        /\ Stored \subseteq Elements(items) \cup Gone
        /\ \A i \in SetOps : Elements(ops[i].value) \subseteq Elements(items) \cup Gone
    BY <1>4 DEF DurableInv
  <2>3. \A i \in SetOps' : Stored' \subseteq Elements(ops'[i].value) \cup Gone'
    <3> SUFFICES ASSUME NEW i \in SetOps'
                 PROVE  Stored \subseteq Elements(ops'[i].value) \cup Gone'
      BY <2>1
    <3>1. CASE i \in SetOps
      BY <1>2, <2>2, <3>1
    <3>2. CASE i = Len(ops) + 1
      BY <1>1, <1>2, <2>2, <3>2
    <3> QED
      BY <1>2, <3>1, <3>2
  <2>4. ASSUME NEW i \in SetOps', NEW j \in SetOps', i < j
        PROVE  Elements(ops'[i].value) \subseteq Elements(ops'[j].value) \cup Gone'
    <3>1. CASE j \in SetOps
      <4>1. j \in Int /\ j < Len(ops) + 1 /\ Len(ops) \in Nat
        BY <1>2, <3>1
      <4>2. i # Len(ops) + 1
        BY <2>4, <4>1
      <4>3. i \in SetOps
        BY <1>2, <2>4, <4>2
      <4> QED
        BY <1>2, <2>2, <2>4, <3>1, <4>3
    <3>2. CASE j = Len(ops) + 1
      <4>1. i \in SetOps
        BY <1>2, <2>4, <3>2
      <4> QED
        BY <1>1, <1>2, <2>2, <3>2, <4>1
    <3> QED
      BY <1>2, <3>1, <3>2
  <2>5. \A i \in SetOps' : Elements(ops'[i].value) \subseteq Elements(items') \cup Gone'
    BY <1>1, <1>2, <2>2
  <2> QED
    BY <2>1, <2>2, <2>3, <2>4, <2>5 DEF DurableInv
<1> QED
  BY <1>3, <1>4 DEF DurableInv

-----------------------------------------------------------------------------
(* The steps.                                                                  *)

(* The queue is left alone, and what was accepted stays accepted.                     *)
LEMMA QuietKeeps ==
  ASSUME IInv, UNCHANGED <<queueVars, fixes, crashes, historyVars>>, Accepted' = Accepted,
         Elements(Wire') \subseteq Elements(Wire),
         Once(Wire) => Once(Wire'), ReplayedInOrder(Wire) => ReplayedInOrder(Wire')
  PROVE  Rest'
<1> USE DEF IInv, queueVars, historyVars
<1>1. UNCHANGED <<Waiting, Stored, SetOps, Copies>>
  BY DEF Waiting, Stored, SetOps, Copies
<1>2. CallsInv'
  BY <1>1 DEF CallsInv
<1>3. CopiesInv'
  BY <1>1 DEF CopiesInv
<1>4. PlaceInv'
  BY <1>1 DEF PlaceInv
<1>5. DurableInv'
  BY <1>1 DEF DurableInv, Gone
<1>6. NewestWriteIsCurrent'
  BY <1>1 DEF NewestWriteIsCurrent
<1> QED
  BY <1>2, <1>3, <1>4, <1>5, <1>6 DEF Rest

(* A fix that comes offline before the queue is loaded waits.                         *)
LEMMA AwaitKeeps ==
  ASSUME IInv, ~loaded, fixes < MaxFixes, fixes' = fixes + 1,
         ops' = Append(ops, GetOp("enqueue", fixes + 1)),
         UNCHANGED <<items, loaded, overflowCount, storage, net, csv, netLost, crashes,
                     historyVars>>
  PROVE  Rest'
<1> DEFINE op == GetOp("enqueue", fixes + 1)
<1>1. TypeOK /\ CallsInv /\ fixes \in Nat /\ fixes + 1 \in FixNumbers
  <2>1. TypeOK /\ CallsInv
    BY DEF IInv
  <2>2. fixes \in 0..MaxFixes
    BY <2>1 DEF TypeOK
  <2> QED
    BY <2>1, <2>2, BoundsAssumption DEF FixNumbers
<1>2. /\ op \in Operations /\ op.kind = "get" /\ op.then = "enqueue" /\ op.fix = fixes + 1
      /\ op.value = << >>
  BY <1>1, OpTypes DEF GetOp
<1> HIDE DEF op
<1>3. /\ ops' # << >> /\ Head(ops') = Head(ops)
      /\ Elements(Tail(ops')) = Elements(Tail(ops)) \cup {op}
      /\ Elements(ops') = Elements(ops) \cup {op}
      /\ Waiting' = Waiting \cup {fixes + 1}
      /\ SetOps' = SetOps
      /\ \A i \in SetOps : ops'[i] = ops[i]
  <2>1. ops # << >>
    BY <1>1 DEF CallsInv
  <2>2. ops' = Append(ops, op)
    BY DEF op
  <2>3. /\ ops' # << >> /\ (ops # << >> => Head(ops') = Head(ops))
        /\ ops # << >> => Elements(Tail(ops')) = Elements(Tail(ops)) \cup {op}
        /\ Elements(ops') = Elements(ops) \cup {op}
        /\ Waiting' = Waiting \cup (IF op.then = "enqueue" THEN {op.fix} ELSE {})
        /\ SetOps' = SetOps \cup (IF op.kind = "set" THEN {Len(ops) + 1} ELSE {})
        /\ \A i \in SetOps : ops'[i] = ops[i] /\ i < Len(ops) + 1
    BY <1>1, <1>2, <2>2, OpsAppend
  <2> QED
    BY <1>2, <2>1, <2>3
<1>4. UNCHANGED <<items, loaded, overflowCount, storage, crashes, rereads, readFailed,
                  writeFailed, overflowed, durable, Stored, Accepted, Wire, Gone>>
  BY DEF historyVars, Stored, Accepted, Wire, Gone
<1>5. CallsInv'
  <2>1. overflowed \subseteq 1..(fixes + 1) /\ \A x \in Waiting : x <= fixes + 1
    <3>1. Waiting \subseteq FixNumbers
      BY <1>1, OpShapes, ElementOfSeq DEF Waiting, Elements, TypeOK
    <3> QED
      BY <1>1, <3>1 DEF CallsInv, FixNumbers
  <2> QED
    BY <1>1, <1>2, <1>3, <1>4, <2>1 DEF CallsInv
<1>6. CopiesInv'
  <2>1. Copies' \subseteq Copies \cup {<< >>}
    BY <1>2, <1>3, <1>4 DEF Copies
  <2>2. items = << >>
    BY <1>1 DEF CallsInv
  <2>3. Len(items') <= MaxItems /\ (\A x \in Elements(items') : x <= fixes') /\ Sorted(items')
    BY <1>4, <2>2, MaxItemsAssumption DEF Elements, Sorted
  <2> QED
    BY <1>1, <1>4, <2>1, <2>3, CopiesGrow DEF IInv
<1>7. PlaceInv'
  <2> SUFFICES ASSUME crashes = 0, ~rereads PROVE PlaceInv'
    BY <1>4 DEF PlaceInv
  <2>1. fixes + 1 \notin 1..fixes /\ 1..(fixes + 1) = (1..fixes) \cup {fixes + 1}
    BY <1>1
  <2>2. /\ Stored = {}
        /\ Waiting \cup Elements(items) \cup overflowed \cup Accepted = 1..fixes
        /\ Waiting \cap (Elements(items) \cup overflowed \cup Accepted) = {}
        /\ Elements(items) \cap (overflowed \cup Accepted) = {}
        /\ overflowed \cap Accepted = {}
    BY DEF IInv, PlaceInv
  <2>3. /\ Waiting' \cup Elements(items) \cup overflowed \cup Accepted = 1..fixes'
        /\ Waiting' \cap (Elements(items) \cup overflowed \cup Accepted) = {}
    BY <1>3, <2>1, <2>2
  <2> QED
    BY <1>4, <2>2, <2>3 DEF IInv, PlaceInv
<1>8. DurableInv'
  <2>1. SetOps = {}
    BY <1>1 DEF CallsInv, SetOps, Elements
  <2> QED
    BY <1>3, <1>4, <2>1 DEF IInv, DurableInv
<1>9. NewestWriteIsCurrent'
  BY <1>4 DEF NewestWriteIsCurrent
<1> QED
  BY <1>5, <1>6, <1>7, <1>8, <1>9 DEF Rest

(* A fix that comes offline is pushed.                                             *)
LEMMA PushKept ==
  ASSUME IInv, loaded, fixes < MaxFixes, fixes' = fixes + 1,
         Push(items, fixes + 1, ops), overflowed' = overflowed \cup Overflow(items, fixes + 1),
         UNCHANGED <<loaded, storage, net, csv, netLost, crashes, rereads, readFailed,
                     writeFailed, durable>>
  PROVE  Rest'
<1>1. /\ TypeOK /\ CallsInv /\ fixes \in Nat /\ fixes + 1 \in FixNumbers
      /\ items \in Seq(FixNumbers) /\ Len(items) <= MaxItems /\ ops \in Seq(Operations)
  <2>1. TypeOK /\ CallsInv /\ Len(items) <= MaxItems
    BY DEF IInv, CopiesInv, Copies
  <2>2. items \in Seq(FixNumbers) /\ ops \in Seq(Operations) /\ fixes \in 0..MaxFixes
    BY <2>1 DEF TypeOK
  <2> QED
    BY <2>1, <2>2, BoundsAssumption DEF FixNumbers
<1> DEFINE over == Overflow(items, fixes + 1)
<1>2. /\ items' = Kept(items, fixes + 1)
      /\ items' \in Seq(FixNumbers) /\ Len(items') <= MaxItems
      /\ ops' = Append(ops, SetOp("none", items'))
      /\ SetOp("none", items') \in Operations
      /\ overflowCount' = overflowCount + Excess(Len(Append(items, fixes + 1)))
  BY <1>1, PushIs
<1>3. /\ Elements(items) \cup {fixes + 1} = Elements(items') \cup over
      /\ \/ Excess(Len(Append(items, fixes + 1))) = 0 /\ over = {}
         \/ /\ Excess(Len(Append(items, fixes + 1))) = 1
            /\ \E x \in FixNumbers : over = {x}
  BY <1>1, <1>2, PushKeeps
<1>4. \A x \in Elements(items) : x <= fixes /\ x \in Nat /\ x \in 1..fixes
  <2>1. \A x \in Elements(items) : x <= fixes
    BY DEF IInv, CopiesInv, Copies
  <2>2. Elements(items) \subseteq FixNumbers
    BY <1>1, ElementOfSeq DEF Elements
  <2> QED
    BY <1>1, <2>1, <2>2 DEF FixNumbers
<1>5. ~rereads => Sorted(items') /\ \A x \in over, y \in Elements(items') : x < y
  <2>1. ~rereads => Sorted(items)
    BY DEF IInv, CopiesInv, Copies
  <2>2. \A x \in Elements(items) : x < fixes + 1
    BY <1>1, <1>4
  <2> QED
    BY <1>1, <1>2, <2>1, <2>2, PushSorted
<1> HIDE DEF over
<1>6. UNCHANGED <<Stored, Accepted, Wire>> /\ overflowed' = overflowed \cup over
  BY DEF Stored, Accepted, Wire, over
<1>7. /\ Elements(ops') = Elements(ops) \cup {SetOp("none", items')}
      /\ Waiting' = Waiting
      /\ SetOp("none", items').then = "none" /\ SetOp("none", items').value = items'
  <2>1. SetOp("none", items').then = "none" /\ SetOp("none", items').value = items'
    BY DEF SetOp
  <2>2. "none" # "enqueue"
    OBVIOUS
  <2> QED
    BY <1>1, <1>2, <2>1, <2>2, OpsAppend
<1>8. 1..(fixes + 1) = (1..fixes) \cup {fixes + 1} /\ fixes + 1 \notin 1..fixes
  BY <1>1
<1>9. over \subseteq 1..fixes'
  BY <1>3, <1>4, <1>8
<1>10. CallsInv'
  <2>1. overflowed' \subseteq 1..fixes'
    BY <1>1, <1>6, <1>8, <1>9 DEF CallsInv
  <2>2. \A x \in Waiting : x <= fixes + 1
    <3>1. Waiting \subseteq FixNumbers
      BY <1>1, OpShapes, ElementOfSeq DEF Waiting, Elements, TypeOK
    <3> QED
      BY <1>1, <3>1 DEF CallsInv, FixNumbers
  <2> QED
    BY <1>1, <1>7, <2>1, <2>2 DEF CallsInv
<1>11. CopiesInv'
  <2>1. Copies' \subseteq Copies \cup {items'}
    BY <1>7 DEF Copies
  <2>2. \A x \in Elements(items') : x <= fixes'
    BY <1>1, <1>3, <1>4
  <2> QED
    BY <1>1, <1>2, <1>5, <2>1, <2>2, CopiesGrow DEF IInv
<1>12. PlaceInv'
  <2> SUFFICES ASSUME crashes = 0, ~rereads PROVE PlaceInv'
    BY DEF PlaceInv
  <2>1. /\ Waiting \cup Elements(items) \cup overflowed \cup Accepted = 1..fixes
        /\ Waiting \cap (Elements(items) \cup overflowed \cup Accepted) = {}
        /\ Elements(items) \cap (overflowed \cup Accepted) = {}
        /\ overflowed \cap Accepted = {}
        /\ Once(Wire) /\ ReplayedInOrder(Wire)
        /\ \A m \in Elements(Wire), x \in Elements(items) : m.stamped => m.fix < x
        /\ \A x \in overflowed, y \in Elements(items) : x < y
        /\ IsFiniteSet(overflowed) /\ overflowCount = Cardinality(overflowed)
    BY DEF IInv, PlaceInv
  <2>2. Elements(items') \cap over = {}
    <3>1. Elements(items') \subseteq Int
      BY <1>3, <1>4, <1>1
    <3> QED
      BY <1>5, <3>1
  <2>3. /\ Waiting' \cup Elements(items') \cup overflowed' \cup Accepted' = 1..fixes'
        /\ Waiting' \cap (Elements(items') \cup overflowed' \cup Accepted') = {}
        /\ Elements(items') \cap (overflowed' \cup Accepted') = {}
        /\ overflowed' \cap Accepted' = {}
    BY <1>3, <1>6, <1>7, <1>8, <2>1, <2>2
  <2>4. \A m \in Elements(Wire'), x \in Elements(items') : m.stamped => m.fix < x
    <3>1. \A m \in Elements(Wire) : m.fix \in 1..fixes
      BY <2>1, AcceptedIs, <1>1 DEF FixesOf
    <3> QED
      BY <1>1, <1>3, <1>6, <2>1, <3>1
  <2>5. \A x \in overflowed', y \in Elements(items') : x < y
    <3>1. overflowed \subseteq 1..fixes
      BY <2>1
    <3> QED
      BY <1>1, <1>3, <1>5, <1>6, <2>1, <3>1
  <2>6. IsFiniteSet(overflowed') /\ overflowCount' = Cardinality(overflowed')
    <3>1. over \cap overflowed = {}
      BY <1>3, <1>8, <2>1
    <3>2. CASE over = {} /\ overflowCount' = overflowCount + 0
      <4>1. overflowed' = overflowed /\ overflowCount' = overflowCount
        BY <1>1, <1>6, <3>2 DEF TypeOK
      <4> QED
        BY <2>1, <4>1
    <3>3. CASE (\E x \in FixNumbers : over = {x}) /\ overflowCount' = overflowCount + 1
      <4>1. PICK x \in FixNumbers : over = {x}
        BY <3>3
      <4>2. x \notin overflowed
        BY <3>1, <4>1
      <4>3. /\ IsFiniteSet(overflowed \cup {x})
            /\ Cardinality(overflowed \cup {x}) = Cardinality(overflowed) + 1
        BY <2>1, <4>2, FS_AddElement
      <4> QED
        BY <1>6, <2>1, <3>3, <4>1, <4>3
    <3> QED
      BY <1>2, <1>3, <3>2, <3>3
  <2> QED
    BY <1>6, <2>1, <2>3, <2>4, <2>5, <2>6 DEF PlaceInv
<1>13. DurableInv' /\ NewestWriteIsCurrent'
  <2>1. Gone' = Gone \cup over
    BY <1>6 DEF Gone
  <2>2. Elements(items) \subseteq Elements(items') \cup Gone'
    BY <1>3, <2>1
  <2> QED
    BY <1>1, <1>2, <2>1, <2>2, WriteIssued DEF IInv
<1> QED
  BY <1>10, <1>11, <1>12, <1>13 DEF Rest

(* A flush behind a fix sent live, or alone: whether it does nothing, awaits init, or       *)
(* sends the front of the queue.                                                  *)
LEMMA FlushKeeps ==
  ASSUME IInv, NEW msgs \in Seq(Messages), FlushQueuedGps(msgs),
         fixes' \in Nat, fixes <= fixes', FixesOf(msgs) = (fixes + 1)..fixes',
         Once(msgs), ReplayedInOrder(msgs), \A m \in Elements(msgs) : ~m.stamped,
         UNCHANGED <<loaded, storage, csv, netLost, crashes, historyVars>>
  PROVE  Rest'
<1>1. TypeOK /\ CallsInv /\ items \in Seq(FixNumbers) /\ Len(items) <= MaxItems
  BY DEF IInv, TypeOK, CopiesInv, Copies
<1>2. fixes \in Nat
  <2>1. fixes \in 0..MaxFixes
    BY <1>1 DEF TypeOK
  <2> QED
    BY <2>1, BoundsAssumption
<1>3. /\ (1..fixes) \cup FixesOf(msgs) = 1..fixes' /\ (1..fixes) \cap FixesOf(msgs) = {}
      /\ 1..fixes \subseteq 1..fixes'
  BY <1>2
<1>4. UNCHANGED <<Stored, rereads, readFailed, writeFailed, overflowed, durable>>
  BY DEF Stored, historyVars
<1>5. \A x \in Waiting : x \in Int /\ x <= fixes
  <2>1. Waiting \subseteq FixNumbers
    BY <1>1, OpShapes, ElementOfSeq DEF Waiting, Elements, TypeOK
  <2> QED
    BY <1>1, <2>1 DEF CallsInv, FixNumbers
<1>6. \A x \in Elements(items) : x \in Int /\ x <= fixes
  <2>1. Elements(items) \subseteq FixNumbers
    BY <1>1, ElementOfSeq DEF Elements
  <2> QED
    BY <2>1 DEF IInv, CopiesInv, Copies, FixNumbers
<1>7. ~rereads => Sorted(items)
  BY DEF IInv, CopiesInv, Copies
<1>8. CASE /\ net' = net \o msgs
           /\ UNCHANGED <<items, overflowCount>>
           /\ UNCHANGED ops \/ (~loaded /\ ops' = Append(ops, GetOp("flush", NoFix)))
  <2> DEFINE op == GetOp("flush", NoFix)
  <2>1. op \in Operations /\ op.kind = "get" /\ op.then = "flush" /\ op.value = << >>
    BY OpTypes DEF GetOp
  <2>2. Wire' = Wire \o msgs /\ Accepted' = Accepted \cup FixesOf(msgs)
    BY <1>1, <1>8, WireGrows
  <2> HIDE DEF op
  <2>3. /\ Waiting' = Waiting /\ Copies' \subseteq Copies \cup {<< >>}
        /\ ops # << >> => /\ ops' # << >> /\ Head(ops') = Head(ops)
                          /\ Elements(Tail(ops')) \subseteq Elements(Tail(ops)) \cup {op}
        /\ Elements(ops') \subseteq Elements(ops) \cup {op}
        /\ loaded => UNCHANGED <<ops, SetOps>>
    <3>1. CASE UNCHANGED ops
      BY <1>8, <3>1 DEF Waiting, Copies, SetOps
    <3>2. CASE ~loaded /\ ops' = Append(ops, op)
      <4>1. /\ ops' # << >> /\ (ops # << >> => Head(ops') = Head(ops))
            /\ ops # << >> => Elements(Tail(ops')) = Elements(Tail(ops)) \cup {op}
            /\ Elements(ops') = Elements(ops) \cup {op}
            /\ Waiting' = Waiting \cup (IF op.then = "enqueue" THEN {op.fix} ELSE {})
        BY <1>1, <2>1, <3>2, OpsAppend
      <4>2. Copies' \subseteq Copies \cup {<< >>}
        BY <1>8, <2>1, <4>1 DEF Copies
      <4> QED
        BY <2>1, <3>2, <4>1, <4>2
    <3> QED
      BY <1>8, <3>1, <3>2 DEF op
  <2>4. CallsInv'
    <3>1. \A x \in Waiting' : x <= fixes'
      BY <1>2, <1>5, <2>3
    <3>2. overflowed' \subseteq 1..fixes'
      BY <1>1, <1>3, <1>4 DEF CallsInv
    <3> QED
      BY <1>1, <1>8, <2>1, <2>3, <3>1, <3>2 DEF CallsInv
  <2>5. CopiesInv'
    <3>1. \A x \in Elements(items') : x <= fixes'
      BY <1>2, <1>6, <1>8
    <3>2. Copies' \subseteq Copies \cup {items', << >>}
      BY <2>3
    <3>3. Len(items') <= MaxItems /\ (~rereads' => Sorted(items')) /\ (rereads => rereads')
      BY <1>1, <1>4, <1>7, <1>8
    <3> QED
      BY <1>1, <1>2, <3>1, <3>2, <3>3, CopiesGrow DEF IInv
  <2>6. PlaceInv'
    <3> SUFFICES ASSUME crashes = 0, ~rereads PROVE PlaceInv'
      BY <1>4 DEF PlaceInv
    <3>1. /\ ~loaded => Stored = {}
          /\ Waiting \cup Elements(items) \cup overflowed \cup Accepted = 1..fixes
          /\ Waiting \cap (Elements(items) \cup overflowed \cup Accepted) = {}
          /\ Elements(items) \cap (overflowed \cup Accepted) = {}
          /\ overflowed \cap Accepted = {}
          /\ Once(Wire) /\ ReplayedInOrder(Wire)
          /\ \A m \in Elements(Wire), x \in Elements(items) : m.stamped => m.fix < x
          /\ \A x \in overflowed, y \in Elements(items) : x < y
          /\ IsFiniteSet(overflowed) /\ overflowCount = Cardinality(overflowed)
      BY DEF IInv, PlaceInv
    <3>2. /\ Waiting' \cup Elements(items') \cup overflowed' \cup Accepted' = 1..fixes'
          /\ Waiting' \cap (Elements(items') \cup overflowed' \cup Accepted') = {}
          /\ Elements(items') \cap (overflowed' \cup Accepted') = {}
          /\ overflowed' \cap Accepted' = {}
      BY <1>3, <1>4, <1>8, <2>2, <2>3, <3>1
    <3>3. Wire \in Seq(Messages) /\ FixesOf(Wire) \cap FixesOf(msgs) = {}
      BY <1>1, <1>3, <3>1, AcceptedIs
    <3>4. Before(Wire, msgs)
      BY DEF Before
    <3>5. Once(Wire') /\ ReplayedInOrder(Wire')
      BY <2>2, <3>1, <3>3, <3>4, OnceConcat, OrderConcat
    <3>6. \A m \in Elements(Wire'), x \in Elements(items') : m.stamped => m.fix < x
      <4>1. Elements(Wire') = Elements(Wire) \cup Elements(msgs)
        BY <2>2, <3>3, ElementsConcat
      <4> QED
        BY <1>8, <3>1, <4>1
    <3> QED
      BY <1>4, <1>8, <3>1, <3>2, <3>5, <3>6 DEF PlaceInv
  <2>7. DurableInv'
    <3>1. CASE loaded
      <4>1. Gone \subseteq Gone'
        BY <1>4, <2>2 DEF Gone
      <4> QED
        BY <1>4, <1>8, <2>3, <3>1, <4>1 DEF IInv, DurableInv
    <3>2. CASE ~loaded
      <4>1. SetOps' = {}
        BY <1>1, <2>1, <2>3, <3>2 DEF CallsInv, SetOps, Elements
      <4>2. Gone \subseteq Gone'
        BY <1>4, <2>2 DEF Gone
      <4> QED
        BY <1>4, <3>2, <4>1, <4>2 DEF IInv, DurableInv
    <3> QED
      BY <3>1, <3>2
  <2>8. NewestWriteIsCurrent'
    BY <1>4, <1>8, <2>3 DEF IInv, NewestWriteIsCurrent
  <2> QED
    BY <2>4, <2>5, <2>6, <2>7, <2>8 DEF Rest
<1>9. CASE /\ loaded /\ wsOpen
           /\ net' = net \o msgs \o Replays(Sent(items, TRUE))
           /\ UNCHANGED overflowCount
           /\ items' = Left(items, TRUE)
           /\ ops' = Append(ops, SetOp("release", items'))
  <2> DEFINE sent == Sent(items, TRUE)
  <2> DEFINE all == msgs \o Replays(sent)
  <2>1. /\ items' \in Seq(FixNumbers) /\ Len(items') <= Len(items)
        /\ sent \in Seq(FixNumbers)
        /\ Elements(items) = Elements(sent) \cup Elements(items')
        /\ Sorted(items) =>
             /\ Sorted(items') /\ Sorted(sent)
             /\ \A x \in Elements(sent), y \in Elements(items') : x < y
    BY <1>1, <1>9, DrainLeaves
  <2> HIDE DEF sent
  <2>2. /\ Replays(sent) \in Seq(Messages)
        /\ \A m \in Elements(Replays(sent)) : m.fix \in Elements(sent)
        /\ FixesOf(Replays(sent)) = Elements(sent)
        /\ Sorted(sent) => Once(Replays(sent)) /\ ReplayedInOrder(Replays(sent))
    BY <2>1, ReplaysAre
  <2>3. all \in Seq(Messages) /\ net' = net \o all
    <3>1. net \in Seq(Messages) /\ all \in Seq(Messages)
      BY <1>1, <2>2, ConcatProperties DEF TypeOK
    <3>2. net' = net \o msgs \o Replays(sent)
      BY <1>9 DEF sent
    <3>3. (net \o msgs) \o Replays(sent) = net \o (msgs \o Replays(sent))
      BY <2>2, <3>1, MessagesAssociative
    <3> QED
      BY <3>1, <3>2, <3>3
  <2>4. FixesOf(all) = FixesOf(msgs) \cup Elements(sent)
    BY <2>2, FixesConcat
  <2>5. Elements(all) = Elements(msgs) \cup Elements(Replays(sent))
    BY <2>2, ElementsConcat
  <2>6. Wire' = Wire \o all /\ Accepted' = Accepted \cup FixesOf(msgs) \cup Elements(sent)
    BY <1>1, <2>3, <2>4, WireGrows
  <2>7. /\ SetOp("release", items') \in Operations
        /\ SetOp("release", items').then = "release" /\ SetOp("release", items').value = items'
    BY <2>1, OpTypes DEF SetOp
  <2>8. Elements(ops') = Elements(ops) \cup {SetOp("release", items')} /\ Waiting' = Waiting
    <3>1. "release" # "enqueue"
      OBVIOUS
    <3> QED
      BY <1>1, <1>9, <2>7, <3>1, OpsAppend
  <2>9. CallsInv'
    <3>1. \A x \in Waiting' : x <= fixes'
      BY <1>2, <1>5, <2>8
    <3>2. overflowed' \subseteq 1..fixes'
      BY <1>1, <1>3, <1>4 DEF CallsInv
    <3> QED
      BY <1>1, <1>9, <2>7, <2>8, <3>1, <3>2 DEF CallsInv
  <2>10. CopiesInv'
    <3>1. \A x \in Elements(items') : x <= fixes'
      BY <1>2, <1>6, <2>1
    <3>2. Copies' \subseteq Copies \cup {items', << >>}
      BY <2>7, <2>8 DEF Copies
    <3>3. Len(items') <= MaxItems
      BY <1>1, <2>1, MaxItemsAssumption
    <3> QED
      BY <1>1, <1>2, <1>4, <1>7, <2>1, <3>1, <3>2, <3>3, CopiesGrow DEF IInv
  <2>11. PlaceInv'
    <3> SUFFICES ASSUME crashes = 0, ~rereads PROVE PlaceInv'
      BY <1>4 DEF PlaceInv
    <3>1. /\ Waiting \cup Elements(items) \cup overflowed \cup Accepted = 1..fixes
          /\ Waiting \cap (Elements(items) \cup overflowed \cup Accepted) = {}
          /\ Elements(items) \cap (overflowed \cup Accepted) = {}
          /\ overflowed \cap Accepted = {}
          /\ Once(Wire) /\ ReplayedInOrder(Wire)
          /\ \A m \in Elements(Wire), x \in Elements(items) : m.stamped => m.fix < x
          /\ \A x \in overflowed, y \in Elements(items) : x < y
          /\ IsFiniteSet(overflowed) /\ overflowCount = Cardinality(overflowed)
      BY DEF IInv, PlaceInv
    <3>2. Elements(sent) \cap Elements(items') = {}
      BY <1>6, <1>7, <2>1
    <3>3. /\ Waiting' \cup Elements(items') \cup overflowed' \cup Accepted' = 1..fixes'
          /\ Waiting' \cap (Elements(items') \cup overflowed' \cup Accepted') = {}
          /\ Elements(items') \cap (overflowed' \cup Accepted') = {}
          /\ overflowed' \cap Accepted' = {}
      BY <1>3, <1>4, <2>1, <2>6, <2>8, <3>1, <3>2
    <3>4. /\ FixesOf(msgs) \cap FixesOf(Replays(sent)) = {}
          /\ Wire \in Seq(Messages) /\ FixesOf(Wire) \cap FixesOf(all) = {}
      BY <1>1, <1>3, <2>1, <2>2, <2>4, <3>1, AcceptedIs
    <3>5. Before(msgs, Replays(sent)) /\ Before(Wire, all)
      BY <2>1, <2>2, <2>5, <3>1 DEF Before
    <3>6. Once(all) /\ ReplayedInOrder(all)
      BY <1>7, <2>1, <2>2, <3>4, <3>5, OnceConcat, OrderConcat
    <3>7. Once(Wire') /\ ReplayedInOrder(Wire')
      BY <2>3, <2>6, <3>1, <3>4, <3>5, <3>6, OnceConcat, OrderConcat
    <3>8. \A m \in Elements(Wire'), x \in Elements(items') : m.stamped => m.fix < x
      <4>1. Elements(Wire') = Elements(Wire) \cup Elements(all)
        <5> HIDE DEF all
        <5> QED
          BY <2>3, <2>6, <3>4, ElementsConcat
      <4> QED
        BY <1>7, <2>1, <2>2, <2>5, <3>1, <4>1
    <3> QED
      BY <1>4, <1>9, <2>1, <3>1, <3>3, <3>7, <3>8 DEF PlaceInv
  <2>12. DurableInv' /\ NewestWriteIsCurrent'
    <3>1. Gone \subseteq Gone' /\ Elements(items) \subseteq Elements(items') \cup Gone'
      BY <1>4, <2>1, <2>6 DEF Gone
    <3> QED
      BY <1>1, <1>4, <1>9, <2>1, <3>1, WriteIssued DEF IInv
  <2> QED
    BY <2>9, <2>10, <2>11, <2>12 DEF Rest
<1> QED
  BY <1>1, <1>8, <1>9, FlushIs

(* The mount effect's read returns first: the queue is what was stored.                  *)
LEMMA FirstReadKeeps ==
  ASSUME IInv, NEW ok \in BOOLEAN, ReadReturns(ok), Head(ops).then = "mount"
  PROVE  Rest'
<1>1. TypeOK /\ CallsInv /\ ops # << >>
  BY DEF IInv, ReadReturns
<1>2. ~loaded /\ items = << >> /\ \A op \in Elements(Tail(ops)) : op.then # "mount"
  <2>1. Head(ops) \in Elements(ops)
    BY <1>1, HeadOp
  <2> QED
    BY <1>1, <2>1 DEF CallsInv
<1>3. /\ items' = AfterRead(ok) /\ ops' = Tail(ops) /\ loaded' = TRUE
      /\ rereads' = (rereads \/ loaded) /\ readFailed' = (readFailed \/ ~ok)
      /\ UNCHANGED <<overflowCount, overflowed, net, storage, csv, netLost, fixes, crashes,
                     writeFailed, durable>>
  BY DEF ReadReturns
<1>4. UNCHANGED <<Stored, Accepted, Wire, Gone>> /\ rereads' = rereads
  BY <1>1, <1>2, <1>3 DEF Stored, Accepted, Wire, Gone, TypeOK
<1>5. /\ SetOps = {} /\ SetOps' = {} /\ Waiting' = Waiting
      /\ Elements(ops) = Elements(ops') \cup {Head(ops)}
  <2>1. /\ Elements(ops) = Elements(ops') \cup {Head(ops)}
        /\ Head(ops).then # "enqueue" => Waiting' = Waiting
        /\ \A i : i \in SetOps' => i \in Nat /\ i + 1 \in SetOps
    BY <1>1, <1>3, OpsTail
  <2>2. SetOps = {}
    BY <1>1, <1>2 DEF CallsInv, SetOps, Elements
  <2>3. "mount" # "enqueue"
    OBVIOUS
  <2> QED
    BY <2>1, <2>2, <2>3
<1>6. \/ items' = << >> /\ (ok => storage = << >>)
      \/ storage # << >> /\ items' = storage[1]
  BY <1>2, <1>3 DEF AfterRead
<1>7. CallsInv'
  BY <1>1, <1>2, <1>3, <1>5 DEF CallsInv
<1>8. CopiesInv'
  <2>1. fixes \in Nat
    BY <1>1, BoundsAssumption DEF TypeOK
  <2>2. items' \in Copies \cup {<< >>} /\ Copies' \subseteq Copies \cup {items', << >>}
    BY <1>3, <1>5, <1>6 DEF Copies
  <2>3. /\ Len(<< >>) <= MaxItems /\ \A x \in Elements(<< >>) : x <= fixes
        /\ Sorted(<< >>)
    BY MaxItemsAssumption DEF Elements, Sorted
  <2>4. /\ Len(items') <= MaxItems /\ \A x \in Elements(items') : x <= fixes
        /\ ~rereads => Sorted(items')
    BY <2>2, <2>3 DEF IInv, CopiesInv
  <2> QED
    BY <1>1, <1>3, <1>4, <2>1, <2>2, <2>4, CopiesGrow DEF IInv
<1>9. PlaceInv'
  <2> SUFFICES ASSUME crashes = 0, ~rereads PROVE PlaceInv'
    BY <1>3, <1>4 DEF PlaceInv
  <2>1. Stored = {}
    BY <1>2 DEF IInv, PlaceInv
  <2>2. Elements(items') = {} /\ Elements(items) = {}
    <3>1. Elements(<< >>) = {}
      BY DEF Elements
    <3> QED
      BY <1>2, <1>6, <2>1, <3>1 DEF Stored
  <2> QED
    BY <1>3, <1>4, <1>5, <2>2 DEF IInv, PlaceInv
<1>10. DurableInv'
  <2> SUFFICES ASSUME ~readFailed', ~rereads' PROVE DurableInv'
    BY DEF DurableInv
  <2>1. Stored \subseteq Elements(items')
    BY <1>3, <1>6 DEF Stored
  <2> QED
    BY <1>3, <1>4, <1>5, <2>1 DEF IInv, DurableInv
<1>11. NewestWriteIsCurrent'
  <2>1. \/ ~ok
        \/ ok /\ storage = << >> /\ items' = << >>
        \/ ok /\ storage = << items' >>
    BY <1>1, <1>6 DEF TypeOK
  <2> QED
    BY <1>3, <1>5, <2>1 DEF NewestWriteIsCurrent
<1> QED
  BY <1>7, <1>8, <1>9, <1>10, <1>11 DEF Rest

(* A repeated read returns: what is stored replaces the queue, within the bounds.          *)
LEMMA RereadKeeps ==
  ASSUME IInv, NEW ok \in BOOLEAN, ReadReturns(ok), Head(ops).then # "mount"
  PROVE  Rest'
<1>1. TypeOK /\ CallsInv /\ ops # << >> /\ loaded /\ fixes \in Nat
  <2>1. TypeOK /\ CallsInv /\ ops # << >>
    BY DEF IInv, ReadReturns
  <2>2. fixes \in 0..MaxFixes
    BY <2>1 DEF TypeOK
  <2> QED
    BY <2>1, <2>2, BoundsAssumption DEF CallsInv
<1>2. /\ Head(ops) \in Operations /\ Tail(ops) \in Seq(Operations)
      /\ Elements(ops) = {Head(ops)} \cup Elements(Tail(ops))
  BY <1>1, HeadOp
<1>3. loaded' /\ rereads'
  BY <1>1 DEF ReadReturns
<1> DEFINE q == AfterRead(ok)
<1>4. /\ q \in Seq(FixNumbers) /\ Len(q) <= MaxItems
      /\ \A x \in Elements(q) : x <= fixes /\ x \in 1..fixes
  <2>1. q \in Seq(FixNumbers)
    BY <1>1, AfterReadTypes
  <2>2. q \in Copies \cup {<< >>}
    BY DEF AfterRead, Copies
  <2>3. Len(<< >>) <= MaxItems /\ \A x \in Elements(<< >>) : x <= fixes
    BY MaxItemsAssumption DEF Elements
  <2> HIDE DEF q
  <2>4. Elements(q) \subseteq FixNumbers
    BY <2>1, ElementOfSeq DEF Elements
  <2>5. Len(q) <= MaxItems /\ \A x \in Elements(q) : x <= fixes
    BY <2>2, <2>3 DEF IInv, CopiesInv
  <2> QED
    BY <1>1, <2>1, <2>4, <2>5 DEF FixNumbers
<1> HIDE DEF q
(* Either way the queue is written behind what is still pending.                       *)
<1>5. ASSUME NEW t \in {"none", "release"}, items' \in Seq(FixNumbers), Len(items') <= MaxItems,
             \A x \in Elements(items') : x <= fixes,
             ops' = Append(Tail(ops), SetOp(t, items')), overflowed' \subseteq 1..fixes
      PROVE  Rest'
  <2> DEFINE op == SetOp(t, items')
  <2>1. op \in Operations /\ op.kind = "set" /\ op.value = items' /\ op.then = t
    BY <1>5, OpTypes DEF SetOp
  <2> HIDE DEF op
  <2>2. /\ Len(ops') = Len(Tail(ops)) + 1 /\ Len(Tail(ops)) \in Nat
        /\ ops'[Len(Tail(ops)) + 1] = op
        /\ Elements(ops') = Elements(Tail(ops)) \cup {op}
    <3>1. ops' = Append(Tail(ops), op)
      BY <1>5 DEF op
    <3> DEFINE rest == Tail(ops)
    <3>2. rest \in Seq(Operations) /\ op \in Operations
      BY <1>2, <2>1
    <3>3. /\ Len(Append(rest, op)) = Len(rest) + 1 /\ Len(rest) \in Nat
          /\ Append(rest, op)[Len(rest) + 1] = op
      <4> HIDE DEF rest
      <4> QED
        BY <3>2, AppendProperties
    <3>4. Elements(Append(rest, op)) = Elements(rest) \cup {op}
      <4> HIDE DEF rest
      <4> QED
        BY <3>2, ElementsAppend
    <3> QED
      BY <3>1, <3>3, <3>4
  <2>3. UNCHANGED <<storage, fixes>>
    BY DEF ReadReturns
  <2>4. CallsInv'
    <3>1. \A o \in Elements(ops') : o.then # "mount"
      BY <1>1, <1>2, <2>1, <2>2 DEF CallsInv
    <3>2. Waiting' \subseteq Waiting
      BY <1>2, <2>1, <2>2 DEF Waiting
    <3> QED
      BY <1>1, <1>3, <1>5, <2>3, <3>1, <3>2 DEF CallsInv
  <2>5. CopiesInv'
    <3>1. Copies' \subseteq Copies \cup {items', << >>}
      BY <1>2, <2>1, <2>2, <2>3 DEF Copies
    <3> QED
      BY <1>1, <1>3, <1>5, <2>3, <3>1, CopiesGrow DEF IInv
  <2>6. NewestWriteIsCurrent'
    <3> DEFINE n == Len(Tail(ops)) + 1
    <3>1. n \in SetOps' /\ ops'[n].value = items' /\ \A j \in SetOps' : j <= n
      BY <2>1, <2>2 DEF SetOps
    <3> QED
      BY <3>1 DEF NewestWriteIsCurrent
  <2> QED
    BY <1>3, <2>4, <2>5, <2>6 DEF Rest, PlaceInv, DurableInv
<1>6. overflowed \subseteq 1..fixes
  BY <1>1 DEF CallsInv
<1>7. CASE /\ Head(ops).then = "enqueue"
           /\ Push(q, Head(ops).fix, Tail(ops))
           /\ overflowed' = overflowed \cup Overflow(q, Head(ops).fix)
  <2> DEFINE f == Head(ops).fix
  <2>1. f \in FixNumbers /\ f \in 1..fixes
    <3>1. f \in FixNumbers /\ f \in Waiting
      BY <1>2, <1>7, OpShapes DEF Waiting
    <3> QED
      BY <1>1, <3>1 DEF CallsInv, FixNumbers
  <2>2. /\ items' = Kept(q, f) /\ items' \in Seq(FixNumbers) /\ Len(items') <= MaxItems
        /\ ops' = Append(Tail(ops), SetOp("none", items'))
    BY <1>1, <1>2, <1>4, <1>7, <2>1, PushIs
  <2>3. Elements(q) \cup {f} = Elements(items') \cup Overflow(q, f)
    BY <1>4, <2>1, <2>2, PushKeeps
  <2> HIDE DEF f
  <2>4. overflowed' \subseteq 1..fixes
    BY <1>4, <1>6, <1>7, <2>1, <2>3 DEF f
  <2>5. \A x \in Elements(items') : x <= fixes
    BY <1>1, <1>4, <2>1, <2>3
  <2> QED
    BY <1>5, <2>2, <2>4, <2>5
<1>8. CASE /\ Drain(q, wsOpen, Tail(ops))
           /\ UNCHANGED overflowed
  <2>1. items' = Left(q, wsOpen) /\ ops' = Append(Tail(ops), SetOp("release", items'))
    BY <1>8 DEF Drain, Left
  <2>2. /\ items' \in Seq(FixNumbers) /\ Len(items') <= Len(q)
        /\ Elements(q) = Elements(Sent(q, wsOpen)) \cup Elements(items')
    <3>1. wsOpen \in BOOLEAN
      BY <1>1 DEF TypeOK
    <3> QED
      BY <1>4, <2>1, <3>1, DrainLeaves
  <2>3. Len(items') <= MaxItems /\ \A x \in Elements(items') : x <= fixes
    BY <1>4, <2>2, MaxItemsAssumption
  <2> QED
    BY <1>5, <1>6, <1>8, <2>1, <2>2, <2>3
<1> QED
  BY <1>7, <1>8 DEF ReadReturns, q

(* A write returns: storage has the value, or the write is lost.                       *)
LEMMA WriteKeeps ==
  ASSUME IInv, NEW ok \in BOOLEAN, WriteReturns(ok)
  PROVE  Rest'
<1> DEFINE v == Head(ops).value
<1>1. TypeOK /\ CallsInv /\ ops # << >> /\ Head(ops).kind = "set" /\ ops' = Tail(ops)
  BY DEF IInv, WriteReturns
<1>2. Head(ops) \in Operations /\ Head(ops) \in Elements(ops)
  BY <1>1, HeadOp
<1>3. loaded
  BY <1>1, <1>2 DEF CallsInv
<1>4. v \in Seq(FixNumbers) /\ Head(ops).then \in {"none", "release"}
  BY <1>1, <1>2, OpShapes
<1>5. /\ UNCHANGED <<items, loaded, overflowCount, net, csv, netLost, fixes, crashes, rereads,
                     readFailed, overflowed>>
      /\ storage' = IF ok THEN << v >> ELSE storage
      /\ writeFailed' = ~ok
      /\ durable' = IF ok THEN durable \cup Elements(v) ELSE durable
  BY DEF WriteReturns, StoreWrite, netVars
<1>6. /\ Elements(ops) = Elements(ops') \cup {Head(ops)}
      /\ Waiting' = Waiting
      /\ \A i : i \in SetOps' => i \in Nat /\ i + 1 \in SetOps /\ ops'[i] = ops[i + 1]
      /\ \A i \in SetOps : i \in Nat /\ (i > 1 => i - 1 \in SetOps' /\ ops'[i - 1] = ops[i])
      /\ 1 \in SetOps /\ ops[1].value = v
  BY <1>1, <1>4, OpsTail
<1>7. UNCHANGED <<Accepted, Wire, Gone>> /\ Stored' = IF ok THEN Elements(v) ELSE Stored
  BY <1>5 DEF Accepted, Wire, Gone, Stored
<1> HIDE DEF v
<1>8. CallsInv'
  BY <1>1, <1>3, <1>5, <1>6 DEF CallsInv
<1>9. CopiesInv'
  <2>1. Copies' \subseteq Copies
    <3>1. v \in Copies
      BY <1>2 DEF Copies, v
    <3> QED
      BY <1>5, <1>6, <3>1 DEF Copies
  <2> QED
    BY <1>5, <2>1 DEF IInv, CopiesInv
<1>10. PlaceInv'
  BY <1>3, <1>5, <1>6, <1>7 DEF IInv, PlaceInv
<1>11. DurableInv'
  <2> SUFFICES ASSUME ~readFailed, ~rereads PROVE DurableInv'
    BY <1>5 DEF DurableInv
  <2>1. /\ durable \subseteq Stored \cup Gone
        /\ \A i \in SetOps : Stored \subseteq Elements(ops[i].value) \cup Gone
        /\ \A i, j \in SetOps :
             i < j => Elements(ops[i].value) \subseteq Elements(ops[j].value) \cup Gone
        /\ Stored \subseteq Elements(items) \cup Gone
        /\ \A i \in SetOps : Elements(ops[i].value) \subseteq Elements(items) \cup Gone
    BY <1>3 DEF IInv, DurableInv
  <2>2. Stored \subseteq Elements(v) \cup Gone /\ Elements(v) \subseteq Elements(items) \cup Gone
    BY <1>6, <2>1
  <2>3. durable' \subseteq Stored' \cup Gone'
    BY <1>5, <1>7, <2>1, <2>2
  <2>4. ASSUME NEW i \in SetOps' PROVE Stored' \subseteq Elements(ops'[i].value) \cup Gone'
    <3>1. i \in Nat /\ i + 1 \in SetOps /\ ops'[i] = ops[i + 1]
      BY <1>6
    <3>2. i + 1 > 1
      <4>1. i \in 1..Len(ops')
        BY <2>4 DEF SetOps
      <4> QED
        BY <3>1, <4>1
    <3>3. Elements(v) \subseteq Elements(ops[i + 1].value) \cup Gone
      BY <1>6, <2>1, <3>1, <3>2
    <3> QED
      BY <1>7, <2>1, <3>1, <3>3
  <2>5. ASSUME NEW i \in SetOps', NEW j \in SetOps', i < j
        PROVE  Elements(ops'[i].value) \subseteq Elements(ops'[j].value) \cup Gone'
    <3>1. /\ i \in Nat /\ i + 1 \in SetOps /\ ops'[i] = ops[i + 1]
          /\ j \in Nat /\ j + 1 \in SetOps /\ ops'[j] = ops[j + 1]
      BY <1>6
    <3>2. i + 1 < j + 1
      BY <2>5, <3>1
    <3> QED
      BY <1>7, <2>1, <3>1, <3>2
  <2>6. \A i \in SetOps' : Elements(ops'[i].value) \subseteq Elements(items) \cup Gone
    BY <1>6, <2>1
  <2>7. Stored' \subseteq Elements(items) \cup Gone
    BY <1>7, <2>1, <2>2
  <2> QED
    BY <1>5, <1>7, <2>3, <2>4, <2>5, <2>6, <2>7 DEF DurableInv
<1>12. NewestWriteIsCurrent'
  <2>1. PICK i \in SetOps : ops[i].value = items /\ \A j \in SetOps : j <= i
    BY <1>3, <1>6 DEF IInv, NewestWriteIsCurrent
  <2>2. CASE i > 1
    <3>1. i - 1 \in SetOps' /\ ops'[i - 1].value = items'
      BY <1>5, <1>6, <2>1, <2>2
    <3>2. \A j \in SetOps' : j <= i - 1
      BY <1>6, <2>1
    <3> QED
      BY <3>1, <3>2 DEF NewestWriteIsCurrent
  <2>3. CASE ~(i > 1)
    <3>1. i \in Nat /\ i >= 1
      BY <1>6 DEF SetOps
    <3>2. i = 1 /\ v = items
      BY <1>6, <2>1, <2>3, <3>1
    <3>3. SetOps' = {}
      <4> SUFFICES ASSUME NEW j \in SetOps' PROVE FALSE
        OBVIOUS
      <4>1. j \in Nat /\ j + 1 <= 1
        BY <1>6, <2>1, <3>2
      <4>2. j \in 1..Len(ops')
        BY DEF SetOps
      <4> QED
        BY <4>1, <4>2
    <3> QED
      BY <1>5, <3>2, <3>3 DEF NewestWriteIsCurrent
  <2> QED
    BY <2>2, <2>3
<1> QED
  BY <1>8, <1>9, <1>10, <1>11, <1>12 DEF Rest

(* After a crash only storage is left, and what has been sent.                          *)
LEMMA CrashKeeps ==
  ASSUME IInv, Crash
  PROVE  Rest'
<1> DEFINE mount == GetOp("mount", NoFix)
<1>1. mount.kind = "get" /\ mount.then = "mount" /\ mount.value = << >>
  BY DEF GetOp
<1>2. /\ items' = << >> /\ ~loaded' /\ ops' = << mount >> /\ net' = << >>
      /\ netLost' = netLost \cup Elements(net) /\ crashes' = crashes + 1
      /\ UNCHANGED <<storage, csv, fixes, rereads, readFailed, writeFailed, overflowed, durable>>
  BY DEF Crash, historyVars
<1> HIDE DEF mount
<1>3. /\ Elements(ops') = {mount} /\ ops' # << >> /\ Head(ops') = mount /\ Tail(ops') = << >>
      /\ Elements(<< >>) = {}
  BY <1>2 DEF Elements
<1>4. Waiting' = {} /\ SetOps' = {} /\ UNCHANGED Stored
  <2>1. "mount" # "enqueue" /\ "get" # "set"
    OBVIOUS
  <2>2. Waiting' = {}
    BY <1>1, <1>3, <2>1 DEF Waiting
  <2>3. SetOps' = {}
    BY <1>1, <1>2, <2>1 DEF SetOps
  <2> QED
    BY <1>2, <2>2, <2>3 DEF Stored
<1>5. CallsInv'
  BY <1>1, <1>2, <1>3, <1>4 DEF IInv, CallsInv
<1>6. CopiesInv'
  <2>1. Copies' \subseteq Copies \cup {<< >>}
    BY <1>1, <1>2, <1>3 DEF Copies
  <2>2. /\ Len(<< >>) <= MaxItems /\ \A x \in Elements(<< >>) : x <= fixes
        /\ Sorted(<< >>)
    BY MaxItemsAssumption DEF Elements, Sorted
  <2> QED
    BY <1>2, <2>1, <2>2 DEF IInv, CopiesInv
<1>7. PlaceInv'
  <2>1. crashes \in Nat
    BY BoundsAssumption DEF IInv, TypeOK
  <2>2. crashes' # 0
    BY <1>2, <2>1
  <2> QED
    BY <2>2 DEF PlaceInv
<1>8. DurableInv'
  <2>1. Accepted \subseteq Accepted'
    BY <1>2 DEF Accepted, FixesOf
  <2>2. Gone \subseteq Gone'
    BY <1>2, <2>1 DEF Gone
  <2> QED
    BY <1>2, <1>4, <2>2 DEF IInv, DurableInv
<1>9. NewestWriteIsCurrent'
  BY <1>2 DEF NewestWriteIsCurrent
<1> QED
  BY <1>5, <1>6, <1>7, <1>8, <1>9 DEF Rest

-----------------------------------------------------------------------------
(* The invariant holds always.                                                    *)

LEMMA InvNext == IInv /\ [Next]_vars => IInv'
<1> SUFFICES ASSUME IInv, [Next]_vars PROVE IInv'
  OBVIOUS
<1>1. TypeOK /\ TypeOK'
  BY TypeNext DEF IInv
<1>2. fixes \in Nat /\ fixes' \in Nat
  <2>1. fixes \in 0..MaxFixes /\ fixes' \in 0..MaxFixes
    BY <1>1 DEF TypeOK
  <2> QED
    BY <2>1, BoundsAssumption
<1>3. << >> \in Seq(Messages) /\ Elements(<< >>) = {} /\ FixesOf(<< >>) = {}
      /\ Once(<< >>) /\ ReplayedInOrder(<< >>)
  BY EmptySeq DEF Elements, FixesOf, Once, ReplayedInOrder
<1>4. ASSUME GpsFix PROVE Rest'
  <2>1. /\ fixes < MaxFixes /\ fixes' = fixes + 1
        /\ UNCHANGED <<loaded, storage, csv, netLost, crashes, rereads, readFailed,
                       writeFailed, durable>>
    BY <1>4 DEF GpsFix
  <2>2. fixes + 1 \in FixNumbers
    BY <1>2, <2>1, BoundsAssumption DEF FixNumbers
  <2>3. CASE wsOpen
    <3> DEFINE msgs == << Live(fixes + 1) >>
    <3>1. FlushQueuedGps(msgs) /\ UNCHANGED overflowed
      BY <1>4, <2>3 DEF GpsFix
    <3>2. /\ msgs \in Seq(Messages) /\ FixesOf(msgs) = {fixes + 1}
          /\ Elements(msgs) = {Live(fixes + 1)} /\ ~Live(fixes + 1).stamped
          /\ Once(msgs) /\ ReplayedInOrder(msgs)
      BY <2>2, LiveIs
    <3>3. {fixes + 1} = (fixes + 1)..fixes' /\ fixes <= fixes'
      BY <1>2, <2>1
    <3>4. UNCHANGED historyVars
      BY <2>1, <3>1 DEF historyVars
    <3> HIDE DEF msgs
    <3> QED
      BY <1>2, <2>1, <3>1, <3>2, <3>3, <3>4, FlushKeeps
  <2>4. CASE ~wsOpen /\ loaded
    <3>1. /\ Push(items, fixes + 1, ops)
          /\ overflowed' = overflowed \cup Overflow(items, fixes + 1)
          /\ UNCHANGED net
      BY <1>4, <2>4 DEF GpsFix
    <3> QED
      BY <2>1, <2>4, <3>1, PushKept
  <2>5. CASE ~wsOpen /\ ~loaded
    <3>1. /\ ops' = Append(ops, GetOp("enqueue", fixes + 1))
          /\ UNCHANGED <<items, overflowCount, overflowed, net>>
      BY <1>4, <2>5 DEF GpsFix, AwaitInit
    <3> QED
      BY <2>1, <2>5, <3>1, AwaitKeeps DEF historyVars
  <2> QED
    BY <2>3, <2>4, <2>5
<1>5. ASSUME ConnectedEffect PROVE Rest'
  <2>1. FlushQueuedGps(<< >>) /\ UNCHANGED <<loaded, storage, csv, netLost, fixes, crashes, historyVars>>
    BY <1>5 DEF ConnectedEffect, boundVars
  <2>2. {} = (fixes + 1)..fixes' /\ fixes <= fixes'
    BY <1>2, <2>1
  <2> QED
    BY <1>2, <1>3, <2>1, <2>2, FlushKeeps
<1>6. ASSUME NEW ok \in BOOLEAN, ReadReturns(ok) PROVE Rest'
  BY <1>6, FirstReadKeeps, RereadKeeps
<1>7. ASSUME NEW ok \in BOOLEAN, WriteReturns(ok) PROVE Rest'
  BY <1>7, WriteKeeps
<1>8. ASSUME UNCHANGED <<queueVars, net, csv, netLost, fixes, crashes, historyVars>> PROVE Rest'
  <2>1. Wire' = Wire /\ Accepted' = Accepted
    BY <1>8 DEF Wire, Accepted
  <2> QED
    BY <1>8, <2>1, QuietKeeps
(* A connection that ends loses the end of the wire.                                *)
<1>9. ASSUME WsCloses PROVE Rest'
  <2>1. /\ net' = << >> /\ netLost' = netLost \cup Elements(net) /\ csv' = csv
        /\ UNCHANGED <<queueVars, fixes, crashes, historyVars>>
    BY <1>9 DEF WsCloses, boundVars
  <2>2. csv \in Seq(Messages) /\ net \in Seq(Messages)
    BY <1>1 DEF TypeOK
  <2>3. Wire' = csv
    BY <2>1, <2>2, ConcatEmptySeq DEF Wire
  <2>4. Accepted' = Accepted
    BY <1>3, <2>1 DEF Accepted, FixesOf
  <2>5. Elements(Wire') \subseteq Elements(Wire)
    BY <2>2, <2>3, ElementsConcat DEF Wire
  <2>6. (Once(Wire) => Once(Wire')) /\ (ReplayedInOrder(Wire) => ReplayedInOrder(Wire'))
    BY <2>2, <2>3, WirePrefix DEF Wire
  <2> QED
    BY <2>1, <2>4, <2>5, <2>6, QuietKeeps
(* A row in the file is the same message at the same place of the wire.                *)
<1>10. ASSUME NetDelivers PROVE Rest'
  <2>1. /\ net # << >> /\ csv' = Append(csv, Head(net)) /\ net' = Tail(net)
        /\ UNCHANGED <<queueVars, netLost, fixes, crashes, historyVars>>
    BY <1>10 DEF NetDelivers, boundVars
  <2>2. csv \in Seq(Messages) /\ net \in Seq(Messages)
    BY <1>1 DEF TypeOK
  <2>3. Head(net) \in Messages /\ Tail(net) \in Seq(Messages) /\ net = << Head(net) >> \o Tail(net)
    BY <2>1, <2>2, ElementsHead
  <2>4. Wire' = Wire
    <3> DEFINE h == Head(net)
    <3> DEFINE t == Tail(net)
    <3>1. Append(csv, h) = csv \o << h >>
      BY <2>2, <2>3, AppendIsConcat
    <3>2. << h >> \in Seq(Messages)
      BY <2>3
    <3>3. (csv \o << h >>) \o t = csv \o (<< h >> \o t)
      BY <2>2, <2>3, <3>2, MessagesAssociative
    <3> QED
      BY <2>1, <2>3, <3>1, <3>3 DEF Wire
  <2>5. Accepted' = Accepted
    <3>1. csv' \in Seq(Messages) /\ net' \in Seq(Messages)
      BY <1>1 DEF TypeOK
    <3>2. FixesOf(Wire') = FixesOf(csv') \cup FixesOf(net')
      BY <3>1, FixesConcat DEF Wire
    <3>3. FixesOf(Wire) = FixesOf(csv) \cup FixesOf(net)
      BY <2>2, FixesConcat DEF Wire
    <3> QED
      BY <2>1, <2>4, <3>2, <3>3 DEF Accepted
  <2> QED
    BY <2>1, <2>4, <2>5, QuietKeeps
<1>11. ASSUME Crash PROVE Rest'
  BY <1>11, CrashKeeps
<1>12. Rest'
  <2>1. WsOpens => UNCHANGED <<queueVars, net, csv, netLost, fixes, crashes, historyVars>>
    BY DEF WsOpens
  <2>2. UNCHANGED vars => UNCHANGED <<queueVars, net, csv, netLost, fixes, crashes, historyVars>>
    BY DEF vars, netVars, boundVars
  <2> QED
    BY <1>4, <1>5, <1>6, <1>7, <1>8, <1>9, <1>10, <1>11, <2>1, <2>2 DEF Next, StorageReturns
<1> QED
  BY <1>1, <1>12 DEF IInv, Rest

LEMMA InvAlways == Spec => []IInv
<1>1. Init => IInv
  BY InvInit
<1>2. IInv /\ [Next]_vars => IInv'
  BY InvNext
<1> QED
  BY <1>1, <1>2, PTL DEF Spec

-----------------------------------------------------------------------------
(* The properties.                                                               *)

(* The state of the uplink has its types: a queue of fixes, a storage that is empty    *)
(* or holds one queue, and pending calls that are reads without and writes with a       *)
(* value.                                                                     *)
THEOREM TypeCorrect == Spec => []TypeOK
<1>1. IInv => TypeOK
  BY DEF IInv
<1> QED
  BY <1>1, InvAlways, PTL

(* In a run without a crash in which getItem is not repeated, sendGpsUplinkWithQueue     *)
(* and flushQueuedGps neither lose nor duplicate a fix: each one that was taken waits,   *)
(* is queued, was dropped by the bound or was handed to the socket, and only one of     *)
(* these, and the server is sent it once.                                          *)
THEOREM EveryFixCorrect == Spec => []EveryFixInOnePlace
<1>1. IInv => EveryFixInOnePlace
  <2> SUFFICES ASSUME IInv, crashes = 0, ~rereads
               PROVE  /\ Waiting \cup Elements(items) \cup overflowed \cup Accepted = 1..fixes
                      /\ Waiting \cap (Elements(items) \cup overflowed \cup Accepted) = {}
                      /\ Elements(items) \cap (overflowed \cup Accepted) = {}
                      /\ overflowed \cap Accepted = {}
                      /\ Cardinality(Elements(items)) = Len(items)
                      /\ Cardinality(FixesOf(csv \o net)) = Len(csv) + Len(net)
    BY DEF EveryFixInOnePlace
  <2>1. Cardinality(Elements(items)) = Len(items)
    <3>1. Sorted(items)
      BY DEF IInv, CopiesInv, Copies
    <3>2. FixNumbers \subseteq Int
      BY DEF FixNumbers
    <3>3. items \in Seq(Int)
      BY <3>2, SeqMonotonic DEF IInv, TypeOK
    <3> QED
      BY <3>1, <3>3, SortedCount
  <2>2. Cardinality(FixesOf(csv \o net)) = Len(csv) + Len(net)
    <3>1. csv \in Seq(Messages) /\ net \in Seq(Messages) /\ Once(Wire)
      BY DEF IInv, TypeOK, PlaceInv
    <3>2. csv \o net \in Seq(Messages) /\ Len(csv \o net) = Len(csv) + Len(net)
      BY <3>1, ConcatProperties
    <3> QED
      BY <3>1, <3>2, OnceCount DEF Wire
  <2> QED
    BY <2>1, <2>2 DEF IInv, PlaceInv
<1> QED
  BY <1>1, InvAlways, PTL

(* The queue is bounded, also after a restart; it stays in the order of the fixes,      *)
(* loses only the oldest and counts them, and what it replays reaches the server in      *)
(* that order, over any number of partial flushes.                                   *)
THEOREM QueueOrderCorrect == Spec => []QueueInOrder
<1>1. IInv => QueueInOrder
  <2> SUFFICES ASSUME IInv PROVE QueueInOrder
    OBVIOUS
  <2>1. Len(items) <= MaxItems /\ (~rereads => Sorted(items))
    BY DEF IInv, CopiesInv, Copies
  <2>2. ASSUME crashes = 0, ~rereads
        PROVE  /\ \A lost \in overflowed : \A kept \in Elements(items) : lost < kept
               /\ overflowCount = Cardinality(overflowed)
               /\ ReplayedInOrder(csv)
    <3>1. csv \in Seq(Messages) /\ net \in Seq(Messages) /\ ReplayedInOrder(Wire)
      BY <2>2 DEF IInv, TypeOK, PlaceInv
    <3>2. ReplayedInOrder(csv)
      BY <3>1, WirePrefix DEF Wire
    <3> QED
      BY <2>2, <3>2 DEF IInv, PlaceInv
  <2> QED
    BY <2>1, <2>2 DEF QueueInOrder, Sorted, ReplayedInOrder
<1> QED
  BY <1>1, InvAlways, PTL

(* Over any number of crashes: a fix that a setItem has stored stays in storage until it   *)
(* is handed to a socket or dropped by the bound, unless a getItem failed or was          *)
(* repeated.                                                                   *)
THEOREM DurableCorrect == Spec => []DurableUntilHandled
<1>1. IInv => DurableUntilHandled
  BY DEF IInv, DurableInv, DurableUntilHandled, Gone
<1> QED
  BY <1>1, InvAlways, PTL

(* No older snapshot of the queue is written after a newer one, also when calls           *)
(* overlap: the last write under way carries the items in memory, and with none under      *)
(* way storage holds them unless that write, or the read it began with, failed.          *)
THEOREM NewestWriteCorrect == Spec => []NewestWriteIsCurrent
<1>1. IInv => NewestWriteIsCurrent
  BY DEF IInv
<1> QED
  BY <1>1, InvAlways, PTL
=============================================================================
