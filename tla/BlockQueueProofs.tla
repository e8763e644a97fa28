-------------------------- MODULE BlockQueueProofs --------------------------
(***************************************************************************)
(* Proofs about BlockQueue, for every set of labels and every block size.  *)
(*                                                                         *)
(* The first part says what the operations on sequences of blocks do to    *)
(* the labels in them and to the order of the blocks; the second proves    *)
(* that each action preserves the inductive invariant IInv.  The last part *)
(* proves that the selection the queue splits by never leaves its slice    *)
(* and ends with the value of the wanted rank in place.                    *)
(***************************************************************************)
EXTENDS BlockQueue, QuickSelect, FiniteSetTheorems, SequenceTheorems, TLAPS

Blocks == Seq(SUBSET Label)

-----------------------------------------------------------------------------
(* Sequences of blocks.                                                     *)

(* A label is in AllOf(q) when it is in one of its blocks. *)
LEMMA InAllOf ==
  ASSUME NEW q \in Blocks, NEW x
  PROVE  x \in AllOf(q) <=> \E s \in 1..Len(q) : x \in q[s]
  BY DEF AllOf, Prefix, Blocks

(* Tombstoning S keeps the blocks in place and removes exactly S. *)
LEMMA WithoutBlocks ==
  ASSUME NEW q \in Blocks, NEW S
  PROVE  /\ Without(q, S) \in Blocks
         /\ Len(Without(q, S)) = Len(q)
         /\ \A s \in 1..Len(q) : Without(q, S)[s] = q[s] \ S
         /\ AllOf(Without(q, S)) = AllOf(q) \ S
<1>1. /\ Without(q, S) \in Blocks
      /\ Len(Without(q, S)) = Len(q)
      /\ \A s \in 1..Len(q) : Without(q, S)[s] = q[s] \ S
  BY DEF Without, Blocks
<1>2. AllOf(Without(q, S)) = AllOf(q) \ S
  BY <1>1 DEF AllOf, Prefix
<1> QED BY <1>1, <1>2

(* Replacing entry s by two entries, in any sequence. *)
LEMMA SplitAtSeq ==
  ASSUME NEW E, NEW q \in Seq(E), NEW s \in 1..Len(q), NEW low \in E, NEW high \in E
  PROVE  /\ SplitAt(q, s, low, high) \in Seq(E)
         /\ Len(SplitAt(q, s, low, high)) = Len(q) + 1
         /\ \A j \in 1..(Len(q) + 1) :
              SplitAt(q, s, low, high)[j] =
                IF j < s THEN q[j]
                ELSE IF j = s THEN low ELSE IF j = s + 1 THEN high ELSE q[j - 1]
  BY DEF SplitAt

(* Splitting a block in two, when it has grown to the set added, puts into *)
(* the sequence just the labels it has gained.                             *)
LEMMA SplitAtBlocks ==
  ASSUME NEW q \in Blocks, NEW s \in 1..Len(q),
         NEW added \in SUBSET Label, NEW low \in SUBSET added, q[s] \subseteq added
  PROVE  AllOf(SplitAt(q, s, low, added \ low)) = AllOf(q) \cup added
<1> DEFINE r == SplitAt(q, s, low, added \ low)
<1>1. /\ r \in Blocks
      /\ Len(r) = Len(q) + 1
      /\ \A j \in 1..(Len(q) + 1) :
           r[j] = IF j < s THEN q[j]
                  ELSE IF j = s THEN low ELSE IF j = s + 1 THEN added \ low ELSE q[j - 1]
  <2>1. q \in Seq(SUBSET Label) /\ low \in SUBSET Label /\ added \ low \in SUBSET Label
    BY DEF Blocks
  <2> QED BY <2>1 DEF SplitAt, Blocks
<1>2. Len(q) \in Nat
  BY DEF Blocks
<1> HIDE DEF r
<1>3. ASSUME NEW x \in AllOf(r) PROVE x \in AllOf(q) \cup added
  <2>1. PICK j \in 1..Len(r) : x \in r[j]
    BY <1>1, <1>3, InAllOf
  <2>2. CASE j < s
    <3>1. j \in 1..Len(q) /\ x \in q[j]
      BY <1>1, <1>2, <2>1, <2>2
    <3> QED BY <3>1, InAllOf
  <2>3. CASE j \in {s, s + 1}
    BY <1>1, <1>2, <2>1, <2>3
  <2>4. CASE j > s + 1
    <3>1. j - 1 \in 1..Len(q) /\ x \in q[j - 1]
      BY <1>1, <1>2, <2>1, <2>4
    <3> QED BY <3>1, InAllOf
  <2> QED BY <1>1, <1>2, <2>1, <2>2, <2>3, <2>4
<1>4. ASSUME NEW x \in added PROVE x \in AllOf(r)
  <2>1. s \in 1..Len(r) /\ s + 1 \in 1..Len(r) /\ r[s] = low /\ r[s + 1] = added \ low
    BY <1>1, <1>2
  <2>2. x \in r[s] \/ x \in r[s + 1]
    BY <2>1
  <2> QED BY <1>1, <2>1, <2>2, InAllOf
<1>5. ASSUME NEW x \in AllOf(q) PROVE x \in AllOf(r)
  <2>1. PICK j \in 1..Len(q) : x \in q[j]
    BY InAllOf
  <2>2. CASE j < s
    <3>1. j \in 1..Len(r) /\ x \in r[j]
      BY <1>1, <1>2, <2>1, <2>2
    <3> QED BY <1>1, <3>1, InAllOf
  <2>3. CASE j = s
    BY <1>4, <2>1, <2>3
  <2>4. CASE j > s
    <3>1. j + 1 \in 1..Len(r) /\ x \in r[j + 1]
      BY <1>1, <1>2, <2>1, <2>4
    <3> QED BY <1>1, <3>1, InAllOf
  <2> QED BY <1>2, <2>2, <2>3, <2>4
<1> QED BY <1>3, <1>4, <1>5 DEF r

(* Concatenation joins the labels. *)
LEMMA ConcatBlocks ==
  ASSUME NEW a \in Blocks, NEW b \in Blocks
  PROVE  /\ a \o b \in Blocks
         /\ Len(a \o b) = Len(a) + Len(b)
         /\ \A s \in 1..(Len(a) + Len(b)) :
              (a \o b)[s] = IF s <= Len(a) THEN a[s] ELSE b[s - Len(a)]
         /\ AllOf(a \o b) = AllOf(a) \cup AllOf(b)
<1>1. /\ a \o b \in Blocks
      /\ Len(a \o b) = Len(a) + Len(b)
      /\ \A s \in 1..(Len(a) + Len(b)) :
           (a \o b)[s] = IF s <= Len(a) THEN a[s] ELSE b[s - Len(a)]
      /\ Len(a) \in Nat /\ Len(b) \in Nat
  BY ConcatProperties DEF Blocks
<1>2. ASSUME NEW x \in AllOf(a \o b) PROVE x \in AllOf(a) \cup AllOf(b)
  <2>1. PICK s \in 1..(Len(a) + Len(b)) : x \in (a \o b)[s]
    BY <1>1, InAllOf
  <2>2. CASE s <= Len(a)
    BY <1>1, <2>1, <2>2, InAllOf
  <2>3. CASE s > Len(a)
    <3>1. s - Len(a) \in 1..Len(b) /\ x \in b[s - Len(a)]
      BY <1>1, <2>1, <2>3
    <3> QED BY <3>1, InAllOf
  <2> QED BY <1>1, <2>2, <2>3
<1>3. ASSUME NEW x \in AllOf(a) PROVE x \in AllOf(a \o b)
  <2>1. PICK s \in 1..Len(a) : x \in a[s]
    BY InAllOf
  <2>2. s \in 1..Len(a \o b) /\ x \in (a \o b)[s]
    BY <1>1, <2>1
  <2> QED BY <1>1, <2>2, InAllOf
<1>4. ASSUME NEW x \in AllOf(b) PROVE x \in AllOf(a \o b)
  <2>1. PICK s \in 1..Len(b) : x \in b[s]
    BY InAllOf
  <2>2. s + Len(a) \in 1..Len(a \o b) /\ x \in (a \o b)[s + Len(a)]
    BY <1>1, <2>1
  <2> QED BY <1>1, <2>2, InAllOf
<1> QED BY <1>1, <1>2, <1>3, <1>4

(* Dropping empty blocks loses no label. *)
LEMMA DropSeq ==
  ASSUME NEW E, NEW q \in Seq(E), NEW d \in 0..Len(q)
  PROVE  /\ Drop(q, d) \in Seq(E)
         /\ Len(Drop(q, d)) = Len(q) - d
         /\ \A s \in 1..(Len(q) - d) : Drop(q, d)[s] = q[s + d]
  BY DEF Drop

LEMMA DropBlocks ==
  ASSUME NEW q \in Blocks, NEW d \in 0..Len(q), Prefix(q, d) = {}
  PROVE  AllOf(Drop(q, d)) = AllOf(q)
<1>1. /\ Drop(q, d) \in Blocks
      /\ Len(Drop(q, d)) = Len(q) - d
      /\ \A s \in 1..(Len(q) - d) : Drop(q, d)[s] = q[s + d]
      /\ Len(q) \in Nat
  BY DropSeq DEF Blocks
<1>2. ASSUME NEW x \in AllOf(Drop(q, d)) PROVE x \in AllOf(q)
  <2>1. PICK s \in 1..(Len(q) - d) : x \in Drop(q, d)[s]
    BY <1>1, InAllOf
  <2>2. s + d \in 1..Len(q) /\ x \in q[s + d]
    BY <1>1, <2>1
  <2> QED BY <2>2, InAllOf
<1>3. ASSUME NEW x \in AllOf(q) PROVE x \in AllOf(Drop(q, d))
  <2>1. PICK s \in 1..Len(q) : x \in q[s]
    BY InAllOf
  <2>2. s > d
    BY <1>1, <2>1 DEF Prefix
  <2>3. s - d \in 1..(Len(q) - d) /\ x \in Drop(q, d)[s - d]
    BY <1>1, <2>1, <2>2
  <2> QED BY <1>1, <2>3, InAllOf
<1> QED BY <1>2, <1>3

-----------------------------------------------------------------------------
(* The order of the blocks.                                                 *)

LEMMA WithoutIncreasing ==
  ASSUME NEW q \in Blocks, NEW S, Increasing(q)
  PROVE  Increasing(Without(q, S))
  BY WithoutBlocks DEF Increasing, AllBelow

LEMMA DropIncreasing ==
  ASSUME NEW q \in Blocks, NEW d \in 0..Len(q), Increasing(q)
  PROVE  Increasing(Drop(q, d))
<1> DEFINE r == Drop(q, d)
<1>1. /\ Len(r) = Len(q) - d
      /\ \A s \in 1..(Len(q) - d) : r[s] = q[s + d]
      /\ Len(q) \in Nat
  BY DropSeq DEF Blocks
<1> HIDE DEF r
<1>2. ASSUME NEW s \in 1..Len(r), NEW j \in 1..Len(r), s < j PROVE AllBelow(r[s], r[j])
  <2>1. s + d \in 1..Len(q) /\ j + d \in 1..Len(q) /\ s + d < j + d
    BY <1>1, <1>2
  <2>2. r[s] = q[s + d] /\ r[j] = q[j + d]
    BY <1>1, <1>2
  <2> QED BY <2>1, <2>2 DEF Increasing
<1>3. Increasing(r)
  BY <1>2 DEF Increasing
<1> QED BY <1>3 DEF r

LEMMA ConcatIncreasing ==
  ASSUME NEW a \in Blocks, NEW b \in Blocks,
         Increasing(a), Increasing(b), AllBelow(AllOf(a), AllOf(b))
  PROVE  Increasing(a \o b)
<1>1. /\ Len(a \o b) = Len(a) + Len(b)
      /\ \A s \in 1..(Len(a) + Len(b)) :
           (a \o b)[s] = IF s <= Len(a) THEN a[s] ELSE b[s - Len(a)]
  BY ConcatBlocks
<1>2. Len(a) \in Nat /\ Len(b) \in Nat
  BY DEF Blocks
<1>3. SUFFICES ASSUME NEW s \in 1..(Len(a) + Len(b)), NEW j \in 1..(Len(a) + Len(b)), s < j
               PROVE  AllBelow((a \o b)[s], (a \o b)[j])
  BY <1>1 DEF Increasing
<1>4. CASE j <= Len(a)
  BY <1>1, <1>2, <1>3, <1>4 DEF Increasing
<1>5. CASE s > Len(a)
  <2>1. s - Len(a) \in 1..Len(b) /\ j - Len(a) \in 1..Len(b) /\ s - Len(a) < j - Len(a)
    BY <1>2, <1>3, <1>5
  <2>2. (a \o b)[s] = b[s - Len(a)] /\ (a \o b)[j] = b[j - Len(a)]
    BY <1>1, <1>2, <1>3, <1>5
  <2> QED BY <2>1, <2>2 DEF Increasing
<1>6. CASE s <= Len(a) /\ j > Len(a)
  <2>1. s \in 1..Len(a) /\ j - Len(a) \in 1..Len(b)
    BY <1>2, <1>3, <1>6
  <2>2. a[s] \subseteq AllOf(a) /\ b[j - Len(a)] \subseteq AllOf(b)
    BY <2>1, InAllOf
  <2>3. (a \o b)[s] = a[s] /\ (a \o b)[j] = b[j - Len(a)]
    BY <1>1, <1>2, <1>3, <1>6
  <2> QED BY <2>2, <2>3 DEF AllBelow
<1> QED BY <1>2, <1>3, <1>4, <1>5, <1>6

(* Halving block s keeps the order. *)
LEMMA SplitAtIncreasing ==
  ASSUME NEW q \in Blocks, NEW s \in 1..Len(q), NEW low \in SUBSET q[s],
         Increasing(q), AllBelow(low, q[s] \ low)
  PROVE  Increasing(SplitAt(q, s, low, q[s] \ low))
<1> DEFINE r == SplitAt(q, s, low, q[s] \ low)
<1>1. /\ Len(r) = Len(q) + 1
      /\ \A j \in 1..(Len(q) + 1) :
           r[j] = IF j < s THEN q[j]
                  ELSE IF j = s THEN low ELSE IF j = s + 1 THEN q[s] \ low ELSE q[j - 1]
  BY DEF SplitAt, Blocks
<1>2. Len(q) \in Nat /\ s \in Nat
  BY DEF Blocks
<1> HIDE DEF r
<1>3. SUFFICES ASSUME NEW g \in 1..(Len(q) + 1), NEW h \in 1..(Len(q) + 1), g < h
               PROVE  AllBelow(r[g], r[h])
  BY <1>1 DEF Increasing, r
<1> DEFINE From(j) == IF j <= s THEN j ELSE j - 1
<1>4. \A j \in 1..(Len(q) + 1) : From(j) \in 1..Len(q) /\ r[j] \subseteq q[From(j)]
  BY <1>1, <1>2
<1>5. CASE g = s /\ h = s + 1
  <2>1. r[g] = low /\ r[h] = q[s] \ low
    BY <1>1, <1>2, <1>5
  <2> QED BY <2>1
<1>6. CASE ~(g = s /\ h = s + 1)
  <2>1. From(g) < From(h)
    BY <1>2, <1>3, <1>6
  <2>2. AllBelow(q[From(g)], q[From(h)])
    BY <1>4, <2>1 DEF Increasing
  <2> QED BY <1>4, <2>2 DEF AllBelow
<1> QED BY <1>5, <1>6

(* Separating bounds order the blocks. *)
LEMMA SeparatedIncreasing ==
  ASSUME NEW q \in Blocks, NEW bs \in Seq(Label \cup {B}), SeparatedBy(q, bs)
  PROVE  Increasing(q)
<1>1. SUFFICES ASSUME NEW s \in 1..Len(q), NEW j \in 1..Len(q), s < j,
                      NEW x \in q[s], NEW y \in q[j]
               PROVE  x < y
  BY DEF Increasing, AllBelow
<1>2. x <= bs[s] /\ bs[s] < y
  BY <1>1 DEF SeparatedBy, Blocks
<1>3. x \in Label /\ y \in Label
  BY <1>1 DEF Blocks
<1>4. Len(bs) = Len(q) /\ s \in 1..Len(bs)
  BY <1>1 DEF SeparatedBy
<1>5. bs[s] \in Label \cup {B}
  BY <1>4
<1>6. Label \subseteq Int /\ B \in Int
  BY LabelAssumption, BlockAssumption
<1>7. \A a, b, c \in Int : a <= b /\ b < c => a < c
  OBVIOUS
<1> QED BY <1>2, <1>3, <1>5, <1>6, <1>7

LEMMA WithoutSeparated ==
  ASSUME NEW q \in Blocks, NEW bs, NEW S, SeparatedBy(q, bs)
  PROVE  SeparatedBy(Without(q, S), bs)
  BY WithoutBlocks DEF SeparatedBy

LEMMA DropSeparated ==
  ASSUME NEW q \in Blocks, NEW bs \in Seq(Label \cup {B}), SeparatedBy(q, bs),
         NEW d \in 0..(Len(q) - 1)
  PROVE  SeparatedBy(Drop(q, d), Drop(bs, d))
<1>1. /\ Len(Drop(q, d)) = Len(q) - d
      /\ \A s \in 1..(Len(q) - d) : Drop(q, d)[s] = q[s + d]
      /\ Len(q) \in Nat
      /\ d \in Nat
  BY DEF Drop, Blocks
<1>2. /\ Len(Drop(bs, d)) = Len(q) - d
      /\ \A s \in 1..(Len(q) - d) : Drop(bs, d)[s] = bs[s + d]
  BY <1>1 DEF Drop, SeparatedBy
<1>3. /\ Len(Drop(q, d)) > 0
      /\ Drop(bs, d)[Len(Drop(bs, d))] = B
  BY <1>1, <1>2 DEF SeparatedBy
<1>4. \A s, j \in 1..(Len(q) - d) : s < j => Drop(bs, d)[s] < Drop(bs, d)[j]
  BY <1>1, <1>2 DEF SeparatedBy
<1>5. ASSUME NEW s \in 1..(Len(q) - d), NEW v \in Drop(q, d)[s]
      PROVE  /\ v <= Drop(bs, d)[s]
             /\ \A j \in 1..(s - 1) : Drop(bs, d)[j] < v
  <2>1. s + d \in 1..Len(q) /\ v \in q[s + d]
    BY <1>1, <1>5
  <2>2. v <= bs[s + d] /\ \A j \in 1..(s + d - 1) : bs[j] < v
    BY <2>1 DEF SeparatedBy
  <2>3. v <= Drop(bs, d)[s]
    BY <1>2, <2>2
  <2>4. ASSUME NEW j \in 1..(s - 1) PROVE Drop(bs, d)[j] < v
    <3>1. j \in 1..(Len(q) - d) /\ j + d \in 1..(s + d - 1)
      BY <1>1, <2>4
    <3> QED BY <1>2, <2>2, <3>1
  <2> QED BY <2>3, <2>4
<1> QED BY <1>1, <1>2, <1>3, <1>4, <1>5 DEF SeparatedBy

(* Pushing a label into a block. *)
LEMMA PushedBlocks ==
  ASSUME NEW q \in Blocks, NEW s \in 1..Len(q), NEW v \in Label
  PROVE  LET p == [q EXCEPT ![s] = @ \cup {v}]
         IN  /\ p \in Blocks
             /\ Len(p) = Len(q)
             /\ \A j \in 1..Len(q) : p[j] = IF j = s THEN q[s] \cup {v} ELSE q[j]
             /\ AllOf(p) = AllOf(q) \cup {v}
<1> DEFINE p == [q EXCEPT ![s] = @ \cup {v}]
<1>1. /\ p \in Blocks
      /\ Len(p) = Len(q)
      /\ \A j \in 1..Len(q) : p[j] = IF j = s THEN q[s] \cup {v} ELSE q[j]
  BY DEF Blocks
<1> HIDE DEF p
<1>2. AllOf(p) = AllOf(q) \cup {v}
  BY <1>1, InAllOf
<1> QED BY <1>1, <1>2 DEF p

LEMMA PushedSeparated ==
  ASSUME NEW q \in Blocks, NEW bs, SeparatedBy(q, bs), NEW s \in 1..Len(q),
         NEW v \in Label, v <= bs[s], \A j \in 1..(s - 1) : bs[j] < v
  PROVE  SeparatedBy([q EXCEPT ![s] = @ \cup {v}], bs)
<1> DEFINE p == [q EXCEPT ![s] = @ \cup {v}]
<1>1. /\ Len(p) = Len(q)
      /\ \A j \in 1..Len(q) : p[j] = IF j = s THEN q[s] \cup {v} ELSE q[j]
  BY PushedBlocks
<1> HIDE DEF p
<1>2. ASSUME NEW g \in 1..Len(q), NEW w \in p[g]
      PROVE  w <= bs[g] /\ \A j \in 1..(g - 1) : bs[j] < w
  BY <1>1, <1>2 DEF SeparatedBy
<1>3. SeparatedBy(p, bs)
  BY <1>1, <1>2 DEF SeparatedBy
<1> QED BY <1>3 DEF p

(* Splitting a block and its bound keeps the blocks separated. *)
LEMMA SplitSeparated ==
  ASSUME NEW q \in Blocks, NEW bs \in Seq(Label \cup {B}), SeparatedBy(q, bs),
         NEW s \in 1..Len(q), NEW low \in SUBSET q[s], NEW top \in low,
         \A y \in low : y <= top, AllBelow(low, q[s] \ low), q[s] \ low # {}
  PROVE  SeparatedBy(SplitAt(q, s, low, q[s] \ low), SplitAt(bs, s, top, bs[s]))
<1> DEFINE high == q[s] \ low
           r == SplitAt(q, s, low, high)
           c == SplitAt(bs, s, top, bs[s])
           From(j) == IF j <= s THEN j ELSE j - 1
<1>1. /\ Len(q) \in Nat /\ s \in Nat /\ Len(bs) = Len(q)
      /\ Len(q) > 0
      /\ top \in Label
      /\ Label \cup {B} \subseteq Int
  <2>1. Label \cup {B} \subseteq Int
    BY LabelAssumption, BlockAssumption
  <2>2. q[s] \in SUBSET Label
    BY DEF Blocks
  <2> QED BY <2>1, <2>2 DEF SeparatedBy, Blocks
<1>2. /\ Len(r) = Len(q) + 1
      /\ \A j \in 1..(Len(q) + 1) :
           r[j] = IF j < s THEN q[j] ELSE IF j = s THEN low ELSE IF j = s + 1 THEN high ELSE q[j - 1]
  BY DEF SplitAt, Blocks
<1>3. /\ Len(c) = Len(q) + 1
      /\ \A j \in 1..(Len(q) + 1) :
           c[j] = IF j < s THEN bs[j] ELSE IF j = s THEN top ELSE IF j = s + 1 THEN bs[s] ELSE bs[j - 1]
  BY <1>1 DEF SplitAt
<1> HIDE DEF r, c
<1>11. \A j \in 1..Len(q), k \in 1..Len(q) : j < k => bs[j] < bs[k]
  BY <1>1 DEF SeparatedBy
<1>4. \A j \in 1..(Len(q) + 1) : From(j) \in 1..Len(q) /\ r[j] \subseteq q[From(j)]
  BY <1>1, <1>2
<1>5. \A j \in 1..(Len(q) + 1) : c[j] = IF j = s THEN top ELSE bs[From(j)]
  BY <1>1, <1>3
<1>6. \A j \in 1..Len(q) : bs[j] \in Int /\ q[j] \subseteq Int
  BY <1>1 DEF Blocks
<1>7. top < bs[s]
  <2>1. PICK h \in high : TRUE
    OBVIOUS
  <2>2. top < h /\ h <= bs[s] /\ h \in Int /\ top \in Int
    BY <1>6, <2>1 DEF AllBelow, SeparatedBy
  <2> QED BY <1>6, <2>2
<1>8. /\ Len(c) = Len(r) /\ Len(r) > 0
      /\ c[Len(c)] = B
  <2>1. From(Len(q) + 1) = Len(q) /\ Len(q) + 1 # s
    BY <1>1
  <2> QED BY <1>1, <1>2, <1>3, <1>5, <2>1 DEF SeparatedBy
<1>9. ASSUME NEW g \in 1..Len(c), NEW h \in 1..Len(c), g < h PROVE c[g] < c[h]
  <2>0. g \in 1..(Len(q) + 1) /\ h \in 1..(Len(q) + 1)
    BY <1>3
  <2>1. From(g) \in 1..Len(q) /\ From(h) \in 1..Len(q) /\ From(g) <= From(h)
    BY <1>1, <1>9, <2>0
  <2>2. bs[From(g)] < bs[From(h)] \/ From(g) = From(h)
    <3> HIDE DEF From
    <3> QED BY <1>11, <2>1
  <2>3. CASE g = s
    <3>1. c[g] = top /\ c[h] = bs[From(h)] /\ From(g) = s
      BY <1>5, <1>9, <2>0, <2>3
    <3>2. top \in Int /\ bs[s] \in Int /\ bs[From(h)] \in Int
      BY <1>1, <1>6, <2>1
    <3> HIDE DEF From
    <3> QED BY <1>7, <2>2, <3>1, <3>2
  <2>4. CASE h = s
    <3>1. c[g] = bs[From(g)] /\ c[h] = top /\ From(g) \in 1..(s - 1)
      BY <1>1, <1>5, <1>9, <2>0, <2>4
    <3>2. top \in q[s]
      OBVIOUS
    <3> QED BY <3>1, <3>2 DEF SeparatedBy
  <2>5. CASE g # s /\ h # s
    <3>1. c[g] = bs[From(g)] /\ c[h] = bs[From(h)]
      BY <1>5, <2>0, <2>5
    <3>2. From(g) < From(h)
      BY <1>1, <1>9, <2>0, <2>5
    <3> HIDE DEF From
    <3> QED BY <2>2, <3>1, <3>2, <2>1
  <2> QED BY <2>3, <2>4, <2>5
<1>10. ASSUME NEW g \in 1..Len(r), NEW v \in r[g]
       PROVE  v <= c[g] /\ \A j \in 1..(g - 1) : c[j] < v
  <2>0. g \in 1..(Len(q) + 1)
    BY <1>2
  <2>1. From(g) \in 1..Len(q) /\ v \in q[From(g)] /\ v \in Int
    BY <1>4, <1>6, <1>10, <2>0
  <2>2. v <= c[g]
    <3>1. CASE g = s
      BY <1>2, <1>5, <1>10, <2>0, <3>1
    <3>2. CASE g # s
      BY <1>5, <2>0, <2>1, <3>2 DEF SeparatedBy
    <3> QED BY <3>1, <3>2
  <2>3. ASSUME NEW j \in 1..(g - 1) PROVE c[j] < v
    <3>0. j \in 1..(Len(q) + 1) /\ From(j) \in 1..Len(q) /\ From(j) <= From(g)
      BY <1>1, <2>0, <2>3
    <3>1. CASE j = s
      <4>1. c[j] = top /\ top \in Int /\ bs[s] \in Int
        BY <1>1, <1>5, <1>6, <3>0, <3>1
      <4>2. CASE g = s + 1
        <5>1. v \in high
          BY <1>1, <1>2, <1>10, <2>0, <4>2
        <5> QED BY <4>1, <5>1 DEF AllBelow
      <4>3. CASE g # s + 1
        <5>1. From(g) = g - 1 /\ s \in 1..(From(g) - 1)
          BY <1>1, <2>0, <2>3, <3>1, <4>3
        <5>2. bs[s] < v
          BY <2>1, <5>1 DEF SeparatedBy
        <5> QED BY <1>7, <2>1, <4>1, <5>2
      <4> QED BY <4>2, <4>3
    <3>2. CASE j # s
      <4>1. c[j] = bs[From(j)]
        BY <1>5, <3>0, <3>2
      <4>2. From(j) \in 1..(From(g) - 1)
        BY <1>1, <2>0, <2>3, <3>0, <3>2
      <4> QED BY <2>1, <4>1, <4>2 DEF SeparatedBy
    <3> QED BY <3>1, <3>2
  <2> QED BY <2>2, <2>3
<1> QED BY <1>8, <1>9, <1>10 DEF SeparatedBy, r, c

(* The first live block of ordered blocks holds the least labels. *)
LEMMA FrontSound ==
  ASSUME NEW q \in Blocks, Increasing(q), NEW d \in 0..Len(q), IsDeadPrefix(q, d, 0)
  PROVE  /\ Front(q, d) \subseteq AllOf(q)
         /\ AllOf(q) # {} => Front(q, d) # {}
         /\ AllBelow(Front(q, d), AllOf(q) \ Front(q, d))
<1>1. Len(q) \in Nat /\ d \in Nat
  BY DEF Blocks
<1>2. CASE d = Len(q)
  BY <1>1, <1>2 DEF IsDeadPrefix, Front, AllOf, AllBelow
<1>3. CASE d < Len(q)
  <2>1. /\ Front(q, d) = q[d + 1] /\ d + 1 \in 1..Len(q)
        /\ q[d + 1] # {}
    BY <1>1, <1>3 DEF IsDeadPrefix, Front
  <2>2. ASSUME NEW y \in AllOf(q) \ q[d + 1] PROVE \A f \in q[d + 1] : f < y
    <3>1. PICK s \in 1..Len(q) : y \in q[s]
      BY InAllOf
    <3>2. ~(s \in 1..d)
      BY <3>1 DEF IsDeadPrefix, Prefix
    <3>3. d + 1 < s
      BY <1>1, <2>2, <3>1, <3>2
    <3> QED BY <2>1, <3>1, <3>3 DEF Increasing, AllBelow
  <2> QED BY <2>1, <2>2, InAllOf DEF AllBelow
<1> QED BY <1>1, <1>2, <1>3

(* min_value, which looks at two blocks, returns the least of all labels. *)
LEMMA MinValueSound ==
  ASSUME NEW q0 \in Blocks, NEW q1 \in Blocks, Increasing(q0), Increasing(q1),
         NEW x, MinValueIs(x, q0, q1)
  PROVE  IsMinOr(x, AllOf(q0) \cup AllOf(q1), B)
<1>1. PICK n0 \in 0..Len(q0), n1 \in 0..Len(q1) :
        /\ IsDeadPrefix(q0, n0, 0)
        /\ IsDeadPrefix(q1, n1, 0)
        /\ IsMinOr(x, Front(q0, n0) \cup Front(q1, n1), B)
  BY DEF MinValueIs
<1> DEFINE F0 == Front(q0, n0)
           F1 == Front(q1, n1)
<1>2. /\ F0 \subseteq AllOf(q0) /\ (AllOf(q0) # {} => F0 # {})
      /\ AllBelow(F0, AllOf(q0) \ F0)
  BY <1>1, FrontSound
<1>3. /\ F1 \subseteq AllOf(q1) /\ (AllOf(q1) # {} => F1 # {})
      /\ AllBelow(F1, AllOf(q1) \ F1)
  BY <1>1, FrontSound
<1>4. AllOf(q0) \cup AllOf(q1) \subseteq Int
  <2>1. ASSUME NEW q \in Blocks PROVE AllOf(q) \subseteq Label
    BY InAllOf DEF Blocks
  <2> QED BY <2>1, LabelAssumption
<1>5. IsMinOr(x, F0 \cup F1, B)
  BY <1>1
<1> HIDE DEF F0, F1
<1>6. CASE F0 \cup F1 = {}
  BY <1>2, <1>3, <1>5, <1>6 DEF IsMinOr
<1>7. CASE F0 \cup F1 # {}
  <2>1. x \in F0 \cup F1 /\ \A y \in F0 \cup F1 : x <= y
    BY <1>5, <1>7 DEF IsMinOr
  <2>2. x \in Int
    BY <1>2, <1>3, <1>4, <2>1
  <2>3. ASSUME NEW y \in AllOf(q0) \cup AllOf(q1) PROVE x <= y
    <3>1. CASE y \in F0 \cup F1
      BY <2>1, <3>1
    <3>2. CASE y \notin F0 \cup F1
      <4>1. PICK f \in F0 \cup F1 : f < y
        BY <1>2, <1>3, <2>3, <3>2 DEF AllBelow
      <4>2. x <= f /\ f \in Int /\ y \in Int
        BY <1>2, <1>3, <1>4, <2>1, <2>3, <4>1
      <4> QED BY <2>2, <4>1, <4>2
    <3> QED BY <3>1, <3>2
  <2> QED BY <1>2, <1>3, <2>1, <2>3 DEF IsMinOr
<1> QED BY <1>6, <1>7

-----------------------------------------------------------------------------
(* The inductive invariant.                                                 *)

LEMMA NoResultType == NoResult \in [keys : SUBSET Vertex, bound : Label \cup {B}]
  BY DEF NoResult

LEMMA InitInv == Init => IInv
<1> SUFFICES ASSUME Init PROVE IInv
  OBVIOUS
<1>1. TypeOK
  BY NoResultType DEF Init, TypeOK
<1>2. AllOf(d0) = {} /\ AllOf(d1) = {} /\ AllOf(chunks) = {}
  BY DEF Init, AllOf, Prefix
<1>3. RegistryCoherent
  BY <1>2 DEF Init, RegistryCoherent, OnePerVertex
<1>4. BlocksOrdered /\ Increasing(chunks)
  BY DEF Init, BlocksOrdered, Increasing, AllBelow
<1>5. BoundsSeparate
  BY DEF Init, BoundsSeparate, SeparatedBy
<1>6. ChunksPending
  BY <1>2, <1>4, BlockAssumption DEF Init, ChunksPending, AllBelow
<1> QED BY <1>1, <1>3, <1>4, <1>5, <1>6 DEF IInv

(* What IInv says of the blocks, in the form the lemmas above take. *)
LEMMA InvBlocks ==
  ASSUME IInv
  PROVE  /\ d0 \in Blocks /\ d1 \in Blocks /\ chunks \in Blocks
         /\ bounds \in Seq(Label \cup {B})
         /\ registry \subseteq Label
         /\ Increasing(d0) /\ Increasing(d1)
         /\ SeparatedBy(d1, bounds)
         /\ Len(bounds) = Len(d1)
         /\ AllOf(d0) \cup AllOf(d1) = registry
         /\ AllOf(d0) \cap AllOf(d1) = {}
         /\ Idle => AllOf(chunks) = {}
<1>1. Idle => AllOf(chunks) = {}
  BY DEF Idle, AllOf, Prefix
<1>2. SeparatedBy(d1, bounds)
  BY DEF IInv, BoundsSeparate
<1>3. Len(bounds) = Len(d1)
  BY <1>2 DEF SeparatedBy
<1>4. AllOf(d0) \cup AllOf(d1) = registry /\ AllOf(d0) \cap AllOf(d1) = {}
  BY DEF IInv, RegistryCoherent
<1>5. /\ d0 \in Blocks /\ d1 \in Blocks /\ chunks \in Blocks
      /\ bounds \in Seq(Label \cup {B}) /\ registry \subseteq Label
  BY DEF IInv, TypeOK, Blocks
<1> QED BY <1>1, <1>2, <1>3, <1>4, <1>5 DEF IInv, BlocksOrdered

LEMMA InsertIgnoredInv ==
  ASSUME IInv, NEW v \in Label, InsertIgnored(v)
  PROVE  IInv'
<1>1. TypeOK'
  BY NoResultType DEF IInv, TypeOK, InsertIgnored
<1> QED
  BY <1>1 DEF IInv, InsertIgnored, RegistryCoherent, BlocksOrdered, BoundsSeparate,
              ChunksPending

LEMMA InsertStoredInv ==
  ASSUME IInv, NEW v \in Label, InsertStored(v)
  PROVE  IInv'
<1> DEFINE old == SameVertex(registry, v)
           q   == Without(d1, old)
<1>1. PICK idx \in 1..Len(bounds) :
        LET pushed == [q EXCEPT ![idx] = @ \cup {v}]
        IN  /\ IsBlockFor(idx, v)
            /\ \/ /\ Cardinality(pushed[idx]) <= M
                  /\ d1' = pushed
                  /\ UNCHANGED bounds
               \/ /\ Cardinality(pushed[idx]) > M
                  /\ SplitD1(pushed, idx)
  BY DEF InsertStored
<1>2. /\ Idle /\ v < B
      /\ d0' = Without(d0, old)
      /\ registry' = (registry \ old) \cup {v}
      /\ ret' = NoResult
      /\ UNCHANGED <<chunks, limit>>
  BY DEF InsertStored
<1> DEFINE pushed == [q EXCEPT ![idx] = @ \cup {v}]
<1>3. /\ q \in Blocks /\ Len(q) = Len(d1) /\ AllOf(q) = AllOf(d1) \ old
      /\ SeparatedBy(q, bounds)
      /\ idx \in 1..Len(q)
      /\ Len(bounds) = Len(q)
  BY InvBlocks, WithoutBlocks, WithoutSeparated
<1>4. v <= bounds[idx] /\ \A j \in 1..(idx - 1) : bounds[j] < v
  BY <1>1 DEF IsBlockFor
<1> HIDE DEF q
<1>5. /\ pushed \in Blocks /\ Len(pushed) = Len(q)
      /\ AllOf(pushed) = AllOf(q) \cup {v}
      /\ pushed[idx] = q[idx] \cup {v}
  <2>1. LET p == [q EXCEPT ![idx] = @ \cup {v}]
        IN  /\ p \in Blocks
            /\ Len(p) = Len(q)
            /\ \A j \in 1..Len(q) : p[j] = IF j = idx THEN q[idx] \cup {v} ELSE q[j]
            /\ AllOf(p) = AllOf(q) \cup {v}
    BY <1>3, PushedBlocks
  <2> QED BY <1>3, <2>1
<1>6. SeparatedBy(pushed, bounds)
  BY <1>3, <1>4, PushedSeparated
<1>7. bounds \in Seq(Label \cup {B})
  BY InvBlocks
<1>8. \/ d1' = pushed /\ UNCHANGED bounds
      \/ Cardinality(pushed[idx]) > M /\ SplitD1(pushed, idx)
  BY <1>1
<1> HIDE DEF pushed
<1>9. /\ d1' \in Blocks
      /\ bounds' \in Seq(Label \cup {B})
      /\ AllOf(d1)' = AllOf(q) \cup {v}
      /\ SeparatedBy(d1, bounds)'
  <2>1. CASE d1' = pushed /\ UNCHANGED bounds
    BY <1>5, <1>6, <1>7, <2>1 DEF AllOf, SeparatedBy
  <2>2. CASE Cardinality(pushed[idx]) > M /\ SplitD1(pushed, idx)
    <3> DEFINE P == pushed[idx]
    <3>0. PICK low \in SUBSET P : \E top \in low :
            /\ IsSmallest(low, P, Cardinality(P) \div 2)
            /\ \A y \in low : y <= top
            /\ d1' = SplitAt(pushed, idx, low, P \ low)
            /\ bounds' = SplitAt(bounds, idx, top, bounds[idx])
      BY <2>2 DEF SplitD1
    <3>1. PICK top \in low :
            /\ IsSmallest(low, P, Cardinality(P) \div 2)
            /\ \A y \in low : y <= top
            /\ d1' = SplitAt(pushed, idx, low, P \ low)
            /\ bounds' = SplitAt(bounds, idx, top, bounds[idx])
      BY <3>0
    <3>2. idx \in 1..Len(pushed) /\ P \in SUBSET Label
      BY <1>3, <1>5 DEF Blocks
    <3>3. P \ low # {}
      <4>1. IsFiniteSet(P)
        BY <3>2, LabelAssumption, FS_Subset
      <4>2. Cardinality(P) \in Nat
        BY <4>1, FS_CardinalityType
      <4>3. Cardinality(P) > 0
        BY <2>2, <4>2, BlockAssumption
      <4>4. Cardinality(low) # Cardinality(P)
        BY <3>1, <4>2, <4>3 DEF IsSmallest
      <4> SUFFICES ASSUME P \ low = {} PROVE FALSE
        OBVIOUS
      <4>5. low = P
        OBVIOUS
      <4> QED BY <4>4, <4>5
    <3>4. AllBelow(low, P \ low)
      BY <3>1 DEF IsSmallest
    <3>5. SeparatedBy(d1, bounds)'
      <4>1. SeparatedBy(SplitAt(pushed, idx, low, P \ low), SplitAt(bounds, idx, top, bounds[idx]))
        BY <1>5, <1>6, <1>7, <3>1, <3>2, <3>3, <3>4, SplitSeparated
      <4> QED BY <3>1, <4>1 DEF SeparatedBy
    <3>6. AllOf(d1)' = AllOf(pushed)
      <4>1. AllOf(SplitAt(pushed, idx, low, P \ low)) = AllOf(pushed) \cup P
        <5>1. pushed \in Blocks /\ low \in SUBSET P /\ pushed[idx] \subseteq P
          BY <1>5
        <5>2. P \in SUBSET Label /\ idx \in 1..Len(pushed)
          BY <3>2
        <5> HIDE DEF P, pushed
        <5> QED BY <5>1, <5>2, SplitAtBlocks, Zenon
      <4>2. P \subseteq AllOf(pushed)
        BY <1>5, <3>2, InAllOf
      <4> QED BY <3>1, <4>1, <4>2 DEF AllOf
    <3>7. d1' \in Blocks
      <4>1. low \in SUBSET Label /\ P \ low \in SUBSET Label
        BY <3>2
      <4> QED BY <1>5, <3>1, <3>2, <4>1 DEF SplitAt, Blocks
    <3>8. bounds' \in Seq(Label \cup {B})
      <4>1. top \in Label \cup {B} /\ bounds[idx] \in Label \cup {B}
        BY <1>7, <3>2
      <4> QED BY <1>7, <3>1, <4>1 DEF SplitAt
    <3> QED BY <1>5, <3>5, <3>6, <3>7, <3>8
  <2> QED BY <1>8, <2>1, <2>2
<1>10. d0' \in Blocks /\ AllOf(d0)' = AllOf(d0) \ old /\ Increasing(d0)'
  BY <1>2, InvBlocks, WithoutBlocks, WithoutIncreasing DEF AllOf, Increasing
<1>11. Increasing(d1)'
  <2>1. SeparatedBy(d1', bounds')
    BY <1>9 DEF SeparatedBy
  <2>2. Increasing(d1')
    BY <1>9, <2>1, SeparatedIncreasing
  <2> QED BY <2>2 DEF Increasing
<1>12. AllOf(chunks)' = {} /\ AllOf(chunks) = {}
  BY <1>2, InvBlocks DEF AllOf
<1>13. TypeOK'
  BY <1>2, <1>9, <1>10, NoResultType DEF IInv, TypeOK, Blocks
<1>14. RegistryCoherent'
  <2>1. /\ registry = AllOf(d0) \cup AllOf(d1) /\ AllOf(d0) \cap AllOf(d1) = {}
        /\ OnePerVertex(registry)
    BY <1>12, InvBlocks DEF IInv, RegistryCoherent
  <2>2. registry' = AllOf(d0)' \cup AllOf(d1)'
    BY <1>2, <1>3, <1>9, <1>10, <2>1
  <2>3. v \notin registry \ old
    BY DEF SameVertex
  <2>4. AllOf(d0)' \cap AllOf(d1)' = {}
    BY <1>3, <1>9, <1>10, <2>1, <2>3
  <2>5. OnePerVertex((registry \ old) \cup {v})
    BY <2>1 DEF OnePerVertex, SameVertex
  <2> QED BY <1>2, <1>12, <2>2, <2>4, <2>5 DEF RegistryCoherent, OnePerVertex
<1>15. BoundsSeparate'
  BY <1>2, <1>9 DEF IInv, BoundsSeparate
<1>16. ChunksPending'
  BY <1>2, <1>12 DEF IInv, ChunksPending, AllBelow, Increasing
<1> QED BY <1>10, <1>11, <1>13, <1>14, <1>15, <1>16 DEF IInv, BlocksOrdered

(* Deduplication leaves one label per vertex. *)
LEMMA KeepMinOnePerVertex ==
  ASSUME NEW added \in SUBSET Label
  PROVE  KeepMin(added) \subseteq added /\ OnePerVertex(KeepMin(added))
<1>1. KeepMin(added) \subseteq added
  BY DEF KeepMin
<1>2. ASSUME NEW x \in KeepMin(added), NEW y \in KeepMin(added), VertexOf[x] = VertexOf[y]
      PROVE  x = y
  <2>1. x <= y /\ y <= x
    BY <1>2 DEF KeepMin, SameVertex
  <2>2. x \in Int /\ y \in Int
    BY <1>1, LabelAssumption
  <2> QED BY <2>1, <2>2
<1> QED BY <1>1, <1>2 DEF OnePerVertex

(* A batch that passes the assertion on the current minimum is below       *)
(* everything stored.                                                      *)
LEMMA PrependBelow ==
  ASSUME IInv, NEW S \in SUBSET Label, NEW x, MinValueIs(x, d0, d1), \A v \in S : v < x
  PROVE  AllBelow(S, registry \cup {B})
<1>1. IsMinOr(x, registry, B)
  BY InvBlocks, MinValueSound
<1>2. \A y \in registry : y < B
  BY DEF IInv, BoundsSeparate
<1>3. registry \subseteq Int /\ S \subseteq Int /\ B \in Int
  BY InvBlocks, LabelAssumption, BlockAssumption
<1>4. x <= B /\ x \in Int /\ \A y \in registry : x <= y
  <2>1. CASE registry = {}
    BY <1>1, <1>3, <2>1 DEF IsMinOr
  <2>2. CASE registry # {}
    <3>1. x \in registry /\ \A y \in registry : x <= y
      BY <1>1, <2>2 DEF IsMinOr
    <3>2. x \in Int /\ x < B
      BY <1>2, <1>3, <3>1
    <3> QED BY <1>3, <3>1, <3>2
  <2> QED BY <2>1, <2>2
<1>5. ASSUME NEW v \in S, NEW y \in registry \cup {B} PROVE v < y
  <2>1. v < x /\ x <= y /\ v \in Int /\ y \in Int
    BY <1>3, <1>4
  <2> QED BY <1>4, <2>1
<1> QED BY <1>5 DEF AllBelow

LEMMA PrependBeginInv ==
  ASSUME IInv, NEW added \in SUBSET Label, PrependBegin(added)
  PROVE  IInv'
<1> DEFINE dedup == KeepMin(added)
           old   == {r \in registry : \E v \in added : VertexOf[r] = VertexOf[v]}
<1>1. /\ Idle
      /\ d0' = Without(d0, old)
      /\ d1' = Without(d1, old)
      /\ registry' = registry \ old
      /\ chunks' = << dedup >>
      /\ limit' = IF Cardinality(dedup) <= M THEN M ELSE ChunkCap
      /\ ret' = NoResult
      /\ UNCHANGED bounds
  BY DEF PrependBegin
<1>2. dedup \subseteq Label /\ OnePerVertex(dedup)
  BY KeepMinOnePerVertex
<1>3. AllBelow(dedup, registry \cup {B})
  <2>1. PICK x : MinValueIs(x, d0, d1) /\ \A v \in dedup : v < x
    BY DEF PrependBegin
  <2> HIDE DEF dedup
  <2> QED BY <1>2, <2>1, PrependBelow
<1>4. \A r \in registry \ old : \A v \in dedup : VertexOf[r] # VertexOf[v]
  BY KeepMinOnePerVertex
<1> HIDE DEF dedup, old
<1>5. /\ d0' \in Blocks /\ AllOf(d0)' = AllOf(d0) \ old /\ Increasing(d0)'
      /\ d1' \in Blocks /\ AllOf(d1)' = AllOf(d1) \ old /\ Increasing(d1)'
  BY <1>1, InvBlocks, WithoutBlocks, WithoutIncreasing DEF AllOf, Increasing
<1>6. SeparatedBy(d1, bounds)'
  <2>1. SeparatedBy(Without(d1, old), bounds)
    BY InvBlocks, WithoutSeparated
  <2> QED BY <1>1, <2>1 DEF SeparatedBy
<1>7. chunks' \in Blocks /\ AllOf(chunks)' = dedup
  <2>1. Len(chunks') = 1 /\ chunks'[1] = dedup
    BY <1>1
  <2> QED BY <1>1, <1>2, <2>1 DEF AllOf, Prefix, Blocks
<1>8. limit' \in Nat /\ limit' <= M
  BY <1>1, BlockAssumption DEF ChunkCap
<1>9. TypeOK'
  BY <1>1, <1>5, <1>7, <1>8, NoResultType DEF IInv, TypeOK, Blocks
<1>10. RegistryCoherent'
  <2>1. /\ registry = AllOf(d0) \cup AllOf(d1) /\ AllOf(d0) \cap AllOf(d1) = {}
        /\ OnePerVertex(registry)
    BY DEF IInv, RegistryCoherent, OnePerVertex
  <2>2. registry' \cap dedup = {}
    BY <1>1, <1>4
  <2>3. OnePerVertex(registry' \cup dedup)
    BY <1>1, <1>2, <1>4, <2>1 DEF OnePerVertex
  <2> QED BY <1>1, <1>5, <1>7, <2>1, <2>2, <2>3 DEF RegistryCoherent, OnePerVertex
<1>11. BoundsSeparate'
  BY <1>1, <1>6 DEF IInv, BoundsSeparate
<1>12. Increasing(chunks)'
  <2>1. Len(chunks') = 1
    BY <1>1
  <2> QED BY <2>1 DEF Increasing
<1>13. ChunksPending'
  BY <1>1, <1>3, <1>7, <1>8, <1>12 DEF ChunksPending, AllBelow
<1> QED BY <1>5, <1>9, <1>10, <1>11, <1>13 DEF IInv, BlocksOrdered

(* Halving a chunk changes only how the batch is divided. *)
LEMMA ChunkStep ==
  ASSUME IInv, ChunkByMedian
  PROVE  /\ chunks' \in Blocks
         /\ AllOf(chunks)' = AllOf(chunks)
         /\ Increasing(chunks)'
         /\ UNCHANGED <<d0, d1, bounds, registry, limit, ret>>
<1>1. PICK s \in 1..Len(chunks) : \E lower \in SUBSET chunks[s] :
        /\ IsSmallest(lower, chunks[s], Cardinality(chunks[s]) \div 2)
        /\ chunks' = SplitAt(chunks, s, lower, chunks[s] \ lower)
  BY DEF ChunkByMedian
<1>2. PICK lower \in SUBSET chunks[s] :
        /\ IsSmallest(lower, chunks[s], Cardinality(chunks[s]) \div 2)
        /\ chunks' = SplitAt(chunks, s, lower, chunks[s] \ lower)
  BY <1>1
<1>3. chunks \in Blocks /\ Increasing(chunks)
  BY InvBlocks DEF IInv, ChunksPending
<1>4. chunks[s] \in SUBSET Label /\ chunks[s] \subseteq AllOf(chunks)
  BY <1>3, InAllOf DEF Blocks
<1>5. chunks' \in Blocks
  <2>1. lower \in SUBSET Label /\ chunks[s] \ lower \in SUBSET Label
    BY <1>4
  <2> QED BY <1>2, <1>3, <2>1 DEF SplitAt, Blocks
<1>6. AllOf(chunks)' = AllOf(chunks)
  <2>1. AllOf(SplitAt(chunks, s, lower, chunks[s] \ lower)) = AllOf(chunks) \cup chunks[s]
    BY <1>3, <1>4, SplitAtBlocks
  <2> QED BY <1>2, <1>4, <2>1 DEF AllOf
<1>7. Increasing(chunks)'
  <2>1. Increasing(SplitAt(chunks, s, lower, chunks[s] \ lower))
    BY <1>2, <1>3, SplitAtIncreasing DEF IsSmallest
  <2> QED BY <1>2, <2>1 DEF Increasing
<1> QED BY <1>5, <1>6, <1>7 DEF ChunkByMedian

LEMMA ChunkByMedianInv ==
  ASSUME IInv, ChunkByMedian
  PROVE  IInv'
<1>1. /\ chunks' \in Blocks /\ AllOf(chunks)' = AllOf(chunks) /\ Increasing(chunks)'
      /\ UNCHANGED <<d0, d1, bounds, registry, limit, ret>>
  BY ChunkStep
<1>2. TypeOK'
  BY <1>1 DEF IInv, TypeOK, Blocks
<1>3. RegistryCoherent'
  BY <1>1 DEF IInv, RegistryCoherent, OnePerVertex, AllOf
<1>4. ChunksPending'
  BY <1>1 DEF IInv, ChunksPending, AllBelow
<1> QED BY <1>1, <1>2, <1>3, <1>4 DEF IInv, BlocksOrdered, BoundsSeparate

LEMMA PrependEndInv ==
  ASSUME IInv, PrependEnd
  PROVE  IInv'
<1>1. /\ d0' = chunks \o d0
      /\ registry' = registry \cup AllOf(chunks)
      /\ chunks' = << >>
      /\ limit' = 0
      /\ UNCHANGED <<d1, bounds, ret>>
  BY DEF PrependEnd, PrependedFirst
<1>2. /\ d0' \in Blocks /\ AllOf(d0)' = AllOf(chunks) \cup AllOf(d0)
  BY <1>1, InvBlocks, ConcatBlocks DEF AllOf
<1>3. AllBelow(AllOf(chunks), registry \cup {B}) /\ Increasing(chunks)
  BY DEF IInv, ChunksPending
<1>4. Increasing(d0)'
  <2>1. AllBelow(AllOf(chunks), AllOf(d0))
    BY <1>3, InvBlocks DEF AllBelow
  <2>2. Increasing(chunks \o d0)
    BY <1>3, <2>1, InvBlocks, ConcatIncreasing
  <2> QED BY <1>1, <2>2 DEF Increasing
<1>5. AllOf(chunks) \subseteq Label
  BY InvBlocks, InAllOf DEF Blocks
<1>6. AllOf(chunks)' = {}
  BY <1>1 DEF AllOf, Prefix
<1>7. TypeOK'
  BY <1>1, <1>2, <1>5 DEF IInv, TypeOK, Blocks
<1>8. RegistryCoherent'
  <2>1. /\ registry = AllOf(d0) \cup AllOf(d1) /\ AllOf(d0) \cap AllOf(d1) = {}
        /\ registry \cap AllOf(chunks) = {}
        /\ OnePerVertex(registry \cup AllOf(chunks))
    BY DEF IInv, RegistryCoherent
  <2>2. AllOf(d1)' = AllOf(d1)
    BY <1>1 DEF AllOf
  <2> QED BY <1>1, <1>2, <1>6, <2>1, <2>2 DEF RegistryCoherent, OnePerVertex
<1>9. BoundsSeparate'
  BY <1>1, <1>3 DEF IInv, BoundsSeparate, AllBelow
<1>10. ChunksPending'
  BY <1>1, <1>6, BlockAssumption DEF ChunksPending, AllBelow, Increasing
<1>11. Increasing(d1)'
  BY <1>1 DEF IInv, BlocksOrdered
<1> QED BY <1>4, <1>7, <1>8, <1>9, <1>10, <1>11 DEF IInv, BlocksOrdered

(* What a pull returns are vertices. *)
LEMMA VerticesType ==
  ASSUME NEW S \in SUBSET Label
  PROVE  Vertices(S) \in SUBSET Vertex
  BY LabelAssumption DEF Vertices

(* The blocks that a pull collects hold stored labels. *)
LEMMA UnionStored ==
  ASSUME IInv, NEW n0 \in 0..Len(d0), NEW n1 \in 0..Len(d1)
  PROVE  Prefix(d0, n0) \cup Prefix(d1, n1) \subseteq registry
<1>1. ASSUME NEW q \in Blocks, NEW d \in 0..Len(q) PROVE Prefix(q, d) \subseteq AllOf(q)
  <2>1. Len(q) \in Nat /\ 1..d \subseteq 1..Len(q)
    BY DEF Blocks
  <2> QED BY <2>1 DEF Prefix, AllOf
<1>2. d0 \in Blocks /\ d1 \in Blocks
  BY InvBlocks
<1>3. Prefix(d0, n0) \subseteq AllOf(d0) /\ Prefix(d1, n1) \subseteq AllOf(d1)
  BY <1>1, <1>2
<1> QED BY <1>3, InvBlocks

LEMMA PullAllInv ==
  ASSUME IInv, PullAll
  PROVE  IInv' /\ registry' = {} /\ ret' = [keys |-> Vertices(registry), bound |-> B]
<1>1. PICK n0 \in 0..Len(d0), n1 \in 0..Len(d1) :
        LET union == Prefix(d0, n0) \cup Prefix(d1, n1)
        IN  /\ Idle
            /\ n0 = Len(d0) /\ n1 = Len(d1)
            /\ registry' = registry \ union
            /\ d0' = << >>
            /\ d1' = << {} >>
            /\ bounds' = << B >>
            /\ ret' = [keys |-> Vertices(union), bound |-> B]
            /\ UNCHANGED <<chunks, limit>>
  BY DEF PullAll
<1>2. Prefix(d0, n0) \cup Prefix(d1, n1) = registry
  BY <1>1, InvBlocks DEF AllOf
<1>3. registry' = {} /\ ret' = [keys |-> Vertices(registry), bound |-> B]
  BY <1>1, <1>2
<1>4. AllOf(d0)' = {} /\ AllOf(d1)' = {} /\ AllOf(chunks)' = {}
  BY <1>1, InvBlocks DEF AllOf, Prefix
<1>5. TypeOK'
  BY <1>1, <1>3, InvBlocks, VerticesType DEF IInv, TypeOK
<1>6. RegistryCoherent'
  BY <1>3, <1>4 DEF RegistryCoherent, OnePerVertex
<1>7. BlocksOrdered'
  BY <1>1 DEF BlocksOrdered, Increasing, AllBelow
<1>8. BoundsSeparate'
  BY <1>1, <1>3 DEF BoundsSeparate, SeparatedBy
<1>9. ChunksPending'
  BY <1>1, <1>4 DEF IInv, ChunksPending, AllBelow
<1> QED BY <1>3, <1>5, <1>6, <1>7, <1>8, <1>9 DEF IInv

LEMMA PullSmallestInv ==
  ASSUME IInv, PullSmallest
  PROVE  IInv'
<1>1. PICK n0 \in 0..Len(d0), n1 \in 0..Len(d1) :
        LET union == Prefix(d0, n0) \cup Prefix(d1, n1)
        IN  \E T \in SUBSET union :
             LET q0 == Without(d0, T)
                 q1 == Without(d1, T)
             IN  /\ registry' = registry \ T
                 /\ \E k0 \in 0..Len(q0), k1 \in 0..Len(q1) :
                      /\ IsDeadPrefix(q0, k0, 0)
                      /\ IsDeadPrefix(q1, k1, 1)
                      /\ d0' = Drop(q0, k0)
                      /\ d1' = Drop(q1, k1)
                      /\ bounds' = Drop(bounds, k1)
                 /\ \E x \in Label \cup {B} : ret' = [keys |-> Vertices(T), bound |-> x]
  BY DEF PullSmallest
<1>2. PICK T \in SUBSET (Prefix(d0, n0) \cup Prefix(d1, n1)) :
             LET q0 == Without(d0, T)
                 q1 == Without(d1, T)
             IN  /\ registry' = registry \ T
                 /\ \E k0 \in 0..Len(q0), k1 \in 0..Len(q1) :
                      /\ IsDeadPrefix(q0, k0, 0)
                      /\ IsDeadPrefix(q1, k1, 1)
                      /\ d0' = Drop(q0, k0)
                      /\ d1' = Drop(q1, k1)
                      /\ bounds' = Drop(bounds, k1)
                 /\ \E x \in Label \cup {B} : ret' = [keys |-> Vertices(T), bound |-> x]
  BY <1>1
<1>3. T \subseteq registry /\ T \in SUBSET Label
  BY UnionStored, InvBlocks
<1> DEFINE q0 == Without(d0, T)
           q1 == Without(d1, T)
<1>4. PICK k0 \in 0..Len(q0), k1 \in 0..Len(q1) :
        /\ IsDeadPrefix(q0, k0, 0)
        /\ IsDeadPrefix(q1, k1, 1)
        /\ d0' = Drop(q0, k0)
        /\ d1' = Drop(q1, k1)
        /\ bounds' = Drop(bounds, k1)
  BY <1>2
<1>5. /\ q0 \in Blocks /\ AllOf(q0) = AllOf(d0) \ T /\ Increasing(q0)
      /\ q1 \in Blocks /\ AllOf(q1) = AllOf(d1) \ T /\ Increasing(q1)
      /\ SeparatedBy(q1, bounds)
  BY InvBlocks, WithoutBlocks, WithoutIncreasing, WithoutSeparated
<1> HIDE DEF q0, q1
<1>6. /\ d0' \in Blocks /\ d1' \in Blocks
  BY <1>4, <1>5, DropSeq DEF Blocks
<1>7. AllOf(d0)' = AllOf(d0) \ T /\ AllOf(d1)' = AllOf(d1) \ T
  <2>1. Prefix(q0, k0) = {} /\ Prefix(q1, k1) = {}
    BY <1>4 DEF IsDeadPrefix
  <2>2. AllOf(Drop(q0, k0)) = AllOf(q0) /\ AllOf(Drop(q1, k1)) = AllOf(q1)
    BY <1>5, <2>1, DropBlocks
  <2> QED BY <1>4, <1>5, <2>2 DEF AllOf
<1>8. Increasing(d0)' /\ Increasing(d1)'
  <2>1. Increasing(Drop(q0, k0)) /\ Increasing(Drop(q1, k1))
    BY <1>5, DropIncreasing
  <2> QED BY <1>4, <2>1 DEF Increasing
<1>9. bounds \in Seq(Label \cup {B}) /\ Len(bounds) = Len(q1)
  BY <1>5, InvBlocks DEF SeparatedBy
<1>10. k1 \in 0..(Len(q1) - 1)
  BY <1>4, <1>5 DEF IsDeadPrefix, Blocks
<1>11. bounds' \in Seq(Label \cup {B})
  BY <1>4, <1>9 DEF Drop
<1>12. SeparatedBy(d1, bounds)'
  <2>1. SeparatedBy(Drop(q1, k1), Drop(bounds, k1))
    BY <1>5, <1>9, <1>10, DropSeparated
  <2> QED BY <1>4, <2>1 DEF SeparatedBy
<1>13. registry' = registry \ T
  BY <1>2
<1>14. Idle /\ UNCHANGED <<chunks, limit>>
  BY DEF PullSmallest
<1>15. AllOf(chunks)' = {} /\ AllOf(chunks) = {}
  BY <1>14, InvBlocks DEF AllOf
<1>16. TypeOK'
  <2>1. ret' \in [keys : SUBSET Vertex, bound : Label \cup {B}]
    BY <1>2, <1>3, VerticesType
  <2> QED BY <1>6, <1>11, <1>13, <1>14, <2>1 DEF IInv, TypeOK, Blocks
<1>17. RegistryCoherent'
  <2>1. OnePerVertex(registry)
    BY DEF IInv, RegistryCoherent, OnePerVertex
  <2>2. OnePerVertex(registry \ T)
    BY <2>1 DEF OnePerVertex
  <2> QED BY <1>7, <1>13, <1>15, <2>2, InvBlocks DEF RegistryCoherent, OnePerVertex
<1>18. BoundsSeparate'
  BY <1>12, <1>13 DEF IInv, BoundsSeparate
<1>19. ChunksPending'
  BY <1>14, <1>15 DEF IInv, ChunksPending, AllBelow, Increasing
<1> QED BY <1>8, <1>16, <1>17, <1>18, <1>19 DEF IInv, BlocksOrdered

LEMMA NextInv == IInv /\ [Next]_vars => IInv'
<1> SUFFICES ASSUME IInv, [Next]_vars PROVE IInv'
  OBVIOUS
<1>1. ASSUME NEW v \in Label, InsertIgnored(v) PROVE IInv'
  BY <1>1, InsertIgnoredInv
<1>2. ASSUME NEW v \in Label, InsertStored(v) PROVE IInv'
  BY <1>2, InsertStoredInv
<1>3. ASSUME NEW added \in SUBSET Label, PrependBegin(added) PROVE IInv'
  BY <1>3, PrependBeginInv
<1>4. CASE ChunkByMedian
  BY <1>4, ChunkByMedianInv
<1>5. CASE PrependEnd
  BY <1>5, PrependEndInv
<1>6. CASE PullAll
  BY <1>6, PullAllInv
<1>7. CASE PullSmallest
  BY <1>7, PullSmallestInv
<1>8. CASE UNCHANGED vars
  <2>1. TypeOK'
    BY <1>8 DEF vars, IInv, TypeOK
  <2>2. RegistryCoherent' /\ BlocksOrdered'
    BY <1>8 DEF vars, IInv, RegistryCoherent, BlocksOrdered
  <2>3. BoundsSeparate' /\ ChunksPending'
    BY <1>8 DEF vars, IInv, BoundsSeparate, ChunksPending
  <2> QED BY <2>1, <2>2, <2>3 DEF IInv
<1> QED BY <1>1, <1>2, <1>3, <1>4, <1>5, <1>6, <1>7, <1>8 DEF Next

(* The invariant holds in every reachable state. *)
THEOREM Inductive == Spec => []IInv
  BY InitInv, NextInv, PTL DEF Spec

(* The blocks, bounds and registry have the types the code gives them. *)
THEOREM TypeCorrect == Spec => []TypeOK
  <1>1. IInv => TypeOK
    BY DEF IInv
  <1> QED BY <1>1, Inductive, PTL

(* The registry lists exactly the live slots, one label per vertex. *)
THEOREM RegistryNeverDrifts == Spec => []RegistryCoherent
  <1>1. IInv => RegistryCoherent
    BY DEF IInv
  <1> QED BY <1>1, Inductive, PTL

(* Every block of a sequence is below the next. *)
THEOREM BlocksStayOrdered == Spec => []BlocksOrdered
  <1>1. IInv => BlocksOrdered
    BY DEF IInv
  <1> QED BY <1>1, Inductive, PTL

(* The bounds of d1 enclose their blocks, so a bisection finds a label. *)
THEOREM BoundsStaySeparate == Spec => []BoundsSeparate
  <1>1. IInv => BoundsSeparate
    BY DEF IInv
  <1> QED BY <1>1, Inductive, PTL

(* The batch being chunked stays below everything stored. *)
THEOREM ChunksStayPending == Spec => []ChunksPending
  <1>1. IInv => ChunksPending
    BY DEF IInv
  <1> QED BY <1>1, Inductive, PTL

-----------------------------------------------------------------------------
(* The sizes of blocks.                                                     *)

(* No block of q is larger than M. *)
AtMostM(q) == \A s \in 1..Len(q) : Cardinality(q[s]) <= M

(* Tombstones make blocks smaller. *)
LEMMA WithoutSizes ==
  ASSUME NEW q \in Blocks, NEW S, AtMostM(q)
  PROVE  AtMostM(Without(q, S))
<1> SUFFICES ASSUME NEW s \in 1..Len(q) PROVE Cardinality(q[s] \ S) <= M
  BY WithoutBlocks DEF AtMostM
<1>1. IsFiniteSet(q[s]) /\ q[s] \ S \in SUBSET q[s]
  BY LabelAssumption, FS_Subset DEF Blocks
<1>2. Cardinality(q[s] \ S) <= Cardinality(q[s]) /\ IsFiniteSet(q[s] \ S)
  BY <1>1, FS_Subset
<1>3. Cardinality(q[s] \ S) \in Nat /\ Cardinality(q[s]) \in Nat
  BY <1>1, <1>2, FS_CardinalityType
<1>4. Cardinality(q[s]) <= M /\ M \in Nat
  BY BlockAssumption DEF AtMostM
<1> QED BY <1>2, <1>3, <1>4

(* Half of M + 1 labels, rounded either way, is at most M.                 *)
LEMMA HalfOf ==
  ASSUME NEW P, IsFiniteSet(P), Cardinality(P) = M + 1,
         NEW low \in SUBSET P, Cardinality(low) = (M + 1) \div 2
  PROVE  Cardinality(low) <= M /\ Cardinality(P \ low) <= M
<1>1. M \in Nat \ {0}
  BY BlockAssumption
<1>2. Cardinality(P \ low) = Cardinality(P) - Cardinality(P \cap low)
  BY FS_Difference
<1>3. P \cap low = low
  OBVIOUS
<1>4. Cardinality(P \ low) = Cardinality(P) - Cardinality(low)
  BY <1>2, <1>3, Zenon
<1>5. (M + 1) \div 2 <= M /\ M + 1 - ((M + 1) \div 2) <= M
  BY <1>1
<1> QED BY <1>1, <1>4, <1>5

(* One label more makes a block one larger at most, and then it is halved.  *)
LEMMA InsertSizes ==
  ASSUME IInv, NoneOutgrows, NEW v \in Label, InsertStored(v)
  PROVE  NoneOutgrows'
<1> DEFINE old == SameVertex(registry, v)
           q   == Without(d1, old)
<1>1. PICK idx \in 1..Len(bounds) :
        LET pushed == [q EXCEPT ![idx] = @ \cup {v}]
        IN  \/ /\ Cardinality(pushed[idx]) <= M
               /\ d1' = pushed
            \/ /\ Cardinality(pushed[idx]) > M
               /\ SplitD1(pushed, idx)
  BY DEF InsertStored
<1>2. d0' = Without(d0, old)
  BY DEF InsertStored
<1>3. M \in Nat \ {0} /\ d0 \in Blocks /\ d1 \in Blocks /\ Len(bounds) = Len(d1)
  BY BlockAssumption, InvBlocks DEF SeparatedBy
<1>4. q \in Blocks /\ Len(q) = Len(d1) /\ AtMostM(q) /\ AtMostM(d0')
  <2>1. AtMostM(d0) /\ AtMostM(d1)
    BY DEF NoneOutgrows, AtMostM
  <2> QED BY <1>2, <1>3, <2>1, WithoutBlocks, WithoutSizes
<1> HIDE DEF q
<1> DEFINE pushed == [q EXCEPT ![idx] = @ \cup {v}]
           P == pushed[idx]
<1>5. /\ pushed \in Blocks /\ Len(pushed) = Len(q)
      /\ \A j \in 1..Len(q) : j # idx => pushed[j] = q[j]
      /\ P = q[idx] \cup {v} /\ idx \in 1..Len(q)
  <2>1. idx \in 1..Len(q)
    BY <1>1, <1>3, <1>4
  <2>2. LET p == [q EXCEPT ![idx] = @ \cup {v}]
        IN  /\ p \in Blocks
            /\ Len(p) = Len(q)
            /\ \A j \in 1..Len(q) : p[j] = IF j = idx THEN q[idx] \cup {v} ELSE q[j]
            /\ AllOf(p) = AllOf(q) \cup {v}
    BY <1>4, <2>1, PushedBlocks
  <2>3. /\ pushed \in Blocks /\ Len(pushed) = Len(q)
        /\ \A j \in 1..Len(q) : pushed[j] = IF j = idx THEN q[idx] \cup {v} ELSE q[j]
    BY <2>2
  <2> HIDE DEF pushed
  <2> QED BY <2>1, <2>3
<1>6. \A j \in 1..Len(q) : j # idx => Cardinality(pushed[j]) <= M
  BY <1>4, <1>5 DEF AtMostM
<1>7. CASE Cardinality(P) <= M /\ d1' = pushed
  <2> HIDE DEF pushed
  <2>1. AtMostM(d1')
    BY <1>5, <1>6, <1>7 DEF AtMostM
  <2> QED BY <1>4, <2>1 DEF NoneOutgrows, AtMostM
<1>8. CASE Cardinality(P) > M /\ SplitD1(pushed, idx)
  <2>1. PICK low \in SUBSET P :
          IsSmallest(low, P, Cardinality(P) \div 2) /\ d1' = SplitAt(pushed, idx, low, P \ low)
    BY <1>8 DEF SplitD1
  <2> HIDE DEF pushed
  <2>2. IsFiniteSet(q[idx]) /\ Cardinality(q[idx]) <= M /\ Cardinality(q[idx]) \in Nat
    <3>1. q[idx] \in SUBSET Label
      BY <1>4, <1>5 DEF Blocks
    <3>2. IsFiniteSet(q[idx])
      BY <3>1, LabelAssumption, FS_Subset
    <3> QED BY <1>4, <1>5, <3>2, FS_CardinalityType DEF AtMostM
  <2>3. IsFiniteSet(P) /\ Cardinality(P) \in Nat /\ Cardinality(P) <= M + 1
    <3> HIDE DEF P
    <3>1. IsFiniteSet(P) /\ (Cardinality(P) = Cardinality(q[idx]) \/ Cardinality(P) = Cardinality(q[idx]) + 1)
      BY <1>5, <2>2, FS_AddElement
    <3>2. Cardinality(P) \in Nat
      BY <3>1, FS_CardinalityType
    <3> QED BY <1>3, <2>2, <3>1, <3>2
  <2>4. Cardinality(low) <= M /\ Cardinality(P \ low) <= M
    <3>1. Cardinality(P) = M + 1 /\ Cardinality(low) = (M + 1) \div 2
      <4>1. Cardinality(P) = M + 1 /\ Cardinality(low) = Cardinality(P) \div 2
        BY <1>3, <1>8, <2>1, <2>3 DEF IsSmallest
      <4> HIDE DEF P
      <4> QED BY <4>1
    <3>2. IsFiniteSet(P) /\ low \in SUBSET P
      BY <2>3
    <3> HIDE DEF P
    <3> QED BY <3>1, <3>2, HalfOf
  <2>5. AtMostM(d1')
    <3> HIDE DEF P
    <3>1. /\ Len(d1') = Len(pushed) + 1
          /\ \A j \in 1..(Len(pushed) + 1) :
               d1'[j] = IF j < idx THEN pushed[j]
                        ELSE IF j = idx THEN low ELSE IF j = idx + 1 THEN P \ low ELSE pushed[j - 1]
      BY <1>5, <2>1 DEF SplitAt, Blocks
    <3>2. Len(q) \in Nat
      BY <1>4 DEF Blocks
    <3> SUFFICES ASSUME NEW j \in 1..(Len(q) + 1) PROVE Cardinality(d1'[j]) <= M
      BY <1>5, <3>1 DEF AtMostM
    <3>3. CASE j < idx
      BY <1>5, <1>6, <3>1, <3>2, <3>3
    <3>4. CASE j = idx \/ j = idx + 1
      <4>1. d1'[j] = low \/ d1'[j] = P \ low
        BY <1>5, <3>1, <3>2, <3>4
      <4> QED BY <2>4, <4>1
    <3>5. CASE j > idx + 1
      <4>1. j - 1 \in 1..Len(q) /\ j - 1 # idx /\ d1'[j] = pushed[j - 1]
        BY <1>5, <3>1, <3>2, <3>5
      <4> QED BY <1>6, <4>1
    <3> QED BY <1>5, <3>2, <3>3, <3>4, <3>5
  <2> QED BY <1>4, <2>5 DEF NoneOutgrows, AtMostM
<1> QED BY <1>1, <1>7, <1>8

(* The chunks of a batch are not above its limit, which is not above M. *)
LEMMA PrependEndSizes ==
  ASSUME IInv, NoneOutgrows, PrependEnd
  PROVE  NoneOutgrows'
<1>1. /\ \A s \in 1..Len(chunks) : Cardinality(chunks[s]) <= limit
      /\ d0' = chunks \o d0 /\ d1' = d1
      /\ limit <= M /\ limit \in Nat /\ M \in Nat
      /\ d0 \in Blocks /\ chunks \in Blocks
  BY InvBlocks, BlockAssumption DEF PrependEnd, PrependedFirst, IInv, TypeOK, ChunksPending
<1>2. \A s \in 1..Len(chunks) : Cardinality(chunks[s]) \in Nat
  <2> TAKE s \in 1..Len(chunks)
  <2>1. IsFiniteSet(chunks[s])
    BY <1>1, LabelAssumption, FS_Subset DEF Blocks
  <2> QED BY <2>1, FS_CardinalityType
<1>3. /\ Len(d0') = Len(chunks) + Len(d0)
      /\ \A s \in 1..(Len(chunks) + Len(d0)) :
           d0'[s] = IF s <= Len(chunks) THEN chunks[s] ELSE d0[s - Len(chunks)]
      /\ Len(chunks) \in Nat /\ Len(d0) \in Nat
  BY <1>1, ConcatBlocks DEF Blocks
<1>4. \A s \in 1..Len(d0') : Cardinality(d0'[s]) <= M
  BY <1>1, <1>2, <1>3 DEF NoneOutgrows
<1> QED BY <1>1, <1>4 DEF NoneOutgrows

(* What a pull leaves in its blocks is less than there was. *)
LEMMA PullSmallestSizes ==
  ASSUME IInv, NoneOutgrows, PullSmallest
  PROVE  NoneOutgrows'
<1>1. PICK T : LET q0 == Without(d0, T)
                   q1 == Without(d1, T)
               IN  \E k0 \in 0..Len(q0), k1 \in 0..Len(q1) :
                      /\ d0' = Drop(q0, k0)
                      /\ d1' = Drop(q1, k1)
  BY DEF PullSmallest
<1>2. /\ Without(d0, T) \in Blocks /\ AtMostM(Without(d0, T))
      /\ Without(d1, T) \in Blocks /\ AtMostM(Without(d1, T))
  <2>1. d0 \in Blocks /\ d1 \in Blocks /\ AtMostM(d0) /\ AtMostM(d1)
    BY InvBlocks DEF NoneOutgrows, AtMostM
  <2> QED BY <2>1, WithoutBlocks, WithoutSizes
<1>3. ASSUME NEW q \in Blocks, AtMostM(q), NEW k \in 0..Len(q) PROVE AtMostM(Drop(q, k))
  <2>1. /\ Len(Drop(q, k)) = Len(q) - k /\ Len(q) \in Nat
        /\ \A s \in 1..(Len(q) - k) : Drop(q, k)[s] = q[s + k] /\ s + k \in 1..Len(q)
    BY DropSeq DEF Blocks
  <2> QED BY <1>3, <2>1 DEF AtMostM
<1>4. AtMostM(d0') /\ AtMostM(d1')
  BY <1>1, <1>2, <1>3
<1> QED BY <1>4 DEF NoneOutgrows, AtMostM

LEMMA NextSizes ==
  ASSUME IInv, NoneOutgrows, [Next]_vars
  PROVE  NoneOutgrows'
<1>1. ASSUME NEW v \in Label, InsertIgnored(v) PROVE NoneOutgrows'
  BY <1>1 DEF InsertIgnored, NoneOutgrows
<1>2. ASSUME NEW v \in Label, InsertStored(v) PROVE NoneOutgrows'
  BY <1>2, InsertSizes
<1>3. ASSUME NEW added \in SUBSET Label, PrependBegin(added) PROVE NoneOutgrows'
  <2> DEFINE old == {r \in registry : \E v \in added : VertexOf[r] = VertexOf[v]}
  <2>1. d0' = Without(d0, old) /\ d1' = Without(d1, old)
    BY <1>3 DEF PrependBegin
  <2>2. d0 \in Blocks /\ d1 \in Blocks /\ AtMostM(d0) /\ AtMostM(d1)
    BY InvBlocks DEF NoneOutgrows, AtMostM
  <2> HIDE DEF old
  <2>3. AtMostM(d0') /\ AtMostM(d1')
    BY <2>1, <2>2, WithoutSizes
  <2> QED BY <2>3 DEF NoneOutgrows, AtMostM
<1>4. CASE ChunkByMedian
  BY <1>4 DEF ChunkByMedian, NoneOutgrows
<1>5. CASE PrependEnd
  BY <1>5, PrependEndSizes
<1>6. CASE PullAll
  <2>1. d0' = << >> /\ d1' = << {} >>
    BY <1>6 DEF PullAll
  <2>2. Cardinality({}) = 0 /\ M \in Nat
    BY BlockAssumption, FS_EmptySet
  <2>3. Len(d0') = 0 /\ Len(d1') = 1 /\ d1'[1] = {}
    BY <2>1
  <2> QED BY <2>2, <2>3 DEF NoneOutgrows
<1>7. CASE PullSmallest
  BY <1>7, PullSmallestSizes
<1>8. CASE UNCHANGED vars
  BY <1>8 DEF vars, NoneOutgrows
<1> QED BY <1>1, <1>2, <1>3, <1>4, <1>5, <1>6, <1>7, <1>8 DEF Next

-----------------------------------------------------------------------------
(* Chunks are never empty.                                                  *)

(* Labels have a least one among them. *)
LEMMA LeastLabel ==
  ASSUME NEW P, P \subseteq Label, P # {}
  PROVE  \E least \in P : \A x \in P : least <= x
<1> DEFINE UpTo(x) == {y \in P : y <= x}
<1> DEFINE S == {UpTo(x) : x \in P}
<1>1. IsWellFoundedOn(StrictSubsetOrdering(P), FiniteSubsetsOf(P))
  BY FS_StrictSubsetOrderingWellFounded
<1>2. S \subseteq FiniteSubsetsOf(P)
  <2>1. IsFiniteSet(P)
    BY LabelAssumption, FS_Subset
  <2> SUFFICES ASSUME NEW x \in P PROVE UpTo(x) \in FiniteSubsetsOf(P)
    OBVIOUS
  <2> QED BY <2>1, FS_Subset DEF FiniteSubsetsOf
<1>3. S # {}
  OBVIOUS
<1>4. PICK low \in S : \A y \in S : ~ (<<y, low>> \in StrictSubsetOrdering(P))
  <2> HIDE DEF S
  <2> QED BY <1>1, <1>2, <1>3, WFMin
<1>5. PICK least \in P : low = UpTo(least)
  BY <1>4
<1>6. ASSUME NEW x \in P, ~ (least <= x) PROVE FALSE
  <2>1. \A y \in P : y \in Int
    BY LabelAssumption
  <2>2. UpTo(x) \subseteq UpTo(least) /\ least \in UpTo(least) /\ least \notin UpTo(x)
    BY <1>6, <2>1
  <2>3. <<UpTo(x), UpTo(least)>> \in StrictSubsetOrdering(P)
    BY <2>2 DEF StrictSubsetOrdering
  <2> QED BY <1>4, <1>5, <2>3
<1> QED BY <1>6

(* Halving a chunk of two labels or more leaves no half empty. *)
LEMMA HalvesFilled ==
  ASSUME NEW P \in SUBSET Label, Cardinality(P) > 1,
         NEW low \in SUBSET P, Cardinality(low) = Cardinality(P) \div 2
  PROVE  low # {} /\ P \ low # {}
<1>1. IsFiniteSet(P) /\ Cardinality(P) \in Nat /\ Cardinality({}) = 0
  BY LabelAssumption, FS_Subset, FS_CardinalityType, FS_EmptySet
<1>2. Cardinality(low) # 0 /\ Cardinality(low) # Cardinality(P)
  BY <1>1
<1>3. P \ low = {} => low = P
  OBVIOUS
<1> QED BY <1>1, <1>2, <1>3

LEMMA ChunkByMedianFilled ==
  ASSUME IInv, ChunksFilled, ChunkByMedian
  PROVE  ChunksFilled'
<1>1. PICK s \in 1..Len(chunks) : \E lower \in SUBSET chunks[s] :
        /\ Cardinality(chunks[s]) > limit
        /\ IsSmallest(lower, chunks[s], Cardinality(chunks[s]) \div 2)
        /\ chunks' = SplitAt(chunks, s, lower, chunks[s] \ lower)
  BY DEF ChunkByMedian
<1>2. PICK lower \in SUBSET chunks[s] :
        /\ IsSmallest(lower, chunks[s], Cardinality(chunks[s]) \div 2)
        /\ chunks' = SplitAt(chunks, s, lower, chunks[s] \ lower)
  BY <1>1
<1>3. chunks \in Blocks /\ limit \in Nat /\ limit > 0 /\ limit' = limit
  <2>1. Len(chunks) # 0
    BY <1>1
  <2> QED BY <2>1, InvBlocks DEF ChunkByMedian, ChunksFilled, Idle, IInv, TypeOK
<1>4. chunks[s] \in SUBSET Label
  BY <1>3 DEF Blocks
<1>5. Cardinality(chunks[s]) > 1
  <2>1. Cardinality(chunks[s]) \in Nat
    BY <1>4, LabelAssumption, FS_Subset, FS_CardinalityType
  <2> QED BY <1>1, <1>3, <2>1
<1>6. lower # {} /\ chunks[s] \ lower # {}
  BY <1>2, <1>4, <1>5, HalvesFilled DEF IsSmallest
<1>7. /\ Len(chunks') = Len(chunks) + 1 /\ Len(chunks) \in Nat
      /\ \A j \in 1..(Len(chunks) + 1) :
           chunks'[j] = IF j < s THEN chunks[j]
                        ELSE IF j = s THEN lower
                        ELSE IF j = s + 1 THEN chunks[s] \ lower ELSE chunks[j - 1]
  <2>1. lower \in SUBSET Label /\ chunks[s] \ lower \in SUBSET Label
    BY <1>4
  <2>2. chunks \in Seq(SUBSET Label)
    BY <1>3 DEF Blocks
  <2>3. chunks' = SplitAt(chunks, s, lower, chunks[s] \ lower)
    BY <1>2
  <2>4. Len(chunks) \in Nat
    BY <2>2
  <2> DEFINE high == chunks[s] \ lower
  <2>5. high \in SUBSET Label
    BY <2>1
  <2> HIDE DEF high
  <2>6. /\ Len(SplitAt(chunks, s, lower, high)) = Len(chunks) + 1
        /\ \A j \in 1..(Len(chunks) + 1) :
             SplitAt(chunks, s, lower, high)[j] =
               IF j < s THEN chunks[j]
               ELSE IF j = s THEN lower ELSE IF j = s + 1 THEN high ELSE chunks[j - 1]
    BY <2>2, <2>4 DEF SplitAt
  <2> QED BY <2>3, <2>4, <2>6, Zenon DEF high
<1>8. ASSUME NEW j \in 1..Len(chunks') PROVE chunks'[j] # {}
  BY <1>6, <1>7 DEF ChunksFilled
<1> QED BY <1>3, <1>8 DEF ChunksFilled

LEMMA PrependBeginFilled ==
  ASSUME NEW added \in SUBSET Label, PrependBegin(added)
  PROVE  ChunksFilled'
<1>1. /\ added # {} /\ chunks' = << KeepMin(added) >>
      /\ limit' = IF Cardinality(KeepMin(added)) <= M THEN M ELSE ChunkCap
  BY DEF PrependBegin
<1>2. limit' > 0
  BY <1>1, BlockAssumption DEF ChunkCap
<1>3. PICK least \in added : \A x \in added : least <= x
  BY <1>1, LeastLabel
<1>4. least \in KeepMin(added)
  BY <1>3 DEF KeepMin, SameVertex
<1> QED BY <1>1, <1>2, <1>4 DEF ChunksFilled

LEMMA NextFilled ==
  ASSUME IInv, ChunksFilled, [Next]_vars
  PROVE  ChunksFilled'
<1>1. ASSUME NEW v \in Label, InsertIgnored(v) \/ InsertStored(v) PROVE ChunksFilled'
  BY <1>1 DEF InsertIgnored, InsertStored, ChunksFilled, Idle
<1>2. ASSUME NEW added \in SUBSET Label, PrependBegin(added) PROVE ChunksFilled'
  BY <1>2, PrependBeginFilled
<1>3. CASE ChunkByMedian
  BY <1>3, ChunkByMedianFilled
<1>4. CASE PrependEnd
  <2>1. chunks' = << >>
    BY <1>4 DEF PrependEnd
  <2> QED BY <2>1 DEF ChunksFilled, Idle
<1>5. CASE PullAll \/ PullSmallest \/ UNCHANGED vars
  <2>1. UNCHANGED <<chunks, limit>>
    BY <1>5 DEF PullAll, PullSmallest, vars
  <2> QED BY <2>1 DEF ChunksFilled, Idle
<1> QED BY <1>1, <1>2, <1>3, <1>4, <1>5 DEF Next

(* No operation makes a block larger than M, though insertions split only   *)
(* the block they touch (block_queue.rs:320-322) and batches are divided    *)
(* into chunks before they are stored (block_queue.rs:375-380); and no      *)
(* chunk is empty, down to M = 1, where a chunk is one label.              *)
THEOREM BlocksStaySmall == Spec => []SizesBounded
<1>1. Init => SizesBounded
  BY BlockAssumption, FS_EmptySet DEF Init, SizesBounded, NoneOutgrows, ChunksFilled, Idle
<1>2. IInv /\ SizesBounded /\ [Next]_vars => SizesBounded'
  BY NextSizes, NextFilled DEF SizesBounded
<1> QED BY <1>1, <1>2, Inductive, PTL DEF Spec

-----------------------------------------------------------------------------
(* The promise of Lemma 3.3.                                                *)

(* When the collected labels U include M labels P that are below y, the M   *)
(* smallest of U are below y too: otherwise they would be P and one more.   *)
LEMMA PrefixSuffices ==
  ASSUME NEW U \in SUBSET Label, NEW P \in SUBSET U, NEW T \in SUBSET U,
         IsSmallest(T, U, M), Cardinality(P) >= M,
         NEW y \in Label, y \notin U, AllBelow(P, {y})
  PROVE  \A x \in T : x < y
<1> SUFFICES ASSUME NEW x \in T, ~(x < y) PROVE FALSE
  OBVIOUS
<1>1. U \subseteq Int /\ y \in Int /\ IsFiniteSet(U) /\ IsFiniteSet(P) /\ IsFiniteSet(T)
  BY LabelAssumption, FS_Subset
<1>2. y < x
  <2>1. x \in Int /\ x # y
    BY <1>1
  <2> QED BY <1>1, <2>1
<1>3. \A p \in P : p < x
  <2>1. \A p \in P : p \in Int /\ p < y
    BY <1>1 DEF AllBelow
  <2>2. x \in Int
    BY <1>1
  <2> QED BY <1>1, <1>2, <2>1, <2>2
<1>4. x \notin P
  <2>1. x \in Int
    BY <1>1
  <2> QED BY <1>3, <2>1
<1>5. P \cup {x} \in SUBSET T
  <2>1. ASSUME NEW p \in P, p \notin T PROVE FALSE
    <3>1. x < p /\ p < x /\ p \in Int /\ x \in Int
      BY <1>1, <1>3, <2>1 DEF IsSmallest, AllBelow
    <3> QED BY <3>1
  <2> QED BY <2>1
<1>6. Cardinality(P \cup {x}) = Cardinality(P) + 1
  BY <1>1, <1>4, FS_AddElement
<1>7. Cardinality(P \cup {x}) <= Cardinality(T)
  BY <1>1, <1>5, FS_Subset
<1>8. Cardinality(T) = M /\ Cardinality(P) \in Nat /\ M \in Nat
  BY <1>1, FS_CardinalityType, BlockAssumption DEF IsSmallest
<1> QED BY <1>6, <1>7, <1>8

(* A label that a pull did not collect is above all it collected of that    *)
(* sequence, which is at least M labels.                                    *)
LEMMA CollectsBeyond ==
  ASSUME NEW q \in Blocks, Increasing(q), NEW d \in 0..Len(q), Collects(q, d),
         NEW y \in AllOf(q), y \notin Prefix(q, d)
  PROVE  Cardinality(Prefix(q, d)) >= M /\ AllBelow(Prefix(q, d), {y})
<1>1. Len(q) \in Nat /\ d \in Nat
  BY DEF Blocks
<1>2. PICK s \in 1..Len(q) : y \in q[s]
  BY InAllOf
<1>3. s > d
  BY <1>1, <1>2 DEF Prefix
<1>4. Cardinality(Prefix(q, d)) >= M
  BY <1>1, <1>3 DEF Collects
<1>5. ASSUME NEW p \in Prefix(q, d) PROVE p < y
  <2>1. PICK j \in 1..d : p \in q[j]
    BY <1>5 DEF Prefix
  <2>2. j \in 1..Len(q) /\ j < s
    BY <1>1, <1>3, <2>1
  <2> QED BY <1>2, <2>1, <2>2 DEF Increasing, AllBelow
<1> QED BY <1>4, <1>5 DEF AllBelow

(* So what a pull returns is the M smallest of everything stored. *)
LEMMA CollectedSuffice ==
  ASSUME IInv, NEW n0 \in 0..Len(d0), NEW n1 \in 0..Len(d1),
         Collects(d0, n0), Collects(d1, n1),
         NEW U, U = Prefix(d0, n0) \cup Prefix(d1, n1),
         ~(Cardinality(U) <= M /\ n0 = Len(d0) /\ n1 = Len(d1)),
         NEW T \in SUBSET U,
         \/ Cardinality(U) <= M /\ T = U
         \/ Cardinality(U) > M /\ IsSmallest(T, U, M)
  PROVE  IsSmallest(T, registry, M)
<1>1. U \subseteq registry /\ registry \subseteq Label
  BY UnionStored, InvBlocks
<1>2. IsFiniteSet(U) /\ U \in SUBSET Label
  BY <1>1, LabelAssumption, FS_Subset
<1>3. IsSmallest(T, U, M)
  <2>1. CASE Cardinality(U) > M
    <3>1. Cardinality(U) \in Nat /\ M \in Nat
      BY <1>2, FS_CardinalityType, BlockAssumption
    <3>2. ~(Cardinality(U) <= M)
      BY <2>1, <3>1
    <3> QED BY <3>2
  <2>2. CASE Cardinality(U) <= M /\ T = U
    <3>1. PICK P \in SUBSET U : Cardinality(P) >= M
      BY <2>2 DEF Collects
    <3>2. Cardinality(P) <= Cardinality(U) /\ Cardinality(P) \in Nat
          /\ Cardinality(U) \in Nat /\ M \in Nat
      BY <1>2, FS_Subset, FS_CardinalityType, BlockAssumption
    <3>3. Cardinality(T) = M
      BY <2>2, <3>1, <3>2
    <3> QED BY <2>2, <3>3 DEF IsSmallest, AllBelow
  <2> QED BY <2>1, <2>2
<1>4. ASSUME NEW x \in T, NEW y \in registry \ T PROVE x < y
  <2>1. CASE y \in U
    BY <1>3, <1>4, <2>1 DEF IsSmallest, AllBelow
  <2>2. CASE y \notin U
    <3>0. PICK q \in Blocks : \E d \in 0..Len(q) :
            /\ Increasing(q) /\ Collects(q, d) /\ y \in AllOf(q)
            /\ Prefix(q, d) \subseteq U
      BY InvBlocks
    <3>1. PICK d \in 0..Len(q) :
            /\ Increasing(q) /\ Collects(q, d) /\ y \in AllOf(q)
            /\ Prefix(q, d) \subseteq U
      BY <3>0
    <3>2. Cardinality(Prefix(q, d)) >= M /\ AllBelow(Prefix(q, d), {y})
      BY <2>2, <3>1, CollectsBeyond
    <3> DEFINE P == Prefix(q, d)
    <3>3. P \in SUBSET U /\ y \in Label /\ Cardinality(P) >= M /\ AllBelow(P, {y})
      BY <1>1, <3>1, <3>2
    <3> HIDE DEF P
    <3> QED BY <1>2, <1>3, <2>2, <3>3, PrefixSuffices
  <2> QED BY <2>1, <2>2
<1> QED BY <1>1, <1>3, <1>4 DEF IsSmallest, AllBelow

(* The operators that DQueue shares with BlockQueue. *)
LEMMA SharedOperators ==
  /\ Q!NoResult = NoResult
  /\ \A S : Q!Cardinality(S) = Cardinality(S)
  /\ \A S, v : Q!SameVertex(S, v) = SameVertex(S, v)
  /\ \A S : Q!KeepMin(S) = KeepMin(S)
  /\ \A S, T : Q!AllBelow(S, T) <=> AllBelow(S, T)
  /\ \A S, T, d : Q!IsSmallest(T, S, d) <=> IsSmallest(T, S, d)
  /\ \A T, x, S, d, b : Q!IsPull(T, x, S, d, b) <=> IsPull(T, x, S, d, b)
  /\ \A S, v : Q!Inserted(S, v) = Inserted(S, v)
  /\ \A S, T : Q!Prepended(S, T) = Prepended(S, T)
  /\ \A S : Q!Vertices(S) = Vertices(S)
<1>1. \A S : Q!Cardinality(S) = Cardinality(S)
  BY DEF Q!Cardinality, Cardinality
<1>2. \A S, v : Q!SameVertex(S, v) = SameVertex(S, v)
  BY DEF Q!SameVertex, SameVertex
<1>3. \A S : Q!KeepMin(S) = KeepMin(S)
  BY <1>2 DEF Q!KeepMin, KeepMin
<1>4. \A S, T : Q!AllBelow(S, T) <=> AllBelow(S, T)
  BY DEF Q!AllBelow, AllBelow
<1>5. \A S, T, d : Q!IsSmallest(T, S, d) <=> IsSmallest(T, S, d)
  BY <1>1, <1>4 DEF Q!IsSmallest, IsSmallest
<1>6. \A x, S, b : Q!IsMinOr(x, S, b) <=> IsMinOr(x, S, b)
  BY DEF Q!IsMinOr, IsMinOr
<1>7. \A S : Q!Vertices(S) = Vertices(S)
  BY DEF Q!Vertices, Vertices
<1>8. \A T, x, S, d, b : Q!IsPull(T, x, S, d, b) <=> IsPull(T, x, S, d, b)
  BY <1>1, <1>5, <1>6 DEF Q!IsPull, IsPull
<1>9. \A S, v : Q!Inserted(S, v) = Inserted(S, v)
  BY <1>2 DEF Q!Inserted, Inserted
<1>10. \A S, T : Q!Prepended(S, T) = Prepended(S, T)
  BY <1>3 DEF Q!Prepended, Prepended
<1> QED BY <1>1, <1>2, <1>3, <1>4, <1>5, <1>6, <1>7, <1>8, <1>9, <1>10
        DEF Q!NoResult, NoResult

LEMMA InitRefines == Init => Q!Init
  BY DEF Init, Q!Init, NoResult, Q!NoResult, AllOf, Prefix

LEMMA InsertIgnoredRefines ==
  ASSUME IInv, NEW v \in Label, InsertIgnored(v)
  PROVE  Q!Insert(v)
<1>1. registry \cup AllOf(chunks) = registry /\ (registry \cup AllOf(chunks))' = registry
  BY InvBlocks DEF InsertIgnored, AllOf
<1>2. \E old \in SameVertex(registry, v) : old <= v
  BY DEF InsertIgnored
<1>3. v < B /\ ret' = NoResult
  BY DEF InsertIgnored
<1> QED BY <1>1, <1>2, <1>3, SharedOperators DEF Q!Insert, Inserted

LEMMA InsertStoredRefines ==
  ASSUME IInv, NEW v \in Label, InsertStored(v)
  PROVE  Q!Insert(v)
<1> DEFINE old == SameVertex(registry, v)
<1>1. /\ Idle /\ v < B
      /\ \A o \in old : v < o
      /\ registry' = (registry \ old) \cup {v}
      /\ ret' = NoResult
      /\ UNCHANGED chunks
  BY DEF InsertStored
<1>2. registry \cup AllOf(chunks) = registry /\ (registry \cup AllOf(chunks))' = registry'
  BY <1>1, InvBlocks DEF AllOf
<1>3. ~(\E o \in old : o <= v)
  <2>1. v \in Int /\ old \subseteq Int
    BY InvBlocks, LabelAssumption DEF SameVertex
  <2> QED BY <1>1, <2>1
<1> QED BY <1>1, <1>2, <1>3, SharedOperators DEF Q!Insert, Inserted

LEMMA PrependBeginRefines ==
  ASSUME IInv, NEW added \in SUBSET Label, PrependBegin(added)
  PROVE  Q!BatchPrepend(added)
<1> DEFINE dedup == KeepMin(added)
           old   == {r \in registry : \E v \in added : VertexOf[r] = VertexOf[v]}
<1>1. /\ Idle /\ added # {}
      /\ registry' = registry \ old
      /\ chunks' = << dedup >>
      /\ ret' = NoResult
  BY DEF PrependBegin
<1>2. AllBelow(dedup, registry \cup {B})
  <2>1. PICK x : MinValueIs(x, d0, d1) /\ \A v \in dedup : v < x
    BY DEF PrependBegin
  <2>2. dedup \in SUBSET Label
    BY KeepMinOnePerVertex
  <2> HIDE DEF dedup
  <2> QED BY <2>1, <2>2, PrependBelow
<1>3. AllOf(chunks)' = dedup
  <2>1. Len(chunks') = 1 /\ chunks'[1] = dedup
    BY <1>1
  <2> HIDE DEF dedup
  <2> QED BY <2>1 DEF AllOf, Prefix
<1>4. registry \cup AllOf(chunks) = registry
  BY <1>1, InvBlocks
<1>5. (registry \cup AllOf(chunks))' = {r \in registry : \A v \in added : VertexOf[r] # VertexOf[v]} \cup dedup
  BY <1>1, <1>3
<1> QED BY <1>1, <1>2, <1>4, <1>5, SharedOperators DEF Q!BatchPrepend, Prepended

(* Dividing the batch and putting it in place change nothing for a caller. *)
LEMMA ChunkingStutters ==
  ASSUME IInv, ChunkByMedian \/ PrependEnd
  PROVE  UNCHANGED Q!vars
<1>1. CASE ChunkByMedian
  BY <1>1, ChunkStep DEF Q!vars
<1>2. CASE PrependEnd
  <2>1. registry' = registry \cup AllOf(chunks) /\ chunks' = << >> /\ ret' = ret
    BY <1>2 DEF PrependEnd
  <2>2. AllOf(chunks)' = {}
    BY <2>1 DEF AllOf, Prefix
  <2> QED BY <2>1, <2>2 DEF Q!vars
<1> QED BY <1>1, <1>2

LEMMA PullAllRefines ==
  ASSUME IInv, PullAll
  PROVE  Q!Pull
<1>1. registry' = {} /\ ret' = [keys |-> Vertices(registry), bound |-> B]
  BY PullAllInv
<1>2. registry \cup AllOf(chunks) = registry /\ (registry \cup AllOf(chunks))' = {}
  BY <1>1, InvBlocks DEF PullAll, AllOf
<1>3. Cardinality(registry) <= M
  <2>1. PICK n0 \in 0..Len(d0), n1 \in 0..Len(d1) :
          /\ Cardinality(Prefix(d0, n0) \cup Prefix(d1, n1)) <= M
          /\ n0 = Len(d0) /\ n1 = Len(d1)
    BY DEF PullAll
  <2>2. Prefix(d0, n0) \cup Prefix(d1, n1) = registry
    BY <2>1, InvBlocks DEF AllOf
  <2> QED BY <2>1, <2>2
<1>4. IsMinOr(B, {}, B)
  BY DEF IsMinOr
<1> DEFINE C == registry \cup AllOf(chunks)
<1>5. /\ C \in SUBSET C /\ B \in Label \cup {B}
      /\ Cardinality(C) <= M
      /\ IsMinOr(B, C \ C, B)
      /\ C' = C \ C
      /\ ret' = [keys |-> Vertices(C), bound |-> B]
  BY <1>1, <1>2, <1>3, <1>4
<1> QED BY <1>5, SharedOperators DEF Q!Pull, IsPull

LEMMA PullSmallestRefines ==
  ASSUME IInv, PullSmallest
  PROVE  Q!Pull
<1>1. PICK n0 \in 0..Len(d0), n1 \in 0..Len(d1) :
        LET union == Prefix(d0, n0) \cup Prefix(d1, n1)
        IN  /\ Collects(d0, n0)
            /\ Collects(d1, n1)
            /\ ~(Cardinality(union) <= M /\ n0 = Len(d0) /\ n1 = Len(d1))
            /\ \E T \in SUBSET union :
                 /\ \/ Cardinality(union) <= M /\ T = union
                    \/ Cardinality(union) > M /\ IsSmallest(T, union, M)
                 /\ registry' = registry \ T
                 /\ \E x \in Label \cup {B} :
                      /\ MinValueIs(x, d0', d1')
                      /\ ret' = [keys |-> Vertices(T), bound |-> x]
  BY DEF PullSmallest
<1> DEFINE union == Prefix(d0, n0) \cup Prefix(d1, n1)
<1>2. PICK T \in SUBSET union :
        /\ \/ Cardinality(union) <= M /\ T = union
           \/ Cardinality(union) > M /\ IsSmallest(T, union, M)
        /\ registry' = registry \ T
        /\ \E x \in Label \cup {B} :
             /\ MinValueIs(x, d0', d1')
             /\ ret' = [keys |-> Vertices(T), bound |-> x]
  BY <1>1
<1>3. PICK x \in Label \cup {B} :
        /\ MinValueIs(x, d0', d1')
        /\ ret' = [keys |-> Vertices(T), bound |-> x]
  BY <1>2
<1>4. IsSmallest(T, registry, M)
  <2>1. ~(Cardinality(union) <= M /\ n0 = Len(d0) /\ n1 = Len(d1))
    BY <1>1
  <2>2. union = Prefix(d0, n0) \cup Prefix(d1, n1)
    OBVIOUS
  <2> HIDE DEF union
  <2> QED BY <1>1, <1>2, <2>1, <2>2, CollectedSuffice
<1>5. IsMinOr(x, registry \ T, B)
  <2>1. IInv'
    BY PullSmallestInv
  <2>2. /\ d0' \in Blocks /\ d1' \in Blocks /\ Increasing(d0)' /\ Increasing(d1)'
        /\ AllOf(d0)' \cup AllOf(d1)' = registry'
    BY <2>1 DEF IInv, TypeOK, BlocksOrdered, RegistryCoherent, Blocks
  <2>3. Increasing(d0') /\ Increasing(d1') /\ AllOf(d0') \cup AllOf(d1') = registry'
    BY <2>2 DEF Increasing, AllOf
  <2> QED BY <1>2, <1>3, <2>2, <2>3, MinValueSound
<1> DEFINE C == registry \cup AllOf(chunks)
<1>6. C = registry /\ C' = registry'
  BY InvBlocks DEF PullSmallest, AllOf
<1>7. \/ Cardinality(C) <= M /\ T = C
      \/ Cardinality(C) > M /\ IsSmallest(T, C, M)
  <2>1. IsFiniteSet(registry) /\ T \in SUBSET registry
    BY <1>4, InvBlocks, LabelAssumption, FS_Subset DEF IsSmallest
  <2>2. Cardinality(registry) \in Nat /\ M \in Nat
    BY <2>1, FS_CardinalityType, BlockAssumption
  <2>3. Cardinality(T) = M /\ Cardinality(T) <= Cardinality(registry)
        /\ (Cardinality(registry) = Cardinality(T) => registry = T)
    BY <1>4, <2>1, FS_Subset DEF IsSmallest
  <2>4. CASE Cardinality(registry) = M
    <3>1. T = registry /\ Cardinality(registry) <= M
      BY <2>2, <2>3, <2>4
    <3> HIDE DEF C
    <3> QED BY <1>6, <3>1
  <2>5. CASE Cardinality(registry) # M
    <3>1. Cardinality(registry) > M
      BY <2>2, <2>3, <2>5
    <3> HIDE DEF C
    <3> QED BY <1>4, <1>6, <3>1
  <2> QED BY <2>4, <2>5
<1>8. /\ T \in SUBSET C
      /\ IsMinOr(x, C \ T, B)
      /\ C' = C \ T
  BY <1>2, <1>4, <1>5, <1>6 DEF IsSmallest
<1> HIDE DEF C
<1>9. \E S \in SUBSET C, z \in Label \cup {B} :
        /\ \/ Cardinality(C) <= M /\ S = C
           \/ Cardinality(C) > M /\ IsSmallest(S, C, M)
        /\ IsMinOr(z, C \ S, B)
        /\ C' = C \ S
        /\ ret' = [keys |-> Vertices(S), bound |-> z]
  BY <1>3, <1>7, <1>8
<1> QED BY <1>9, SharedOperators DEF Q!Pull, IsPull, C

LEMMA NextRefines == IInv /\ [Next]_vars => [Q!Next]_Q!vars
<1> SUFFICES ASSUME IInv, [Next]_vars PROVE [Q!Next]_Q!vars
  OBVIOUS
<1>1. ASSUME NEW v \in Label, InsertIgnored(v) \/ InsertStored(v) PROVE Q!Next
  BY <1>1, InsertIgnoredRefines, InsertStoredRefines DEF Q!Next
<1>2. ASSUME NEW added \in SUBSET Label, PrependBegin(added) PROVE Q!Next
  BY <1>2, PrependBeginRefines DEF Q!Next
<1>3. CASE ChunkByMedian \/ PrependEnd
  BY <1>3, ChunkingStutters
<1>4. CASE PullAll \/ PullSmallest
  BY <1>4, PullAllRefines, PullSmallestRefines DEF Q!Next
<1>5. CASE UNCHANGED vars
  BY <1>5 DEF vars, Q!vars, AllOf, Prefix
<1> QED BY <1>1, <1>2, <1>3, <1>4, <1>5 DEF Next

(* BlockDs implements D: for every set of labels and every M, each pull     *)
(* returns the M smallest labels stored and a bound that separates them.    *)
THEOREM Refinement == Spec => Implements
  BY InitRefines, InitInv, NextInv, NextRefines, PTL DEF Spec, Implements, Q!Spec

-----------------------------------------------------------------------------
(* Quickselect, which the blocks are split and the batches halved by: that  *)
(* it returns what IsSmallest says, from arrays of every length and with   *)
(* every choice of pivots.                                                 *)

Positions == 0..(n - 1)

-----------------------------------------------------------------------------
(* Swapping.                                                                *)

(* What a swap of positions x and y leaves where. *)
LEMMA SwapValues ==
  ASSUME NEW P, NEW a \in [P -> Label], NEW x \in P, NEW y \in P
  PROVE  /\ Swap(a, x, y) \in [P -> Label]
         /\ Swap(a, x, y)[x] = a[y]
         /\ Swap(a, x, y)[y] = a[x]
         /\ \A j \in P : j # x /\ j # y => Swap(a, x, y)[j] = a[j]
  BY DEF Swap

(* A swap keeps the labels, each once. *)
LEMMA SwapSameItems ==
  ASSUME NEW P, NEW a \in [P -> Label], NEW x \in P, NEW y \in P,
         \A j, k \in P : a[j] = a[k] => j = k
  PROVE  /\ Values(Swap(a, x, y), P) = Values(a, P)
         /\ \A j, k \in P : Swap(a, x, y)[j] = Swap(a, x, y)[k] => j = k
<1> DEFINE b == Swap(a, x, y)
<1>1. /\ b \in [P -> Label] /\ b[x] = a[y] /\ b[y] = a[x]
      /\ \A j \in P : j # x /\ j # y => b[j] = a[j]
  BY SwapValues
<1> HIDE DEF b
<1>2. \A v : v \in Values(b, P) <=> v \in Values(a, P)
  <2>1. ASSUME NEW j \in P PROVE b[j] \in Values(a, P) /\ a[j] \in Values(b, P)
    <3>1. CASE j = x
      BY <1>1, <3>1 DEF Values
    <3>2. CASE j = y
      BY <1>1, <3>2 DEF Values
    <3>3. CASE j # x /\ j # y
      BY <1>1, <3>3 DEF Values
    <3> QED BY <3>1, <3>2, <3>3
  <2> QED BY <2>1 DEF Values
<1>3. \A j, k \in P : b[j] = b[k] => j = k
  BY <1>1
<1> QED BY <1>2, <1>3 DEF b

-----------------------------------------------------------------------------
(* The inductive invariant.                                                 *)

LEMMA StartsSelectInv == StartSelect => SelectInv
<1> SUFFICES ASSUME StartSelect PROVE SelectInv
  OBVIOUS
<1>1. n \in Nat /\ m \in 1..(n - 1) /\ 0 \in Positions /\ n - 1 \in Positions
  BY DEF StartSelect, Positions
<1>2. InSlice
  BY <1>1 DEF StartSelect, InSlice, Positions
<1>3. SameItems
  BY DEF StartSelect, SameItems
<1>4. Narrowing
  BY <1>1 DEF StartSelect, Narrowing, target
<1> QED BY <1>2, <1>3, <1>4 DEF StartSelect, SelectInv, Partitioned

(* The facts of the invariant that each step starts from. *)
LEMMA SelectFacts ==
  ASSUME SelectInv
  PROVE  /\ n \in Nat /\ m \in Nat /\ 1 <= m /\ m < n
         /\ items \in [Positions -> Label]
         /\ lo \in Positions /\ hi \in Positions /\ store \in Positions /\ i \in Positions
         /\ lo \in Nat /\ hi \in Nat /\ store \in Nat /\ i \in Nat
         /\ hi < n
         /\ pivot \in Label /\ Label \subseteq Int
         /\ target \in Nat /\ target = m - 1
         /\ \A j, k \in Positions : items[j] = items[k] => j = k
  BY LabelAssumption DEF SelectInv, InSlice, SameItems, Positions, target

(* The numbers among them. *)
LEMMA SelectNumbers ==
  ASSUME SelectInv
  PROVE  /\ n \in Nat /\ m \in Nat /\ 1 <= m /\ m < n
         /\ lo \in Nat /\ hi \in Nat /\ store \in Nat /\ i \in Nat
         /\ lo < n /\ hi < n /\ store < n /\ i < n
         /\ target \in Nat /\ target = m - 1
<1> HIDE DEF target
<1> QED BY SelectFacts DEF Positions

LEMMA SelectPick == ASSUME SelectInv, Pick PROVE SelectInv'
<1>1. PICK p \in lo..hi : pivot' = items[p] /\ items' = Swap(items, p, hi)
  BY DEF Pick
<1>2. /\ pc = "pick" /\ lo < hi /\ store' = lo /\ i' = lo /\ pc' = "scan"
      /\ UNCHANGED <<given, n, m, lo, hi>>
  BY DEF Pick
<1>3. p \in Positions /\ lo <= p /\ p <= hi
  BY <1>1, SelectFacts DEF Positions
<1>4. /\ items' \in [Positions -> Label]
      /\ items'[p] = items[hi] /\ items'[hi] = items[p]
      /\ \A j \in Positions : j # p /\ j # hi => items'[j] = items[j]
  <2>1. items \in [Positions -> Label] /\ hi \in Positions
    BY SelectFacts
  <2>2. items' = Swap(items, p, hi)
    BY <1>1
  <2>3. p \in Positions
    BY <1>3
  <2> QED BY <2>1, <2>2, <2>3 DEF Swap
<1>5. Values(items', Positions) = Values(items, Positions)
      /\ \A j, k \in Positions : items'[j] = items'[k] => j = k
  <2>1. ASSUME NEW x \in Positions, NEW y \in Positions
        PROVE  /\ Values(Swap(items, x, y), Positions) = Values(items, Positions)
               /\ \A j, k \in Positions :
                    Swap(items, x, y)[j] = Swap(items, x, y)[k] => j = k
    BY SelectFacts, SwapSameItems
  <2>2. p \in Positions /\ hi \in Positions
    BY <1>3, SelectFacts
  <2>3. items' = Swap(items, p, hi)
    BY <1>1
  <2> QED BY <2>1, <2>2, <2>3
<1>6. InSlice'
  BY <1>1, <1>2, <1>3, <1>4, SelectFacts DEF SelectInv, InSlice, Positions
<1>7. SameItems'
  BY <1>2, <1>5 DEF SelectInv, SameItems, Positions
<1>8. Narrowing'
  <2>1. lo <= target /\ target <= hi
    BY <1>2 DEF SelectInv, Narrowing
  <2>2. ASSUME NEW j \in Positions, NEW k \in Positions, j < lo, lo <= k
        PROVE  items'[j] < items'[k]
    <3>1. items'[j] = items[j]
      <4>1. j # p /\ j # hi
        BY <1>2, <1>3, <1>4, <2>2, SelectFacts DEF Positions
      <4> QED BY <4>1, <1>2, <1>3, <1>4, <2>2
    <3>2. PICK l \in Positions : lo <= l /\ items'[k] = items[l]
      BY <1>2, <1>3, <1>4, <2>2, SelectFacts
    <3>3. items[j] < items[l]
      BY <2>2, <3>2 DEF SelectInv, Narrowing, Positions
    <3> QED BY <3>1, <3>2, <3>3
  <2>3. ASSUME NEW j \in Positions, NEW k \in Positions, j <= hi, hi < k
        PROVE  items'[j] < items'[k]
    <3>1. items'[k] = items[k]
      <4>1. k # p /\ k # hi
        BY <1>3, <2>3, SelectNumbers DEF Positions
      <4> QED BY <4>1, <1>2, <1>3, <1>4, <2>3
    <3>2. PICK l \in Positions : l <= hi /\ items'[j] = items[l]
      BY <1>2, <1>3, <1>4, <2>3, SelectFacts
    <3>3. items[l] < items[k]
      BY <2>3, <3>2 DEF SelectInv, Narrowing, Positions
    <3> QED BY <3>1, <3>2, <3>3
  <2> QED BY <1>2, <2>1, <2>2, <2>3 DEF Narrowing, target, Positions
<1>9. Partitioned'
  BY <1>1, <1>2, <1>4, SelectFacts DEF Partitioned
<1> QED BY <1>2, <1>6, <1>7, <1>8, <1>9 DEF SelectInv

LEMMA SelectScan == ASSUME SelectInv, Scan PROVE SelectInv'
<1>1. /\ pc = "scan" /\ pc' = "scan" /\ i < hi /\ i' = i + 1
      /\ UNCHANGED <<given, n, m, lo, hi, pivot>>
  BY DEF Scan
<1>2. /\ lo <= store /\ store <= i /\ i <= hi /\ items[hi] = pivot
      /\ \A j \in lo..(store - 1) : items[j] < pivot
      /\ \A j \in store..(i - 1) : items[j] > pivot
  BY <1>1 DEF SelectInv, Partitioned
<1>3. CASE items[i] < pivot /\ items' = Swap(items, store, i) /\ store' = store + 1
  <2>1. /\ items' \in [Positions -> Label]
        /\ items'[store] = items[i] /\ items'[i] = items[store]
        /\ \A j \in Positions : j # store /\ j # i => items'[j] = items[j]
    BY <1>3, SelectFacts, SwapValues
  <2>2. Values(items', Positions) = Values(items, Positions)
        /\ \A j, k \in Positions : items'[j] = items'[k] => j = k
    BY <1>3, SelectFacts, SwapSameItems
  <2>3. InSlice'
    <3>1. store' \in Positions /\ i' \in Positions
      BY <1>1, <1>2, <1>3, SelectNumbers DEF Positions
    <3> QED BY <1>1, <2>1, <3>1 DEF SelectInv, InSlice, Positions
  <2>4. SameItems'
    BY <1>1, <2>2 DEF SelectInv, SameItems, Positions
  <2>5. Narrowing'
    <3>1. lo <= target /\ target <= hi
      BY <1>1 DEF SelectInv, Narrowing
    <3>2. ASSUME NEW j \in Positions, NEW k \in Positions, j < lo, lo <= k
          PROVE  items'[j] < items'[k]
      <4>1. items'[j] = items[j]
        <5>1. j # store /\ j # i
          BY <1>2, <2>1, <3>2, SelectNumbers DEF Positions
        <5> QED BY <5>1, <1>2, <2>1, <3>2
      <4>2. PICK l \in Positions : lo <= l /\ items'[k] = items[l]
        BY <1>2, <2>1, <3>2, SelectFacts
      <4>3. items[j] < items[l]
        BY <3>2, <4>2 DEF SelectInv, Narrowing, Positions
      <4> QED BY <4>1, <4>2, <4>3
    <3>3. ASSUME NEW j \in Positions, NEW k \in Positions, j <= hi, hi < k
          PROVE  items'[j] < items'[k]
      <4>1. items'[k] = items[k]
        <5>1. k # store /\ k # i
          BY <1>2, <2>1, <3>3, SelectNumbers DEF Positions
        <5> QED BY <5>1, <1>2, <2>1, <3>3
      <4>2. PICK l \in Positions : l <= hi /\ items'[j] = items[l]
        BY <1>2, <2>1, <3>3, SelectFacts
      <4>3. items[l] < items[k]
        BY <3>3, <4>2 DEF SelectInv, Narrowing, Positions
      <4> QED BY <4>1, <4>2, <4>3
    <3> QED BY <1>1, <3>1, <3>2, <3>3 DEF Narrowing, target, Positions
  <2>6. Partitioned'
    <3>1. items'[hi] = pivot
      BY <1>1, <1>2, <2>1, SelectFacts
    <3>2. ASSUME NEW j \in lo..(store' - 1) PROVE items'[j] < pivot
      <4>1. CASE j = store
        BY <1>3, <2>1, <4>1
      <4>2. CASE j # store
        <5>1. j \in lo..(store - 1) /\ j \in Positions /\ j # i
          BY <1>2, <1>3, <3>2, <4>2, SelectNumbers DEF Positions
        <5> QED BY <1>2, <2>1, <4>2, <5>1
      <4> QED BY <4>1, <4>2
    <3>3. ASSUME NEW j \in store'..(i' - 1) PROVE items'[j] > pivot
      <4>1. CASE j = i
        <5>1. store \in store..(i - 1)
          BY <1>1, <1>3, <3>3, <4>1, SelectFacts
        <5> QED BY <1>2, <2>1, <4>1, <5>1
      <4>2. CASE j # i
        <5>1. j \in store..(i - 1) /\ j \in Positions /\ j # store
          BY <1>1, <1>2, <1>3, <3>3, <4>2, SelectNumbers DEF Positions
        <5> QED BY <1>2, <2>1, <4>2, <5>1
      <4> QED BY <4>1, <4>2
    <3> QED BY <1>1, <1>2, <1>3, <3>1, <3>2, <3>3, SelectFacts DEF Partitioned
  <2> QED BY <1>1, <2>3, <2>4, <2>5, <2>6 DEF SelectInv
<1>4. CASE items[i] >= pivot /\ items' = items /\ store' = store
  <2>1. items[i] > pivot
    <3>1. items[i] # items[hi] /\ items[i] \in Int /\ items[hi] \in Int
      BY <1>1, SelectFacts
    <3> QED BY <1>2, <1>4, <3>1
  <2>2. Partitioned'
    <3>1. ASSUME NEW j \in store..i PROVE items[j] > pivot
      BY <1>2, <2>1, <3>1, SelectFacts
    <3> QED BY <1>1, <1>2, <1>4, <3>1, SelectFacts DEF Partitioned
  <2>3. InSlice'
    BY <1>1, <1>4, SelectFacts DEF SelectInv, InSlice, Positions
  <2> QED BY <1>1, <1>4, <2>2, <2>3
    DEF SelectInv, SameItems, Narrowing, target
<1> QED BY <1>3, <1>4 DEF Scan

LEMMA SelectPlace == ASSUME SelectInv, Place PROVE SelectInv'
<1>1. /\ pc = "scan" /\ i = hi /\ items' = Swap(items, store, hi)
      /\ UNCHANGED <<given, n, m, pivot, store, i>>
  BY DEF Place
<1>2. /\ lo <= store /\ store <= hi /\ items[hi] = pivot
      /\ \A j \in lo..(store - 1) : items[j] < pivot
      /\ \A j \in store..(hi - 1) : items[j] > pivot
      /\ lo <= target /\ target <= hi
  BY <1>1 DEF SelectInv, Partitioned, Narrowing
<1>3. /\ items' \in [Positions -> Label]
      /\ items'[store] = pivot /\ items'[hi] = items[store]
      /\ \A j \in Positions : j # store /\ j # hi => items'[j] = items[j]
  BY <1>1, <1>2, SelectFacts, SwapValues
<1>4. Values(items', Positions) = Values(items, Positions)
      /\ \A j, k \in Positions : items'[j] = items'[k] => j = k
  BY <1>1, SelectFacts, SwapSameItems
<1>5. ASSUME NEW j \in Positions, j < store PROVE items'[j] < pivot
  <2>1. items'[j] = items[j]
    <3>1. j # store /\ j # hi
      BY <1>2, <1>3, <1>5, SelectFacts DEF Positions
    <3> QED BY <3>1, <1>2, <1>3, <1>5
  <2>2. CASE j < lo
    <3>1. store \in Positions /\ lo <= store /\ hi \in Positions
      BY <1>2, SelectFacts
    <3>2. items[j] < items[hi]
      <4>1. lo <= hi
        BY <1>2, SelectNumbers
      <4> QED BY <2>2, <3>1, <4>1 DEF SelectInv, Narrowing, Positions
    <3> QED BY <1>2, <2>1, <3>2
  <2>3. CASE lo <= j
    BY <1>2, <1>5, <2>1, <2>3, SelectFacts DEF Positions
  <2> QED BY <2>2, <2>3, SelectFacts DEF Positions
<1>6. ASSUME NEW k \in Positions, store < k PROVE pivot < items'[k]
  <2>1. CASE k > hi
    <3>1. k # store /\ k # hi /\ hi \in Positions /\ hi <= hi
      BY <1>2, <2>1, SelectFacts DEF Positions
    <3>2. items[hi] < items[k]
      BY <2>1, <3>1 DEF SelectInv, Narrowing, Positions
    <3> QED BY <1>2, <1>3, <3>1, <3>2
  <2>2. CASE k = hi
    <3>1. store \in store..(hi - 1)
      BY <1>6, <2>2, SelectFacts
    <3> QED BY <1>2, <1>3, <2>2, <3>1
  <2>3. CASE k < hi
    <3>1. k # store /\ k # hi /\ k \in store..(hi - 1)
      BY <1>6, <2>3, SelectNumbers DEF Positions
    <3> QED BY <1>2, <1>3, <3>1
  <2> QED BY <2>1, <2>2, <2>3, SelectFacts DEF Positions
<1>7. SameItems'
  BY <1>1, <1>4 DEF SelectInv, SameItems, Positions
<1>8. \A j \in Positions : items'[j] \in Int
  BY <1>3, SelectFacts
<1>9. ~(pc' = "scan")
  BY DEF Place
<1>10. CASE store = target /\ pc' = "done" /\ UNCHANGED <<lo, hi>>
  <2>1. \A j, k \in Positions : j < m /\ m <= k => items'[j] < items'[k]
    <3>1. ASSUME NEW j \in Positions, NEW k \in Positions, j < m, m <= k
          PROVE  items'[j] < items'[k]
      <4>1. pivot < items'[k]
        BY <1>6, <1>10, <3>1, SelectFacts DEF Positions
      <4>2. j < store \/ j = store
        BY <1>10, <3>1, SelectFacts DEF Positions
      <4> QED BY <1>3, <1>5, <1>8, <4>1, <4>2, SelectFacts
    <3> QED BY <3>1
  <2>2. \A j, k \in Positions : (j < lo /\ lo <= k) \/ (j <= hi /\ hi < k) => items'[j] < items'[k]
    <3>1. ASSUME NEW j \in Positions, NEW k \in Positions, j < lo, lo <= k
          PROVE  items'[j] < items'[k]
      <4>1. items'[j] = items[j]
        <5>1. j # store /\ j # hi
          BY <1>2, <1>3, <3>1, SelectNumbers DEF Positions
        <5> QED BY <5>1, <1>2, <1>3, <3>1
      <4>2. PICK l \in Positions : lo <= l /\ items'[k] = items[l]
        BY <1>2, <1>3, <3>1, SelectFacts
      <4> QED BY <3>1, <4>1, <4>2 DEF SelectInv, Narrowing, Positions
    <3>2. ASSUME NEW j \in Positions, NEW k \in Positions, j <= hi, hi < k
          PROVE  items'[j] < items'[k]
      <4>1. items'[k] = items[k]
        <5>1. k # store /\ k # hi
          BY <1>2, <1>3, <3>2, SelectNumbers DEF Positions
        <5> QED BY <5>1, <1>2, <1>3, <3>2
      <4>2. PICK l \in Positions : l <= hi /\ items'[j] = items[l]
        BY <1>2, <1>3, <3>2, SelectFacts
      <4> QED BY <3>2, <4>1, <4>2 DEF SelectInv, Narrowing, Positions
    <3> QED BY <3>1, <3>2
  <2>3. InSlice'
    BY <1>1, <1>3, <1>10, SelectFacts DEF SelectInv, InSlice, Positions
  <2>4. Narrowing'
    BY <1>1, <1>10, <2>2 DEF Narrowing, Positions
  <2> QED BY <1>1, <1>7, <1>9, <2>1, <2>3, <2>4 DEF SelectInv, Partitioned, Positions
<1>11. CASE store < target /\ pc' = "pick" /\ lo' = Above /\ UNCHANGED hi
  <2>1. lo' = store + 1 /\ lo' \in Positions
    BY <1>2, <1>11, SelectFacts DEF Above, Positions
  <2>2. \A j, k \in Positions : j < lo' /\ lo' <= k => items'[j] < items'[k]
    <3>1. ASSUME NEW j \in Positions, NEW k \in Positions, j < lo', lo' <= k
          PROVE  items'[j] < items'[k]
      <4>1. pivot < items'[k]
        BY <1>6, <2>1, <3>1, SelectFacts DEF Positions
      <4>2. j < store \/ j = store
        BY <2>1, <3>1, SelectFacts DEF Positions
      <4> QED BY <1>3, <1>5, <1>8, <4>1, <4>2, SelectFacts
    <3> QED BY <3>1
  <2>3. \A j, k \in Positions : j <= hi /\ hi < k => items'[j] < items'[k]
    <3>1. ASSUME NEW j \in Positions, NEW k \in Positions, j <= hi, hi < k
          PROVE  items'[j] < items'[k]
      <4>1. items'[k] = items[k]
        <5>1. k # store /\ k # hi
          BY <1>2, <1>3, <3>1, SelectNumbers DEF Positions
        <5> QED BY <5>1, <1>2, <1>3, <3>1
      <4>2. PICK l \in Positions : l <= hi /\ items'[j] = items[l]
        BY <1>2, <1>3, <3>1, SelectFacts
      <4> QED BY <3>1, <4>1, <4>2 DEF SelectInv, Narrowing, Positions
    <3> QED BY <3>1
  <2>4. InSlice'
    BY <1>1, <1>3, <1>11, <2>1, SelectFacts DEF SelectInv, InSlice, Positions
  <2>5. Narrowing'
    BY <1>1, <1>2, <1>11, <2>1, <2>2, <2>3, SelectNumbers
      DEF Narrowing, target, Positions
  <2> QED BY <1>7, <1>9, <1>11, <2>4, <2>5 DEF SelectInv, Partitioned
<1>12. CASE store > target /\ pc' = "pick" /\ hi' = store - 1 /\ UNCHANGED lo
  <2>1. hi' \in Positions
    BY <1>2, <1>12, SelectNumbers DEF Positions
  <2>2. \A j, k \in Positions : j <= hi' /\ hi' < k => items'[j] < items'[k]
    <3>1. ASSUME NEW j \in Positions, NEW k \in Positions, j <= hi', hi' < k
          PROVE  items'[j] < items'[k]
      <4>1. items'[j] < pivot
        BY <1>5, <1>12, <3>1, SelectFacts DEF Positions
      <4>2. store < k \/ k = store
        BY <1>12, <3>1, SelectFacts DEF Positions
      <4> QED BY <1>3, <1>6, <1>8, <4>1, <4>2, SelectFacts
    <3> QED BY <3>1
  <2>3. \A j, k \in Positions : j < lo /\ lo <= k => items'[j] < items'[k]
    <3>1. ASSUME NEW j \in Positions, NEW k \in Positions, j < lo, lo <= k
          PROVE  items'[j] < items'[k]
      <4>1. items'[j] = items[j]
        <5>1. j # store /\ j # hi
          BY <1>2, <1>3, <3>1, SelectNumbers DEF Positions
        <5> QED BY <5>1, <1>2, <1>3, <3>1
      <4>2. PICK l \in Positions : lo <= l /\ items'[k] = items[l]
        BY <1>2, <1>3, <3>1, SelectFacts
      <4> QED BY <3>1, <4>1, <4>2 DEF SelectInv, Narrowing, Positions
    <3> QED BY <3>1
  <2>4. InSlice'
    BY <1>1, <1>3, <1>12, <2>1, SelectFacts DEF SelectInv, InSlice, Positions
  <2>5. Narrowing'
    BY <1>1, <1>2, <1>12, <2>1, <2>2, <2>3, SelectNumbers
      DEF Narrowing, target, Positions
  <2> QED BY <1>7, <1>9, <1>12, <2>4, <2>5 DEF SelectInv, Partitioned
<1> QED BY <1>10, <1>11, <1>12 DEF Place

(* When the part left has one label, that label is at the target. *)
LEMMA SelectExhausted == ASSUME SelectInv, Exhausted PROVE SelectInv'
<1>1. /\ pc = "pick" /\ lo >= hi /\ pc' = "done"
      /\ UNCHANGED <<given, n, m, items, lo, hi, pivot, store, i>>
  BY DEF Exhausted
<1>2. lo = target /\ hi = target
  BY <1>1, SelectFacts DEF SelectInv, Narrowing
<1>3. \A j, k \in 0..(n - 1) : j < m /\ m <= k => items[j] < items[k]
  <2>1. ASSUME NEW j \in 0..(n - 1), NEW k \in 0..(n - 1), j < m, m <= k
        PROVE  items[j] < items[k]
    <3>1. j <= hi /\ hi < k
      BY <1>2, <2>1, SelectFacts
    <3> QED BY <3>1 DEF SelectInv, Narrowing
  <2> QED BY <2>1
<1> QED BY <1>1, <1>3
  DEF SelectInv, InSlice, SameItems, Narrowing, Partitioned,
      target

LEMMA SelectStepInv == SelectInv /\ [SelectStep]_selectVars => SelectInv'
<1> SUFFICES ASSUME SelectInv, [SelectStep]_selectVars PROVE SelectInv'
  OBVIOUS
<1>1. CASE UNCHANGED selectVars
  BY <1>1
    DEF selectVars, SelectInv, InSlice, SameItems, Narrowing,
        Partitioned, target
<1>2. CASE SelectStep
  BY <1>2, SelectPick, SelectScan, SelectPlace, SelectExhausted DEF SelectStep
<1> QED BY <1>1, <1>2

(* The invariant holds in every state. *)
THEOREM SelectInductive == SelectSpec => []SelectInv
  BY StartsSelectInv, SelectStepInv, PTL DEF SelectSpec

(* The indices stay within the array, so that `store - 1` is never negative. *)
THEOREM SelectInBounds == SelectSpec => []InSlice
<1>1. SelectInv => InSlice
  BY DEF SelectInv
<1> QED BY <1>1, SelectInductive, PTL

-----------------------------------------------------------------------------
(* What it returns.                                                         *)

(* The first m items are m labels. *)
LEMMA FirstItems ==
  ASSUME SelectInv
  PROVE  Cardinality(Values(items, 0..(m - 1))) = m
<1> DEFINE S == 0..(m - 1)
           f == [j \in S |-> items[j]]
<1>1. S \subseteq Positions /\ m \in Nat
  BY SelectFacts DEF Positions
<1>2. f \in Bijection(S, Values(items, S))
  BY <1>1, SelectFacts DEF Values, Bijection, Injection, Surjection, IsInjective
<1>3. IsFiniteSet(S) /\ Cardinality(S) = m
  BY <1>1, SelectFacts, FS_Interval
<1> HIDE DEF f
<1> QED BY <1>2, <1>3, FS_Bijection DEF ExistsBijection

(* Whatever the pivots, quickselect leaves the m least labels first. *)
THEOREM Selected == SelectSpec => []Selects
<1>1. SelectInv => Selects
  <2> SUFFICES ASSUME SelectInv, pc = "done"
               PROVE  IsSmallest(Values(items, 0..(m - 1)), given, m)
    BY DEF Selects
  <2>1. given = Values(items, Positions)
    BY DEF SelectInv, SameItems, Positions
  <2>2. Values(items, 0..(m - 1)) \subseteq given
    BY <2>1, SelectFacts DEF Values, Positions
  <2>3. ASSUME NEW x \in Values(items, 0..(m - 1)), NEW y \in given \ Values(items, 0..(m - 1))
        PROVE  x < y
    <3>1. PICK j \in 0..(m - 1) : x = items[j]
      BY DEF Values
    <3>2. PICK k \in Positions : y = items[k]
      BY <2>1 DEF Values
    <3>3. j \in Positions /\ j < m /\ m <= k
      <4>1. j \in Positions /\ j < m
        BY SelectNumbers DEF Positions
      <4>2. ~ (k \in 0..(m - 1))
        BY <2>3, <3>2 DEF Values
      <4> QED BY <4>1, <4>2, SelectNumbers DEF Positions
    <3> QED BY <3>1, <3>2, <3>3 DEF SelectInv, Positions
  <2> QED BY <2>2, <2>3, FirstItems DEF IsSmallest, AllBelow
<1> QED BY <1>1, SelectInductive, PTL

=============================================================================
