----------------------------- MODULE Heap4Proofs ----------------------------
(***************************************************************************)
(* Proofs about Heap4, for every set of entries and every order of keys:   *)
(* its invariants, and that it is a priority queue.                        *)
(***************************************************************************)
EXTENDS Heap4, LeastNumber

(* The arithmetic of the 4-ary tree.                                        *)
LEMMA ParentBelow ==
  ASSUME NEW j \in Nat, j > 0
  PROVE  Parent(j) \in Nat /\ Parent(j) < j
BY DEF Parent

LEMMA ChildrenOf ==
  ASSUME len \in Nat, NEW p \in Nat
  PROVE  Children(p) = {c \in Slots \ {0} : Parent(c) = p}
BY DEF Children, Slots, Parent

LEMMA KeyType ==
  ASSUME NEW e \in Entry
  PROVE  KeyOf[e] \in Int
BY EntryAssumption

LEMMA FilledKeys ==
  ASSUME HeapInv, NEW j \in Filled
  PROVE  j \in Slots /\ j \in Nat /\ a[j] \in Entry /\ Key(j) \in Int
BY KeyType DEF HeapInv, HeapTypeOK, EachOnce, Filled, Slots, Key

-----------------------------------------------------------------------------
(* The inductive invariant.                                                 *)

LEMMA InitInv == HeapInit => HeapInv
BY DEF HeapInit, HeapInv, HeapTypeOK, EachOnce, HeapOrdered, Slots, Filled

LEMMA PushInv ==
  ASSUME HeapInv, NEW e \in Entry, Push(e)
  PROVE  HeapInv'
<1> USE DEF HeapInv
<1>1. /\ len \in Nat /\ pc = "idle" /\ Filled = Slots /\ Slots = 0..(len - 1)
      /\ len' = len + 1 /\ hole' = len /\ moving' = e /\ pc' = "up" /\ popped' = Nothing
      /\ a' = [j \in 0..len |-> IF j < len THEN a[j] ELSE Nothing]
      /\ Slots' = 0..len /\ Filled' = Slots
  BY DEF Push, HeapTypeOK, Filled, Slots
<1>2. \A j \in Slots : a'[j] = a[j] /\ a[j] \in Entry /\ a[j] # e
  BY <1>1 DEF EachOnce, Push, Content
<1>3. HeapTypeOK'
  BY <1>1, <1>2 DEF HeapTypeOK
<1>4. EachOnce'
  BY <1>1, <1>2 DEF EachOnce
<1>5. HeapOrdered'
  <2> SUFFICES ASSUME NEW j \in 0..len \ {0}, j # len
               PROVE  /\ Parent(j) # len
                      /\ KeyOf[a'[Parent(j)]] <= KeyOf[a'[j]]
    BY <1>1, ParentBelow DEF HeapOrdered, Key, Parent
  <2>1. Parent(j) \in Slots /\ j \in Slots \ {0}
    BY <1>1, ParentBelow
  <2>2. KeyOf[a[Parent(j)]] <= KeyOf[a[j]]
    BY <1>1, <2>1 DEF HeapOrdered, Key
  <2> QED BY <1>1, <1>2, <2>1, <2>2
<1> QED BY <1>3, <1>4, <1>5

(* Moving another slot's entry into the hole, and the hole to that slot.    *)
LEMMA ShiftOnce ==
  ASSUME HeapInv, pc # "idle", NEW s \in Slots, s # hole,
         a' = [a EXCEPT ![hole] = a[s]], hole' = s, UNCHANGED <<len, moving, pc, popped>>
  PROVE  /\ HeapTypeOK' /\ EachOnce'
         /\ Content' = Content
         /\ \A j \in Slots : a'[j] = IF j = hole THEN a[s] ELSE a[j]
<1> USE DEF HeapInv
<1>1. /\ len \in Nat /\ hole \in Slots /\ a \in [Slots -> Entry \cup {Nothing}]
      /\ Slots' = Slots /\ Filled = Slots \ {hole} /\ Filled' = Slots \ {s}
      /\ len' = len /\ moving' = moving /\ pc' = pc /\ popped' = popped
  BY DEF HeapTypeOK, Filled, Slots
<1>2. \A j \in Slots : a'[j] = IF j = hole THEN a[s] ELSE a[j]
  BY <1>1
<1>3. HeapTypeOK'
  BY <1>1 DEF HeapTypeOK
<1>4. EachOnce'
  BY <1>1, <1>2 DEF EachOnce
<1>5. {a'[j] : j \in Filled'} = {a[j] : j \in Filled}
  BY <1>1, <1>2
<1>6. Content' = Content
  BY <1>1, <1>5 DEF Content
<1> QED BY <1>2, <1>3, <1>4, <1>6

LEMMA SiftUpInv ==
  ASSUME HeapInv, SiftUp
  PROVE  HeapInv' /\ Content' = Content
<1> DEFINE h == hole
           q == Parent(hole)
<1>1. /\ h \in Nat /\ h > 0 /\ h \in Slots /\ pc = "up" /\ moving \in Entry /\ len \in Nat
      /\ KeyOf[moving] < Key(q) /\ a' = [a EXCEPT ![h] = a[q]] /\ hole' = q
      /\ UNCHANGED <<len, moving, pc, popped>>
  BY DEF SiftUp, HeapInv, HeapTypeOK, Slots
<1>2. q \in Nat /\ q < h /\ q \in Slots /\ q # h
  BY <1>1, ParentBelow DEF Slots
<1>3. /\ HeapTypeOK' /\ EachOnce' /\ Content' = Content
      /\ \A j \in Slots : a'[j] = IF j = h THEN a[q] ELSE a[j]
  BY <1>1, <1>2, ShiftOnce
<1>4. /\ \A j \in Slots \ {h} : Key(j) \in Int
      /\ KeyOf[moving] \in Int
  BY <1>1, FilledKeys, KeyType DEF Filled
<1>5. \A j \in Slots \ {0} : Parent(j) \in Slots /\ Parent(j) # j
  BY <1>1, ParentBelow DEF Slots
<1>6. \A j \in Slots \ {0} :
         /\ Parent(j) = h => KeyOf[moving] <= Key(j) /\ Key(q) <= Key(j)
         /\ Parent(j) # h /\ j # h => Key(Parent(j)) <= Key(j)
  BY <1>1 DEF HeapInv, HeapOrdered
<1> HIDE DEF h, q
<1>7. \A j \in Slots : Key(j)' = IF j = h THEN Key(q) ELSE Key(j)
  BY <1>3 DEF Key
<1>8. ASSUME NEW j \in Slots \ {0}, Parent(j) = q
      PROVE  /\ KeyOf[moving] <= Key(j)'
             /\ q # 0 => Key(Parent(q)) <= Key(j)'
  <2>1. q # 0 => Key(Parent(q)) <= Key(q) /\ Key(Parent(q)) \in Int
    <3> SUFFICES ASSUME q # 0 PROVE Key(Parent(q)) <= Key(q) /\ Key(Parent(q)) \in Int
      OBVIOUS
    <3>1. Parent(q) \in Slots /\ Parent(q) # h
      BY <1>2, <1>5, ParentBelow
    <3> QED BY <1>2, <1>4, <1>6, <3>1
  <2>2. CASE j = h
    BY <1>1, <1>2, <1>4, <1>7, <2>1, <2>2
  <2>3. CASE j # h
    <3>1. Key(q) <= Key(j) /\ Key(j) \in Int /\ Key(q) \in Int /\ Key(j)' = Key(j)
      BY <1>2, <1>4, <1>6, <1>7, <1>8, <2>3
    <3> QED BY <1>1, <1>4, <2>1, <3>1
  <2> QED BY <2>2, <2>3
<1>9. ASSUME NEW j \in Slots \ {0}, Parent(j) # q, j # q
      PROVE  Key(Parent(j))' <= Key(j)'
  <2>0. j # h
    BY <1>9 DEF h, q
  <2>1. CASE Parent(j) = h
    BY <1>2, <1>5, <1>6, <1>7, <2>0, <2>1
  <2>2. CASE Parent(j) # h
    BY <1>5, <1>6, <1>7, <2>0, <2>2
  <2> QED BY <2>1, <2>2
<1>10. q # 0 => KeyOf[a'[Parent(q)]] = Key(Parent(q))
  <2> SUFFICES ASSUME q # 0 PROVE KeyOf[a'[Parent(q)]] = Key(Parent(q))
    OBVIOUS
  <2>1. Parent(q) \in Slots /\ Parent(q) # h
    BY <1>2, <1>5, ParentBelow
  <2> QED BY <1>7, <2>1 DEF Key
<1>11. HeapOrdered'
  <2>1. Slots' = Slots /\ hole' = q /\ pc' = "up" /\ moving' = moving
    BY <1>1 DEF Slots
  <2> SUFFICES ASSUME NEW j \in Slots \ {0}
               PROVE  /\ Parent(j) = q =>
                           /\ KeyOf[moving] <= KeyOf[a'[j]]
                           /\ q # 0 => KeyOf[a'[Parent(q)]] <= KeyOf[a'[j]]
                      /\ Parent(j) # q /\ j # q => KeyOf[a'[Parent(j)]] <= KeyOf[a'[j]]
    BY <2>1 DEF HeapOrdered, Parent, Key
  <2> QED BY <1>8, <1>9, <1>10 DEF Key, Parent
<1> QED BY <1>3, <1>11 DEF HeapInv

(* The hole is filled where the entry in hand belongs.                      *)
LEMMA FillInv ==
  ASSUME HeapInv, pc # "idle", Fill,
         \A c \in Slots \ {0} : Parent(c) = hole => KeyOf[moving] <= Key(c),
         hole # 0 => Key(Parent(hole)) <= KeyOf[moving]
  PROVE  HeapInv' /\ Content' = Content
<1> DEFINE h == hole
<1>1. /\ len \in Nat /\ h \in Slots /\ a \in [Slots -> Entry \cup {Nothing}] /\ moving \in Entry
      /\ Filled = Slots \ {h} /\ Filled' = Slots /\ Slots' = Slots
      /\ len' = len /\ pc' = "idle" /\ moving' = Nothing /\ hole' = 0 /\ popped' = popped
      /\ a' = [a EXCEPT ![h] = moving]
  BY DEF Fill, HeapInv, HeapTypeOK, Filled, Slots
<1>2. \A j \in Slots : a'[j] = IF j = h THEN moving ELSE a[j]
  BY <1>1
<1>3. HeapTypeOK'
  BY <1>1 DEF HeapTypeOK, HeapInv
<1>4. EachOnce'
  BY <1>1, <1>2 DEF EachOnce, HeapInv
<1>5. Content' = Content
  <2>1. {a'[j] : j \in Slots} = {a[j] : j \in Slots \ {h}} \cup {moving}
    BY <1>1, <1>2
  <2> QED BY <1>1, <2>1 DEF Content
<1>6. \A j \in Slots \ {0} : Parent(j) \in Slots /\ Parent(j) # j
  BY <1>1, ParentBelow DEF Slots
<1>7. \A j \in Slots \ {0} : Parent(j) # h /\ j # h => Key(Parent(j)) <= Key(j)
  BY <1>1 DEF HeapInv, HeapOrdered
<1>8. HeapOrdered'
  <2> SUFFICES ASSUME NEW j \in Slots \ {0}
               PROVE  KeyOf[a'[Parent(j)]] <= KeyOf[a'[j]]
    BY <1>1 DEF HeapOrdered, Key, Parent
  <2>1. Parent(j) \in Slots /\ Parent(j) # j
    BY <1>6
  <2>2. CASE j = h
    BY <1>2, <2>1, <2>2 DEF Key
  <2>3. CASE Parent(j) = h
    BY <1>2, <2>1, <2>3 DEF Key
  <2>4. CASE j # h /\ Parent(j) # h
    BY <1>2, <1>7, <2>1, <2>4 DEF Key
  <2> QED BY <2>2, <2>3, <2>4
<1> QED BY <1>3, <1>4, <1>5, <1>8 DEF HeapInv

LEMMA FillUpInv ==
  ASSUME HeapInv, FillUp
  PROVE  HeapInv' /\ Content' = Content
<1>1. /\ pc = "up" /\ Fill /\ hole \in Slots /\ len \in Nat /\ moving \in Entry
      /\ hole > 0 => KeyOf[moving] >= Key(Parent(hole))
  BY DEF FillUp, HeapInv, HeapTypeOK
<1>2. \A c \in Slots \ {0} : Parent(c) = hole => KeyOf[moving] <= Key(c)
  BY <1>1 DEF HeapInv, HeapOrdered
<1>3. hole # 0 => Key(Parent(hole)) <= KeyOf[moving]
  <2> SUFFICES ASSUME hole # 0 PROVE Key(Parent(hole)) <= KeyOf[moving]
    OBVIOUS
  <2>1. hole \in Nat /\ hole > 0
    BY <1>1 DEF Slots
  <2>2. Parent(hole) \in Filled
    BY <1>1, <2>1, ParentBelow DEF Filled, Slots
  <2> QED BY <1>1, <2>1, <2>2, FilledKeys, KeyType
<1> QED BY <1>1, <1>2, <1>3, FillInv

LEMMA SiftDownInv ==
  ASSUME HeapInv, SiftDown
  PROVE  HeapInv' /\ Content' = Content
<1>1. PICK c \in Slots : /\ IsSmallestChild(c)
                         /\ Key(c) < KeyOf[moving]
                         /\ a' = [a EXCEPT ![hole] = a[c]]
                         /\ hole' = c
  BY DEF SiftDown
<1>2. /\ pc = "down" /\ hole \in Slots /\ len \in Nat /\ moving \in Entry
      /\ UNCHANGED <<len, moving, pc, popped>>
  BY DEF SiftDown, HeapInv, HeapTypeOK
<1>3. PICK h : h = hole
  OBVIOUS
<1>4. /\ c \in Slots \ {0} /\ Parent(c) = h /\ c # h
      /\ \A d \in Slots \ {0} : Parent(d) = h => Key(c) <= Key(d)
  <2>1. Children(h) = {d \in Slots \ {0} : Parent(d) = h}
    BY <1>2, <1>3, ChildrenOf DEF Slots
  <2>2. c \in Children(h) /\ \A d \in Children(h) : Key(c) < Key(d) \/ Key(c) = Key(d)
    BY <1>1, <1>3 DEF IsSmallestChild
  <2>3. c # h
    BY <2>1, <2>2, ParentBelow DEF Slots
  <2>4. \A d \in Children(h) : Key(c) \in Int /\ Key(d) \in Int
    <3> SUFFICES ASSUME NEW d \in Children(h) PROVE Key(d) \in Int
      BY <2>2
    <3>1. d \in Filled
      BY <1>2, <1>3, <2>1, ParentBelow DEF Filled, Slots
    <3> QED BY <3>1, FilledKeys
  <2> QED BY <2>1, <2>2, <2>3, <2>4
<1>5. /\ HeapTypeOK' /\ EachOnce' /\ Content' = Content
      /\ \A j \in Slots : a'[j] = IF j = h THEN a[c] ELSE a[j]
  BY <1>1, <1>2, <1>3, <1>4, ShiftOnce
<1>6. /\ \A j \in Slots \ {h} : Key(j) \in Int
      /\ KeyOf[moving] \in Int
  BY <1>2, <1>3, FilledKeys, KeyType DEF Filled
<1>7. \A j \in Slots \ {0} : Parent(j) \in Slots /\ Parent(j) # j
  BY <1>2, ParentBelow DEF Slots
<1>8. \A j \in Slots \ {0} :
         /\ Parent(j) = h => (h # 0 => Key(Parent(h)) <= Key(j))
         /\ Parent(j) # h /\ j # h => Key(Parent(j)) <= Key(j)
  BY <1>2, <1>3 DEF HeapInv, HeapOrdered
<1>9. \A j \in Slots : KeyOf[a'[j]] = IF j = h THEN Key(c) ELSE Key(j)
  BY <1>5 DEF Key
<1>10. ASSUME NEW j \in Slots \ {0}
       PROVE  /\ Parent(j) = c => KeyOf[a'[c]] <= KeyOf[a'[j]] /\ KeyOf[a'[h]] <= KeyOf[a'[j]]
              /\ j = c => KeyOf[a'[Parent(j)]] <= KeyOf[moving]
              /\ Parent(j) # c /\ j # c => KeyOf[a'[Parent(j)]] <= KeyOf[a'[j]]
  <2>1. CASE Parent(j) = c
    <3>1. j # h
      BY <1>2, <1>3, <1>4, <2>1, ParentBelow DEF Slots
    <3>2. Key(c) <= Key(j)
      BY <1>4, <1>8, <2>1, <3>1
    <3> QED BY <1>3, <1>4, <1>6, <1>7, <1>9, <2>1, <3>1, <3>2, <1>2
  <2>2. CASE j = c
    BY <1>1, <1>2, <1>3, <1>4, <1>6, <1>7, <1>9, <2>2
  <2>3. CASE Parent(j) # c /\ j # c
    <3>1. CASE j = h
      <4>1. Parent(h) # h /\ Key(Parent(h)) <= Key(c)
        BY <1>4, <1>7, <1>8, <3>1
      <4> QED BY <1>7, <1>9, <2>3, <3>1, <4>1
    <3>2. CASE Parent(j) = h
      BY <1>4, <1>7, <1>9, <2>3, <3>2
    <3>3. CASE j # h /\ Parent(j) # h
      BY <1>7, <1>8, <1>9, <2>3, <3>3
    <3> QED BY <3>1, <3>2, <3>3
  <2> QED BY <2>1, <2>2, <2>3
<1>11. HeapOrdered'
  <2>1. Slots' = Slots /\ hole' = c /\ pc' = "down" /\ moving' = moving
    BY <1>1, <1>2 DEF Slots
  <2> SUFFICES ASSUME NEW j \in Slots \ {0}
               PROVE  /\ Parent(j) = c =>
                           (c # 0 => KeyOf[a'[Parent(c)]] <= KeyOf[a'[j]])
                      /\ j = c => KeyOf[a'[Parent(j)]] <= KeyOf[moving]
                      /\ Parent(j) # c /\ j # c => KeyOf[a'[Parent(j)]] <= KeyOf[a'[j]]
    BY <2>1 DEF HeapOrdered, Parent, Key
  <2> QED BY <1>4, <1>10
<1> QED BY <1>5, <1>11 DEF HeapInv

LEMMA FillDownInv ==
  ASSUME HeapInv, FillDown
  PROVE  HeapInv' /\ Content' = Content
<1>1. /\ pc = "down" /\ Fill /\ hole \in Slots /\ hole \in Nat /\ len \in Nat /\ moving \in Entry
      /\ \A c \in Children(hole) : Key(c) >= KeyOf[moving]
  BY DEF FillDown, HeapInv, HeapTypeOK, Slots
<1>2. ASSUME NEW c \in Slots \ {0}, Parent(c) = hole
      PROVE  KeyOf[moving] <= Key(c)
  <2>1. c \in Children(hole)
    BY <1>1, <1>2, ChildrenOf
  <2>2. c \in Filled
    BY <1>1, <1>2, ParentBelow DEF Filled, Slots
  <2> QED BY <1>1, <2>1, <2>2, FilledKeys, KeyType
<1>3. hole # 0 => Key(Parent(hole)) <= KeyOf[moving]
  <2> SUFFICES ASSUME hole # 0 PROVE Key(Parent(hole)) <= KeyOf[moving]
    OBVIOUS
  <2>1. hole \in Slots \ {0} /\ Parent(hole) # hole
    BY <1>1, ParentBelow DEF Slots
  <2> QED BY <1>1, <2>1 DEF HeapInv, HeapOrdered
<1> QED BY <1>1, <1>2, <1>3, FillInv

(* The slot that pop empties is the root; the last one goes.                *)
LEMMA PopInv ==
  ASSUME HeapInv, Pop
  PROVE  /\ HeapInv'
         /\ popped' = a[0] /\ a[0] \in Content /\ Content' = Content \ {a[0]}
<1>1. /\ pc = "idle" /\ len \in Nat /\ len > 0 /\ Slots = 0..(len - 1) /\ Filled = Slots
      /\ a' = [j \in 0..(len - 2) |-> a[j]] /\ len' = len - 1 /\ Slots' = 0..(len - 2)
      /\ hole' = 0 /\ popped' = a[0] /\ Content = {a[j] : j \in Slots}
      /\ IF len > 1 THEN pc' = "down" /\ moving' = a[len - 1]
                    ELSE pc' = "idle" /\ moving' = Nothing
  BY DEF Pop, HeapInv, HeapTypeOK, Slots, Filled, Content
<1>2. /\ \A j \in Slots : a[j] \in Entry
      /\ \A j, k \in Slots : a[j] = a[k] => j = k
  BY <1>1 DEF HeapInv, EachOnce
<1>3. HeapTypeOK'
  BY <1>1, <1>2 DEF HeapTypeOK
<1>4. Filled' = 1..(len - 2)
  <2>1. CASE len > 1
    BY <1>1, <2>1 DEF Filled
  <2>2. CASE len = 1
    BY <1>1, <2>2 DEF Filled
  <2> QED BY <1>1, <2>1, <2>2
<1>5. EachOnce'
  BY <1>1, <1>2, <1>4 DEF EachOnce
<1>6. HeapOrdered'
  <2> SUFFICES ASSUME NEW j \in 1..(len - 2), Parent(j) # 0
               PROVE  KeyOf[a'[Parent(j)]] <= KeyOf[a'[j]]
    BY <1>1, ParentBelow DEF HeapOrdered, Key, Parent
  <2>1. Parent(j) \in 0..(len - 2) /\ j \in Slots \ {0}
    BY <1>1, ParentBelow
  <2> QED BY <1>1, <2>1 DEF HeapInv, HeapOrdered, Key
<1>7. Content' = Content \ {a[0]}
  <2>1. CASE len > 1
    <3>1. Content' = {a[j] : j \in 1..(len - 2)} \cup {a[len - 1]}
      BY <1>1, <1>4, <2>1 DEF Content
    <3> QED BY <1>1, <1>2, <2>1, <3>1
  <2>2. CASE len = 1
    BY <1>1, <1>2, <1>4, <2>2 DEF Content
  <2> QED BY <1>1, <2>1, <2>2
<1>8. a[0] \in Content
  BY <1>1
<1> QED BY <1>1, <1>3, <1>5, <1>6, <1>7, <1>8 DEF HeapInv

LEMMA ClearInv ==
  ASSUME HeapInv, Clear
  PROVE  HeapInv' /\ Content' = {}
BY DEF Clear, HeapInv, HeapTypeOK, EachOnce, HeapOrdered, Slots, Filled, Content

THEOREM Inductive == HeapSpec => []HeapInv
<1>1. ASSUME HeapInv, [HeapNext]_heapVars PROVE HeapInv'
  <2>1. CASE \E e \in Entry : Push(e)
    BY <1>1, <2>1, PushInv
  <2>2. CASE SiftUp
    BY <1>1, <2>2, SiftUpInv
  <2>3. CASE FillUp
    BY <1>1, <2>3, FillUpInv
  <2>4. CASE Pop
    BY <1>1, <2>4, PopInv
  <2>5. CASE PopEmpty
    BY <1>1, <2>5 DEF PopEmpty, HeapInv, HeapTypeOK, EachOnce, HeapOrdered, Slots, Filled, Key
  <2>6. CASE SiftDown
    BY <1>1, <2>6, SiftDownInv
  <2>7. CASE FillDown
    BY <1>1, <2>7, FillDownInv
  <2>8. CASE Clear
    BY <1>1, <2>8, ClearInv
  <2>9. CASE UNCHANGED heapVars
    BY <1>1, <2>9 DEF heapVars, HeapInv, HeapTypeOK, EachOnce, HeapOrdered, Slots, Filled, Key
  <2> QED BY <1>1, <2>1, <2>2, <2>3, <2>4, <2>5, <2>6, <2>7, <2>8, <2>9 DEF HeapNext
<1> QED BY <1>1, InitInv, PTL DEF HeapSpec

(* No slot of memory that was never written is read, and no entry is lost  *)
(* or doubled by the sifting of push and pop (dijkstra.rs, engine.rs).     *)
THEOREM EntriesEachOnce == HeapSpec => []EachOnce
BY Inductive, PTL DEF HeapInv

(* The tree stays ordered around the hole (sift_up, sift_down).            *)
THEOREM StaysOrdered == HeapSpec => []HeapOrdered
BY Inductive, PTL DEF HeapInv

-----------------------------------------------------------------------------
(* The heap is a priority queue.                                            *)

(* A first slot smaller than the root would have a parent that is smaller  *)
(* already.                                                                *)
LEMMA RootIsLeast ==
  ASSUME HeapInv, pc = "idle", NEW j \in Slots
  PROVE  Key(0) <= Key(j)
<1> DEFINE T == {s \in Slots : ~ (Key(0) <= Key(s))}
<1> SUFFICES ASSUME T # {} PROVE FALSE
  OBVIOUS
<1>1. \A s \in Slots : s \in Nat /\ Key(s) \in Int
  BY FilledKeys DEF Filled
<1>2. PICK m \in T : \A n \in T : m <= n
  <2>1. T \subseteq Nat
    BY <1>1
  <2> HIDE DEF T
  <2> QED BY <2>1, HasLeast
<1>3. m \in Slots /\ m > 0 /\ 0 \in Slots
  BY <1>1 DEF Slots, HeapInv, HeapTypeOK
<1>4. Parent(m) \in Slots /\ Parent(m) < m
  BY <1>3, ParentBelow DEF Slots, HeapInv, HeapTypeOK
<1>5. Key(0) <= Key(Parent(m))
  BY <1>1, <1>2, <1>4
<1>6. Key(Parent(m)) <= Key(m)
  BY <1>3 DEF HeapInv, HeapOrdered
<1> QED BY <1>1, <1>3, <1>4, <1>5, <1>6

(* Push and Pop, where they start, do to the entries what a priority queue *)
(* does, and sifting leaves the entries as they are.                       *)
THEOREM Refinement == HeapSpec => ImplementsMinQueue
<1>1. HeapInit => PQ!Init
  BY DEF HeapInit, PQ!Init, Content, Filled, Slots
<1>2. ASSUME HeapInv, [HeapNext]_heapVars PROVE [PQ!Next]_(PQ!vars)
  <2>1. ASSUME NEW e \in Entry, Push(e) PROVE PQ!Push(e)
    <3>1. /\ pc = "idle" /\ len \in Nat /\ Filled = Slots /\ Slots = 0..(len - 1)
          /\ a' = [j \in 0..len |-> IF j < len THEN a[j] ELSE Nothing]
          /\ len' = len + 1 /\ hole' = len /\ moving' = e /\ pc' = "up" /\ popped' = Nothing
          /\ e \notin Content
      BY <1>2, <2>1 DEF Push, HeapInv, HeapTypeOK, Filled, Slots
    <3>2. Filled' = Slots
      BY <3>1 DEF Filled, Slots
    <3>3. \A j \in Slots : a'[j] = a[j]
      BY <3>1
    <3>4. {a'[j] : j \in Slots} = {a[j] : j \in Slots}
      BY <3>3
    <3>5. Content' = Content \cup {e}
      BY <3>1, <3>2, <3>4 DEF Content
    <3> QED BY <3>1, <3>5 DEF PQ!Push
  <2>2. CASE SiftUp
    BY <1>2, <2>2, SiftUpInv DEF SiftUp, PQ!vars
  <2>3. CASE FillUp
    BY <1>2, <2>3, FillUpInv DEF FillUp, Fill, PQ!vars
  <2>4. CASE Pop
    <3>1. popped' = a[0] /\ a[0] \in Content /\ Content' = Content \ {a[0]}
      BY <1>2, <2>4, PopInv
    <3>2. \A x \in Content : KeyOf[a[0]] <= KeyOf[x]
      <4>1. pc = "idle" /\ Content = {a[j] : j \in Slots}
        BY <2>4 DEF Pop, Content, Filled
      <4> QED BY <1>2, <4>1, RootIsLeast DEF Key
    <3>3. PQ!Pop
      BY <3>1, <3>2 DEF PQ!Pop
    <3> QED BY <3>3 DEF PQ!Next
  <2>5. CASE PopEmpty
    <3>1. Content = {} /\ popped' = Nothing /\ Content' = Content
      BY <1>2, <2>5 DEF PopEmpty, Content, Filled, Slots
    <3>2. PQ!Pop
      BY <3>1 DEF PQ!Pop
    <3> QED BY <3>2 DEF PQ!Next
  <2>6. CASE SiftDown
    BY <1>2, <2>6, SiftDownInv DEF SiftDown, PQ!vars
  <2>7. CASE FillDown
    BY <1>2, <2>7, FillDownInv DEF FillDown, Fill, PQ!vars
  <2>8. CASE Clear
    <3>1. Content' = {} /\ popped' = Nothing
      BY <1>2, <2>8, ClearInv DEF Clear
    <3> QED BY <3>1 DEF PQ!Next, PQ!Clear
  <2>9. CASE UNCHANGED heapVars
    BY <2>9 DEF heapVars, PQ!vars, Content, Filled, Slots
  <2> QED BY <1>2, <2>1, <2>2, <2>3, <2>4, <2>5, <2>6, <2>7, <2>8, <2>9 DEF HeapNext, PQ!Next
<1> QED BY <1>1, <1>2, Inductive, PTL DEF HeapSpec, ImplementsMinQueue, PQ!Spec

=============================================================================
