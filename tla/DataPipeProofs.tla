--------------------------- MODULE DataPipeProofs ---------------------------
(***************************************************************************)
(* What one forwarded stream promises whatever the source sends, the hook  *)
(* decides and the peers do, for any number of units, any budget, depth,   *)
(* delay and ceiling.  None of the properties is inductive: they rest on   *)
(* Inv, which says where every unit is at each place the loop can stand.   *)
(***************************************************************************)
EXTENDS DataPipe, FiniteSetTheorems, WellFoundedInduction, TLAPS

-----------------------------------------------------------------------------
(* What the proofs need to know of sequences: which slots a flush writes   *)
(* and in which order, what is counted as queued, and what it means for    *)
(* the wire to follow the source without a gap.                            *)

(* Slots and written units follow the source's order; no written unit is   *)
(* one that is still to be written; every unit up to n is somewhere; and   *)
(* nothing is written ahead of a unit that is neither written nor elided.  *)
Sorted(q)     == \A i, j \in DOMAIN q : i < j => q[i].id < q[j].id
Increasing(w) == \A j, k \in DOMAIN w : j < k => w[j] < w[k]
Behind(w, q)  == \A k \in DOMAIN w : \A i \in DOMAIN q : Loaded(q[i]) => w[k] < q[i].id
On(w, i)      == \E k \in DOMAIN w : w[k] = i
Covered(q, w, d, n) == \A i \in 1..n : i \in d \/ On(w, i) \/ i \in IdsOf(q)
Gapless(w, d) == \A j \in DOMAIN w : \A i \in 1..w[j] : i \in d \/ \E k \in 1..j : w[k] = i
LastOnly(q)   == \A i \in DOMAIN q : Terminal(q[i]) => i = Len(q)

-----------------------------------------------------------------------------
(* Numbers and slots.                                                      *)

(* A nonempty set of naturals has a least member. *)
LEMMA LeastNumber ==
  ASSUME NEW S \in SUBSET Nat, S # {}
  PROVE  \E m \in S : \A k \in S : m <= k
<1> DEFINE R == {ss \in Nat \X Nat : ss[1] < ss[2]}
<1>1. IsWellFoundedOn(R, Nat)
  BY NatLessThanWellFounded, Zenon DEF OpToRel
<1>2. \E x \in S : \A y \in S : ~(<<y, x>> \in R)
  <2> HIDE DEF R
  <2> QED
    BY <1>1, WFMin, Zenon
<1>3. PICK x \in S : \A y \in S : ~(<<y, x>> \in R)
  BY <1>2
<1>4. ASSUME NEW y \in S, y < x
      PROVE  <<y, x>> \in R
  <2>1. x \in Nat /\ y \in Nat
    OBVIOUS
  <2>2. <<y, x>> \in Nat \X Nat /\ <<y, x>>[1] = y /\ <<y, x>>[2] = x
    BY <2>1
  <2> QED
    BY <2>2, <1>4
<1>5. \A y \in S : ~(y < x)
  BY <1>3, <1>4
<1>6. x \in Nat /\ \A y \in S : y \in Nat
  OBVIOUS
<1> QED
  BY <1>5, <1>6

(* A function on 1..n is a sequence of length n. *)
LEMMA FunctionIsSeq ==
  ASSUME NEW S, NEW n \in Nat, NEW f \in [1..n -> S]
  PROVE  f \in Seq(S) /\ Len(f) = n
  OBVIOUS

(* Two sequences in a row: the length, and what stands where.              *)
LEMMA ConcatIs ==
  ASSUME NEW v \in Seq(Nat), NEW w \in Seq(Nat)
  PROVE  /\ w \o v \in Seq(Nat) /\ Len(w \o v) = Len(w) + Len(v)
         /\ DOMAIN (w \o v) = 1..Len(w) + Len(v)
         /\ \A k \in 1..Len(w) : (w \o v)[k] = w[k]
         /\ \A k \in 1..Len(v) : (w \o v)[Len(w) + k] = v[k]
  OBVIOUS

(* What is left of a nonempty sequence, index by index.                    *)
LEMMA TailIs ==
  ASSUME NEW S, NEW q \in Seq(S), q # <<>>
  PROVE  /\ Tail(q) \in Seq(S) /\ Len(Tail(q)) = Len(q) - 1 /\ Len(q) >= 1
         /\ DOMAIN Tail(q) = 1..Len(q) - 1
         /\ \A i \in 1..Len(q) - 1 : i + 1 \in DOMAIN q /\ Tail(q)[i] = q[i + 1]
         /\ Head(q) = q[1] /\ q[1] \in S /\ 1 \in DOMAIN q
  OBVIOUS

(* The fields of a slot, and the two classes of kinds. *)
LEMMA SlotFields ==
  ASSUME NEW u \in Slots
  PROVE  /\ u.id \in 1..Units + 1 /\ u.id \in Nat /\ u.due \in Nat /\ u.expires \in Nat
         /\ u.gated \in BOOLEAN
         /\ u.kind \in {"bytes", "raw", "elided", "cut", "reset"}
         /\ Loaded(u) \in BOOLEAN /\ Terminal(u) \in BOOLEAN
  BY PipeAssumption DEF Slots, Loaded, Terminal

(* Rank counts the loaded slots one by one. *)
LEMMA RankStep ==
  ASSUME NEW q \in Seq(Slots)
  PROVE  /\ Rank(q, 0) = 0
         /\ \A i \in 0..Len(q) : Rank(q, i) \in Nat
         /\ \A i \in 1..Len(q) :
              Rank(q, i) = IF Loaded(q[i]) THEN Rank(q, i - 1) + 1 ELSE Rank(q, i - 1)
<1> DEFINE P(i) == {j \in 1..i : Loaded(q[j])}
<1>1. \A i \in 0..Len(q) : IsFiniteSet(P(i)) /\ Cardinality(P(i)) \in Nat
  <2> TAKE i \in 0..Len(q)
  <2>1. IsFiniteSet(1..i)
    BY FS_Interval
  <2>2. P(i) \in SUBSET (1..i)
    OBVIOUS
  <2>3. IsFiniteSet(P(i))
    BY <2>1, <2>2, FS_Subset
  <2> QED
    BY <2>3, FS_CardinalityType
<1>2. Cardinality(P(0)) = 0
  <2>1. P(0) = {}
    OBVIOUS
  <2> QED
    BY <2>1, FS_EmptySet
<1>3. ASSUME NEW i \in 1..Len(q)
      PROVE  Cardinality(P(i)) = IF Loaded(q[i]) THEN Cardinality(P(i - 1)) + 1
                                                 ELSE Cardinality(P(i - 1))
  <2>0. i - 1 \in 0..Len(q) /\ i \notin P(i - 1)
    OBVIOUS
  <2>1. CASE Loaded(q[i])
    <3>1. P(i) = P(i - 1) \union {i}
      BY <2>1
    <3> QED
      BY <3>1, <2>0, <2>1, <1>1, FS_AddElement
  <2>2. CASE ~Loaded(q[i])
    <3>1. P(i) = P(i - 1)
      BY <2>2
    <3> QED
      BY <3>1, <2>2
  <2> QED
    BY <2>1, <2>2
<1> QED
  BY <1>1, <1>2, <1>3 DEF Rank

(* Rank never falls, and grows at each loaded slot. *)
LEMMA RankMonotone ==
  ASSUME NEW q \in Seq(Slots), NEW i \in 0..Len(q), NEW j \in 0..Len(q), i <= j
  PROVE  /\ Rank(q, i) <= Rank(q, j)
         /\ i < j /\ Loaded(q[j]) => Rank(q, i) < Rank(q, j)
<1>1. ASSUME NEW m \in 0..Len(q), i <= m
      PROVE  Rank(q, i) <= Rank(q, m)
  <2> DEFINE P(n) == {k \in 1..n : Loaded(q[k])}
  <2>1. IsFiniteSet(1..m)
    BY FS_Interval
  <2>2. P(m) \in SUBSET (1..m) /\ P(i) \in SUBSET P(m)
    BY <1>1
  <2>3. IsFiniteSet(P(m))
    BY <2>1, <2>2, FS_Subset
  <2>4. Cardinality(P(i)) <= Cardinality(P(m))
    BY <2>2, <2>3, FS_Subset
  <2> QED
    BY <2>4 DEF Rank
<1>2. ASSUME i < j, Loaded(q[j])
      PROVE  Rank(q, i) < Rank(q, j)
  <2>1. j - 1 \in 0..Len(q) /\ i <= j - 1 /\ j \in 1..Len(q)
    BY <1>2
  <2>2. Rank(q, i) <= Rank(q, j - 1)
    BY <2>1, <1>1
  <2>3. Rank(q, j) = Rank(q, j - 1) + 1 /\ Rank(q, j - 1) \in Nat /\ Rank(q, i) \in Nat
    BY <2>1, <1>2, RankStep
  <2> QED
    BY <2>2, <2>3
<1> QED
  BY <1>1, <1>2

(* Every rank up to the n-th slot's belongs to a loaded slot among them. *)
LEMMA RankOnto ==
  ASSUME NEW q \in Seq(Slots), NEW n \in 0..Len(q), NEW k \in 1..Rank(q, n)
  PROVE  \E i \in 1..n : Loaded(q[i]) /\ Rank(q, i) = k
<1> DEFINE M == {m \in 0..n : k <= Rank(q, m)}
<1>0. Rank(q, n) \in Nat /\ k \in Nat /\ k >= 1
  BY RankStep
<1>1. n \in M /\ M \in SUBSET Nat
  BY <1>0
<1>2. PICK m \in M : \A x \in M : m <= x
  <2> HIDE DEF M
  <2> QED
    BY <1>1, LeastNumber
<1>3. m \in 0..n /\ k <= Rank(q, m)
  OBVIOUS
<1>4. m # 0
  BY <1>0, <1>3, RankStep
<1>5. m \in 1..Len(q) /\ m - 1 \in 0..n /\ m \in 1..n /\ m - 1 \in 0..Len(q)
  BY <1>3, <1>4
<1>6. ~(k <= Rank(q, m - 1))
  BY <1>2, <1>5
<1>7. Rank(q, m) = (IF Loaded(q[m]) THEN Rank(q, m - 1) + 1 ELSE Rank(q, m - 1))
      /\ Rank(q, m) \in Nat /\ Rank(q, m - 1) \in Nat
  BY <1>5, RankStep
<1>8. Loaded(q[m]) /\ Rank(q, m) = k
  BY <1>0, <1>3, <1>6, <1>7
<1> QED
  BY <1>5, <1>8

(* Written lists the loaded slots among the first n, each at its rank. *)
LEMMA WrittenIs ==
  ASSUME NEW q \in Seq(Slots), NEW n \in 0..Len(q)
  PROVE  /\ Written(q, n) \in Seq(1..Units + 1)
         /\ DOMAIN Written(q, n) = 1..Rank(q, n) /\ Len(Written(q, n)) = Rank(q, n)
         /\ \A k \in 1..Rank(q, n) : \E i \in 1..n :
               Loaded(q[i]) /\ Rank(q, i) = k /\ Written(q, n)[k] = q[i].id
         /\ \A i \in 1..n : Loaded(q[i]) =>
               Rank(q, i) \in 1..Rank(q, n) /\ Written(q, n)[Rank(q, i)] = q[i].id
<1> DEFINE c(k) == CHOOSE i \in 1..n : Loaded(q[i]) /\ Rank(q, i) = k
           w == Written(q, n)
<1>0. Rank(q, n) \in Nat /\ 1..n \subseteq 1..Len(q) /\ 1..n \subseteq 0..Len(q)
  BY RankStep
<1>1. w = [k \in 1..Rank(q, n) |-> q[c(k)].id]
  BY DEF Written
<1>2. \A k \in 1..Rank(q, n) : c(k) \in 1..n /\ Loaded(q[c(k)]) /\ Rank(q, c(k)) = k
  <2> TAKE k \in 1..Rank(q, n)
  <2>1. \E i \in 1..n : Loaded(q[i]) /\ Rank(q, i) = k
    BY RankOnto
  <2> QED
    BY <2>1
<1> HIDE DEF c, w
<1>3. \A k \in 1..Rank(q, n) : q[c(k)] \in Slots
  BY <1>0, <1>2
<1>4. \A k \in 1..Rank(q, n) : w[k] \in 1..Units + 1
  BY <1>1, <1>3, SlotFields
<1>5. w \in [1..Rank(q, n) -> 1..Units + 1]
  BY <1>1, <1>4
<1>6. w \in Seq(1..Units + 1) /\ Len(w) = Rank(q, n)
  BY <1>5, <1>0, FunctionIsSeq
<1>7. \A k \in 1..Rank(q, n) : \E i \in 1..n :
         Loaded(q[i]) /\ Rank(q, i) = k /\ w[k] = q[i].id
  BY <1>1, <1>2
<1>8. ASSUME NEW i \in 1..n, Loaded(q[i])
      PROVE  Rank(q, i) \in 1..Rank(q, n) /\ w[Rank(q, i)] = q[i].id
  <2>1. i \in 1..Len(q) /\ i \in 0..Len(q) /\ i - 1 \in 0..Len(q) /\ i <= n
    BY <1>0
  <2>2. Rank(q, i) <= Rank(q, n)
    BY <2>1, RankMonotone
  <2>3. Rank(q, i) = Rank(q, i - 1) + 1 /\ Rank(q, i - 1) \in Nat /\ Rank(q, i) \in Nat
    BY <2>1, <1>8, RankStep
  <2>4. Rank(q, i) \in 1..Rank(q, n)
    BY <2>2, <2>3, <1>0
  <2>5. PICK x \in 1..n : Loaded(q[x]) /\ Rank(q, x) = Rank(q, i) /\ w[Rank(q, i)] = q[x].id
    BY <2>4, <1>7
  <2>6. x \in 0..Len(q)
    BY <1>0
  <2>7. ~(x < i) /\ ~(i < x)
    BY <2>1, <2>5, <2>6, <1>8, <2>3, RankMonotone
  <2>8. x = i
    BY <2>7
  <2> QED
    BY <2>4, <2>5, <2>8
<1> QED
  BY <1>1, <1>5, <1>6, <1>7, <1>8 DEF w

-----------------------------------------------------------------------------
(* What is counted as queued.                                              *)

(* An empty queue holds no bytes and no unit.                              *)
LEMMA EmptyQueue == Bytes(<<>>) = 0 /\ IdsOf(<<>>) = {}
<1>1. {j \in DOMAIN <<>> : Loaded(<<>>[j])} = {}
  OBVIOUS
<1> QED
  BY <1>1, FS_EmptySet DEF Bytes, IdsOf

(* The units whose bytes a queue holds, after a push, a pop and a cut. *)
LEMMA IdsOfQueue ==
  ASSUME NEW q \in Seq(Slots)
  PROVE  /\ IdsOf(q) \subseteq 1..Units + 1
         /\ \A i \in DOMAIN q : Loaded(q[i]) => q[i].id \in IdsOf(q)
         /\ \A x \in IdsOf(q) : \E i \in DOMAIN q : Loaded(q[i]) /\ q[i].id = x
<1>1. \A i \in DOMAIN q : q[i] \in Slots
  OBVIOUS
<1> QED
  BY <1>1, SlotFields DEF IdsOf

(* A push adds the unit, if it carries bytes.                              *)
LEMMA IdsOfAppend ==
  ASSUME NEW q \in Seq(Slots), NEW u \in Slots
  PROVE  /\ IdsOf(q) \subseteq IdsOf(Append(q, u))
         /\ Loaded(u) => u.id \in IdsOf(Append(q, u))
<1>1. Append(q, u) \in Seq(Slots) /\ Len(Append(q, u)) = Len(q) + 1
      /\ Append(q, u)[Len(q) + 1] = u
      /\ \A i \in 1..Len(q) : Append(q, u)[i] = q[i]
  OBVIOUS
<1>2. ASSUME NEW x \in IdsOf(q)
      PROVE  x \in IdsOf(Append(q, u))
  <2>1. PICK i \in DOMAIN q : Loaded(q[i]) /\ q[i].id = x
    BY IdsOfQueue
  <2>2. i \in DOMAIN Append(q, u) /\ Append(q, u)[i] = q[i]
    BY <1>1
  <2> QED
    BY <2>1, <2>2, <1>1, IdsOfQueue
<1>3. ASSUME Loaded(u)
      PROVE  u.id \in IdsOf(Append(q, u))
  <2>1. Len(q) + 1 \in DOMAIN Append(q, u)
    BY <1>1
  <2> QED
    BY <2>1, <1>1, <1>3, IdsOfQueue
<1> QED
  BY <1>2, <1>3

(* A pop takes out the head, and only that.                                *)
LEMMA IdsOfTail ==
  ASSUME NEW q \in Seq(Slots), q # <<>>
  PROVE  \A x \in IdsOf(q) : x \in IdsOf(Tail(q)) \/ (Loaded(Head(q)) /\ x = Head(q).id)
<1> TAKE x \in IdsOf(q)
<1>1. PICK i \in DOMAIN q : Loaded(q[i]) /\ q[i].id = x
  BY IdsOfQueue
<1>2. CASE i = 1
  <2>1. Head(q) = q[1]
    OBVIOUS
  <2> QED
    BY <1>1, <1>2, <2>1
<1>3. CASE i # 1
  <2>1. Tail(q) \in Seq(Slots) /\ i - 1 \in DOMAIN Tail(q) /\ Tail(q)[i - 1] = q[i]
    BY <1>3
  <2>2. Tail(q)[i - 1].id \in IdsOf(Tail(q))
    BY <1>1, <2>1, IdsOfQueue
  <2> QED
    BY <1>1, <2>1, <2>2
<1> QED
  BY <1>2, <1>3

(* What a popped queue holds, it held before.                              *)
LEMMA IdsInTail ==
  ASSUME NEW q \in Seq(Slots), q # <<>>
  PROVE  IdsOf(Tail(q)) \subseteq IdsOf(q)
<1>1. Tail(q) \in Seq(Slots) /\ DOMAIN Tail(q) = 1..Len(q) - 1
      /\ \A i \in 1..Len(q) - 1 : i + 1 \in DOMAIN q /\ Tail(q)[i] = q[i + 1]
  BY TailIs
<1> SUFFICES ASSUME NEW x \in IdsOf(Tail(q)) PROVE x \in IdsOf(q)
  OBVIOUS
<1>2. PICK i \in DOMAIN Tail(q) : Loaded(Tail(q)[i]) /\ Tail(q)[i].id = x
  BY <1>1, IdsOfQueue
<1> QED
  BY <1>1, <1>2, IdsOfQueue

(* A cut leaves units that were there.                                     *)
LEMMA IdsOfSubSeq ==
  ASSUME NEW q \in Seq(Slots), NEW n \in 0..Len(q)
  PROVE  IdsOf(SubSeq(q, 1, n)) \subseteq IdsOf(q)
<1>1. SubSeq(q, 1, n) \in Seq(Slots) /\ Len(SubSeq(q, 1, n)) = n
      /\ \A i \in 1..n : SubSeq(q, 1, n)[i] = q[i]
  OBVIOUS
<1>2. ASSUME NEW x \in IdsOf(SubSeq(q, 1, n))
      PROVE  x \in IdsOf(q)
  <2>1. PICK i \in DOMAIN SubSeq(q, 1, n) :
             Loaded(SubSeq(q, 1, n)[i]) /\ SubSeq(q, 1, n)[i].id = x
    BY <1>1, IdsOfQueue
  <2>2. i \in DOMAIN q /\ SubSeq(q, 1, n)[i] = q[i]
    BY <1>1
  <2> QED
    BY <2>1, <2>2, IdsOfQueue
<1> QED
  BY <1>2

(* Bytes is the rank of the last slot; a push adds one at most, and only   *)
(* for a loaded slot, and a pop adds nothing.                              *)
LEMMA BytesOfQueue ==
  ASSUME NEW q \in Seq(Slots)
  PROVE  Bytes(q) \in Nat
<1>1. {j \in DOMAIN q : Loaded(q[j])} = {j \in 1..Len(q) : Loaded(q[j])}
  OBVIOUS
<1>2. Bytes(q) = Rank(q, Len(q))
  BY <1>1 DEF Bytes, Rank
<1> QED
  BY <1>2, RankStep

(* A push adds the bytes of its slot and no more.                          *)
LEMMA BytesOfAppend ==
  ASSUME NEW q \in Seq(Slots), NEW u \in Slots
  PROVE  Bytes(Append(q, u)) = IF Loaded(u) THEN Bytes(q) + 1 ELSE Bytes(q)
<1> DEFINE a == Append(q, u)
<1>1. a \in Seq(Slots) /\ Len(a) = Len(q) + 1 /\ a[Len(q) + 1] = u
      /\ \A i \in 1..Len(q) : a[i] = q[i]
  OBVIOUS
<1> HIDE DEF a
<1>2. {j \in DOMAIN q : Loaded(q[j])} = {j \in 1..Len(q) : Loaded(a[j])}
  BY <1>1
<1>3. {j \in DOMAIN a : Loaded(a[j])} = {j \in 1..Len(a) : Loaded(a[j])}
  BY <1>1
<1>4. Bytes(q) = Rank(a, Len(q)) /\ Bytes(a) = Rank(a, Len(q) + 1)
  BY <1>1, <1>2, <1>3 DEF Bytes, Rank
<1>5. Len(q) + 1 \in 1..Len(a) /\ (Len(q) + 1) - 1 = Len(q)
  BY <1>1
<1>6. Rank(a, Len(q) + 1) = IF Loaded(a[Len(q) + 1]) THEN Rank(a, (Len(q) + 1) - 1) + 1
                                                   ELSE Rank(a, (Len(q) + 1) - 1)
  BY <1>1, <1>5, RankStep
<1> QED
  BY <1>1, <1>4, <1>5, <1>6 DEF a

(* A pop never adds bytes.                                                 *)
LEMMA BytesOfTail ==
  ASSUME NEW q \in Seq(Slots), q # <<>>
  PROVE  Bytes(Tail(q)) <= Bytes(q)
<1> DEFINE S == {j \in DOMAIN Tail(q) : Loaded(Tail(q)[j])}
           T == {j \in DOMAIN q : Loaded(q[j])}
           f == [j \in S |-> j + 1]
<1>1. Tail(q) \in Seq(Slots) /\ Len(Tail(q)) = Len(q) - 1
      /\ \A i \in 1..Len(q) - 1 : Tail(q)[i] = q[i + 1]
  OBVIOUS
<1>2. \A j \in S : j + 1 \in T
  BY <1>1
<1>3. \A i, j \in S : i + 1 = j + 1 => i = j
  BY <1>1
<1>4. IsFiniteSet(T)
  <2>1. IsFiniteSet(1..Len(q)) /\ T \in SUBSET (1..Len(q))
    BY FS_Interval
  <2> QED
    BY <2>1, FS_Subset
<1> HIDE DEF S, T
<1>5. f \in Injection(S, T)
  BY <1>2, <1>3 DEF Injection, IsInjective
<1>6. Cardinality(S) <= Cardinality(T)
  BY <1>4, <1>5, FS_Injection
<1> QED
  BY <1>6 DEF S, T, Bytes

(* A queue whose only terminal is its last slot is flushed to its end. *)
LEMMA FlushIsWhole ==
  ASSUME NEW q \in Seq(Slots), LastOnly(q)
  PROVE  FlushEnd(q) = Len(q)
<1> DEFINE t == {i \in DOMAIN q : Terminal(q[i])}
<1>1. CASE t = {}
  BY <1>1 DEF FlushEnd
<1>2. CASE t # {}
  <2>1. t = {Len(q)}
    BY <1>2 DEF LastOnly
  <2>2. FlushEnd(q) = CHOOSE i \in t : \A j \in t : i <= j
    BY <1>2 DEF FlushEnd
  <2> HIDE DEF t
  <2>3. Len(q) \in t /\ \A j \in t : Len(q) <= j
    BY <2>1
  <2> QED
    BY <2>1, <2>2, <2>3
<1> QED
  BY <1>1, <1>2

(* So is every flush length a place in the queue, and a flush that did not *)
(* break off and was not spared has reached the end.                       *)
LEMMA FlushLengthsIn ==
  ASSUME NEW q \in Seq(Slots), LastOnly(q), NEW n \in FlushLengths(q)
  PROVE  /\ n \in 0..Len(q)
         /\ ~discarding /\ ~Broken(q, n) => n = Len(q)
         /\ discarding => n = 0
<1>1. FlushEnd(q) = Len(q)
  BY FlushIsWhole
<1>2. n \in 0..Len(q) /\ (discarding => n = 0)
  BY <1>1 DEF FlushLengths
<1> QED
  BY <1>1, <1>2 DEF Broken

-----------------------------------------------------------------------------
(* The wire.                                                               *)

(* A write behind everything that was written keeps the order, and the     *)
(* writes before it are as gapless as they were.                           *)
LEMMA WriteBehind ==
  ASSUME NEW w \in Seq(Nat), NEW d, NEW x \in Nat,
         Increasing(w), Gapless(w, d), \A k \in DOMAIN w : w[k] < x
  PROVE  /\ Append(w, x) \in Seq(Nat) /\ Increasing(Append(w, x))
         /\ On(Append(w, x), x) /\ \A i : On(w, i) => On(Append(w, x), i)
         /\ \A j \in DOMAIN Append(w, x) : Append(w, x)[j] # x =>
              \A i \in 1..Append(w, x)[j] : i \in d \/ \E k \in 1..j : Append(w, x)[k] = i
<1> DEFINE a == Append(w, x)
<1>1. a \in Seq(Nat) /\ Len(a) = Len(w) + 1 /\ a[Len(w) + 1] = x /\ DOMAIN w = 1..Len(w)
      /\ DOMAIN a = 1..Len(w) + 1 /\ (\A k \in DOMAIN w : k \in DOMAIN a /\ a[k] = w[k])
  OBVIOUS
<1> HIDE DEF a
<1>2. Increasing(a)
  <2> SUFFICES ASSUME NEW j \in DOMAIN a, NEW k \in DOMAIN a, j < k
               PROVE  a[j] < a[k]
    BY DEF Increasing
  <2>1. j \in DOMAIN w /\ a[j] = w[j]
    BY <1>1
  <2>2. CASE k \in DOMAIN w
    BY <1>1, <2>1, <2>2 DEF Increasing
  <2>3. CASE k = Len(w) + 1
    BY <1>1, <2>1, <2>3
  <2> QED
    BY <1>1, <2>2, <2>3
<1>3. On(a, x) /\ \A i : On(w, i) => On(a, i)
  BY <1>1 DEF On
<1>4. ASSUME NEW j \in DOMAIN a, a[j] # x, NEW i \in 1..a[j]
      PROVE  i \in d \/ \E k \in 1..j : a[k] = i
  <2>0. j \in DOMAIN w
    BY <1>1, <1>4
  <2>1. a[j] = w[j] /\ i \in 1..w[j] /\ 1..j \subseteq DOMAIN w
    BY <1>1, <1>4, <2>0
  <2>2. i \in d \/ \E k \in 1..j : w[k] = i
    BY <2>0, <2>1 DEF Gapless
  <2> QED
    BY <1>1, <2>1, <2>2
<1> QED
  BY <1>1, <1>2, <1>3, <1>4 DEF a

(* One more unit is written in order when everything before it is on the   *)
(* wire or elided.                                                         *)
LEMMA WriteNext ==
  ASSUME NEW w \in Seq(Nat), NEW d, NEW x \in Nat,
         Increasing(w), Gapless(w, d), \A k \in DOMAIN w : w[k] < x,
         \A i \in 1..x - 1 : i \in d \/ On(w, i)
  PROVE  /\ Append(w, x) \in Seq(Nat)
         /\ Increasing(Append(w, x)) /\ Gapless(Append(w, x), d)
         /\ On(Append(w, x), x) /\ \A i : On(w, i) => On(Append(w, x), i)
<1> DEFINE a == Append(w, x)
<1>1. /\ a \in Seq(Nat) /\ Increasing(a) /\ On(a, x) /\ \A i : On(w, i) => On(a, i)
      /\ \A j \in DOMAIN a : a[j] # x =>
           \A i \in 1..a[j] : i \in d \/ \E k \in 1..j : a[k] = i
  BY WriteBehind
<1>2. a[Len(w) + 1] = x /\ DOMAIN w = 1..Len(w)
      /\ DOMAIN a = 1..Len(w) + 1 /\ (\A k \in DOMAIN w : k \in DOMAIN a /\ a[k] = w[k])
  OBVIOUS
<1> HIDE DEF a
<1>3. ASSUME NEW j \in DOMAIN a, a[j] = x, NEW i \in 1..a[j]
      PROVE  i \in d \/ \E k \in 1..j : a[k] = i
  <2>1. CASE i = x
    BY <1>2, <1>3, <2>1
  <2>2. CASE i # x
    <3>1. i \in 1..x - 1
      BY <1>3, <2>2
    <3>2. i \in d \/ \E k \in DOMAIN w : w[k] = i
      BY <3>1 DEF On
    <3>3. j \notin DOMAIN w
      BY <1>2, <1>3
    <3>4. DOMAIN w \subseteq 1..j
      BY <1>2, <3>3
    <3> QED
      BY <1>2, <3>2, <3>4
  <2> QED
    BY <2>1, <2>2
<1> QED
  BY <1>1, <1>3 DEF Gapless, a

(* In such a wire every unit up to the j-th written one is elided or has   *)
(* been written exactly once.                                              *)
LEMMA WrittenOnce ==
  ASSUME NEW w \in Seq(Nat), NEW d, Increasing(w), NEW j \in DOMAIN w,
         \A i \in 1..w[j] : i \in d \/ \E k \in 1..j : w[k] = i
  PROVE  \A i \in 1..w[j] : Cardinality({k \in 1..j : w[k] = i}) = 1 \/ (i # w[j] /\ i \in d)
<1> TAKE i \in 1..w[j]
<1>0. j \in Nat /\ j >= 1 /\ 1..j \subseteq DOMAIN w /\ \A k \in DOMAIN w : w[k] \in Nat
  OBVIOUS
<1>1. ASSUME NEW m \in 1..j, w[m] = i
      PROVE  Cardinality({k \in 1..j : w[k] = i}) = 1
  <2>1. ASSUME NEW k \in 1..j, w[k] = i
        PROVE  k = m
    <3>1. k \in DOMAIN w /\ m \in DOMAIN w /\ w[k] \in Nat /\ w[m] \in Nat
      BY <1>0
    <3>2. ~(k < m) /\ ~(m < k)
      BY <3>1, <2>1, <1>1 DEF Increasing
    <3> QED
      BY <3>2
  <2>2. {k \in 1..j : w[k] = i} = {m}
    BY <1>1, <2>1
  <2> QED
    BY <2>2, FS_Singleton
<1>2. CASE i = w[j]
  BY <1>0, <1>1, <1>2
<1>3. CASE i # w[j]
  BY <1>1, <1>3
<1> QED
  BY <1>2, <1>3

(* A flush of the first n slots goes on where the wire ended, and leaves   *)
(* no gap; a whole one puts every unit there that it is loaded with.       *)
LEMMA FlushInOrder ==
  ASSUME NEW q \in Seq(Slots), NEW w \in Seq(Nat), NEW d, NEW N \in Nat, NEW n \in 0..Len(q),
         Sorted(q), Increasing(w), Behind(w, q), Gapless(w, d), Covered(q, w, d, N),
         \A i \in DOMAIN q : Loaded(q[i]) => q[i].id <= N + 1
  PROVE  /\ w \o Written(q, n) \in Seq(Nat)
         /\ Increasing(w \o Written(q, n)) /\ Gapless(w \o Written(q, n), d)
         /\ \A i : On(w, i) => On(w \o Written(q, n), i)
         /\ n = Len(q) => Covered(<<>>, w \o Written(q, n), d, N)
         /\ \A k \in DOMAIN (w \o Written(q, n)) :
               \/ k \in DOMAIN w /\ (w \o Written(q, n))[k] = w[k]
               \/ \E i \in DOMAIN q : Loaded(q[i]) /\ (w \o Written(q, n))[k] = q[i].id
<1> DEFINE v == Written(q, n)
           a == w \o v
           L == Len(w)
<1>1. v \in Seq(1..Units + 1) /\ DOMAIN v = 1..Rank(q, n) /\ Len(v) = Rank(q, n)
  BY WrittenIs
<1>2. \A k \in 1..Rank(q, n) : \E i \in 1..n : Loaded(q[i]) /\ Rank(q, i) = k /\ v[k] = q[i].id
  BY WrittenIs
<1>3. \A i \in 1..n : Loaded(q[i]) => Rank(q, i) \in 1..Rank(q, n) /\ v[Rank(q, i)] = q[i].id
  BY WrittenIs
<1>4. L \in Nat /\ DOMAIN w = 1..L /\ DOMAIN q = 1..Len(q) /\ Len(q) \in Nat /\ n \in Nat
      /\ 1..n \subseteq DOMAIN q /\ \A i \in DOMAIN q : q[i] \in Slots /\ q[i].id \in Nat
  <2>1. \A i \in DOMAIN q : q[i] \in Slots
    OBVIOUS
  <2> QED
    BY <2>1, SlotFields
<1>5. Rank(q, n) \in Nat
  BY RankStep
<1>6. v \in Seq(Nat)
  <2> HIDE DEF v
  <2> QED
    BY <1>1, PipeAssumption
<1> HIDE DEF v
<1>7. /\ a \in Seq(Nat) /\ Len(a) = L + Rank(q, n) /\ DOMAIN a = 1..L + Rank(q, n)
      /\ \A k \in 1..L : a[k] = w[k]
      /\ \A k \in 1..Rank(q, n) : a[L + k] = v[k]
  <2>1. /\ a \in Seq(Nat) /\ Len(a) = L + Len(v) /\ DOMAIN a = 1..L + Len(v)
        /\ \A k \in 1..L : a[k] = w[k]
        /\ \A k \in 1..Len(v) : a[L + k] = v[k]
    BY <1>6, ConcatIs, Zenon
  <2> HIDE DEF a, L
  <2> QED
    BY <1>1, <2>1
<1> HIDE DEF a, L
<1>8. \A k \in DOMAIN a : \/ k \in 1..L /\ a[k] = w[k]
                          \/ \E i \in 1..n : Loaded(q[i]) /\ k = L + Rank(q, i) /\ a[k] = q[i].id
  <2> TAKE k \in DOMAIN a
  <2>1. CASE k \in 1..L
    BY <2>1, <1>7
  <2>2. CASE k \notin 1..L
    <3>1. k - L \in 1..Rank(q, n) /\ k = L + (k - L)
      BY <2>2, <1>7, <1>4, <1>5
    <3>2. PICK i \in 1..n : Loaded(q[i]) /\ Rank(q, i) = k - L /\ v[k - L] = q[i].id
      BY <3>1, <1>2
    <3>3. a[k] = v[k - L]
      BY <3>1, <1>7
    <3> QED
      BY <3>1, <3>2, <3>3
  <2> QED
    BY <2>1, <2>2
<1>9. \A i \in 1..n : Loaded(q[i]) =>
         L + Rank(q, i) \in DOMAIN a /\ a[L + Rank(q, i)] = q[i].id /\ Rank(q, i) \in Nat
  <2> SUFFICES ASSUME NEW i \in 1..n, Loaded(q[i])
               PROVE  L + Rank(q, i) \in DOMAIN a /\ a[L + Rank(q, i)] = q[i].id
                      /\ Rank(q, i) \in Nat
    OBVIOUS
  <2>1. Rank(q, i) \in 1..Rank(q, n) /\ v[Rank(q, i)] = q[i].id
    BY <1>3
  <2> QED
    BY <2>1, <1>4, <1>5, <1>7, SMTT(30)
<1>10. ASSUME NEW i \in 1..n, NEW j \in 1..n, Loaded(q[i]), Loaded(q[j]), Rank(q, i) < Rank(q, j)
       PROVE  q[i].id < q[j].id
  <2>1. i \in 0..Len(q) /\ j \in 0..Len(q) /\ i \in DOMAIN q /\ j \in DOMAIN q
    BY <1>4
  <2>2. Rank(q, i) \in Nat /\ Rank(q, j) \in Nat
    BY <2>1, RankStep
  <2>3. j <= i => Rank(q, j) <= Rank(q, i)
    BY <2>1, RankMonotone
  <2>4. i < j
    BY <1>10, <2>1, <2>2, <2>3, <1>4
  <2> QED
    BY <2>1, <2>4 DEF Sorted
<1>11. Increasing(a)
  <2> SUFFICES ASSUME NEW j \in DOMAIN a, NEW k \in DOMAIN a, j < k
               PROVE  a[j] < a[k]
    BY DEF Increasing
  <2>1. CASE k \in 1..L
    BY <2>1, <1>4, <1>7 DEF Increasing
  <2>2. CASE k \notin 1..L /\ j \in 1..L
    <3>1. PICK i \in 1..n : Loaded(q[i]) /\ k = L + Rank(q, i) /\ a[k] = q[i].id
      BY <2>2, <1>8
    <3> QED
      BY <2>2, <3>1, <1>4, <1>7 DEF Behind
  <2>3. CASE k \notin 1..L /\ j \notin 1..L
    <3>1. PICK i \in 1..n : Loaded(q[i]) /\ j = L + Rank(q, i) /\ a[j] = q[i].id
      BY <2>3, <1>8
    <3>2. PICK x \in 1..n : Loaded(q[x]) /\ k = L + Rank(q, x) /\ a[k] = q[x].id
      BY <2>3, <1>8
    <3>3. Rank(q, i) < Rank(q, x)
      BY <3>1, <3>2, <1>9, <1>4
    <3> QED
      BY <3>1, <3>2, <3>3, <1>10
  <2> QED
    BY <2>1, <2>2, <2>3
<1>12. \A i : On(w, i) => On(a, i)
  BY <1>4, <1>5, <1>7 DEF On
<1>13. Gapless(a, d)
  <2> SUFFICES ASSUME NEW j \in DOMAIN a, NEW x \in 1..a[j]
               PROVE  x \in d \/ \E k \in 1..j : a[k] = x
    BY DEF Gapless
  <2>1. CASE j \in 1..L
    <3>1. x \in 1..w[j] /\ j \in DOMAIN w /\ 1..j \subseteq 1..L
      BY <2>1, <1>4, <1>7
    <3>2. x \in d \/ \E k \in 1..j : w[k] = x
      BY <3>1 DEF Gapless
    <3> QED
      BY <3>1, <3>2, <1>7
  <2>2. CASE j \notin 1..L
    <3>1. PICK i \in 1..n : Loaded(q[i]) /\ j = L + Rank(q, i) /\ a[j] = q[i].id
      BY <2>2, <1>8
    <3>2. x \in Nat /\ x >= 1 /\ x <= q[i].id /\ q[i].id <= N + 1 /\ q[i].id \in Nat
      BY <3>1, <1>4
    <3>3. CASE x = q[i].id
      <4>1. j \in 1..j
        BY <1>7, <1>4, <1>5
      <4> QED
        BY <3>1, <3>3, <4>1
    <3>4. CASE x # q[i].id
      <4>1. x \in 1..N /\ x < q[i].id
        BY <3>2, <3>4
      <4>2. x \in d \/ On(w, x) \/ x \in IdsOf(q)
        BY <4>1 DEF Covered
      <4>3. CASE On(w, x)
        <5>1. PICK k \in DOMAIN w : w[k] = x
          BY <4>3 DEF On
        <5>2. k \in 1..j /\ a[k] = x
          BY <5>1, <2>2, <1>4, <1>5, <1>7
        <5> QED
          BY <5>2
      <4>4. CASE x \in IdsOf(q)
        <5>1. PICK k \in DOMAIN q : Loaded(q[k]) /\ q[k].id = x
          BY <4>4, IdsOfQueue
        <5>2. i \in DOMAIN q /\ ~(i < k) /\ k # i
          <6>1. i \in DOMAIN q /\ q[i].id \in Nat /\ q[k].id \in Nat /\ q[k].id < q[i].id
            BY <5>1, <4>1, <1>4
          <6>2. i < k => q[i].id < q[k].id
            BY <6>1 DEF Sorted
          <6> QED
            BY <6>1, <6>2
        <5>3. k < i /\ k \in 1..n
          BY <5>2, <1>4
        <5>4. Rank(q, k) < Rank(q, i) /\ Rank(q, k) \in Nat /\ Rank(q, i) \in Nat
          <6>1. k \in 0..Len(q) /\ i \in 0..Len(q) /\ k <= i
            BY <5>3, <1>4
          <6> QED
            BY <6>1, <5>3, <3>1, RankMonotone, RankStep
        <5>5. L + Rank(q, k) \in DOMAIN a /\ a[L + Rank(q, k)] = x
          BY <5>1, <5>3, <1>9
        <5>6. L + Rank(q, k) \in 1..j
          BY <5>4, <5>5, <3>1, <1>4, <1>5, <1>7, SMTT(30)
        <5> QED
          BY <5>5, <5>6
      <4> QED
        BY <4>2, <4>3, <4>4
    <3> QED
      BY <3>3, <3>4
  <2> QED
    BY <2>1, <2>2
<1>14. ASSUME n = Len(q)
       PROVE  Covered(<<>>, a, d, N)
  <2> SUFFICES ASSUME NEW x \in 1..N
               PROVE  x \in d \/ On(a, x)
    BY DEF Covered
  <2>1. x \in d \/ On(w, x) \/ x \in IdsOf(q)
    BY DEF Covered
  <2>2. ASSUME x \in IdsOf(q)
        PROVE  On(a, x)
    <3>1. PICK k \in DOMAIN q : Loaded(q[k]) /\ q[k].id = x
      BY <2>2, IdsOfQueue
    <3>2. k \in 1..n
      BY <1>4, <1>14
    <3> QED
      BY <3>1, <3>2, <1>9 DEF On
  <2> QED
    BY <2>1, <2>2, <1>12
<1>15. \A k \in DOMAIN a : \/ k \in DOMAIN w /\ a[k] = w[k]
                           \/ \E i \in DOMAIN q : Loaded(q[i]) /\ a[k] = q[i].id
  BY <1>8, <1>4
<1> QED
  BY <1>7, <1>11, <1>12, <1>13, <1>14, <1>15 DEF a, v

-----------------------------------------------------------------------------
(* The invariant, one part at a time.                                      *)

Draining == pc \in {"drain", "drainBatch"}
InHand   == Draining /\ after \in {"unit", "terminal"}

(* The last unit that the queue, the wire or an elision answers for.       *)
Top == IF InHand THEN seen - 1 ELSE seen

Types == TypeOK /\ queue \in Seq(Slots)

(* What the loop may rely on where it stands: a branch of select! starts   *)
(* with the framer empty, a drain knows what it runs for, and until the    *)
(* loop returns nothing is reported and neither end has heard anything.    *)
Places ==
  /\ pc \in {"select", "release"} => seen = fed
  /\ pc \in {"select", "frame", "release"} => after = "none"
  /\ Draining => after # "none"
  /\ InHand => seen > 0
  /\ pc = "finish" => after = "fin" /\ queue = <<>>
  /\ pc # "over" /\ after \in {"fin", "finTerminal"} =>
       seen = fed /\ fed = sent /\ srcEnd = "fin"
  /\ pc # "over" => exit = "none" /\ dest = "open" /\ late = {} /\ reported = {}
  /\ pc = "over" => queue = <<>>

(* A terminal is the last slot, and there is one while the loop drains up  *)
(* to it.                                                                  *)
Terminals ==
  /\ LastOnly(queue)
  /\ \A i \in DOMAIN queue :
       Terminal(queue[i]) => Draining /\ after \in {"terminal", "finTerminal"}
  /\ Draining /\ after \in {"terminal", "finTerminal"} =>
       queue # <<>> /\ Terminal(queue[Len(queue)])

(* The armed deadline is the head's own unless the shaper holds the head,  *)
(* and a head it holds was due.                                            *)
Heads ==
  /\ now <= clock
  /\ queue = <<>> <=> deadline = Never
  /\ queue # <<>> /\ ~parked => deadline = queue[1].due
  /\ parked => queue # <<>> /\ (queue[1].due <= now \/ (queue[1].gated /\ holdGate))

(* Slots and wire follow the source, every unit polled is written, elided, *)
(* queued or in hand, and nothing overtakes.                               *)
Order ==
  /\ Sorted(queue)
  /\ pc # "over" =>
       /\ Increasing(wire) /\ Gapless(wire, dropped)
       /\ Behind(wire, queue) /\ Covered(queue, wire, dropped, Top)
       /\ \A k \in DOMAIN wire : wire[k] <= Top \/ after = "finTerminal"
       /\ \A i \in DOMAIN queue : /\ Loaded(queue[i]) => queue[i].id <= Top + 1
                                  /\ queue[i].id <= seen \/ after = "finTerminal"
                                  /\ after = "unit" => queue[i].id <= Top
                                  /\ after = "finTerminal" => ~Loaded(queue[i])

(* The budget counts what was fed and not yet polled.                      *)
Room == Bytes(queue) + (fed - seen) <= MaxBytes - 1 + MaxChunk

Inv == Types /\ Places /\ Terminals /\ Heads /\ Order /\ Room /\ LedgerMatches

-----------------------------------------------------------------------------
(* The five things that can become of a unit that was polled.              *)

PollsOne ==
  /\ pc = "frame" /\ seen < fed /\ seen' = seen + 1
  /\ cancelled' \in {cancelled, TRUE} /\ closing' \in {closing, TRUE}
  /\ UNCHANGED <<fed, partial, observable, clock, sent, srcEnd, holdGate, discarding,
                 lost, stopped>>

QueuesIt ==
  \E kind \in {"bytes", "raw", "elided", "cut", "reset"}, due \in Nat, gated, owed \in BOOLEAN :
    /\ Push(Unit(Id, kind, due, gated), owed)
    /\ dropped' = IF kind = "elided" THEN dropped \union {Id} ELSE dropped
    /\ IF kind \in {"cut", "reset"} THEN pc' = "drain" /\ after' = "terminal"
                                    ELSE UNCHANGED <<pc, after>>
    /\ UNCHANGED <<now, exit, wire, dest, srcStop, reported, late>>

ElidesIt ==
  /\ dropped' = dropped \union {Id}
  /\ UNCHANGED <<queued, task, wire, dest, srcStop, reported, late>>

WritesIt ==
  /\ queue = <<>> /\ wire' = Append(wire, Id)
  /\ UNCHANGED <<queued, task, dest, srcStop, dropped, reported, late>>

TakesItInHand ==
  /\ pc' = "drain" /\ after' = "unit"
  /\ UNCHANGED <<now, exit, queued, ends>>

EndsAtIt ==
  /\ pc' = "over" /\ Clear /\ UNCHANGED <<after, now, wire, dropped, late, reported>>
  /\ \/ dest' = "reset" /\ exit' \in {"rejected", "fixupLost", "overflow"}
     \/ dest' \in {dest, "fin"} /\ exit' = "hookClose"
     \/ dest' \in {dest, "fin"} /\ exit' = "lost"
     \/ dest' \in {dest, "fin"} /\ exit' = "stopped" /\ stopped /\ queue = <<>>

(* A write in the read arm. *)
LEMMA InlineShape ==
  ASSUME Types, queue = <<>>, WriteInline
  PROVE  WritesIt \/ EndsAtIt
<1>1. CASE ~WriteFails /\ Write(Id)
           /\ UNCHANGED <<queued, task, dest, srcStop, dropped, reported, late>>
  BY <1>1 DEF Write, WritesIt
<1>2. CASE WriteFails /\ PropagateStop(WriteError, queue)
  <2>1. IdsOf(<<>>) = {}
    BY EmptyQueue
  <2>2. reported' = reported
    BY <1>2, <2>1 DEF PropagateStop, Stranded
  <2> QED
    BY <1>2, <2>2 DEF PropagateStop, WriteError, WriteFails, Return, EndsAtIt, Types, TypeOK
<1> QED
  BY <1>1, <1>2 DEF WriteInline

(* Whatever the hook, the framer or the profile decides is one of them.    *)
LEMMA HandleShape ==
  ASSUME Inv, HandleUnit
  PROVE  PollsOne /\ (QueuesIt \/ ElidesIt \/ WritesIt \/ TakesItInHand \/ EndsAtIt)
<1> USE DEF env, framer, queued, ends, task
<1>0. clock \in Nat /\ clock + MaxHold \in Nat /\ Delays \subseteq Nat /\ MaxHold \in Nat
  BY PipeAssumption DEF Inv, Types, TypeOK
<1>p. ASSUME NEW kind \in {"bytes", "raw", "elided"}, NEW due \in Nat,
             NEW gated \in BOOLEAN, NEW owed \in BOOLEAN,
             Push(Unit(Id, kind, due, gated), owed),
             dropped' = IF kind = "elided" THEN dropped \union {Id} ELSE dropped,
             UNCHANGED <<task, wire, dest, srcStop, reported, late>>
      PROVE  QueuesIt
  <2>1. kind \in {"bytes", "raw", "elided", "cut", "reset"} /\ kind \notin {"cut", "reset"}
    OBVIOUS
  <2> QED
    BY <1>p, <2>1, Zenon DEF QueuesIt, task
<1>1. CASE PassUnit
  <2>1. PollsOne
    BY <1>1 DEF PassUnit, Polled, PollsOne
  <2>2. CASE Busy
    BY <2>1, <1>1, <2>2, <1>0, <1>p DEF PassUnit
  <2>3. CASE ~Busy
    BY <2>1, <1>1, <2>3, InlineShape DEF PassUnit, Busy, Inv
  <2> QED
    BY <2>1, <2>2, <2>3
<1>2. CASE DropUnit
  <2>1. PollsOne
    BY <1>2 DEF DropUnit, Polled, PollsOne
  <2>2. CASE Busy
    BY <2>1, <1>2, <2>2, <1>0, <1>p DEF DropUnit
  <2>3. CASE ~Busy
    BY <2>1, <1>2, <2>3 DEF DropUnit, ElidesIt
  <2> QED
    BY <2>1, <2>2, <2>3
<1>3. CASE DelayUnit
  <2>1. PollsOne
    BY <1>3 DEF DelayUnit, Polled, PollsOne
  <2>2. PICK by \in Delays, then \in {"Delay", "DelayDrop"} \cap Actions :
          LET due == clock + (IF by <= MaxHold THEN by ELSE MaxHold)
          IN  /\ Push(Unit(Id, IF then = "Delay" THEN "bytes" ELSE "elided", due, FALSE), TRUE)
              /\ dropped' = IF then = "Delay" THEN dropped ELSE dropped \union {Id}
    BY <1>3 DEF DelayUnit
  <2> DEFINE due == clock + (IF by <= MaxHold THEN by ELSE MaxHold)
             kind == IF then = "Delay" THEN "bytes" ELSE "elided"
  <2>3. due \in Nat /\ kind \in {"bytes", "raw", "elided"}
    BY <1>0
  <2>4. Push(Unit(Id, kind, due, FALSE), TRUE)
    BY <2>2
  <2>5. dropped' = IF kind = "elided" THEN dropped \union {Id} ELSE dropped
    BY <2>2
  <2>6. UNCHANGED <<task, wire, dest, srcStop, reported, late>>
    BY <1>3 DEF DelayUnit
  <2> HIDE DEF due, kind
  <2> QED
    BY <2>1, <2>3, <2>4, <2>5, <2>6, <1>p
<1>4. CASE HoldUnit
  <2>1. PollsOne
    BY <1>4 DEF HoldUnit, Polled, PollsOne
  <2> QED
    BY <1>4, <2>1, <1>0, <1>p DEF HoldUnit
<1>5. CASE TerminateUnit
  <2>1. PollsOne
    BY <1>5 DEF TerminateUnit, Polled, PollsOne
  <2>2. PICK k \in {"cut", "reset"} : Push(Unit(Id, k, clock, FALSE), FALSE)
    BY <1>5 DEF TerminateUnit
  <2>3. k \in {"bytes", "raw", "elided", "cut", "reset"} /\ k # "elided"
    OBVIOUS
  <2>4. pc' = "drain" /\ after' = "terminal" /\ dropped' = dropped
        /\ UNCHANGED <<now, exit, wire, dest, srcStop, reported, late>>
    BY <1>5 DEF TerminateUnit
  <2>5. QueuesIt
    BY <2>2, <2>3, <2>4, <1>0, Zenon DEF QueuesIt
  <2> QED
    BY <2>1, <2>5
<1>6. CASE CloseUnit
  <2>1. PollsOne
    BY <1>6 DEF CloseUnit, Polled, PollsOne
  <2>2. CASE ~closing
    BY <2>1, <1>6, <2>2 DEF CloseUnit, Return, EndsAtIt, Inv, Types, TypeOK
  <2>3. CASE closing /\ Busy
    BY <2>1, <1>6, <2>3, <1>0, <1>p DEF CloseUnit
  <2>4. CASE closing /\ ~Busy
    BY <2>1, <1>6, <2>4, InlineShape DEF CloseUnit, Busy, Inv
  <2> QED
    BY <2>1, <2>2, <2>3, <2>4
<1>7. CASE UnshownUnit
  <2>1. PollsOne
    BY <1>7 DEF UnshownUnit, Polled, PollsOne
  <2>2. CASE Shaped /\ Push(Unit(Id, "raw", clock, FALSE), FALSE) /\ UNCHANGED <<ends, task>>
    BY <2>1, <2>2, <1>0, <1>p
  <2>3. CASE ~Shaped /\ queue = <<>> /\ WriteInline
    BY <2>1, <2>3, InlineShape DEF Inv
  <2>4. CASE ~Shaped /\ queue # <<>> /\ pc' = "drain" /\ after' = "unit"
             /\ UNCHANGED <<now, exit, queued, ends>>
    BY <2>1, <2>4 DEF TakesItInHand
  <2> QED
    BY <1>7, <2>1, <2>2, <2>3, <2>4 DEF UnshownUnit
<1>8. CASE RejectHeader \/ FixupLost \/ OverflowReset
  BY <1>8 DEF RejectHeader, FixupLost, OverflowReset, Polled, PollsOne, GiveUp, Return, EndsAtIt
<1>9. CASE OverflowDrop
  BY <1>9 DEF OverflowDrop, Polled, PollsOne, ElidesIt
<1> QED
  BY <1>1, <1>2, <1>3, <1>4, <1>5, <1>6, <1>7, <1>8, <1>9 DEF HandleUnit

-----------------------------------------------------------------------------
(* Init, and the steps of the world around the task.                       *)

(* A fresh stream satisfies the invariant.                                 *)
LEMMA InitInv == Init => Inv
<1> SUFFICES ASSUME Init PROVE Inv
  OBVIOUS
<1>1. Types
  <2>1. <<>> \in Seq(Slots) /\ <<>> \in Seq(0..Units) /\ <<>> \in Seq(1..Units + 1)
    OBVIOUS
  <2>2. 0 \in 0..Units /\ Never \in Nat \union {Never}
    BY PipeAssumption
  <2>3. {holdGate, cancelled, discarding, lost, stopped, closing, partial, parked,
         observable} \subseteq BOOLEAN
    BY DEF Init
  <2>4. queue \in Seq(Slots) /\ (\A i \in DOMAIN queue : queue[i] \in Slots)
        /\ ledger \in Seq(0..Units) /\ wire \in Seq(1..Units + 1)
    BY <2>1 DEF Init
  <2>5. clock \in Nat /\ now \in Nat /\ deadline \in Nat \union {Never}
        /\ seen <= fed /\ fed <= sent /\ sent \in 0..Units /\ seen \in Nat /\ fed \in Nat
    BY <2>2 DEF Init
  <2> QED
    BY <2>3, <2>4, <2>5 DEF Init, Types, TypeOK
<1>2. Places /\ Terminals /\ Heads
  BY DEF Init, Places, Draining, InHand, Terminals, LastOnly, Heads, Never
<1>3. Order
  BY DEF Init, Order, Sorted, Increasing, Gapless, Behind, Covered, Top, InHand, Draining
<1>5. Room
  BY EmptyQueue, PipeAssumption DEF Init, Room
<1>6. LedgerMatches
  BY DEF Init, LedgerMatches
<1> QED
  BY <1>1, <1>2, <1>3, <1>5, <1>6 DEF Inv

(* The world moves the clock and the source forward and opens gates; it    *)
(* touches nothing of the loop.                                            *)
LEMMA WorldKeeps ==
  ASSUME Types, World
  PROVE  /\ pc # "over"
         /\ UNCHANGED <<task, framer, queue, ledger, deadline, parked, closing, observable, ends>>
         /\ clock' \in Nat /\ clock <= clock' /\ sent' \in 0..Units /\ sent <= sent'
         /\ srcEnd' \in {"open", "fin", "reset"}
         /\ srcEnd = "fin" => srcEnd' = srcEnd /\ sent' = sent
         /\ holdGate => holdGate'
         /\ shapeGate' \in {"none", "shut", "open"}
         /\ {holdGate', cancelled', discarding', lost', stopped'} \subseteq BOOLEAN
<1> USE PipeAssumption DEF Pipe, env, task, framer, queued, ends, Types, TypeOK
<1>1. CASE Tick
  BY <1>1 DEF World, Tick
<1>2. CASE SrcSend
  BY <1>2 DEF World, SrcSend
<1>3. CASE SrcFinish
  BY <1>3 DEF World, SrcFinish
<1>4. CASE OpenHoldGate
  BY <1>4 DEF World, OpenHoldGate
<1>5. CASE OpenShapeGate
  BY <1>5 DEF World, OpenShapeGate
<1>6. CASE Cancel
  <2>1. discarding' \in BOOLEAN
    BY <1>6 DEF Cancel
  <2>2. /\ UNCHANGED <<clock, sent, srcEnd, holdGate, lost, stopped, Pipe>>
        /\ cancelled' = TRUE
    BY <1>6 DEF Cancel
  <2> QED
    BY <2>1, <2>2 DEF World
<1>7. CASE LoseTransport
  BY <1>7 DEF World, LoseTransport
<1>8. CASE StopSending
  BY <1>8 DEF World, StopSending
<1> QED
  BY <1>1, <1>2, <1>3, <1>4, <1>5, <1>6, <1>7, <1>8 DEF World

(* No step of the world disturbs the invariant.                            *)
LEMMA WorldInv ==
  ASSUME Inv, World
  PROVE  Inv'
<1>0. Types
  BY DEF Inv
<1>1. /\ pc # "over"
      /\ UNCHANGED <<task, framer, queue, ledger, deadline, parked, closing, observable, ends>>
      /\ clock' \in Nat /\ clock <= clock' /\ sent' \in 0..Units /\ sent <= sent'
      /\ srcEnd' \in {"open", "fin", "reset"}
      /\ srcEnd = "fin" => srcEnd' = srcEnd /\ sent' = sent
      /\ holdGate => holdGate'
      /\ shapeGate' \in {"none", "shut", "open"}
      /\ {holdGate', cancelled', discarding', lost', stopped'} \subseteq BOOLEAN
  BY <1>0, WorldKeeps
<1> USE <1>1 DEF task, framer, ends
<1>2. Types'
  BY <1>0, PipeAssumption DEF Types, TypeOK
<1>3. Places' /\ Terminals'
  BY DEF Inv, Places, Draining, InHand, Terminals, LastOnly
<1>4. Heads'
  BY <1>0 DEF Inv, Heads, Types, TypeOK
<1>5. Order'
  BY DEF Inv, Order, Top, InHand, Draining
<1>6. Room'
  BY DEF Inv, Room
<1>7. LedgerMatches'
  BY DEF Inv, LedgerMatches
<1> QED
  BY <1>2, <1>3, <1>4, <1>5, <1>6, <1>7 DEF Inv

-----------------------------------------------------------------------------
(* A polled unit keeps the invariant, whichever of the five it meets.      *)

(* What the five lemmas use of Inv: the loop stands between two units.     *)
LEMMA AtFrame ==
  ASSUME Inv, PollsOne
  PROVE  /\ Types /\ pc = "frame" /\ after = "none" /\ ~Draining /\ ~InHand /\ Top = seen
         /\ exit = "none" /\ dest = "open" /\ late = {} /\ reported = {}
         /\ seen \in Nat /\ fed \in Nat /\ sent \in Nat /\ Id = seen + 1 /\ Id <= fed
         /\ Id \in 1..Units /\ fed <= sent /\ fed' = fed /\ sent' = sent /\ seen' = seen + 1
         /\ {cancelled', closing'} \subseteq BOOLEAN
         /\ wire \in Seq(Nat) /\ DOMAIN wire = 1..Len(wire)
         /\ Increasing(wire) /\ Gapless(wire, dropped) /\ Behind(wire, queue)
         /\ Covered(queue, wire, dropped, seen) /\ Sorted(queue)
         /\ \A k \in DOMAIN wire : wire[k] <= seen
         /\ \A i \in DOMAIN queue : queue[i].id <= seen /\ ~Terminal(queue[i])
<1>1. Types /\ pc = "frame" /\ after = "none" /\ ~Draining /\ ~InHand /\ Top = seen
      /\ exit = "none" /\ dest = "open" /\ late = {} /\ reported = {}
  BY DEF Inv, PollsOne, Places, Draining, InHand, Top
<1>2. seen \in Nat /\ fed \in Nat /\ sent \in Nat /\ Id = seen + 1 /\ Id <= fed
      /\ Id \in 1..Units /\ fed <= sent /\ fed' = fed /\ sent' = sent /\ seen' = seen + 1
  BY <1>1, PipeAssumption DEF PollsOne, Id, Types, TypeOK
<1>3. {cancelled', closing'} \subseteq BOOLEAN
  BY <1>1 DEF PollsOne, Types, TypeOK
<1>4. wire \in Seq(Nat) /\ DOMAIN wire = 1..Len(wire)
  BY <1>1, PipeAssumption DEF Types, TypeOK
<1>5. Increasing(wire) /\ Gapless(wire, dropped) /\ Behind(wire, queue)
      /\ Covered(queue, wire, dropped, seen) /\ Sorted(queue)
  BY <1>1 DEF Inv, Order
<1>6. \A k \in DOMAIN wire : wire[k] <= seen
  BY <1>1 DEF Inv, Order
<1>7. \A i \in DOMAIN queue : queue[i].id <= seen /\ ~Terminal(queue[i])
  BY <1>1 DEF Inv, Order, Terminals
<1> QED
  BY <1>1, <1>2, <1>3, <1>4, <1>5, <1>6, <1>7

(* A unit pushed on the queue keeps the invariant.                         *)
LEMMA QueuesItInv ==
  ASSUME Inv, PollsOne, QueuesIt
  PROVE  Inv'
<1> USE AtFrame
<1>1. PICK kind \in {"bytes", "raw", "elided", "cut", "reset"}, due \in Nat,
           gated \in BOOLEAN, owed \in BOOLEAN :
        /\ Push(Unit(Id, kind, due, gated), owed)
        /\ dropped' = IF kind = "elided" THEN dropped \union {Id} ELSE dropped
        /\ IF kind \in {"cut", "reset"} THEN pc' = "drain" /\ after' = "terminal"
                                        ELSE UNCHANGED <<pc, after>>
        /\ UNCHANGED <<now, exit, wire, dest, srcStop, reported, late>>
  BY Zenon DEF QueuesIt
<1> DEFINE u == Unit(Id, kind, due, gated)
<1>2. u \in Slots /\ u.id = Id /\ u.kind = kind /\ u.due = due
  BY PipeAssumption DEF Unit, Slots, Types, TypeOK
<1>3. /\ queue' = Append(queue, u)
      /\ ledger' = Append(ledger, IF owed THEN u.id ELSE 0)
      /\ deadline' = IF queue = <<>> THEN u.due ELSE deadline
      /\ UNCHANGED <<parked, shapeGate>>
  BY <1>1 DEF Push
<1> HIDE DEF u
<1>4. queue \in Seq(Slots) /\ queue' \in Seq(Slots) /\ Len(queue') = Len(queue) + 1
      /\ Len(queue) \in Nat /\ DOMAIN queue = 1..Len(queue) /\ DOMAIN queue' = 1..Len(queue) + 1
      /\ queue'[Len(queue) + 1] = u /\ \A i \in 1..Len(queue) : queue'[i] = queue[i]
  BY <1>2, <1>3 DEF Types
<1>5. \A i \in DOMAIN queue' : (i \in DOMAIN queue /\ queue'[i] = queue[i] /\ i < Len(queue'))
                               \/ (i = Len(queue') /\ queue'[i] = u)
  BY <1>4
<1>6. Types'
  <2>1. ledger' \in Seq(0..Units)
    <3> DEFINE e == IF owed THEN u.id ELSE 0
    <3>1. ledger \in Seq(0..Units)
      BY DEF Types, TypeOK
    <3>a. u.id \in 0..Units /\ 0 \in 0..Units
      BY <1>2, PipeAssumption
    <3>b. e \in 0..Units
      BY <3>a, Zenon
    <3>2. ledger' = Append(ledger, e)
      BY <1>3
    <3> HIDE DEF e
    <3> QED
      BY <3>1, <3>b, <3>2
  <2>2. queue' \in Seq(Slots) /\ \A i \in DOMAIN queue' : queue'[i] \in Slots
    BY <1>4
  <2>3. deadline' \in Nat \union {Never} /\ dropped' \subseteq 1..Units
    BY <1>1, <1>2, <1>3 DEF Types, TypeOK
  <2>4. pc' \in {"frame", "drain"} /\ after' \in {"none", "terminal"}
    BY <1>1
  <2>5. seen' <= fed' /\ seen' \in Nat
    OBVIOUS
  <2> QED
    BY <1>1, <1>3, <2>1, <2>2, <2>3, <2>4, <2>5, ZenonT(30) DEF Types, TypeOK, PollsOne
<1>7. Places'
  BY <1>1 DEF Places, Draining, InHand
<1>8. Terminals'
  <2>1. LastOnly(queue')
    BY <1>5 DEF LastOnly
  <2>2. ASSUME NEW i \in DOMAIN queue', Terminal(queue'[i])
        PROVE  Draining' /\ after' \in {"terminal", "finTerminal"}
    <3>1. Terminal(u)
      BY <1>5, <2>2
    <3> QED
      BY <3>1, <1>1, <1>2 DEF Terminal, Draining
  <2>3. Draining' => queue' # <<>> /\ Terminal(queue'[Len(queue')])
    BY <1>1, <1>2, <1>4 DEF Draining, Terminal
  <2> QED
    BY <2>1, <2>2, <2>3 DEF Terminals
<1>9. Heads'
  <2>1. queue' # <<>> /\ (queue = <<>> => queue'[1] = u) /\ (queue # <<>> => queue'[1] = queue[1])
    BY <1>4
  <2>2. deadline' # Never
    BY <1>2, <1>3 DEF Inv, Heads, Never
  <2> QED
    BY <1>1, <1>2, <1>3, <2>1, <2>2 DEF Inv, Heads, PollsOne
<1>10. Order'
  <2>1. Top' = IF kind \in {"cut", "reset"} THEN seen ELSE seen + 1
    <3>1. InHand' <=> kind \in {"cut", "reset"}
      BY <1>1 DEF InHand, Draining
    <3>2. Top' = IF InHand' THEN seen' - 1 ELSE seen'
      BY DEF Top
    <3>3. seen' - 1 = seen /\ seen' = seen + 1
      OBVIOUS
    <3> QED
      BY <3>1, <3>2, <3>3, Zenon
  <2>2. \A i \in DOMAIN queue' : queue'[i].id <= seen + 1
    <3> TAKE i \in DOMAIN queue'
    <3>1. CASE i \in DOMAIN queue /\ queue'[i] = queue[i]
      <4>1. queue[i] \in Slots /\ queue[i].id <= seen
        BY <3>1, <1>4
      <4> QED
        BY <3>1, <4>1, SlotFields
    <3>2. CASE queue'[i] = u
      BY <3>2, <1>2
    <3> QED
      BY <1>5, <3>1, <3>2
  <2>3. Sorted(queue')
    <3> SUFFICES ASSUME NEW i \in DOMAIN queue', NEW j \in DOMAIN queue', i < j
                 PROVE  queue'[i].id < queue'[j].id
      BY DEF Sorted
    <3>1. i \in DOMAIN queue /\ queue'[i] = queue[i] /\ queue[i].id \in Nat
      BY <1>4, <1>5, SlotFields
    <3>2. CASE j \in DOMAIN queue
      BY <3>1, <3>2, <1>4 DEF Sorted
    <3>3. CASE queue'[j] = u
      BY <3>1, <3>3, <1>2
    <3> QED
      BY <1>5, <3>2, <3>3
  <2>4. Gapless(wire, dropped')
    BY <1>1 DEF Gapless
  <2>5. Behind(wire, queue')
    <3> SUFFICES ASSUME NEW k \in DOMAIN wire, NEW i \in DOMAIN queue', Loaded(queue'[i])
                 PROVE  wire[k] < queue'[i].id
      BY DEF Behind
    <3>1. CASE i \in DOMAIN queue /\ queue'[i] = queue[i]
      BY <3>1 DEF Behind
    <3>2. CASE queue'[i] = u
      BY <3>2, <1>2
    <3> QED
      BY <1>5, <3>1, <3>2
  <2>6. Covered(queue', wire, dropped', Top')
    <3> SUFFICES ASSUME NEW i \in 1..Top'
                 PROVE  i \in dropped' \/ On(wire, i) \/ i \in IdsOf(queue')
      BY DEF Covered
    <3>1. IdsOf(queue) \subseteq IdsOf(queue') /\ (Loaded(u) => u.id \in IdsOf(queue'))
      BY <1>2, <1>3, <1>4, IdsOfAppend
    <3>2. CASE i \in 1..seen
      <4>1. i \in dropped \/ On(wire, i) \/ i \in IdsOf(queue)
        BY <3>2 DEF Covered
      <4> QED
        BY <4>1, <3>1, <1>1
    <3>3. CASE i = seen + 1
      <4>1. kind \in {"bytes", "raw", "elided"}
        BY <2>1, <3>3
      <4> QED
        BY <4>1, <3>1, <3>3, <1>1, <1>2 DEF Loaded
    <3> QED
      BY <2>1, <3>2, <3>3
  <2>7. after' # "unit" /\ after' # "finTerminal" /\ wire' = wire
        /\ (\A k \in DOMAIN wire : wire[k] <= Top') /\ Top' \in Nat /\ seen + 1 <= Top' + 1
    BY <1>1, <2>1
  <2>8. \A i \in DOMAIN queue' : queue'[i].id <= Top' + 1
    BY <2>2, <2>7, <1>4, SlotFields
  <2> QED
    BY <2>2, <2>3, <2>4, <2>5, <2>6, <2>7, <2>8 DEF Order
<1>11. Room'
  <2>1. Bytes(queue') \in Nat /\ Bytes(queue) \in Nat /\ Bytes(queue') <= Bytes(queue) + 1
    BY <1>2, <1>3, <1>4, BytesOfAppend, BytesOfQueue, SMTT(30)
  <2> QED
    BY <2>1, PipeAssumption, SMTT(30) DEF Inv, Room
<1>12. LedgerMatches'
  <2>1. Len(ledger) = Len(queue) /\ \A i \in DOMAIN queue : ledger[i] \in {0, queue[i].id}
    BY DEF Inv, LedgerMatches
  <2>2. ledger \in Seq(0..Units)
    BY DEF Types, TypeOK
  <2> DEFINE e == IF owed THEN u.id ELSE 0
  <2>3. ledger' = Append(ledger, e) /\ e \in {0, u.id}
    BY <1>3
  <2> HIDE DEF e
  <2>4. Len(ledger') = Len(ledger) + 1 /\ ledger'[Len(ledger) + 1] = e
        /\ \A i \in 1..Len(ledger) : ledger'[i] = ledger[i]
    BY <2>2, <2>3
  <2>5. ASSUME NEW i \in DOMAIN queue'
        PROVE  ledger'[i] \in {0, queue'[i].id}
    BY <1>4, <1>5, <2>1, <2>3, <2>4
  <2> QED
    BY <1>4, <2>1, <2>4, <2>5 DEF LedgerMatches
<1> QED
  BY <1>6, <1>7, <1>8, <1>9, <1>10, <1>11, <1>12 DEF Inv

(* A loop that has returned keeps nothing. *)
LEMMA OverInv ==
  ASSUME Inv, Types', pc' = "over", queue' = <<>>, deadline' = Never, parked' = FALSE,
         now' = now, clock' = clock, fed' = fed, seen' >= seen
  PROVE  Inv'
<1>1. Places' /\ Terminals'
  BY DEF Places, Draining, InHand, Terminals, LastOnly
<1>2. Heads'
  BY DEF Inv, Heads
<1>3. Order'
  BY DEF Order, Sorted
<1>4. Room'
  <2>1. Bytes(queue) \in Nat /\ Bytes(queue') = 0
    BY EmptyQueue, BytesOfQueue DEF Inv, Types
  <2>2. seen \in Nat /\ fed \in Nat /\ seen' \in Nat
    BY DEF Inv, Types, TypeOK
  <2> QED
    BY <2>1, <2>2, PipeAssumption DEF Inv, Room
<1>5. LedgerMatches'
  BY DEF LedgerMatches
<1> QED
  BY <1>1, <1>2, <1>3, <1>4, <1>5 DEF Inv

(* A unit at which the loop returns keeps it.                              *)
LEMMA EndsAtItInv ==
  ASSUME Inv, PollsOne, EndsAtIt
  PROVE  Inv'
<1> USE AtFrame
<1>1. queue' = <<>> /\ ledger' = <<>> /\ deadline' = Never /\ parked' = FALSE
      /\ shapeGate' = "none" /\ pc' = "over" /\ dest' \in {"open", "fin", "reset"}
      /\ UNCHANGED <<after, now, wire, dropped, late, reported>>
  BY DEF EndsAtIt, Clear
<1>2. Types'
  <2>1. seen' <= fed' /\ seen' \in Nat
    OBVIOUS
  <2>2. queue' \in Seq(Slots) /\ (\A i \in DOMAIN queue' : queue'[i] \in Slots)
        /\ ledger' \in Seq(0..Units)
    BY <1>1
  <2>3. deadline' \in Nat \union {Never} /\ parked' \in BOOLEAN
    BY <1>1
  <2> QED
    BY <1>1, <2>1, <2>2, <2>3 DEF Types, TypeOK, PollsOne
<1>3. seen' >= seen
  OBVIOUS
<1>4. clock' = clock /\ fed' = fed
  BY DEF PollsOne
<1> QED
  BY <1>1, <1>2, <1>3, <1>4, OverInv

(* A unit elided keeps it.                                                 *)
LEMMA ElidesItInv ==
  ASSUME Inv, PollsOne, ElidesIt
  PROVE  Inv'
<1> USE AtFrame
<1>1. dropped' = dropped \union {Id}
      /\ UNCHANGED <<queue, ledger, deadline, parked, shapeGate, pc, after, now, exit, wire,
                     dest, srcStop, reported, late>>
  BY DEF ElidesIt, queued, task
<1>2. Types'
  <2>1. seen' <= fed' /\ seen' \in Nat
    OBVIOUS
  <2> QED
    BY <1>1, <2>1 DEF Types, TypeOK, PollsOne
<1>3. Places' /\ Terminals'
  BY <1>1 DEF Inv, Places, Draining, InHand, Terminals, LastOnly
<1>4. Heads'
  BY <1>1 DEF Inv, Heads, PollsOne
<1>5. Order'
  <2>1. Top' = seen + 1
    BY <1>1 DEF Top, InHand, Draining
  <2>2. Gapless(wire, dropped')
    BY <1>1 DEF Gapless
  <2>3. Covered(queue, wire, dropped', Top')
    BY <1>1, <2>1 DEF Covered
  <2>4. \A k \in DOMAIN wire : wire[k] <= Top'
    BY <2>1
  <2>5. \A i \in DOMAIN queue : queue[i].id <= Top' + 1 /\ queue[i].id <= seen'
    <3> TAKE i \in DOMAIN queue
    <3>1. queue[i].id \in Nat
      BY SlotFields DEF Types
    <3> QED
      BY <2>1, <3>1
  <2> QED
    BY <1>1, <2>2, <2>3, <2>4, <2>5 DEF Order
<1>6. Room'
  <2>1. Bytes(queue) \in Nat
    BY BytesOfQueue DEF Types
  <2> QED
    BY <1>1, <2>1, PipeAssumption, SMTT(30) DEF Inv, Room
<1>7. LedgerMatches'
  BY <1>1 DEF Inv, LedgerMatches
<1> QED
  BY <1>2, <1>3, <1>4, <1>5, <1>6, <1>7 DEF Inv

(* A unit written at once, past an empty queue, keeps it.                  *)
LEMMA WritesItInv ==
  ASSUME Inv, PollsOne, WritesIt
  PROVE  Inv'
<1> USE AtFrame
<1>1. queue = <<>> /\ wire' = Append(wire, Id)
      /\ UNCHANGED <<queue, ledger, deadline, parked, shapeGate, pc, after, now, exit,
                     dest, srcStop, dropped, reported, late>>
  BY DEF WritesIt, queued, task
<1>2. Types'
  <2>1. wire' \in Seq(1..Units + 1)
    BY <1>1, PipeAssumption DEF Types, TypeOK
  <2>2. seen' <= fed' /\ seen' \in Nat
    OBVIOUS
  <2> QED
    BY <1>1, <2>1, <2>2 DEF Types, TypeOK, PollsOne
<1>3. Places' /\ Terminals'
  BY <1>1 DEF Inv, Places, Draining, InHand, Terminals, LastOnly
<1>4. Heads'
  BY <1>1 DEF Inv, Heads, PollsOne
<1>5. Order'
  <2>1. Top' = seen + 1
    BY <1>1 DEF Top, InHand, Draining
  <2>2. \A i \in 1..Id - 1 : i \in dropped \/ On(wire, i)
    BY <1>1, EmptyQueue DEF Covered
  <2>3. Id \in Nat /\ \A k \in DOMAIN wire : wire[k] < Id
    OBVIOUS
  <2>4. Increasing(wire') /\ Gapless(wire', dropped) /\ On(wire', Id)
        /\ \A i : On(wire, i) => On(wire', i)
    BY <1>1, <2>2, <2>3, WriteNext
  <2>5. Covered(queue', wire', dropped', Top')
    BY <1>1, <2>1, <2>2, <2>4 DEF Covered
  <2>6. \A k \in DOMAIN wire' : wire'[k] <= Top'
    BY <1>1, <2>1
  <2> QED
    BY <1>1, <2>4, <2>5, <2>6 DEF Order, Behind
<1>6. Room'
  BY <1>1, EmptyQueue, PipeAssumption DEF Inv, Room
<1>7. LedgerMatches'
  BY <1>1 DEF Inv, LedgerMatches
<1> QED
  BY <1>2, <1>3, <1>4, <1>5, <1>6, <1>7 DEF Inv

(* A unit held in hand while the queue drains keeps it.                    *)
LEMMA TakesItInHandInv ==
  ASSUME Inv, PollsOne, TakesItInHand
  PROVE  Inv'
<1> USE AtFrame
<1>1. pc' = "drain" /\ after' = "unit"
      /\ UNCHANGED <<queue, ledger, deadline, parked, shapeGate, now, exit, wire,
                     dest, srcStop, dropped, reported, late>>
  BY DEF TakesItInHand, queued, ends
<1>2. Types'
  <2>1. seen' <= fed' /\ seen' \in Nat
    OBVIOUS
  <2> QED
    BY <1>1, <2>1 DEF Types, TypeOK, PollsOne
<1>3. Places'
  BY <1>1 DEF Inv, Places, Draining, InHand
<1>3a. Terminals'
  BY <1>1 DEF Inv, Terminals, LastOnly
<1>4. Heads'
  BY <1>1 DEF Inv, Heads, PollsOne
<1>5. Order'
  <2>1. Top' = seen
    <3>1. InHand'
      BY <1>1 DEF InHand, Draining
    <3> QED
      BY <3>1 DEF Top
  <2>2. \A i \in DOMAIN queue : queue[i].id <= seen + 1 /\ queue[i].id <= seen
    <3> TAKE i \in DOMAIN queue
    <3>1. queue[i].id \in Nat
      BY SlotFields DEF Types
    <3> QED
      BY <3>1
  <2> QED
    BY <1>1, <2>1, <2>2 DEF Order
<1>6. Room'
  <2>1. Bytes(queue) \in Nat
    BY BytesOfQueue DEF Types
  <2> QED
    BY <1>1, <2>1, PipeAssumption, SMTT(30) DEF Inv, Room
<1>7. LedgerMatches'
  BY <1>1 DEF LedgerMatches
<1> QED
  BY <1>2, <1>3, <1>3a, <1>4, <1>5, <1>6, <1>7 DEF Inv

(* So does every decision about a polled unit.                             *)
LEMMA HandleInv ==
  ASSUME Inv, HandleUnit
  PROVE  Inv'
  BY HandleShape, QueuesItInv, ElidesItInv, WritesItInv, TakesItInHandInv, EndsAtItInv

-----------------------------------------------------------------------------
(* The steps of the loop that move nothing: reads, wakes and ends of       *)
(* batches, and a refusal of the scheduler.                                *)

(* What the remaining lemmas use of Inv while the loop runs.               *)
LEMMA Running ==
  ASSUME Inv, pc # "over"
  PROVE  /\ Types /\ queue \in Seq(Slots) /\ wire \in Seq(Nat) /\ DOMAIN wire = 1..Len(wire)
         /\ DOMAIN queue = 1..Len(queue) /\ Len(queue) \in Nat /\ Len(wire) \in Nat
         /\ clock \in Nat /\ now \in Nat /\ seen \in Nat /\ fed \in Nat /\ sent \in Nat
         /\ seen <= fed /\ fed <= sent /\ sent <= Units /\ Units \in Nat
         /\ exit = "none" /\ dest = "open" /\ late = {} /\ reported = {}
         /\ Increasing(wire) /\ Gapless(wire, dropped) /\ Behind(wire, queue)
         /\ Covered(queue, wire, dropped, Top) /\ Sorted(queue)
         /\ Top \in Nat /\ Top <= seen /\ seen <= Top + 1
         /\ \A i \in DOMAIN queue : queue[i] \in Slots /\ queue[i].id \in Nat
         /\ IdsOf(queue) \subseteq 1..Units
         /\ Bytes(queue) \in Nat
<1>1. Types /\ queue \in Seq(Slots) /\ DOMAIN queue = 1..Len(queue) /\ Len(queue) \in Nat
  BY DEF Inv, Types
<1>2. wire \in Seq(Nat) /\ DOMAIN wire = 1..Len(wire) /\ Len(wire) \in Nat
  BY PipeAssumption DEF Inv, Types, TypeOK
<1>3. clock \in Nat /\ now \in Nat /\ seen \in Nat /\ fed \in Nat /\ sent \in Nat
      /\ seen <= fed /\ fed <= sent /\ sent <= Units /\ Units \in Nat
  BY PipeAssumption DEF Inv, Types, TypeOK
<1>4. exit = "none" /\ dest = "open" /\ late = {} /\ reported = {}
  BY DEF Inv, Places
<1>5. Increasing(wire) /\ Gapless(wire, dropped) /\ Behind(wire, queue)
      /\ Covered(queue, wire, dropped, Top) /\ Sorted(queue)
  BY DEF Inv, Order
<1>6. Top \in Nat /\ Top <= seen /\ seen <= Top + 1
  BY <1>3 DEF Inv, Places, Top
<1>7. \A i \in DOMAIN queue : queue[i] \in Slots /\ queue[i].id \in Nat
  BY <1>1, SlotFields
<1>8. IdsOf(queue) \subseteq 1..Units
  <2> SUFFICES ASSUME NEW x \in IdsOf(queue) PROVE x \in 1..Units
    OBVIOUS
  <2>1. PICK i \in DOMAIN queue : Loaded(queue[i]) /\ queue[i].id = x
    BY <1>1, IdsOfQueue
  <2>2. queue[i].id <= seen
    BY <2>1 DEF Inv, Order
  <2>3. queue[i].id \in 1..Units + 1
    BY <1>7, SlotFields
  <2> QED
    BY <2>1, <2>2, <2>3, <1>3
<1>9. Bytes(queue) \in Nat
  BY <1>1, BytesOfQueue
<1> QED
  BY <1>1, <1>2, <1>3, <1>4, <1>5, <1>6, <1>7, <1>8, <1>9

(* A read, the end of its units and a reset nobody can see keep it.        *)
LEMMA ReadInv ==
  ASSUME Inv, ReadChunk \/ EndChunk \/ ResetUnobservable
  PROVE  Inv'
<1>0. pc # "over" /\ pc \in {"select", "frame"}
  BY DEF ReadChunk, EndChunk, ResetUnobservable
<1> USE <1>0, Running
<1>1. /\ UNCHANGED <<env, closing, after, now, exit, seen, queued, ends>>
      /\ pc' \in {"select", "frame"} /\ (pc' = "select" => seen = fed')
      /\ fed' \in Nat /\ fed <= fed' /\ fed' <= sent /\ partial' \in BOOLEAN
      /\ observable' \in BOOLEAN
  <2>1. CASE ReadChunk
    <3>1. PICK n \in 1..MaxChunk, p \in Partials :
               fed + n <= sent /\ fed' = fed + n /\ partial' = p
      BY <2>1 DEF ReadChunk
    <3>2. fed + n \in Nat /\ fed <= fed + n /\ p \in BOOLEAN /\ observable \in BOOLEAN
      BY PipeAssumption, SMTT(30) DEF Types, TypeOK
    <3> QED
      BY <2>1, <3>1, <3>2 DEF ReadChunk
  <2>2. CASE EndChunk
    BY <2>2 DEF EndChunk, framer, Types, TypeOK
  <2>3. CASE ResetUnobservable
    <3>1. seen = fed /\ partial \in BOOLEAN
      BY <2>3 DEF ResetUnobservable, Inv, Places, Types, TypeOK
    <3> QED
      BY <2>3, <3>1 DEF ResetUnobservable, framer, task
  <2> QED
    BY <2>1, <2>2, <2>3
<1>1a. UNCHANGED <<clock, sent, srcEnd, holdGate, cancelled, discarding, lost, stopped, queue,
                   ledger, deadline, parked, shapeGate, wire, dest, srcStop, dropped, reported,
                   late, closing, after, now, exit, seen>>
  BY <1>1 DEF env, queued, ends
<1> HIDE DEF env, queued, ends
<1>2. Types'
  BY <1>1, <1>1a, SMTT(30) DEF Types, TypeOK
<1>3. Places' /\ Terminals'
  BY <1>1, <1>1a DEF Inv, Places, Draining, InHand, Terminals, LastOnly
<1>4. Heads'
  BY <1>1a DEF Inv, Heads
<1>5. Order'
  BY <1>1, <1>1a DEF Inv, Order, Top, InHand, Draining
<1>6. Room'
  <2>1. CASE fed' = fed
    BY <2>1, <1>1a DEF Inv, Room
  <2>2. CASE fed' # fed
    <3>1. ReadChunk /\ seen = fed
      BY <2>2 DEF EndChunk, ResetUnobservable, framer, ReadChunk, Inv, Places
    <3>2. PICK n \in 1..MaxChunk : fed' = fed + n
      BY <3>1 DEF ReadChunk
    <3>3. Bytes(queue) < MaxBytes
      BY <3>1 DEF ReadChunk, AcceptsMore
    <3>4. Bytes(queue) + ((fed + n) - fed) <= MaxBytes - 1 + MaxChunk
      BY <3>3, PipeAssumption, SMTT(30)
    <3>5. queue' = queue /\ seen' = fed
      BY <3>1, <1>1a
    <3> QED
      BY <3>2, <3>4, <3>5 DEF Room
  <2> QED
    BY <2>1, <2>2
<1>7. LedgerMatches'
  BY <1>1a DEF Inv, LedgerMatches
<1> QED
  BY <1>2, <1>3, <1>4, <1>5, <1>6, <1>7 DEF Inv

(* A release or a drain that wakes, a refusal and a FIN read keep it.      *)
LEMMA WakeInv ==
  ASSUME Inv, WakeRelease \/ WakeDrain \/ EndBatch \/ ReadFin \/ RefuseHead
  PROVE  Inv'
<1>0. pc # "over" /\ pc \in {"select", "drain", "release", "drainBatch"}
  BY DEF WakeRelease, WakeDrain, EndBatch, ReadFin, RefuseHead, InBatch
<1> USE <1>0, Running
<1>1. /\ UNCHANGED <<env, closing, exit, framer, queue, ledger, observable, ends>>
      /\ \/ /\ pc \in {"select", "release"} /\ pc' \in {"select", "release"} /\ after' = after
         \/ /\ Draining /\ pc' \in {"drain", "drainBatch"} /\ after' = after
         \/ /\ pc = "select" /\ pc' = "drain" /\ after' = "fin"
            /\ srcEnd = "fin" /\ fed = sent
      /\ now' \in {now, clock}
  BY DEF WakeRelease, WakeDrain, EndBatch, ReadFin, RefuseHead, InBatch, BatchOver, Draining,
         queued
<1>1a. UNCHANGED <<clock, sent, srcEnd, holdGate, cancelled, discarding, lost, stopped, queue,
                   ledger, wire, dest, srcStop, dropped, reported,
                   late, closing, exit, seen, fed, partial, observable>>
  BY <1>1 DEF env, framer, ends
<1>2. \/ UNCHANGED <<deadline, parked, shapeGate>>
      \/ /\ deadline' \in Nat /\ parked' = TRUE /\ shapeGate' \in {"none", "shut"}
         /\ queue # <<>> /\ now' = now
         /\ queue[1].due <= now \/ (queue[1].gated /\ holdGate)
  <2>1. CASE RefuseHead
    <3>1. queue # <<>> /\ Head(queue) = queue[1] /\ queue[1] \in Slots
      BY <2>1 DEF RefuseHead, HeadDue, Types
    <3>2. queue[1].expires \in Nat
      BY <3>1, SlotFields
    <3>3. deadline' \in Nat
      BY <2>1, <3>1, <3>2, SMTT(30) DEF RefuseHead
    <3> QED
      BY <2>1, <3>1, <3>3 DEF RefuseHead, HeadDue, OwnGate, BatchOver
  <2>2. CASE ~RefuseHead
    BY <2>2 DEF WakeRelease, WakeDrain, EndBatch, ReadFin, queued
  <2> QED
    BY <2>1, <2>2
<1>3. now' \in Nat /\ now <= now' /\ now' <= clock
  BY <1>1 DEF Inv, Heads
<1>4. Types'
  <2>1. pc' \in {"select", "frame", "release", "drain", "drainBatch", "finish", "over"}
        /\ after' \in {"none", "unit", "terminal", "fin", "finTerminal"}
    BY <1>1 DEF Types, TypeOK
  <2>2. deadline' \in Nat \union {Never} /\ parked' \in BOOLEAN
        /\ shapeGate' \in {"none", "shut", "open"}
    BY <1>2 DEF Types, TypeOK
  <2> QED
    BY <1>1a, <1>3, <2>1, <2>2 DEF Types, TypeOK
<1>5. Places'
  BY <1>1, <1>1a DEF Inv, Places, Draining, InHand
<1>6. Terminals'
  BY <1>1, <1>1a DEF Inv, Terminals, Draining
<1>7. Heads'
  <2>1. CASE UNCHANGED <<deadline, parked, shapeGate>>
    <3>1. queue # <<>> => queue[1].due \in Nat
      BY SlotFields DEF Types
    <3> QED
      BY <2>1, <3>1, <1>1a, <1>3, SMTT(30) DEF Inv, Heads
  <2>2. CASE ~UNCHANGED <<deadline, parked, shapeGate>>
    BY <2>2, <1>1a, <1>2, <1>3 DEF Inv, Heads, Never
  <2> QED
    BY <2>1, <2>2
<1>8. Order'
  <2>1. Top' = Top
    BY <1>1, <1>1a DEF Inv, Places, Top, InHand, Draining
  <2>2. pc = "select" => after = "none"
    BY DEF Inv, Places
  <2>3. (after' = "unit" => after = "unit") /\ (after' = "finTerminal" <=> after = "finTerminal")
    BY <1>1, <2>2
  <2> QED
    BY <1>1a, <2>1, <2>3 DEF Inv, Order
<1>9. Room'
  BY <1>1a DEF Inv, Room
<1>10. LedgerMatches'
  BY <1>1, <1>1a DEF Inv, LedgerMatches, Draining
<1> QED
  BY <1>4, <1>5, <1>6, <1>7, <1>8, <1>9, <1>10 DEF Inv

-----------------------------------------------------------------------------
(* The steps that shorten the queue.                                       *)

(* Everything before a loaded head is settled. *)
LEMMA BeforeHead ==
  ASSUME Inv, pc # "over", queue # <<>>, Loaded(queue[1])
  PROVE  \A i \in 1..queue[1].id - 1 : i \in dropped \/ On(wire, i)
<1> USE Running
<1>1. 1 \in DOMAIN queue /\ queue[1].id \in Nat /\ queue[1].id <= Top + 1
  BY DEF Inv, Order
<1> SUFFICES ASSUME NEW i \in 1..queue[1].id - 1 PROVE i \in dropped \/ On(wire, i)
  OBVIOUS
<1>2. i \in 1..Top /\ i < queue[1].id
  BY <1>1, SMTT(30)
<1>3. i \in dropped \/ On(wire, i) \/ i \in IdsOf(queue)
  BY <1>2 DEF Covered
<1>4. i \notin IdsOf(queue)
  <2>1. SUFFICES ASSUME i \in IdsOf(queue) PROVE FALSE
    OBVIOUS
  <2>2. PICK j \in DOMAIN queue : queue[j].id = i
    BY <2>1, IdsOfQueue
  <2>3. j # 1 => 1 < j
    OBVIOUS
  <2>4. j = 1 \/ queue[1].id < queue[j].id
    BY <2>3, <1>1 DEF Sorted
  <2> QED
    BY <2>2, <2>4, <1>1, <1>2, SMTT(30)
<1> QED
  BY <1>3, <1>4

PopsHead ==
  /\ InBatch /\ HeadDue /\ ~Terminal(Head(queue)) /\ PopHead
  /\ wire' = IF Loaded(Head(queue)) THEN Append(wire, Head(queue).id) ELSE wire
  /\ ledger' = IF pc = "release" THEN Tail(ledger) ELSE ledger
  /\ UNCHANGED <<task, dest, srcStop, dropped, reported, late, env, closing, framer, observable>>

(* A release that pops the head keeps the invariant.                       *)
LEMMA PopInv ==
  ASSUME Inv, PopsHead
  PROVE  Inv'
<1>0. pc # "over" /\ pc \in {"release", "drainBatch"}
  BY DEF PopsHead, InBatch
<1> USE <1>0, Running
<1> DEFINE u == Head(queue)
<1>1. queue # <<>> /\ u = queue[1] /\ u \in Slots /\ 1 \in DOMAIN queue
  BY DEF PopsHead, HeadDue, Types
<1>2. u.id \in Nat /\ u.id >= 1 /\ u.id <= Units + 1
  BY <1>1, SlotFields
<1> HIDE DEF u
<1>3. queue' = Tail(queue) /\ deadline' = ArmFor(Tail(queue)) /\ parked' = FALSE
      /\ shapeGate' = "none"
      /\ wire' = (IF Loaded(u) THEN Append(wire, u.id) ELSE wire)
      /\ ledger' = (IF pc = "release" THEN Tail(ledger) ELSE ledger)
      /\ UNCHANGED <<clock, sent, srcEnd, holdGate, cancelled, discarding, lost, stopped,
                     closing, pc, after, now, exit, fed, seen, partial, observable, dest,
                     srcStop, dropped, reported, late>>
  BY DEF PopsHead, PopHead, task, env, framer, u
<1>4. queue' \in Seq(Slots) /\ Len(queue') = Len(queue) - 1 /\ DOMAIN queue' = 1..Len(queue) - 1
      /\ \A i \in DOMAIN queue' : i + 1 \in DOMAIN queue /\ queue'[i] = queue[i + 1]
  BY <1>1, <1>3, TailIs
<1>5. ASSUME pc = "release"
      PROVE  ledger # <<>> /\ ledger \in Seq(0..Units) /\ Len(ledger) = Len(queue)
             /\ \A i \in DOMAIN queue : ledger[i] \in {0, queue[i].id}
  <2>1. Len(ledger) = Len(queue) /\ \A i \in DOMAIN queue : ledger[i] \in {0, queue[i].id}
    BY <1>5 DEF Inv, LedgerMatches
  <2>2. ledger \in Seq(0..Units)
    BY DEF Types, TypeOK
  <2>3. ledger # <<>>
    BY <1>1, <2>1
  <2> QED
    BY <2>1, <2>2, <2>3
<1>6. Types'
  <2>1. ledger' \in Seq(0..Units)
    <3>1. CASE pc = "release"
      BY <1>3, <1>5, <3>1
    <3>2. CASE pc # "release"
      BY <1>3, <3>2 DEF Types, TypeOK
    <3> QED
      BY <3>1, <3>2
  <2>2. wire' \in Seq(1..Units + 1)
    <3>1. wire \in Seq(1..Units + 1) /\ u.id \in 1..Units + 1
      BY <1>2 DEF Types, TypeOK
    <3>2. CASE Loaded(u)
      BY <1>3, <3>1, <3>2
    <3>3. CASE ~Loaded(u)
      BY <1>3, <3>1, <3>3
    <3> QED
      BY <3>2, <3>3
  <2>3. deadline' \in Nat \union {Never}
    <3>1. CASE Tail(queue) = <<>>
      BY <1>3, <3>1 DEF ArmFor
    <3>2. CASE Tail(queue) # <<>>
      <4>1. Head(Tail(queue)) \in Slots
        BY <1>1, <3>2, TailIs, SMTT(30)
      <4> QED
        BY <1>3, <3>2, <4>1, SlotFields DEF ArmFor
    <3> QED
      BY <3>1, <3>2
  <2>4. \A i \in DOMAIN queue' : queue'[i] \in Slots
    BY <1>4
  <2>5. parked' \in BOOLEAN /\ shapeGate' \in {"none", "shut", "open"}
    BY <1>3
  <2> QED
    BY <1>3, <1>4, <2>1, <2>2, <2>3, <2>4, <2>5 DEF Types, TypeOK
<1>7. Places'
  BY <1>3 DEF Inv, Places, Draining, InHand
<1>8. Terminals'
  <2>1. LastOnly(queue')
    BY <1>4, SMTT(30) DEF Inv, Terminals, LastOnly
  <2>2. ASSUME Draining, after \in {"terminal", "finTerminal"}
        PROVE  queue' # <<>> /\ Terminal(queue'[Len(queue')])
    <3>1. Terminal(queue[Len(queue)]) /\ ~Terminal(queue[1])
      BY <1>1, <2>2 DEF Inv, Terminals, PopsHead, u
    <3>2. Len(queue') \in DOMAIN queue' /\ Len(queue') + 1 = Len(queue)
      BY <1>1, <1>4, <3>1
    <3>3. queue'[Len(queue')] = queue[Len(queue)]
      BY <3>2, <1>4
    <3> QED
      BY <3>1, <3>2, <3>3, <1>4
  <2> QED
    BY <2>1, <2>2, <1>3, <1>4 DEF Inv, Terminals, Draining
<1>9. Heads'
  <2>1. now' <= clock' /\ parked' = FALSE
    BY <1>3 DEF Inv, Heads
  <2>2. CASE queue' = <<>>
    BY <2>1, <2>2, <1>3 DEF Heads, ArmFor
  <2>3. CASE queue' # <<>>
    <3>1. Head(Tail(queue)) = queue'[1] /\ queue'[1] \in Slots
      <4>1. Tail(queue) \in Seq(Slots) /\ Tail(queue) # <<>>
        BY <1>3, <1>4, <2>3
      <4> QED
        BY <4>1, <1>3, TailIs
    <3>2. deadline' = queue'[1].due
      BY <1>3, <2>3, <3>1 DEF ArmFor
    <3>3. queue'[1].due \in Nat
      BY <3>1, SlotFields
    <3> QED
      BY <2>1, <2>3, <3>2, <3>3 DEF Heads, Never
  <2> QED
    BY <2>2, <2>3
<1>10. Order'
  <2>1. Top' = Top
    BY <1>3 DEF Top, InHand, Draining
  <2>2. Sorted(queue')
    <3> SUFFICES ASSUME NEW i \in DOMAIN queue', NEW j \in DOMAIN queue', i < j
                 PROVE  queue'[i].id < queue'[j].id
      BY DEF Sorted
    <3>1. i + 1 \in DOMAIN queue /\ j + 1 \in DOMAIN queue /\ i + 1 < j + 1
      BY <1>4, SMTT(30)
    <3> QED
      BY <3>1, <1>4 DEF Sorted
  <2>3. \A i \in DOMAIN queue' : queue[i + 1].id > u.id /\ queue'[i] = queue[i + 1]
    <3> TAKE i \in DOMAIN queue'
    <3>1. 1 < i + 1 /\ i + 1 \in DOMAIN queue
      BY <1>4, SMTT(30)
    <3>2. queue[1].id < queue[i + 1].id
      BY <3>1, <1>1 DEF Sorted
    <3> QED
      BY <3>1, <3>2, <1>1, <1>4
  <2>4. \A x \in IdsOf(queue) : x \in IdsOf(queue') \/ (Loaded(u) /\ x = u.id)
    BY <1>1, <1>3, IdsOfTail DEF u
  <2>5. /\ Increasing(wire') /\ Gapless(wire', dropped)
        /\ \A i : On(wire, i) => On(wire', i)
        /\ Loaded(u) => On(wire', u.id)
        /\ \A k \in DOMAIN wire' : (k \in DOMAIN wire /\ wire'[k] = wire[k])
                                   \/ (Loaded(u) /\ wire'[k] = u.id)
    <3>1. CASE ~Loaded(u)
      BY <3>1, <1>3
    <3>2. CASE Loaded(u)
      <4>1. wire' = Append(wire, u.id)
        BY <1>3, <3>2
      <4>2. \A k \in DOMAIN wire : wire[k] < u.id
        BY <1>1, <3>2 DEF Behind
      <4>3. \A i \in 1..u.id - 1 : i \in dropped \/ On(wire, i)
        BY <1>1, <3>2, BeforeHead
      <4>4. Increasing(wire') /\ Gapless(wire', dropped) /\ On(wire', u.id)
            /\ \A i : On(wire, i) => On(wire', i)
        BY <4>1, <4>2, <4>3, <1>2, WriteNext
      <4>5. \A k \in DOMAIN wire' : (k \in DOMAIN wire /\ wire'[k] = wire[k]) \/ wire'[k] = u.id
        BY <4>1
      <4> QED
        BY <3>2, <4>4, <4>5
    <3> QED
      BY <3>1, <3>2
  <2>6. Behind(wire', queue')
    <3> SUFFICES ASSUME NEW k \in DOMAIN wire', NEW i \in DOMAIN queue', Loaded(queue'[i])
                 PROVE  wire'[k] < queue'[i].id
      BY DEF Behind
    <3>1. CASE k \in DOMAIN wire /\ wire'[k] = wire[k]
      BY <3>1, <1>4 DEF Behind
    <3>2. CASE wire'[k] = u.id
      BY <3>2, <2>3, <1>2, <1>4
    <3> QED
      BY <2>5, <3>1, <3>2
  <2>7. Covered(queue', wire', dropped', Top')
    BY <1>3, <2>1, <2>4, <2>5 DEF Covered
  <2>8. \A k \in DOMAIN wire' : wire'[k] <= Top' \/ after' = "finTerminal"
    <3> TAKE k \in DOMAIN wire'
    <3>1. CASE k \in DOMAIN wire /\ wire'[k] = wire[k]
      BY <3>1, <2>1, <1>3 DEF Inv, Order
    <3>2. CASE Loaded(u) /\ wire'[k] = u.id
      <4>1. /\ u.id <= seen \/ after = "finTerminal"
            /\ after = "unit" => u.id <= Top
        BY <1>1 DEF Inv, Order
      <4>2. after = "terminal" /\ Draining => u.id <= Top
        <5> SUFFICES ASSUME after = "terminal", Draining PROVE u.id <= Top
          OBVIOUS
        <5>1. Terminal(queue[Len(queue)]) /\ ~Terminal(queue[1])
          BY <1>1 DEF Inv, Terminals, PopsHead, u
        <5>2. 1 < Len(queue) /\ Len(queue) \in DOMAIN queue
          BY <5>1, <1>1
        <5>3. queue[1].id < queue[Len(queue)].id
          BY <5>2, <1>1 DEF Sorted
        <5>4. queue[Len(queue)].id <= seen
          BY <5>2 DEF Inv, Order
        <5>5. queue[Len(queue)].id \in Nat
          BY <5>2
        <5> QED
          BY <5>3, <5>4, <5>5, <1>1, <1>2, SMTT(30)
      <4> QED
        BY <3>2, <4>1, <4>2, <2>1, <1>3 DEF Top, InHand
    <3> QED
      BY <2>5, <3>1, <3>2
  <2>9. \A i \in DOMAIN queue' : /\ Loaded(queue'[i]) => queue'[i].id <= Top' + 1
                                 /\ queue'[i].id <= seen' \/ after' = "finTerminal"
                                 /\ after' = "unit" => queue'[i].id <= Top'
                                 /\ after' = "finTerminal" => ~Loaded(queue'[i])
    BY <1>3, <1>4, <2>1 DEF Inv, Order
  <2> QED
    BY <1>3, <2>2, <2>5, <2>6, <2>7, <2>8, <2>9 DEF Order
<1>11. Room'
  <2>1. Bytes(queue') \in Nat /\ Bytes(queue') <= Bytes(queue)
    BY <1>1, <1>3, <1>4, BytesOfQueue, BytesOfTail
  <2> QED
    BY <2>1, <1>3, PipeAssumption, SMTT(30) DEF Inv, Room
<1>12. LedgerMatches'
  <2>1. CASE pc = "release"
    <3>1. ledger' = Tail(ledger) /\ Len(ledger') = Len(ledger) - 1
          /\ \A i \in 1..Len(ledger) - 1 : ledger'[i] = ledger[i + 1]
      BY <1>3, <1>5, <2>1
    <3> QED
      BY <3>1, <1>4, <1>5, <2>1 DEF LedgerMatches
  <2>2. CASE pc # "release"
    BY <2>2, <1>3 DEF LedgerMatches
  <2> QED
    BY <2>1, <2>2
<1> QED
  BY <1>6, <1>7, <1>8, <1>9, <1>10, <1>11, <1>12 DEF Inv

(* A drain that completed, and the reset a hook asks for at the end.       *)
DrainsOn ==
  /\ pc = "drain" /\ queue = <<>> /\ ledger' = <<>>
  /\ \/ /\ after = "unit" /\ wire' = Append(wire, seen) /\ pc' = "frame" /\ after' = "none"
     \/ /\ after = "fin" /\ pc' = "finish" /\ UNCHANGED <<wire, after>>
  /\ UNCHANGED <<env, closing, framer, observable, now, exit, dest, srcStop, dropped,
                 reported, late, queue, deadline, parked, shapeGate>>

(* A drain that has run empty goes back to what it ran for.                *)
LEMMA DrainsOnInv ==
  ASSUME Inv, DrainsOn
  PROVE  Inv'
<1>0. pc # "over" /\ pc = "drain" /\ queue = <<>> /\ Draining
  BY DEF DrainsOn, Draining
<1> USE <1>0, Running
<1>1. ledger' = <<>>
      /\ UNCHANGED <<clock, sent, srcEnd, holdGate, cancelled, discarding, lost, stopped,
                     closing, now, exit, fed, seen, partial, observable, dest,
                     srcStop, dropped, reported, late, queue, deadline, parked, shapeGate>>
  BY DEF DrainsOn, env, framer
<1>2. \A i \in 1..Top : i \in dropped \/ On(wire, i)
  BY EmptyQueue DEF Covered
<1>3. CASE after = "unit"
  <2>1. wire' = Append(wire, seen) /\ pc' = "frame" /\ after' = "none"
    BY <1>3 DEF DrainsOn
  <2>2. Top = seen - 1 /\ Top' = seen /\ seen >= 1 /\ seen \in 1..Units + 1
    BY <1>1, <1>3, <2>1 DEF Inv, Places, Top, InHand, Draining
  <2>3. \A k \in DOMAIN wire : wire[k] < seen
    <3> TAKE k \in DOMAIN wire
    <3>1. wire[k] <= Top /\ wire[k] \in Nat
      BY <1>3 DEF Inv, Order
    <3> QED
      BY <3>1, <2>2
  <2>4. \A i \in 1..seen - 1 : i \in dropped \/ On(wire, i)
    BY <1>2, <2>2
  <2>5. Increasing(wire') /\ Gapless(wire', dropped) /\ On(wire', seen)
        /\ \A i : On(wire, i) => On(wire', i)
    BY <2>1, <2>3, <2>4, WriteNext
  <2>6. Types'
    <3>1. wire' \in Seq(1..Units + 1)
      BY <2>1, <2>2 DEF Types, TypeOK
    <3>2. ledger' \in Seq(0..Units)
      BY <1>1
    <3> QED
      BY <1>1, <2>1, <3>1, <3>2 DEF Types, TypeOK
  <2>7. Places' /\ Terminals'
    BY <1>1, <2>1 DEF Inv, Places, Draining, InHand, Terminals, LastOnly
  <2>8. Heads'
    BY <1>1 DEF Inv, Heads
  <2>9. Order'
    <3>1. Covered(queue', wire', dropped', Top')
      BY <1>1, <2>2, <2>4, <2>5 DEF Covered
    <3>2. \A k \in DOMAIN wire' : wire'[k] <= Top'
      BY <2>1, <2>2, <2>3, SMTT(30)
    <3> QED
      BY <1>1, <2>1, <2>5, <3>1, <3>2 DEF Order, Behind
  <2>10. Room'
    BY <1>1 DEF Inv, Room
  <2>11. LedgerMatches'
    BY <1>1 DEF LedgerMatches
  <2> QED
    BY <2>6, <2>7, <2>8, <2>9, <2>10, <2>11 DEF Inv
<1>4. CASE after = "fin"
  <2>1. pc' = "finish" /\ UNCHANGED <<wire, after>>
    BY <1>4 DEF DrainsOn
  <2>2. Top = seen /\ Top' = seen
    BY <1>1, <1>4, <2>1 DEF Top, InHand, Draining
  <2>3. Types'
    <3>1. ledger' \in Seq(0..Units)
      BY <1>1
    <3> QED
      BY <1>1, <2>1, <3>1 DEF Types, TypeOK
  <2>4. Places' /\ Terminals'
    BY <1>1, <1>4, <2>1 DEF Inv, Places, Draining, InHand, Terminals, LastOnly
  <2>5. Heads' /\ Room'
    BY <1>1 DEF Inv, Heads, Room
  <2>6. Order'
    BY <1>1, <1>4, <2>1, <2>2 DEF Inv, Order
  <2>7. LedgerMatches'
    BY <2>1 DEF LedgerMatches
  <2> QED
    BY <2>3, <2>4, <2>5, <2>6, <2>7 DEF Inv
<1> QED
  BY <1>3, <1>4 DEF DrainsOn

(* Where the source's end finds the stream: everything it sent is settled. *)
LEMMA AtFinish ==
  ASSUME Inv, pc = "finish"
  PROVE  /\ queue = <<>> /\ after = "fin" /\ seen = fed /\ fed = sent /\ Top = seen
         /\ deadline = Never /\ parked = FALSE
         /\ \A i \in 1..seen : i \in dropped \/ On(wire, i)
         /\ \A k \in DOMAIN wire : wire[k] <= seen
         /\ wire \o FramerTail \in Seq(1..Units + 1)
         /\ Increasing(wire \o FramerTail) /\ Gapless(wire \o FramerTail, dropped)
         /\ \A i : On(wire, i) => On(wire \o FramerTail, i)
         /\ partial => On(wire \o FramerTail, fed + 1)
<1> USE Running
<1>1. queue = <<>> /\ after = "fin" /\ seen = fed /\ fed = sent
  BY DEF Inv, Places
<1>2. Top = seen /\ deadline = Never /\ parked = FALSE
  <2>1. parked \in BOOLEAN
    BY DEF Types, TypeOK
  <2> QED
    BY <1>1, <2>1 DEF Inv, Heads, Top, InHand, Draining
<1>3. \A i \in 1..seen : i \in dropped \/ On(wire, i)
  BY <1>1, <1>2, EmptyQueue DEF Covered
<1>4. \A k \in DOMAIN wire : wire[k] <= seen /\ wire[k] < seen + 1
  <2> TAKE k \in DOMAIN wire
  <2>1. wire[k] <= seen /\ wire[k] \in Nat
    BY <1>1, <1>2 DEF Inv, Order
  <2> QED
    BY <2>1
<1>5. wire \in Seq(1..Units + 1) /\ seen + 1 \in 1..Units + 1 /\ seen + 1 \in Nat
  BY <1>1 DEF Types, TypeOK
<1>6. CASE partial
  <2>1. wire \o FramerTail = Append(wire, seen + 1)
    BY <1>1, <1>5, <1>6 DEF FramerTail
  <2>2. \A i \in 1..(seen + 1) - 1 : i \in dropped \/ On(wire, i)
    BY <1>3
  <2>3. Increasing(Append(wire, seen + 1)) /\ Gapless(Append(wire, seen + 1), dropped)
        /\ On(Append(wire, seen + 1), seen + 1)
        /\ \A i : On(wire, i) => On(Append(wire, seen + 1), i)
    BY <1>4, <1>5, <2>2, WriteNext
  <2>4. Append(wire, seen + 1) \in Seq(1..Units + 1)
    BY <1>5
  <2> QED
    BY <1>1, <1>2, <1>3, <1>4, <2>1, <2>3, <2>4
<1>7. CASE ~partial
  <2>1. wire \o FramerTail = wire
    BY <1>5, <1>7 DEF FramerTail
  <2> QED
    BY <1>1, <1>2, <1>3, <1>4, <1>5, <1>7, <2>1
<1> QED
  BY <1>6, <1>7

(* The hook answers the end with a reset, which is queued and drained to.  *)
FinResets ==
  /\ pc = "finish" /\ wire' = wire \o FramerTail
  /\ Push(Unit(Id, "reset", clock, FALSE), FALSE)
  /\ pc' = "drain" /\ after' = "finTerminal"
  /\ UNCHANGED <<env, closing, framer, observable, now, exit, dest, srcStop, dropped,
                 reported, late>>

(* A FIN that pushes a reset behind the framer's tail keeps the invariant. *)
LEMMA FinResetsInv ==
  ASSUME Inv, FinResets
  PROVE  Inv'
<1>0. pc # "over" /\ pc = "finish"
  BY DEF FinResets
<1> USE <1>0, Running, AtFinish
<1> DEFINE u == Unit(Id, "reset", clock, FALSE)
<1>1. u \in Slots /\ u.id = seen + 1 /\ u.kind = "reset" /\ u.due = clock
  BY PipeAssumption DEF Unit, Slots, Id
<1>2. /\ queue' = Append(queue, u) /\ ledger' = Append(ledger, 0) /\ deadline' = clock
      /\ UNCHANGED <<parked, shapeGate>>
  BY <1>1 DEF FinResets, Push
<1>3. /\ wire' = wire \o FramerTail /\ pc' = "drain" /\ after' = "finTerminal"
      /\ UNCHANGED <<clock, sent, srcEnd, holdGate, cancelled, discarding, lost, stopped,
                     closing, now, exit, fed, seen, partial, observable, dest,
                     srcStop, dropped, reported, late>>
  BY DEF FinResets, env, framer
<1> HIDE DEF u
<1>4. queue' \in Seq(Slots) /\ DOMAIN queue' = 1..1 /\ Len(queue') = 1
      /\ queue'[1] = u /\ queue' # <<>>
  <2>1. queue' = Append(<<>>, u) /\ <<>> \in Seq(Slots) /\ Len(<<>>) = 0
    BY <1>2
  <2> QED
    BY <2>1, <1>1
<1>5. Terminal(u) /\ ~Loaded(u)
  BY <1>1 DEF Terminal, Loaded
<1>6. Top' = seen
  BY <1>3 DEF Top, InHand
<1>7. Types'
  <2>1. ledger' \in Seq(0..Units)
    <3>1. ledger \in Seq(0..Units) /\ 0 \in 0..Units
      BY DEF Types, TypeOK
    <3> QED
      BY <3>1, <1>2
  <2>2. queue' \in Seq(Slots) /\ \A i \in DOMAIN queue' : queue'[i] \in Slots
    BY <1>1, <1>4
  <2>3. wire' \in Seq(1..Units + 1) /\ deadline' \in Nat
    BY <1>2, <1>3
  <2> QED
    BY <1>2, <1>3, <2>1, <2>2, <2>3 DEF Types, TypeOK
<1>8. Places'
  BY <1>3 DEF Inv, Places, Draining, InHand
<1>9. Terminals'
  BY <1>3, <1>4, <1>5 DEF Terminals, LastOnly, Draining
<1>10. Heads'
  <2>1. now' <= clock'
    BY <1>3 DEF Inv, Heads
  <2>2. deadline' = queue'[1].due /\ parked' = FALSE /\ deadline' # Never
    BY <1>1, <1>2, <1>4 DEF Never
  <2> QED
    BY <2>1, <2>2, <1>4 DEF Heads
<1>11. Order'
  <2>1. Sorted(queue')
    BY <1>4 DEF Sorted
  <2>2. Behind(wire', queue')
    BY <1>4, <1>5 DEF Behind
  <2>3. Covered(queue', wire', dropped', Top')
    BY <1>3, <1>6 DEF Covered
  <2>4. Increasing(wire') /\ Gapless(wire', dropped')
    BY <1>3
  <2> QED
    BY <1>3, <1>4, <1>5, <2>1, <2>2, <2>3, <2>4 DEF Order
<1>12. Room'
  <2>1. Bytes(queue') = 0
    BY <1>1, <1>2, <1>5, BytesOfAppend, EmptyQueue
  <2> QED
    BY <2>1, <1>3, PipeAssumption DEF Room
<1>13. LedgerMatches'
  BY <1>3 DEF LedgerMatches
<1> QED
  BY <1>7, <1>8, <1>9, <1>10, <1>11, <1>12, <1>13 DEF Inv

-----------------------------------------------------------------------------
(* What the loop has promised once it returns.                             *)

Promises == /\ WireOrder /\ AccountedFor /\ StopAccounted
            /\ TeardownCountsAll /\ ResetIsMirrored /\ FinIsComplete

(* While it runs nothing has been said yet, and the wire is in order.      *)
LEMMA RunningPromises ==
  ASSUME Inv, pc # "over"
  PROVE  Promises
<1> USE Running
<1>1. WireOrder
  <2> SUFFICES ASSUME NEW j \in DOMAIN wire
               PROVE  InOrder(j)
    BY DEF WireOrder
  <2>1. \A i \in 1..wire[j] : i \in dropped \/ \E k \in 1..j : wire[k] = i
    BY DEF Gapless
  <2> QED
    BY <2>1, WrittenOnce DEF InOrder
<1> QED
  BY <1>1 DEF Promises, AccountedFor, NeverSilentlyGone, StopAccounted, StopIsReported,
              TeardownCountsAll, ResetIsMirrored, FinIsComplete

(* The wire of the loop that returns, whoever wrote its last units.        *)
LEMMA OrderedWire ==
  ASSUME wire' \in Seq(Nat), Increasing(wire'), Gapless(wire', dropped')
  PROVE  WireOrder'
<1> SUFFICES ASSUME NEW j \in DOMAIN wire' PROVE InOrder(j)'
  BY DEF WireOrder
<1>1. \A i \in 1..wire'[j] : i \in dropped' \/ \E k \in 1..j : wire'[k] = i
  BY DEF Gapless
<1>2. \A i \in 1..wire'[j] :
         Cardinality({k \in 1..j : wire'[k] = i}) = 1 \/ (i # wire'[j] /\ i \in dropped')
  BY <1>1, WrittenOnce
<1> QED
  BY <1>2 DEF InOrder

(* A loop that returns: what it keeps, and what it may still have written. *)
Ends ==
  /\ pc # "over" /\ pc' = "over"
  /\ queue' = <<>> /\ deadline' = Never /\ parked' = FALSE
  /\ ledger' \in Seq(0..Units) /\ shapeGate' \in {"none", "shut", "open"}
  /\ dest' \in {"open", "fin", "reset"} /\ {cancelled', closing'} \subseteq BOOLEAN
  /\ UNCHANGED <<clock, sent, srcEnd, holdGate, discarding, lost, stopped, fed, seen, partial,
                 observable, dropped, after, now>>

(* An exit keeps the invariant when what it wrote and counted has a type.  *)
LEMMA EndsInv ==
  ASSUME Inv, Ends, wire' \in Seq(1..Units + 1), reported' \subseteq 1..Units,
         late' \subseteq 1..Units + 1
  PROVE  Inv'
<1>1. Types'
  <2>1. queue' \in Seq(Slots) /\ \A i \in DOMAIN queue' : queue'[i] \in Slots
    BY DEF Ends
  <2>2. deadline' \in Nat \union {Never} /\ parked' \in BOOLEAN
    BY DEF Ends
  <2> QED
    BY <2>1, <2>2 DEF Inv, Ends, Types, TypeOK
<1>2. seen' >= seen
  BY DEF Inv, Ends, Types, TypeOK
<1> QED
  BY <1>1, <1>2, OverInv DEF Ends

(* The exits of which the promises ask nothing: the destination is reset,  *)
(* or the loop was closed under the hook or under the transport.           *)
LEMMA NothingAsked ==
  ASSUME WireOrder',
         \/ /\ dest' = "reset"
            /\ exit' \in {"rejected", "fixupLost", "overflow", "expired", "operator", "terminated"}
         \/ exit' \in {"hookClose", "finFailed", "lost"}
  PROVE  Promises'
  BY DEF Promises, AccountedFor, NeverSilentlyGone, StopAccounted, StopIsReported,
         TeardownCountsAll, ResetIsMirrored, FinIsComplete

(* A stop that leaves at most one unit out. *)
LEMMA StopKept ==
  ASSUME WireOrder', exit' = "stopped", stopped', NEW x,
         \A i \in 1..(IF after' \in {"unit", "terminal"} THEN seen' - 1 ELSE seen') :
            Settled(i)' \/ i = x
  PROVE  Promises'
<1>1. Unsettled' \subseteq {x}
  BY DEF Unsettled
<1>2. Cardinality(Unsettled') <= 1
  <2>1. IsFiniteSet({x}) /\ Cardinality({x}) = 1
    BY FS_Singleton
  <2> QED
    BY <1>1, <2>1, FS_Subset
<1> QED
  BY <1>2 DEF Promises, AccountedFor, NeverSilentlyGone, StopAccounted, StopIsReported,
              TeardownCountsAll, ResetIsMirrored, FinIsComplete

(* An exit that leaves no unit out. *)
LEMMA AllKept ==
  ASSUME Inv, Ends, pc # "frame", \A i \in 1..Top : Settled(i)'
  PROVE  AccountedFor' /\ StopAccounted'
<1>0. pc # "over"
  BY DEF Ends
<1> USE <1>0, Running
<1>1. Owed' = Top /\ (IF after' \in {"unit", "terminal"} THEN seen' - 1 ELSE seen') = Top
  <2>1. after' = after /\ seen' = seen /\ fed' = fed
    BY DEF Ends
  <2>2. InHand <=> after \in {"unit", "terminal"}
    BY DEF Inv, Places, InHand, Draining, Types, TypeOK
  <2>3. after \notin {"unit", "terminal"} => seen = fed
    BY DEF Inv, Places, Draining, Types, TypeOK
  <2> QED
    BY <2>1, <2>2, <2>3 DEF Owed, Top
<1>2. Unsettled' = {}
  BY <1>1 DEF Unsettled
<1>3. Cardinality(Unsettled') = 0
  BY <1>2, FS_EmptySet
<1> QED
  BY <1>1, <1>3 DEF AccountedFor, NeverSilentlyGone, StopAccounted, StopIsReported

(* A write answers with the stop only where there is one. *)
LEMMA WriteErrorIs ==
  ASSUME WriteFails
  PROVE  WriteError \in {"stopped", "lost"} /\ (WriteError = "stopped" => stopped)
BY DEF WriteFails, WriteError

(* propagate_stop, with x the unit whose write failed, if one did.         *)
LEMMA StopInv ==
  ASSUME Inv, pc # "over", NEW rest \in Seq(Slots), NEW x,
         NEW err \in {"stopped", "lost"}, err = "stopped" => stopped,
         PropagateStop(err, rest),
         IdsOf(rest) \subseteq IdsOf(queue),
         \A i \in IdsOf(queue) : i \in IdsOf(rest) \/ i = x,
         UNCHANGED <<env, closing, framer, observable>>
  PROVE  Inv' /\ Promises'
<1> USE Running
<1>1. Ends /\ UNCHANGED <<wire, dropped, late>>
  BY DEF PropagateStop, Return, Clear, Ends, env, framer, Types, TypeOK
<1>2. reported' \subseteq 1..Units
  BY DEF PropagateStop, Stranded
<1>3. wire' \in Seq(1..Units + 1) /\ late' \subseteq 1..Units + 1
  BY <1>1 DEF Types, TypeOK
<1>4. Inv'
  BY <1>1, <1>2, <1>3, EndsInv
<1>5. WireOrder'
  <2>1. wire' \in Seq(Nat) /\ Increasing(wire') /\ Gapless(wire', dropped')
    BY <1>1
  <2> QED
    BY <2>1, OrderedWire
<1>6. CASE err = "lost"
  <2>1. exit' = "lost"
    BY <1>6 DEF PropagateStop, Return
  <2> QED
    BY <1>4, <1>5, <2>1, NothingAsked
<1>7. CASE err = "stopped"
  <2>1. exit' = "stopped" /\ stopped' /\ reported' = IdsOf(rest)
    BY <1>1, <1>7 DEF PropagateStop, Return, Ends, Stranded
  <2>2. (IF after' \in {"unit", "terminal"} THEN seen' - 1 ELSE seen') = Top
    <3>1. after' = after /\ seen' = seen
      BY <1>1 DEF Ends
    <3>2. InHand <=> after \in {"unit", "terminal"}
      BY DEF Inv, Places, InHand, Draining, Types, TypeOK
    <3> QED
      BY <3>1, <3>2 DEF Top
  <2>3. \A i \in 1..Top : Settled(i)' \/ i = x
    BY <1>1, <2>1 DEF Covered, Settled, On
  <2>4. \A i \in 1..(IF after' \in {"unit", "terminal"} THEN seen' - 1 ELSE seen') :
            Settled(i)' \/ i = x
    BY <2>2, <2>3
  <2> QED
    BY <1>4, <1>5, <2>1, <2>4, StopKept
<1> QED
  BY <1>6, <1>7

-----------------------------------------------------------------------------
(* The exits, one by one.                                                  *)

(* A polled unit that ends the loop. *)
LEMMA HandlePromises ==
  ASSUME Inv, HandleUnit
  PROVE  Promises'
<1>1. Inv' /\ PollsOne
  BY HandleInv, HandleShape
<1> USE <1>1, AtFrame
<1>2. CASE pc' # "over"
  <2>1. Inv' /\ (pc # "over")'
    BY <1>2
  <2> QED
    BY <2>1, RunningPromises, PTL
<1>3. CASE pc' = "over"
  <2>1. EndsAtIt
    BY <1>3, HandleShape DEF QueuesIt, ElidesIt, WritesIt, TakesItInHand, task, PollsOne
  <2>2. UNCHANGED <<wire, dropped, reported, after>> /\ stopped' = stopped
    BY <2>1 DEF EndsAtIt, PollsOne
  <2>3. WireOrder'
    <3>1. wire' \in Seq(Nat) /\ Increasing(wire') /\ Gapless(wire', dropped')
      BY <2>2
    <3> QED
      BY <3>1, OrderedWire
  <2>4. CASE exit' # "stopped"
    BY <2>1, <2>2, <2>3, <2>4, NothingAsked DEF EndsAtIt
  <2>5. CASE exit' = "stopped"
    <3>1. stopped' /\ queue = <<>>
      BY <2>1, <2>2, <2>5 DEF EndsAtIt
    <3>2. \A i \in 1..seen : i \in dropped \/ On(wire, i)
      BY <3>1, EmptyQueue DEF Covered
    <3>3. \A i \in 1..seen + 1 : Settled(i)' \/ i = seen + 1
      BY <2>2, <3>2 DEF Settled, On
    <3>4. \A i \in 1..(IF after' \in {"unit", "terminal"} THEN seen' - 1 ELSE seen') :
             Settled(i)' \/ i = seen + 1
      BY <2>2, <3>3
    <3> QED
      BY <2>3, <2>5, <3>1, <3>4, StopKept
  <2> QED
    BY <2>4, <2>5
<1> QED
  BY <1>2, <1>3

(* A reset of the stream that the hook did not ask for. *)
LEMMA GiveUpInv ==
  ASSUME Inv, ExpireHead \/ OperatorReset
  PROVE  Inv' /\ Promises'
<1>1. pc # "over" /\ dest' = "reset" /\ exit' \in {"expired", "operator"}
      /\ Ends /\ UNCHANGED <<wire, dropped, reported, late>>
  <2>1. pc # "over" /\ (GiveUp("expired", "zero") \/ GiveUp("operator", "operator"))
        /\ UNCHANGED <<framer, observable>>
    BY DEF ExpireHead, OperatorReset, InBatch
  <2>2. dest' = "reset" /\ exit' \in {"expired", "operator"} /\ pc' = "over" /\ Clear
        /\ UNCHANGED <<env, closing, wire, dropped, reported, late, after, now>>
    BY <2>1 DEF GiveUp, Return
  <2>3. {cancelled', closing'} \subseteq BOOLEAN
    BY <2>2 DEF env, Inv, Types, TypeOK
  <2> QED
    BY <2>1, <2>2, <2>3 DEF Clear, Ends, env, framer
<1> USE <1>1, Running
<1>2. wire' \in Seq(1..Units + 1) /\ reported' \subseteq 1..Units /\ late' \subseteq 1..Units + 1
  BY DEF Types, TypeOK
<1>3. wire' \in Seq(Nat) /\ Increasing(wire') /\ Gapless(wire', dropped')
  OBVIOUS
<1>4. WireOrder'
  BY <1>3, OrderedWire
<1> QED
  BY <1>2, <1>4, EndsInv, NothingAsked

(* A release that fails, that pops its unit or that meets the terminal. *)
LEMMA ReleaseInv ==
  ASSUME Inv, ReleaseHead
  PROVE  Inv' /\ Promises'
<1>0. pc # "over" /\ InBatch /\ HeadDue
  BY DEF ReleaseHead, InBatch
<1> USE <1>0, Running
<1> DEFINE u == Head(queue)
<1>1. queue # <<>> /\ u = queue[1] /\ u \in Slots /\ 1 \in DOMAIN queue
      /\ u.id \in 1..Units + 1
  BY SlotFields DEF HeadDue, Types
<1>2. UNCHANGED <<env, closing, framer, observable>>
  BY DEF ReleaseHead
<1>3. CASE Loaded(u) /\ WriteFails /\ WriteFailed
  <2>1. CASE pc = "drainBatch" /\ after \in {"fin", "finTerminal"}
    <3>1. Return("finFailed", dest, "zero") /\ Clear /\ UNCHANGED <<wire, dropped, reported, late>>
      BY <1>3, <2>1 DEF WriteFailed
    <3>2. Ends /\ exit' = "finFailed"
      BY <1>2, <3>1 DEF Clear, Return, Ends, Types, TypeOK, env, framer
    <3>3. wire' \in Seq(1..Units + 1) /\ reported' \subseteq 1..Units
          /\ late' \subseteq 1..Units + 1
      BY <3>1 DEF Types, TypeOK
    <3>4. wire' \in Seq(Nat) /\ Increasing(wire') /\ Gapless(wire', dropped')
      BY <3>1
    <3>5. WireOrder'
      BY <3>4, OrderedWire
    <3> QED
      BY <3>2, <3>3, <3>5, EndsInv, NothingAsked
  <2>2. CASE ~(pc = "drainBatch" /\ after \in {"fin", "finTerminal"})
    <3>1. PropagateStop(WriteError, Tail(queue))
      BY <1>3, <2>2 DEF WriteFailed
    <3>2. Tail(queue) \in Seq(Slots) /\ IdsOf(Tail(queue)) \subseteq IdsOf(queue)
      BY <1>1, TailIs, IdsInTail
    <3>3. \A i \in IdsOf(queue) : i \in IdsOf(Tail(queue)) \/ i = u.id
      BY <1>1, IdsOfTail
    <3> QED
      BY <1>2, <1>3, <3>1, <3>2, <3>3, WriteErrorIs, StopInv
  <2> QED
    BY <2>1, <2>2
<1>4. CASE ~Terminal(u) /\ ~(Loaded(u) /\ WriteFails)
  <2>1. PopsHead
    BY <1>4 DEF ReleaseHead, PopsHead
  <2>2. Inv'
    BY <2>1, PopInv
  <2>3. (pc # "over")'
    BY <2>1 DEF PopsHead, task
  <2> QED
    BY <2>2, <2>3, RunningPromises, PTL
<1>5. CASE Terminal(u) /\ ~(Loaded(u) /\ WriteFails)
  <2>1. /\ wire' = IF Loaded(u) THEN Append(wire, u.id) ELSE wire
        /\ Clear /\ Return("terminated", "reset", "zero") /\ UNCHANGED <<dropped, reported, late>>
    BY <1>5 DEF ReleaseHead
  <2>2. Ends /\ exit' = "terminated" /\ dest' = "reset"
    BY <1>2, <2>1 DEF Clear, Return, Ends, Types, TypeOK, env, framer
  <2>3. wire' \in Seq(1..Units + 1) /\ Increasing(wire') /\ Gapless(wire', dropped')
        /\ wire' \in Seq(Nat)
    <3>1. CASE ~Loaded(u)
      BY <2>1, <3>1 DEF Types, TypeOK
    <3>2. CASE Loaded(u)
      <4>1. wire' = Append(wire, u.id) /\ dropped' = dropped
        BY <2>1, <3>2
      <4>2. \A k \in DOMAIN wire : wire[k] < u.id
        BY <1>1, <3>2 DEF Behind
      <4>3. \A i \in 1..u.id - 1 : i \in dropped \/ On(wire, i)
        BY <1>1, <3>2, BeforeHead
      <4>4. u.id \in Nat
        BY <1>1
      <4>5. Append(wire, u.id) \in Seq(1..Units + 1)
        BY <1>1 DEF Types, TypeOK
      <4> HIDE DEF u
      <4> QED
        BY <4>1, <4>2, <4>3, <4>4, <4>5, WriteNext
    <3> QED
      BY <3>1, <3>2
  <2>4. reported' \subseteq 1..Units /\ late' \subseteq 1..Units + 1
    BY <2>1 DEF Types, TypeOK
  <2> QED
    BY <2>2, <2>3, <2>4, EndsInv, OrderedWire, NothingAsked
<1> QED
  BY <1>3, <1>4, <1>5 DEF ReleaseHead

(* The watcher's stop. *)
LEMMA StopWatchInv ==
  ASSUME Inv, StopWatch
  PROVE  Inv' /\ Promises'
<1>1. pc # "over" /\ queue \in Seq(Slots) /\ stopped /\ PropagateStop("stopped", queue)
      /\ UNCHANGED <<env, closing, framer, observable>>
  BY DEF StopWatch, Inv, Types
<1> QED
  BY <1>1, StopInv

(* The end of a drain, whichever it was for.                               *)
LEMMA DrainDoneInv ==
  ASSUME Inv, DrainDone
  PROVE  Inv' /\ Promises'
<1>1. CASE DrainsOn
  <2>1. Inv' /\ (pc # "over")'
    BY <1>1, DrainsOnInv DEF DrainsOn
  <2> QED
    BY <2>1, RunningPromises, PTL
<1>2. CASE WriteFails /\ PropagateStop(WriteError, <<>>)
  <2>1. pc # "over" /\ queue = <<>> /\ <<>> \in Seq(Slots)
        /\ UNCHANGED <<env, closing, framer, observable>>
    BY DEF DrainDone
  <2> QED
    BY <1>2, <2>1, WriteErrorIs, StopInv
<1> QED
  BY <1>1, <1>2 DEF DrainDone, DrainsOn, Write, ends

(* The end of the source. *)
LEMMA FinishInv ==
  ASSUME Inv, FinishStream
  PROVE  Inv' /\ Promises'
<1>0. pc # "over" /\ pc = "finish"
  BY DEF FinishStream
<1> USE <1>0, Running, AtFinish
<1>1. UNCHANGED <<clock, sent, srcEnd, holdGate, discarding, lost, stopped, framer, observable>>
  BY DEF FinishStream
<1>2. CASE partial /\ WriteFails /\ PropagateStop(WriteError, <<>>) /\ UNCHANGED <<cancelled, closing>>
  <2>1. queue = <<>> /\ <<>> \in Seq(Slots)
        /\ UNCHANGED <<env, closing, framer, observable>>
    BY <1>1, <1>2 DEF env
  <2> QED
    BY <1>2, <2>1, WriteErrorIs, StopInv
<1>3. CASE ~(partial /\ WriteFails /\ PropagateStop(WriteError, <<>>) /\ UNCHANGED <<cancelled, closing>>)
  <2>1. wire' = wire \o FramerTail /\ UNCHANGED <<dropped, reported, late>>
    BY <1>3 DEF FinishStream
  <2>2. PICK end \in EndActions :
          /\ \/ /\ end = "Pass" /\ Return("finished", "fin", "none")
                /\ UNCHANGED queued
             \/ /\ end = "Close" /\ Return("hookClose", dest, "none")
                /\ UNCHANGED queued
             \/ /\ end = "Reset" /\ Push(Unit(Id, "reset", clock, FALSE), FALSE)
                /\ pc' = "drain" /\ after' = "finTerminal"
                /\ UNCHANGED <<now, exit, dest, srcStop>>
          /\ cancelled' = (cancelled \/ end = "Close")
          /\ closing' = (closing \/ end = "Close")
    BY <1>3 DEF FinishStream
  <2>3. {cancelled', closing'} \subseteq BOOLEAN
    BY <2>2
  <2>4. wire' \in Seq(1..Units + 1) /\ wire' \in Seq(Nat)
        /\ Increasing(wire') /\ Gapless(wire', dropped')
        /\ reported' \subseteq 1..Units /\ late' \subseteq 1..Units + 1
    BY <2>1, PipeAssumption DEF Types, TypeOK
  <2>5. WireOrder'
    BY <2>4, OrderedWire
  <2>6. CASE end = "Reset"
    <3>1. cancelled' = cancelled /\ closing' = closing
      <4>1. cancelled \in BOOLEAN /\ closing \in BOOLEAN
        BY DEF Types, TypeOK
      <4> QED
        BY <2>2, <2>6, <4>1, Zenon
    <3>2. FinResets
      BY <1>1, <2>1, <2>2, <2>6, <3>1 DEF FinResets, env
    <3>3. Inv' /\ (pc # "over")'
      BY <3>2, FinResetsInv DEF FinResets
    <3> QED
      BY <3>3, RunningPromises, PTL
  <2>7. CASE end # "Reset"
    <3>1. Ends /\ exit' \in {"finished", "hookClose"}
      BY <1>1, <2>1, <2>2, <2>3, <2>7 DEF Ends, Return, queued, framer, Types, TypeOK
    <3>2. Inv'
      BY <3>1, <2>4, EndsInv
    <3>3. CASE exit' = "hookClose"
      BY <3>2, <3>3, <2>5, NothingAsked
    <3>4. CASE exit' = "finished"
      <4>1. \A i \in 1..Top : i \in dropped' \/ \E k \in DOMAIN wire' : wire'[k] = i
        BY <2>1 DEF On
      <4>2. AccountedFor' /\ StopAccounted'
        BY <4>1, <3>1, AllKept DEF Settled
      <4>3. FinIsComplete'
        <5>1. UNCHANGED <<fed, sent, partial>>
          BY <1>1 DEF framer
        <5>2. partial => \E k \in DOMAIN wire' : wire'[k] = fed + 1
          BY <2>1 DEF On
        <5>3. \A i \in 1..(IF partial THEN fed + 1 ELSE fed) :
                 i \in dropped' \/ \E k \in DOMAIN wire' : wire'[k] = i
          BY <4>1, <5>2
        <5> QED
          BY <5>1, <5>3 DEF FinIsComplete
      <4> QED
        BY <2>5, <3>2, <3>4, <4>2, <4>3 DEF Promises, TeardownCountsAll, ResetIsMirrored
    <3> QED
      BY <3>1, <3>3, <3>4
  <2> QED
    BY <2>6, <2>7
<1> QED
  BY <1>2, <1>3

-----------------------------------------------------------------------------
(* The teardown flush.                                                     *)

(* A queue that holds the bytes of this one, in order. *)
Carries(q) == q \in Seq(Slots) /\ LastOnly(q) /\ Sorted(q) /\ IdsOf(q) = IdsOf(queue)

(* What a flush of it leaves on the wire, and what it counts.              *)
LEMMA FlushOf ==
  ASSUME Inv, pc # "over", NEW q, Carries(q), NEW n \in FlushLengths(q)
  PROVE  /\ wire \o Written(q, n) \in Seq(1..Units + 1) /\ wire \o Written(q, n) \in Seq(Nat)
         /\ Increasing(wire \o Written(q, n)) /\ Gapless(wire \o Written(q, n), dropped)
         /\ \A i : On(wire, i) => On(wire \o Written(q, n), i)
         /\ ~discarding /\ ~Broken(q, n) =>
               \A i \in 1..Top : i \in dropped \/ On(wire \o Written(q, n), i)
         /\ after # "finTerminal" =>
               \A k \in DOMAIN (wire \o Written(q, n)) : (wire \o Written(q, n))[k] <= seen
         /\ IdsOf(SubSeq(q, 1, n)) \subseteq Unconfirmed(q, n)
         /\ Unconfirmed(q, n) \subseteq 1..Units
         /\ ~Terminated(q, n) => Unconfirmed(q, n) = IdsOf(queue)
         /\ n \in 0..Len(q)
<1> USE Running
<1> DEFINE w == wire \o Written(q, n)
<1>1. q \in Seq(Slots) /\ LastOnly(q) /\ Sorted(q) /\ IdsOf(q) = IdsOf(queue)
  BY DEF Carries
<1>2. n \in 0..Len(q) /\ (~discarding /\ ~Broken(q, n) => n = Len(q))
  BY <1>1, FlushLengthsIn
<1>3. \A i \in DOMAIN q : Loaded(q[i]) =>
         \E j \in DOMAIN queue : Loaded(queue[j]) /\ queue[j].id = q[i].id
  BY <1>1, IdsOfQueue
<1>4. Behind(wire, q)
  BY <1>3 DEF Behind
<1>5. Covered(q, wire, dropped, Top)
  BY <1>1 DEF Covered
<1>6. \A i \in DOMAIN q : Loaded(q[i]) => q[i].id <= Top + 1
  BY <1>3 DEF Inv, Order
<1>7. /\ w \in Seq(Nat) /\ Increasing(w) /\ Gapless(w, dropped)
      /\ \A i : On(wire, i) => On(w, i)
      /\ n = Len(q) => Covered(<<>>, w, dropped, Top)
      /\ \A k \in DOMAIN w :
            \/ k \in DOMAIN wire /\ w[k] = wire[k]
            \/ \E i \in DOMAIN q : Loaded(q[i]) /\ w[k] = q[i].id
  <2>1. wire \in Seq(Nat) /\ Top \in Nat /\ Increasing(wire) /\ Gapless(wire, dropped)
    OBVIOUS
  <2> QED
    BY ONLY <2>1, <1>1, <1>2, <1>4, <1>5, <1>6, FlushInOrder, Zenon
<1>8. w \in Seq(1..Units + 1)
  <2>1. wire \in Seq(1..Units + 1) /\ Written(q, n) \in Seq(1..Units + 1)
    BY <1>1, <1>2, WrittenIs DEF Types, TypeOK
  <2> QED
    BY <2>1
<1> HIDE DEF w
<1>9. ~discarding /\ ~Broken(q, n) => \A i \in 1..Top : i \in dropped \/ On(w, i)
  BY <1>2, <1>7, EmptyQueue DEF Covered
<1>10. ASSUME after # "finTerminal", NEW k \in DOMAIN w
       PROVE  w[k] <= seen
  <2>1. CASE k \in DOMAIN wire /\ w[k] = wire[k]
    <3>1. wire[k] <= Top /\ wire[k] \in Nat
      BY <1>10, <2>1, SMTT(30) DEF Inv, Order
    <3> QED
      BY <2>1, <3>1
  <2>2. CASE \E i \in DOMAIN q : Loaded(q[i]) /\ w[k] = q[i].id
    <3>1. PICK j \in DOMAIN queue : queue[j].id = w[k]
      BY <2>2, <1>3
    <3> QED
      BY <3>1, <1>10 DEF Inv, Order
  <2> QED
    BY <1>7, <2>1, <2>2
<1>11. IdsOf(SubSeq(q, 1, n)) \subseteq IdsOf(q)
  BY <1>1, <1>2, IdsOfSubSeq
<1>12. /\ IdsOf(SubSeq(q, 1, n)) \subseteq Unconfirmed(q, n)
       /\ Unconfirmed(q, n) \subseteq 1..Units
       /\ ~Terminated(q, n) => Unconfirmed(q, n) = IdsOf(queue)
  BY <1>1, <1>11 DEF Unconfirmed
<1> QED
  BY <1>2, <1>7, <1>8, <1>9, <1>10, <1>12 DEF w

(* Each unit is on the wire, elided or counted. *)
LEMMA FlushKept ==
  ASSUME Inv, Ends, pc # "frame", IdsOf(queue) \subseteq reported',
         \A i : On(wire, i) => On(wire', i)
  PROVE  AccountedFor' /\ StopAccounted'
<1>0. pc # "over" /\ dropped' = dropped
  BY DEF Ends
<1>1. Covered(queue, wire, dropped, Top)
  BY <1>0, Running
<1>2. \A i \in 1..Top : Settled(i)'
  BY <1>0, <1>1 DEF Covered, Settled, On
<1> QED
  BY <1>2, AllKept

(* A cancelled drain flushes or discards what is left.                     *)
LEMMA CancelDrainInv ==
  ASSUME Inv, CancelDrain
  PROVE  Inv' /\ Promises'
<1>0. pc # "over" /\ pc # "frame"
  BY DEF CancelDrain
<1> USE <1>0, Running
<1>1. PICK n \in FlushLengths(queue) :
        /\ wire' = wire \o Written(queue, n)
        /\ late' = late \union IdsOf(SubSeq(queue, 1, n))
        /\ IF Terminated(queue, n)
           THEN Return("terminated", "reset", "zero") /\ UNCHANGED reported
           ELSE /\ Return("drainCancelled", dest, "zero")
                /\ reported' = reported \union Unconfirmed(queue, n)
  BY DEF CancelDrain
<1>2. Carries(queue)
  BY DEF Carries, Inv, Terminals
<1>3. /\ wire' \in Seq(1..Units + 1) /\ wire' \in Seq(Nat)
      /\ Increasing(wire') /\ Gapless(wire', dropped)
      /\ \A i : On(wire, i) => On(wire', i)
      /\ IdsOf(SubSeq(queue, 1, n)) \subseteq Unconfirmed(queue, n)
      /\ Unconfirmed(queue, n) \subseteq 1..Units
      /\ ~Terminated(queue, n) => Unconfirmed(queue, n) = IdsOf(queue)
  BY <1>1, <1>2, FlushOf
<1>4. Ends
  <2>1. Clear /\ UNCHANGED <<env, closing, framer, observable, dropped>>
    BY DEF CancelDrain
  <2>2. pc' = "over" /\ UNCHANGED <<after, now>> /\ dest' \in {"open", "fin", "reset"}
    BY <1>1 DEF Return
  <2>3. {cancelled', closing'} \subseteq BOOLEAN
    BY <2>1 DEF env, Types, TypeOK
  <2> QED
    BY <2>1, <2>2, <2>3 DEF Ends, Clear, env, framer
<1>5. reported' \subseteq 1..Units /\ late' \subseteq 1..Units + 1
      /\ late' = IdsOf(SubSeq(queue, 1, n))
  BY <1>1, <1>3, SMTT(30)
<1>6. Inv'
  BY <1>3, <1>4, <1>5, EndsInv
<1>7. WireOrder'
  BY <1>3, <1>4, OrderedWire DEF Ends
<1>8. CASE Terminated(queue, n)
  <2>1. dest' = "reset" /\ exit' = "terminated"
    BY <1>1, <1>8 DEF Return
  <2> QED
    BY <1>6, <1>7, <2>1, NothingAsked
<1>9. CASE ~Terminated(queue, n)
  <2>1. exit' = "drainCancelled" /\ reported' = IdsOf(queue)
    BY <1>1, <1>3, <1>9 DEF Return
  <2>2. AccountedFor' /\ StopAccounted'
    BY <1>3, <1>4, <2>1, FlushKept
  <2>3. TeardownCountsAll'
    BY <1>3, <1>5, <1>9, <2>1 DEF TeardownCountsAll
  <2> QED
    BY <1>6, <1>7, <2>1, <2>2, <2>3 DEF Promises, ResetIsMirrored, FinIsComplete
<1> QED
  BY <1>8, <1>9

(* The cancellation branch of select! does the same.                       *)
LEMMA CancelBranchInv ==
  ASSUME Inv, CancelBranch
  PROVE  Inv' /\ Promises'
<1>0. pc # "over" /\ pc # "frame" /\ pc = "select"
  BY DEF CancelBranch
<1> USE <1>0, Running
<1>1. PICK n \in FlushLengths(queue) :
        LET ended == Terminated(queue, n)
            tail  == IF ended \/ WriteFails \/ Broken(queue, n) THEN <<>> ELSE FramerTail
        IN  /\ wire' = wire \o Written(queue, n) \o tail
            /\ late' = late \union IdsOf(SubSeq(queue, 1, n))
                            \union {tail[i] : i \in DOMAIN tail}
            /\ reported' = reported \union Unconfirmed(queue, n)
            /\ Return("cancelled", IF ended THEN "reset" ELSE dest, "zero")
  BY DEF CancelBranch
<1> DEFINE tail == IF Terminated(queue, n) \/ WriteFails \/ Broken(queue, n)
                   THEN <<>> ELSE FramerTail
           w == wire \o Written(queue, n)
<1>2. Carries(queue) /\ after = "none" /\ seen = fed /\ Top = seen
  BY DEF Carries, Inv, Terminals, Places, Top, InHand, Draining
<1>3. /\ w \in Seq(1..Units + 1) /\ w \in Seq(Nat)
      /\ Increasing(w) /\ Gapless(w, dropped)
      /\ \A i : On(wire, i) => On(w, i)
      /\ ~discarding /\ ~Broken(queue, n) => \A i \in 1..Top : i \in dropped \/ On(w, i)
      /\ \A k \in DOMAIN w : w[k] <= seen
      /\ IdsOf(SubSeq(queue, 1, n)) \subseteq Unconfirmed(queue, n)
      /\ Unconfirmed(queue, n) \subseteq 1..Units
      /\ ~Terminated(queue, n) => Unconfirmed(queue, n) = IdsOf(queue)
  BY <1>2, FlushOf
<1>4. tail = <<>> \/ (tail = <<fed + 1>> /\ ~Broken(queue, n))
  BY DEF FramerTail
<1>5. /\ wire' = w \o tail
      /\ late' = IdsOf(SubSeq(queue, 1, n)) \union {tail[i] : i \in DOMAIN tail}
      /\ reported' = Unconfirmed(queue, n)
      /\ Return("cancelled", IF Terminated(queue, n) THEN "reset" ELSE dest, "zero")
  BY <1>1
<1> HIDE DEF tail, w
<1>6. {tail[i] : i \in DOMAIN tail} \subseteq {fed + 1}
  BY <1>4
<1>7. Ends /\ exit' = "cancelled" /\ (Terminated(queue, n) => dest' = "reset")
  <2>1. Clear /\ UNCHANGED <<env, closing, framer, observable, dropped>>
    BY DEF CancelBranch
  <2>2. pc' = "over" /\ UNCHANGED <<after, now>> /\ dest' \in {"open", "fin", "reset"}
        /\ exit' = "cancelled" /\ (Terminated(queue, n) => dest' = "reset")
    BY <1>5 DEF Return
  <2>3. {cancelled', closing'} \subseteq BOOLEAN
    BY <2>1 DEF env, Types, TypeOK
  <2> QED
    BY <2>1, <2>2, <2>3 DEF Ends, Clear, env, framer
<1>8. fed + 1 \in 1..Units + 1 /\ fed' = fed /\ discarding' = discarding /\ dropped' = dropped
  BY <1>7 DEF Ends
<1>9. /\ wire' \in Seq(1..Units + 1) /\ WireOrder'
      /\ \A i : On(wire, i) => On(wire', i)
  <2>1. CASE tail = <<>>
    <3>1. wire' = w
      BY <1>3, <1>5, <2>1
    <3> QED
      BY <3>1, <1>3, <1>8, OrderedWire
  <2>2. CASE tail = <<fed + 1>> /\ ~Broken(queue, n)
    <3>1. wire' = Append(w, fed + 1) /\ fed + 1 \in Nat
      BY <1>3, <1>5, <2>2, SMTT(30)
    <3>2. \A k \in DOMAIN w : w[k] < fed + 1
      <4> TAKE k \in DOMAIN w
      <4>1. w[k] <= seen
        BY <1>3, Zenon
      <4>2. w \in Seq(Nat)
        BY <1>3, Zenon
      <4>3. w[k] \in Nat
        BY ONLY <4>2, k \in DOMAIN w
      <4> QED
        BY <4>1, <4>3, <1>2
    <3>3. wire' \in Seq(1..Units + 1)
      BY <1>3, <1>8, <3>1
    <3>4. /\ wire' \in Seq(Nat) /\ Increasing(wire')
          /\ \A i : On(w, i) => On(wire', i)
          /\ \A j \in DOMAIN wire' : wire'[j] # fed + 1 =>
               \A i \in 1..wire'[j] : i \in dropped \/ \E k \in 1..j : wire'[k] = i
      <4>1. w \in Seq(Nat) /\ Increasing(w) /\ Gapless(w, dropped)
        BY <1>3, Zenon
      <4>2. /\ Append(w, fed + 1) \in Seq(Nat) /\ Increasing(Append(w, fed + 1))
            /\ \A i : On(w, i) => On(Append(w, fed + 1), i)
            /\ \A j \in DOMAIN Append(w, fed + 1) : Append(w, fed + 1)[j] # fed + 1 =>
                 \A i \in 1..Append(w, fed + 1)[j] :
                    i \in dropped \/ \E k \in 1..j : Append(w, fed + 1)[k] = i
        <5> DEFINE x == fed + 1
        <5>1. x \in Nat /\ \A k \in DOMAIN w : w[k] < x
          BY <3>1, <3>2, Zenon
        <5> HIDE DEF x
        <5>2. /\ Append(w, x) \in Seq(Nat) /\ Increasing(Append(w, x))
              /\ \A i : On(w, i) => On(Append(w, x), i)
              /\ \A j \in DOMAIN Append(w, x) : Append(w, x)[j] # x =>
                   \A i \in 1..Append(w, x)[j] :
                      i \in dropped \/ \E k \in 1..j : Append(w, x)[k] = i
          BY ONLY <4>1, <5>1, WriteBehind, SMTT(30)
        <5> QED
          BY <5>2, Zenon DEF x
      <4> QED
        BY ONLY <4>2, <3>1, Zenon
    <3>5. WireOrder'
      <4>1. CASE ~discarding
        <5>1. \A i \in 1..(fed + 1) - 1 : i \in dropped \/ On(w, i)
          BY <1>2, <1>3, <2>2, <4>1
        <5>2. Gapless(wire', dropped)
          BY ONLY <1>3, <3>1, <3>2, <5>1, WriteNext
        <5> QED
          BY <1>8, <3>4, <5>2, OrderedWire
      <4>2. CASE discarding
        <5> SUFFICES ASSUME NEW j \in DOMAIN wire', wire'[j] <= fed
                     PROVE  InOrder(j)'
          BY <1>8, <4>2 DEF WireOrder
        <5>1. wire'[j] # fed + 1
          OBVIOUS
        <5>2. \A i \in 1..wire'[j] : i \in dropped \/ \E k \in 1..j : wire'[k] = i
          BY <3>4, <5>1
        <5>3. \A i \in 1..wire'[j] : Cardinality({k \in 1..j : wire'[k] = i}) = 1
                                      \/ (i # wire'[j] /\ i \in dropped)
          BY <3>4, <5>2, WrittenOnce
        <5> QED
          BY <5>3, <1>8 DEF InOrder
      <4> QED
        BY <4>1, <4>2
    <3> QED
      BY <1>3, <3>3, <3>4, <3>5
  <2> QED
    BY <1>4, <2>1, <2>2
<1>10. reported' \subseteq 1..Units /\ late' \subseteq 1..Units + 1
  <2>1. reported' \subseteq 1..Units /\ IdsOf(SubSeq(queue, 1, n)) \subseteq 1..Units
    BY <1>3, <1>5
  <2>2. 1..Units \subseteq 1..Units + 1
    OBVIOUS
  <2> QED
    BY <1>5, <1>6, <1>8, <2>1, <2>2
<1>11. Inv'
  BY <1>7, <1>9, <1>10, EndsInv
<1>12. AccountedFor' /\ StopAccounted'
  <2>1. CASE Terminated(queue, n)
    BY <1>7, <2>1 DEF AccountedFor, NeverSilentlyGone, StopAccounted, StopIsReported
  <2>2. CASE ~Terminated(queue, n)
    BY <1>3, <1>5, <1>7, <1>9, <2>2, FlushKept
  <2> QED
    BY <2>1, <2>2
<1>13. TeardownCountsAll'
  BY <1>3, <1>5, <1>6, <1>8 DEF TeardownCountsAll
<1> QED
  BY <1>7, <1>9, <1>11, <1>12, <1>13 DEF Promises, ResetIsMirrored, FinIsComplete

(* A reset of the source is mirrored after what is queued is settled.      *)
LEMMA MirrorInv ==
  ASSUME Inv, MirrorReset
  PROVE  Inv' /\ Promises'
<1>0. pc # "over" /\ pc # "frame" /\ pc = "select"
  BY DEF MirrorReset
<1> USE <1>0, Running
<1> DEFINE u == Unit(Id, "reset", clock, FALSE)
           flushed(end) == IF end = "Reset" THEN Append(queue, u) ELSE queue
<1>1. PICK end \in EndActions :
        /\ \E n \in FlushLengths(flushed(end)) :
              /\ wire' = wire \o Written(flushed(end), n)
              /\ late' = late \union IdsOf(SubSeq(flushed(end), 1, n))
              /\ reported' = reported \union Unconfirmed(flushed(end), n)
              /\ Return(IF Broken(flushed(end), n) THEN "mirrorFailed" ELSE "mirrored",
                        IF DestReset(end, flushed(end), n) THEN "reset" ELSE dest, "zero")
        /\ cancelled' = (cancelled \/ end = "Close")
        /\ closing' = (closing \/ end = "Close")
  BY DEF MirrorReset
<1> DEFINE q == flushed(end)
<1>2. PICK n \in FlushLengths(q) :
        /\ wire' = wire \o Written(q, n)
        /\ late' = late \union IdsOf(SubSeq(q, 1, n))
        /\ reported' = reported \union Unconfirmed(q, n)
        /\ Return(IF Broken(q, n) THEN "mirrorFailed" ELSE "mirrored",
                  IF DestReset(end, q, n) THEN "reset" ELSE dest, "zero")
  BY <1>1
<1>3. u \in Slots /\ u.id = seen + 1 /\ Terminal(u) /\ ~Loaded(u)
  BY PipeAssumption, SMTT(30) DEF Unit, Slots, Id, Terminal, Loaded
<1>4. q = IF end = "Reset" THEN Append(queue, u) ELSE queue
  OBVIOUS
<1> HIDE DEF u, q, flushed
<1>5. Carries(q) /\ (end = "Reset" => Len(q) > 0 /\ Terminal(q[Len(q)]))
  <2>1. LastOnly(queue) /\ \A i \in DOMAIN queue : ~Terminal(queue[i]) /\ queue[i].id <= seen
    BY DEF Inv, Terminals, Draining, Order, Places
  <2>2. CASE end # "Reset"
    BY <1>4, <2>1, <2>2 DEF Carries
  <2>3. CASE end = "Reset"
    <3>1. /\ q \in Seq(Slots) /\ Len(q) = Len(queue) + 1 /\ DOMAIN q = 1..Len(queue) + 1
          /\ q[Len(queue) + 1] = u /\ \A i \in 1..Len(queue) : q[i] = queue[i]
      BY <1>3, <1>4, <2>3
    <3>1a. \A i \in DOMAIN q : (i \in DOMAIN queue /\ q[i] = queue[i] /\ i < Len(q))
                               \/ (i = Len(q) /\ q[i] = u)
      BY <3>1
    <3>2. LastOnly(q)
      BY <2>1, <3>1a DEF LastOnly
    <3>3. Sorted(q)
      <4> SUFFICES ASSUME NEW i \in DOMAIN q, NEW j \in DOMAIN q, i < j
                   PROVE  q[i].id < q[j].id
        BY DEF Sorted
      <4>1. i \in DOMAIN queue /\ q[i] = queue[i] /\ queue[i].id \in Nat /\ queue[i].id <= seen
        BY <2>1, <3>1, SMTT(30)
      <4>2. CASE j \in DOMAIN queue
        BY <3>1, <4>1, <4>2 DEF Sorted
      <4>3. CASE j = Len(queue) + 1
        BY <1>3, <3>1, <4>1, <4>3, SMTT(30)
      <4> QED
        BY <3>1, <3>1a, <4>2, <4>3
    <3>4. IdsOf(q) = IdsOf(queue)
      <4>1. IdsOf(queue) \subseteq IdsOf(q)
        BY <1>3, <1>4, <2>3, IdsOfAppend
      <4>2. ASSUME NEW x \in IdsOf(q) PROVE x \in IdsOf(queue)
        <5>1. PICK i \in DOMAIN q : Loaded(q[i]) /\ q[i].id = x
          BY <3>1, IdsOfQueue
        <5>2. i \in DOMAIN queue /\ q[i] = queue[i]
          BY <5>1, <3>1a, <1>3
        <5> QED
          BY <5>1, <5>2, IdsOfQueue
      <4> QED
        BY <4>1, <4>2
    <3> QED
      BY <1>3, <3>1, <3>2, <3>3, <3>4 DEF Carries
  <2> QED
    BY <2>2, <2>3
<1>6. /\ wire' \in Seq(1..Units + 1) /\ wire' \in Seq(Nat)
      /\ Increasing(wire') /\ Gapless(wire', dropped)
      /\ \A i : On(wire, i) => On(wire', i)
      /\ IdsOf(SubSeq(q, 1, n)) \subseteq Unconfirmed(q, n)
      /\ Unconfirmed(q, n) \subseteq 1..Units
      /\ ~Terminated(q, n) => Unconfirmed(q, n) = IdsOf(queue)
  BY <1>2, <1>5, FlushOf
<1>7. Ends
  <2>1. Clear /\ UNCHANGED <<clock, sent, srcEnd, holdGate, discarding, lost, stopped, framer,
                             observable, dropped>>
    BY DEF MirrorReset
  <2>2. pc' = "over" /\ UNCHANGED <<after, now>> /\ dest' \in {"open", "fin", "reset"}
    BY <1>2 DEF Return
  <2>3. {cancelled', closing'} \subseteq BOOLEAN
    BY <1>1
  <2> QED
    BY <2>1, <2>2, <2>3 DEF Ends, Clear, framer
<1>8. /\ reported' = Unconfirmed(q, n) /\ late' = IdsOf(SubSeq(q, 1, n))
      /\ exit' = (IF Broken(q, n) THEN "mirrorFailed" ELSE "mirrored")
      /\ DestReset(end, q, n) => dest' = "reset"
  BY <1>2 DEF Return
<1>9. reported' \subseteq 1..Units /\ late' \subseteq 1..Units + 1
  BY <1>6, <1>8
<1>10. Inv'
  BY <1>6, <1>7, <1>9, EndsInv
<1>11. WireOrder'
  BY <1>6, <1>7, OrderedWire DEF Ends
<1>12. AccountedFor' /\ StopAccounted'
  <2>1. CASE Terminated(q, n)
    <3>1. dest' = "reset"
      BY <1>8, <2>1 DEF DestReset
    <3> QED
      BY <3>1 DEF AccountedFor, NeverSilentlyGone, StopAccounted, StopIsReported
  <2>2. CASE ~Terminated(q, n)
    BY <1>6, <1>7, <1>8, <2>2, FlushKept
  <2> QED
    BY <2>1, <2>2
<1>13. TeardownCountsAll'
  BY <1>6, <1>8 DEF TeardownCountsAll
<1>14. ResetIsMirrored'
  <2> SUFFICES ASSUME exit' = "mirrored", ~discarding'
               PROVE  dest' = "reset"
    BY DEF ResetIsMirrored
  <2>1. ~discarding /\ ~Broken(q, n)
    BY <1>7, <1>8 DEF Ends
  <2>2. n = Len(q)
    BY <1>5, <2>1, FlushLengthsIn DEF Carries
  <2>3. DestReset(end, q, n)
    BY <1>5, <2>2 DEF DestReset, Terminated
  <2> QED
    BY <1>8, <2>3
<1>15. FinIsComplete'
  BY <1>8 DEF FinIsComplete
<1> QED
  BY <1>10, <1>11, <1>12, <1>13, <1>14, <1>15 DEF Promises

-----------------------------------------------------------------------------
(* Every step keeps the invariant and the promises.                        *)

(* Every step keeps the invariant and the promises.                        *)
LEMMA StepInv ==
  ASSUME Inv, Promises, [Next]_vars
  PROVE  Inv' /\ Promises'
<1>1. ASSUME World
      PROVE  Inv' /\ Promises'
  <2>1. Inv' /\ (pc # "over")'
    BY <1>1, WorldInv, WorldKeeps DEF Inv, task
  <2> QED
    BY <2>1, RunningPromises, PTL
<1>2. ASSUME ReadChunk \/ EndChunk \/ ResetUnobservable
      PROVE  Inv' /\ Promises'
  <2>1. Inv' /\ (pc # "over")'
    BY <1>2, ReadInv DEF ReadChunk, EndChunk, ResetUnobservable, task
  <2> QED
    BY <2>1, RunningPromises, PTL
<1>3. ASSUME WakeRelease \/ WakeDrain \/ EndBatch \/ ReadFin \/ RefuseHead
      PROVE  Inv' /\ Promises'
  <2>1. Inv' /\ (pc # "over")'
    BY <1>3, WakeInv DEF WakeRelease, WakeDrain, EndBatch, ReadFin, RefuseHead, BatchOver
  <2> QED
    BY <2>1, RunningPromises, PTL
<1>4. ASSUME HandleUnit
      PROVE  Inv' /\ Promises'
  BY <1>4, HandleInv, HandlePromises
<1>5. ASSUME UNCHANGED vars
      PROVE  Inv' /\ Promises'
  <2>1. UNCHANGED <<clock, sent, srcEnd, holdGate, cancelled, discarding, lost, stopped, queue,
                    ledger, deadline, parked, shapeGate, wire, dest, srcStop, dropped, reported,
                    late, closing, pc, after, now, exit, fed, seen, partial, observable>>
    BY <1>5 DEF vars, env, task, framer, queued, ends
  <2>2. Types' /\ Places' /\ Heads'
    BY <2>1 DEF Inv, Types, TypeOK, Places, Draining, InHand, Heads
  <2>3. Terminals' /\ Order' /\ Room' /\ LedgerMatches'
    BY <2>1 DEF Inv, Terminals, Draining, InHand, Top, Order, Room, LedgerMatches
  <2>4. WireOrder' /\ TeardownCountsAll' /\ ResetIsMirrored' /\ FinIsComplete'
    BY <2>1 DEF Promises, WireOrder, InOrder, TeardownCountsAll, ResetIsMirrored, FinIsComplete
  <2>5. AccountedFor' /\ StopAccounted'
    BY <2>1 DEF Promises, AccountedFor, NeverSilentlyGone, Settled, Owed, StopAccounted,
                StopIsReported, Unsettled
  <2> QED
    BY <2>2, <2>3, <2>4, <2>5 DEF Inv, Promises
<1> QED
  BY <1>1, <1>2, <1>3, <1>4, <1>5, GiveUpInv, ReleaseInv, StopWatchInv, DrainDoneInv,
     FinishInv, CancelDrainInv, CancelBranchInv, MirrorInv DEF Next, Branch, Body

(* A fresh stream has promised nothing yet.                                *)
LEMMA InitPromises == Init => Inv /\ Promises
<1> SUFFICES ASSUME Init PROVE Inv /\ Promises
  OBVIOUS
<1>1. Inv /\ pc # "over"
  BY InitInv DEF Init
<1> QED
  BY <1>1, RunningPromises

(* The invariant and the promises hold throughout.                         *)
LEMMA Kept == Spec => [](Inv /\ Promises)
  BY InitPromises, StepInv, PTL DEF Spec

(* Every variable keeps its type, and the framer polls no more units than  *)
(* were fed and feeds no more than were sent.                              *)
THEOREM TypeCorrect == Spec => []TypeOK
<1>1. Inv => TypeOK
  BY DEF Inv, Types
<1> QED
  BY <1>1, Kept, PTL

(* head_release's debug_assert: at select! and in a drain the deadline is  *)
(* armed exactly when something is queued.                                 *)
THEOREM HeadArmedHolds == Spec => []HeadArmed
<1>1. Inv => HeadArmed
  BY DEF Inv, Heads, HeadArmed
<1> QED
  BY <1>1, Kept, PTL

(* The ledger of effects has one entry per queued unit, in the same order. *)
THEOREM LedgerMatchesHolds == Spec => []LedgerMatches
<1>1. Inv => LedgerMatches
  BY DEF Inv
<1> QED
  BY <1>1, Kept, PTL

(* accepts_more bounds the queue: one read past the budget and no more.    *)
THEOREM QueueBoundedHolds == Spec => []QueueBounded
<1>1. Inv => QueueBounded
  <2> SUFFICES ASSUME Inv PROVE QueueBounded
    OBVIOUS
  <2>1. Bytes(queue) \in Nat /\ fed \in Nat /\ seen \in Nat /\ seen <= fed
    BY BytesOfQueue DEF Inv, Types, TypeOK
  <2> QED
    BY <2>1, PipeAssumption DEF Inv, Room, QueueBounded
<1> QED
  BY <1>1, Kept, PTL

(* The destination sees the units in the source's order, each once and     *)
(* without a hole, whoever of inline writes, releases, drains and the      *)
(* teardown flush wrote them.                                              *)
THEOREM WireOrderHolds == Spec => []WireOrder
<1>1. Promises => WireOrder
  BY DEF Promises
<1> QED
  BY <1>1, Kept, PTL

(* The loop returns without having written, elided or reported a unit it   *)
(* read only after a reset, a stop, the hook's close or a lost transport.  *)
THEOREM AccountedForHolds == Spec => []AccountedFor
<1>1. Promises => AccountedFor
  BY DEF Promises
<1> QED
  BY <1>1, Kept, PTL

(* propagate_stop: a stop leaves at most the unit unreported whose write   *)
(* met it, however the write, the watcher, the cancellation and the loss   *)
(* of the transport race; a write that met the loss has met no stop.       *)
THEOREM StopAccountedHolds == Spec => []StopAccounted
<1>1. Promises => StopAccounted
  BY DEF Promises
<1> QED
  BY <1>1, Kept, PTL

(* unconfirmed_bytes counts all that a flush handed to a dying transport.  *)
THEOREM TeardownCountsAllHolds == Spec => []TeardownCountsAll
<1>1. Promises => TeardownCountsAll
  BY DEF Promises
<1> QED
  BY <1>1, Kept, PTL

(* propagate_reset: a reset of the source never ends in a FIN, unless the  *)
(* session was discarded or the flush failed.                              *)
THEOREM ResetIsMirroredHolds == Spec => []ResetIsMirrored
<1>1. Promises => ResetIsMirrored
  BY DEF Promises
<1> QED
  BY <1>1, Kept, PTL

(* A FIN after the source's FIN says that all it sent has been written or  *)
(* elided, the framer's tail included.                                     *)
THEOREM FinIsCompleteHolds == Spec => []FinIsComplete
<1>1. Promises => FinIsComplete
  BY DEF Promises
<1> QED
  BY <1>1, Kept, PTL

(* A batch that leaves its head behind sleeps: the head's deadline is in   *)
(* the future and the gate it waits for is shut.  It needs Heads, which    *)
(* says that a head the shaper holds was due when it was parked.           *)
THEOREM RefusalIsAWaitHolds == Spec => RefusalIsAWait
<1>1. ASSUME Inv, [Next]_vars, InBatch, pc' \in {"select", "drain"}, queue' # <<>>
      PROVE  deadline' > now /\ ~WakeGate'
  <2>0. pc # "over" /\ pc \in {"release", "drainBatch"} /\ pc' # pc
    BY <1>1 DEF InBatch
  <2> USE <2>0, <1>1, Running
  <2>1. EndBatch \/ RefuseHead
    <3>1. ~World /\ ~UNCHANGED vars
      BY WorldKeeps DEF task, vars
    <3>2. ~HandleUnit
      BY HandleShape DEF PollsOne
    <3>3. ~Branch /\ ~OperatorReset
      BY DEF Branch, ReadChunk, ReadFin, MirrorReset, ResetUnobservable, WakeRelease, StopWatch,
             CancelBranch, OperatorReset
    <3>4. ~ReleaseHead /\ ~ExpireHead
      BY DEF ReleaseHead, WriteFailed, PropagateStop, Return, task, ExpireHead, GiveUp
    <3>5. ~EndChunk /\ ~WakeDrain /\ ~CancelDrain /\ ~DrainDone /\ ~FinishStream
      BY DEF EndChunk, WakeDrain, CancelDrain, DrainDone, FinishStream
    <3> QED
      BY <3>1, <3>2, <3>3, <3>4, <3>5 DEF Next, Body
  <2>2. queue' = queue /\ holdGate' = holdGate
    BY <2>1 DEF EndBatch, RefuseHead, queued, env
  <2>3. Head(queue) = queue[1] /\ queue[1] \in Slots
    BY <2>2 DEF Types
  <2>4. queue[1].due \in Nat /\ queue[1].expires \in Nat
    BY <2>3, SlotFields
  <2>5. CASE EndBatch
    <3>1. queue[1].due > now /\ ~(queue[1].gated /\ holdGate)
      BY <2>2, <2>3, <2>4, <2>5 DEF EndBatch, HeadDue, OwnGate
    <3>2. parked = FALSE /\ deadline = queue[1].due
      <4>1. parked \in BOOLEAN
        BY DEF Types, TypeOK
      <4>2. ~parked
        BY <2>4, <3>1 DEF Inv, Heads
      <4> QED
        BY <2>2, <4>1, <4>2 DEF Inv, Heads
    <3>3. parked' = parked /\ deadline' = deadline
      BY <2>5 DEF EndBatch, queued
    <3>4. ~OwnGate'
      BY <2>2, <2>3, <3>1 DEF OwnGate
    <3> QED
      BY <2>4, <3>1, <3>2, <3>3, <3>4 DEF WakeGate
  <2>6. CASE RefuseHead
    <3>1. now < queue[1].expires
      BY <2>3, <2>4, <2>6 DEF RefuseHead, Overdue, Terminal
    <3>2. deadline' > now
      BY <2>3, <2>4, <2>6, <3>1 DEF RefuseHead
    <3>3. parked' /\ shapeGate' # "open"
      BY <2>6 DEF RefuseHead
    <3> QED
      BY <3>2, <3>3 DEF WakeGate
  <2> QED
    BY <2>1, <2>5, <2>6
<1>2. Inv /\ [Next]_vars =>
        [InBatch /\ pc' \in {"select", "drain"} /\ queue' # <<>>
           => deadline' > now /\ ~WakeGate']_vars
  BY <1>1
<1>3. Spec => []Inv
  BY Kept, PTL
<1> QED
  BY <1>2, <1>3, PTL DEF Spec, RefusalIsAWait
=============================================================================
