-------------------------- MODULE UsagePipelineProofs --------------------------
(***************************************************************************)
(* Proofs about UsagePipeline: every record is in exactly one place and in *)
(* its order, a disabled queue keeps one record at most, and a subscriber  *)
(* is sent everything it subscribed to, for every number of records,       *)
(* forwarders, pollers and subscribers and every size of batch and buffer. *)
(***************************************************************************)
EXTENDS UsagePipeline, FiniteSetTheorems, SequenceTheorems, TLAPS

-----------------------------------------------------------------------------
(* Sequences whose elements occur once, and sequences that rise            *)

Elems(q)    == {q[i] : i \in 1 .. Len(q)}
Distinct(q) == \A i, j \in 1 .. Len(q) : q[i] = q[j] => i = j
Rising(q)   == \A i, j \in 1 .. Len(q) : i < j => q[i] < q[j]

(* The records of a sequence of items, as Kept has them for items.         *)
KeptOf(sequence) == [i \in 1 .. Len(sequence) |-> sequence[i].record]

LEMMA EmptyElems == Elems(<<>>) = {} /\ Distinct(<<>>) /\ Rising(<<>>)
BY DEF Elems, Distinct, Rising

LEMMA EmptyLength ==
  ASSUME NEW S, NEW q \in Seq(S)
  PROVE  q = <<>> <=> Len(q) = 0
<1>1. q # <<>> => Len(q) \in Nat \ {0}
  BY EmptySeq
<1>2. Len(<<>>) = 0
  BY EmptySeq
<1>3. QED
  BY <1>1, <1>2

LEMMA SingleElems ==
  ASSUME NEW x
  PROVE  /\ Elems(<<x>>) = {x} /\ Distinct(<<x>>) /\ Rising(<<x>>)
         /\ <<x>> # <<>> /\ \A S : x \in S => <<x>> \in Seq(S)
<1>1. Len(<<x>>) = 1 /\ <<x>>[1] = x
  OBVIOUS
<1>2. \A i \in 1 .. 1 : i = 1
  OBVIOUS
<1>3. <<x>> # <<>>
  BY <1>1, EmptySeq
<1>4. QED
  BY <1>1, <1>2, <1>3 DEF Elems, Distinct, Rising

LEMMA TailElems ==
  ASSUME NEW S, NEW q \in Seq(S), q # <<>>
  PROVE  /\ Head(q) \in Elems(q) /\ Head(q) \in S
         /\ Elems(q) = {Head(q)} \union Elems(Tail(q))
         /\ Distinct(q) => Distinct(Tail(q)) /\ Head(q) \notin Elems(Tail(q))
<1>1. /\ Len(q) \in Nat \ {0} /\ Head(q) = q[1] /\ q[1] \in S
      /\ Len(Tail(q)) = Len(q) - 1
      /\ \A i \in 1 .. Len(q) - 1 : Tail(q)[i] = q[i + 1]
  BY EmptySeq, HeadTailProperties, ElementOfSeq
<1>2. \A i \in 1 .. Len(q) : i = 1 \/ i - 1 \in 1 .. Len(q) - 1
  BY <1>1
<1>3. Elems(q) \subseteq {Head(q)} \union Elems(Tail(q))
  BY <1>1, <1>2 DEF Elems
<1>4. {Head(q)} \union Elems(Tail(q)) \subseteq Elems(q)
  BY <1>1 DEF Elems
<1>5. Distinct(q) => Distinct(Tail(q)) /\ Head(q) \notin Elems(Tail(q))
  BY <1>1 DEF Distinct, Elems
<1>6. QED
  BY <1>1, <1>3, <1>4, <1>5

LEMMA RisingTail ==
  ASSUME NEW q \in Seq(Nat), q # <<>>, Rising(q)
  PROVE  Rising(Tail(q)) /\ \A x \in Elems(Tail(q)) : Head(q) < x
<1>1. /\ Len(q) \in Nat \ {0} /\ Head(q) = q[1]
      /\ Len(Tail(q)) = Len(q) - 1
      /\ \A i \in 1 .. Len(q) - 1 : Tail(q)[i] = q[i + 1]
  BY EmptySeq, HeadTailProperties
<1>2. QED
  BY <1>1 DEF Rising, Elems

LEMMA AppendElems ==
  ASSUME NEW S, NEW q \in Seq(S), NEW x \in S
  PROVE  /\ Elems(Append(q, x)) = Elems(q) \union {x}
         /\ Distinct(q) /\ x \notin Elems(q) => Distinct(Append(q, x))
<1>1. /\ Len(q) \in Nat /\ Len(Append(q, x)) = Len(q) + 1
      /\ \A i \in 1 .. Len(q) : Append(q, x)[i] = q[i]
      /\ Append(q, x)[Len(q) + 1] = x
  BY AppendProperties, LenProperties
<1>2. \A i \in 1 .. Len(q) + 1 : i = Len(q) + 1 \/ i \in 1 .. Len(q)
  BY <1>1
<1>3. QED
  BY <1>1, <1>2 DEF Elems, Distinct

LEMMA RisingAppend ==
  ASSUME NEW q \in Seq(Nat), NEW x \in Nat, Rising(q), \A y \in Elems(q) : y < x
  PROVE  Rising(Append(q, x))
<1>1. /\ Len(q) \in Nat /\ Len(Append(q, x)) = Len(q) + 1
      /\ \A i \in 1 .. Len(q) : Append(q, x)[i] = q[i]
      /\ Append(q, x)[Len(q) + 1] = x
  BY AppendProperties, LenProperties
<1>2. QED
  BY <1>1 DEF Rising, Elems

(* A sequence is cut behind its first k elements.                          *)
LEMMA CutAt ==
  ASSUME NEW S, NEW q \in Seq(S), NEW k \in 0 .. Len(q)
  PROVE  LET front == SubSeq(q, 1, k)
             rest  == SubSeq(q, k + 1, Len(q))
         IN  /\ front \in Seq(S) /\ rest \in Seq(S) /\ k \in Nat
             /\ Len(front) = k /\ Len(rest) = Len(q) - k /\ Len(q) \in Nat
             /\ \A i \in 1 .. k : front[i] = q[i]
             /\ \A i \in 1 .. Len(q) - k : rest[i] = q[k + i]
<1>0. Len(q) \in Nat /\ \A i \in 1 .. Len(q) : q[i] \in S
  BY LenProperties, ElementOfSeq
<1>1. /\ SubSeq(q, 1, k) \in Seq(S) /\ Len(SubSeq(q, 1, k)) = k
      /\ \A i \in 1 .. k : SubSeq(q, 1, k)[i] = q[i]
  BY <1>0, SubSeqProperties
<1>2. /\ SubSeq(q, k + 1, Len(q)) \in Seq(S)
      /\ Len(SubSeq(q, k + 1, Len(q))) = Len(q) - k
      /\ \A i \in 1 .. Len(q) - k : SubSeq(q, k + 1, Len(q))[i] = q[k + i]
  BY <1>0, SubSeqProperties
<1>3. QED
  BY <1>0, <1>1, <1>2

LEMMA CutElems ==
  ASSUME NEW S, NEW q \in Seq(S), NEW k \in 0 .. Len(q)
  PROVE  LET front == SubSeq(q, 1, k)
             rest  == SubSeq(q, k + 1, Len(q))
         IN  /\ Elems(q) = Elems(front) \union Elems(rest)
             /\ Distinct(q) => /\ Distinct(front) /\ Distinct(rest)
                               /\ Elems(front) \intersect Elems(rest) = {}
<1> SUFFICES ASSUME NEW front, front = SubSeq(q, 1, k),
                    NEW rest, rest = SubSeq(q, k + 1, Len(q))
             PROVE  /\ Elems(q) = Elems(front) \union Elems(rest)
                    /\ Distinct(q) =>
                         /\ Distinct(front) /\ Distinct(rest)
                         /\ Elems(front) \intersect Elems(rest) = {}
  OBVIOUS
<1>1. /\ k \in Nat /\ Len(q) \in Nat /\ k <= Len(q)
      /\ Len(front) = k /\ \A i \in 1 .. k : front[i] = q[i]
      /\ Len(rest) = Len(q) - k /\ \A i \in 1 .. Len(q) - k : rest[i] = q[k + i]
  BY CutAt
<1>2. ASSUME NEW i \in 1 .. Len(q)
      PROVE  q[i] \in Elems(front) \union Elems(rest)
  <2>1. CASE i <= k
    BY <1>1, <2>1 DEF Elems
  <2>2. CASE i > k
    <3>1. i - k \in 1 .. Len(q) - k /\ k + (i - k) = i
      BY <1>1, <2>2
    <3>2. rest[i - k] = q[i] /\ i - k \in 1 .. Len(rest)
      BY <1>1, <3>1
    <3>3. QED
      BY <3>2 DEF Elems
  <2>3. QED
    BY <1>1, <2>1, <2>2
<1>3. ASSUME NEW i \in 1 .. k
      PROVE  front[i] = q[i] /\ i \in 1 .. Len(q)
  BY <1>1
<1>4. ASSUME NEW i \in 1 .. Len(q) - k
      PROVE  rest[i] = q[k + i] /\ k + i \in 1 .. Len(q)
  BY <1>1
<1>5. Elems(q) = Elems(front) \union Elems(rest)
  <2>1. Elems(front) \subseteq Elems(q)
    BY <1>1, <1>3 DEF Elems
  <2>2. Elems(rest) \subseteq Elems(q)
    BY <1>1, <1>4 DEF Elems
  <2>3. Elems(q) \subseteq Elems(front) \union Elems(rest)
    BY <1>2 DEF Elems
  <2>4. QED
    BY <2>1, <2>2, <2>3
<1>6. ASSUME Distinct(q)
      PROVE  /\ Distinct(front) /\ Distinct(rest)
             /\ Elems(front) \intersect Elems(rest) = {}
  <2>1. Distinct(front)
    BY <1>1, <1>3, <1>6 DEF Distinct
  <2>2. Distinct(rest)
    BY <1>1, <1>4, <1>6 DEF Distinct
  <2>3. ASSUME NEW i \in 1 .. k, NEW j \in 1 .. Len(q) - k
        PROVE  front[i] # rest[j]
    <3>1. front[i] = q[i] /\ rest[j] = q[k + j] /\ i # k + j
      BY <1>1
    <3>2. i \in 1 .. Len(q) /\ k + j \in 1 .. Len(q)
      BY <1>1
    <3>3. QED
      BY <1>6, <3>1, <3>2 DEF Distinct
  <2>4. \A i \in 1 .. Len(front), j \in 1 .. Len(rest) : front[i] # rest[j]
    BY ONLY <1>1, <2>3
  <2>5. Elems(front) \intersect Elems(rest) = {}
    BY ONLY <2>4 DEF Elems
  <2>6. QED
    BY <2>1, <2>2, <2>5
<1>7. QED
  BY <1>5, <1>6

LEMMA RisingCut ==
  ASSUME NEW q \in Seq(Nat), NEW k \in 0 .. Len(q), Rising(q)
  PROVE  /\ Rising(SubSeq(q, k + 1, Len(q)))
         /\ \A x \in Elems(SubSeq(q, 1, k)), y \in Elems(SubSeq(q, k + 1, Len(q))) :
              x < y
<1> SUFFICES ASSUME NEW front, front = SubSeq(q, 1, k),
                    NEW rest, rest = SubSeq(q, k + 1, Len(q))
             PROVE  Rising(rest) /\ \A x \in Elems(front), y \in Elems(rest) : x < y
  OBVIOUS
<1>1. /\ k \in Nat /\ Len(q) \in Nat /\ k <= Len(q)
      /\ Len(front) = k /\ \A i \in 1 .. k : front[i] = q[i]
      /\ Len(rest) = Len(q) - k /\ \A i \in 1 .. Len(q) - k : rest[i] = q[k + i]
  BY CutAt
<1>2. ASSUME NEW i \in 1 .. Len(q) - k, NEW j \in 1 .. Len(q) - k, i < j
      PROVE  rest[i] < rest[j]
  <2>0. i \in Int /\ j \in Int
    BY <1>1
  <2>1. /\ rest[i] = q[k + i] /\ rest[j] = q[k + j]
        /\ k + i < k + j
    <3>1. rest[i] = q[k + i] /\ rest[j] = q[k + j]
      BY <1>1
    <3>2. k + i < k + j
      BY ONLY k \in Nat, <1>1, <1>2, <2>0
    <3>3. QED
      BY <3>1, <3>2
  <2>2. k + i \in 1 .. Len(q) /\ k + j \in 1 .. Len(q)
    BY <1>1
  <2>3. QED
    BY <2>1, <2>2 DEF Rising
<1>3. ASSUME NEW i \in 1 .. k, NEW j \in 1 .. Len(q) - k
      PROVE  front[i] < rest[j]
  <2>1. front[i] = q[i] /\ rest[j] = q[k + j]
    BY <1>1
  <2>2. i \in 1 .. Len(q) /\ k + j \in 1 .. Len(q) /\ i < k + j
    BY <1>1
  <2>3. QED
    BY <2>1, <2>2 DEF Rising
<1>4. Rising(rest)
  BY <1>1, <1>2 DEF Rising
<1>5. \A i \in 1 .. Len(front), j \in 1 .. Len(rest) : front[i] < rest[j]
  BY <1>1, <1>3
<1>6. QED
  BY <1>4, <1>5 DEF Elems

LEMMA RisingConcat ==
  ASSUME NEW p \in Seq(Nat), NEW q \in Seq(Nat), Rising(p), Rising(q),
         \A x \in Elems(p), y \in Elems(q) : x < y
  PROVE  /\ p \o q \in Seq(Nat) /\ Rising(p \o q)
         /\ Elems(p \o q) = Elems(p) \union Elems(q)
<1> SUFFICES ASSUME NEW both, both = p \o q
             PROVE  /\ both \in Seq(Nat) /\ Rising(both)
                    /\ Elems(both) = Elems(p) \union Elems(q)
  OBVIOUS
<1>1. /\ Len(p) \in Nat /\ Len(q) \in Nat /\ both \in Seq(Nat)
      /\ Len(both) = Len(p) + Len(q)
      /\ \A i \in 1 .. Len(p) + Len(q) :
           both[i] = IF i <= Len(p) THEN p[i] ELSE q[i - Len(p)]
  BY ConcatProperties, LenProperties
<1>2. ASSUME NEW i \in 1 .. Len(p)
      PROVE  i \in 1 .. Len(both) /\ both[i] = p[i]
  BY <1>1
<1>3. ASSUME NEW i \in 1 .. Len(q)
      PROVE  Len(p) + i \in 1 .. Len(both) /\ both[Len(p) + i] = q[i]
  BY <1>1
<1>4. ASSUME NEW i \in 1 .. Len(both), i > Len(p)
      PROVE  i - Len(p) \in 1 .. Len(q) /\ both[i] = q[i - Len(p)]
  BY <1>1, <1>4
<1>5. Elems(both) = Elems(p) \union Elems(q)
  <2>1. ASSUME NEW i \in 1 .. Len(both)
        PROVE  both[i] \in Elems(p) \union Elems(q)
    <3>1. CASE i \in 1 .. Len(p)
      BY ONLY <1>2, <3>1 DEF Elems
    <3>2. CASE i \notin 1 .. Len(p)
      <4>1. PICK j \in 1 .. Len(q) : i = Len(p) + j
        BY <1>1, <1>4, <3>2
      <4>2. QED
        BY ONLY <1>3, <4>1 DEF Elems
    <3>3. QED
      BY <3>1, <3>2
  <2>2. Elems(p) \subseteq Elems(both) /\ Elems(q) \subseteq Elems(both)
    BY ONLY <1>2, <1>3 DEF Elems
  <2>3. Elems(both) \subseteq Elems(p) \union Elems(q)
    BY <2>1 DEF Elems
  <2>4. QED
    BY <2>2, <2>3
<1>6. Rising(both)
  <2> SUFFICES ASSUME NEW i \in 1 .. Len(both), NEW j \in 1 .. Len(both), i < j
               PROVE  both[i] < both[j]
    BY DEF Rising
  <2>1. CASE j <= Len(p)
    <3>1. i \in 1 .. Len(p) /\ j \in 1 .. Len(p)
      BY <1>1, <2>1
    <3>2. QED
      BY <1>2, <3>1 DEF Rising
  <2>2. CASE i > Len(p)
    <3>1. both[i] = q[i - Len(p)] /\ both[j] = q[j - Len(p)]
      BY <1>1, <1>4, <2>2
    <3>2. /\ i - Len(p) \in 1 .. Len(q) /\ j - Len(p) \in 1 .. Len(q)
          /\ i - Len(p) < j - Len(p)
      BY <1>1, <2>2
    <3>3. QED
      BY <3>1, <3>2 DEF Rising
  <2>3. CASE i <= Len(p) /\ j > Len(p)
    <3>1. both[i] \in Elems(p) /\ both[j] \in Elems(q)
      BY <1>1, <1>4, <2>3 DEF Elems
    <3>2. QED
      BY <3>1
  <2>4. QED
    BY <1>1, <2>1, <2>2, <2>3
<1>7. QED
  BY <1>1, <1>5, <1>6

-----------------------------------------------------------------------------
(* Items and their records                                                 *)

Items == [record : Records, enqueuedAt : Nat]

LEMMA KeptOfType ==
  ASSUME NEW q \in Seq(Items)
  PROVE  /\ KeptOf(q) \in Seq(Records) /\ Len(KeptOf(q)) = Len(q) /\ Len(q) \in Nat
         /\ \A i \in 1 .. Len(q) : KeptOf(q)[i] = q[i].record
         /\ RecordsOf(q) = Elems(KeptOf(q))
<1>1. Len(q) \in Nat /\ \A i \in 1 .. Len(q) : q[i].record \in Records
  <2>1. \A i \in 1 .. Len(q) : q[i] \in Items
    BY ElementOfSeq
  <2>2. \A item \in Items : item.record \in Records
    BY DEF Items
  <2>3. QED
    BY <2>1, <2>2, LenProperties
<1>2. KeptOf(q) \in [1 .. Len(q) -> Records]
  BY <1>1 DEF KeptOf
<1>3. KeptOf(q) \in Seq(Records) /\ Len(KeptOf(q)) = Len(q)
  BY <1>1, <1>2, LenProperties, SeqDef
<1>4. \A i \in 1 .. Len(q) : KeptOf(q)[i] = q[i].record
  BY DEF KeptOf
<1>5. QED
  BY <1>1, <1>3, <1>4 DEF RecordsOf, Elems

LEMMA KeptOfCut ==
  ASSUME NEW q \in Seq(Items), NEW k \in 0 .. Len(q)
  PROVE  /\ SubSeq(q, 1, k) \in Seq(Items) /\ SubSeq(q, k + 1, Len(q)) \in Seq(Items)
         /\ KeptOf(SubSeq(q, 1, k)) = SubSeq(KeptOf(q), 1, k)
         /\ KeptOf(SubSeq(q, k + 1, Len(q))) = SubSeq(KeptOf(q), k + 1, Len(q))
<1>1. KeptOf(q) \in Seq(Records) /\ Len(KeptOf(q)) = Len(q)
  BY KeptOfType
<1>a. PICK front : front = SubSeq(q, 1, k)
  OBVIOUS
<1>b. PICK rest : rest = SubSeq(q, k + 1, Len(q))
  OBVIOUS
<1>c. PICK kept : kept = KeptOf(q)
  OBVIOUS
<1>d. PICK before : before = SubSeq(kept, 1, k)
  OBVIOUS
<1>e. PICK behind : behind = SubSeq(kept, k + 1, Len(q))
  OBVIOUS
<1>2. /\ front \in Seq(Items) /\ Len(front) = k /\ \A i \in 1 .. k : front[i] = q[i]
      /\ rest \in Seq(Items) /\ Len(rest) = Len(q) - k
      /\ \A i \in 1 .. Len(q) - k : rest[i] = q[k + i]
      /\ k \in Nat /\ Len(q) \in Nat
  BY <1>a, <1>b, CutAt
<1>3. /\ before \in Seq(Records) /\ Len(before) = k
      /\ \A i \in 1 .. k : before[i] = kept[i]
      /\ behind \in Seq(Records) /\ Len(behind) = Len(q) - k
      /\ \A i \in 1 .. Len(q) - k : behind[i] = kept[k + i]
  <2>1. kept \in Seq(Records) /\ Len(kept) = Len(q)
    BY <1>1, <1>c
  <2>2. QED
    BY <2>1, <1>d, <1>e, CutAt
<1>4. \A i \in 1 .. Len(q) : kept[i] = q[i].record
  BY <1>c, KeptOfType
<1>5. KeptOf(front) = before
  <2>1. ASSUME NEW i \in 1 .. k
        PROVE  KeptOf(front)[i] = before[i]
    <3>1. i \in 1 .. Len(q)
      BY <1>2
    <3>2. KeptOf(front)[i] = front[i].record
      BY <1>2, KeptOfType
    <3>3. QED
      BY <1>2, <1>3, <1>4, <3>1, <3>2
  <2>2. KeptOf(front) \in Seq(Records) /\ Len(KeptOf(front)) = k
    BY <1>2, KeptOfType
  <2>3. QED
    BY <1>3, <2>1, <2>2, SeqEqual
<1>6. KeptOf(rest) = behind
  <2>1. ASSUME NEW i \in 1 .. Len(q) - k
        PROVE  KeptOf(rest)[i] = behind[i]
    <3>1. k + i \in 1 .. Len(q)
      BY <1>2
    <3>2. KeptOf(rest)[i] = rest[i].record
      BY <1>2, KeptOfType
    <3>3. QED
      BY <1>2, <1>3, <1>4, <3>1, <3>2
  <2>2. KeptOf(rest) \in Seq(Records) /\ Len(KeptOf(rest)) = Len(q) - k
    BY <1>2, KeptOfType
  <2>3. QED
    BY <1>3, <2>1, <2>2, SeqEqual
<1>7. QED
  BY <1>2, <1>5, <1>6, <1>a, <1>b, <1>c, <1>d, <1>e

LEMMA KeptOfAppend ==
  ASSUME NEW q \in Seq(Items), NEW item \in Items
  PROVE  /\ Append(q, item) \in Seq(Items)
         /\ KeptOf(Append(q, item)) = Append(KeptOf(q), item.record)
<1>1. /\ KeptOf(q) \in Seq(Records) /\ Len(KeptOf(q)) = Len(q) /\ Len(q) \in Nat
      /\ \A i \in 1 .. Len(q) : KeptOf(q)[i] = q[i].record
  BY KeptOfType
<1> SUFFICES ASSUME NEW longer, longer = Append(q, item),
                    NEW kept, kept = KeptOf(q),
                    NEW more, more = Append(kept, item.record)
             PROVE  longer \in Seq(Items) /\ KeptOf(longer) = more
  OBVIOUS
<1>2. /\ longer \in Seq(Items) /\ Len(longer) = Len(q) + 1
      /\ \A i \in 1 .. Len(q) : longer[i] = q[i]
      /\ longer[Len(q) + 1] = item
  BY AppendProperties
<1>3. /\ more \in Seq(Records) /\ Len(more) = Len(q) + 1
      /\ \A i \in 1 .. Len(q) : more[i] = kept[i]
      /\ more[Len(q) + 1] = item.record
  <2>1. item.record \in Records /\ kept \in Seq(Records) /\ Len(kept) = Len(q)
    BY <1>1 DEF Items
  <2>2. QED
    BY <2>1, AppendProperties
<1>4. /\ KeptOf(longer) \in Seq(Records) /\ Len(KeptOf(longer)) = Len(q) + 1
      /\ \A i \in 1 .. Len(q) + 1 : KeptOf(longer)[i] = longer[i].record
  BY <1>2, KeptOfType
<1>5. ASSUME NEW i \in 1 .. Len(q) + 1
      PROVE  KeptOf(longer)[i] = more[i]
  <2>1. CASE i = Len(q) + 1
    BY <1>2, <1>3, <1>4, <2>1
  <2>2. CASE i # Len(q) + 1
    <3>1. i \in 1 .. Len(q)
      BY <1>1, <2>2
    <3>2. QED
      BY <1>1, <1>2, <1>3, <1>4, <3>1
  <2>3. QED
    BY <2>1, <2>2
<1>6. QED
  BY <1>2, <1>3, <1>4, <1>5, SeqEqual

(* The expired items are the first ones.                                   *)
LEMMA Pruning ==
  ASSUME items \in Seq(Items), NEW now \in Nat
  PROVE  \E k \in 0 .. Len(items) :
           /\ Pruned(now) = SubSeq(items, k + 1, Len(items))
           /\ PrunedRecords(now) = Elems(SubSeq(Kept, 1, k))
<1> DEFINE k == Cardinality(Expired(now))
<1>0. Len(items) \in Nat /\ Kept = KeptOf(items)
  BY LenProperties DEF Kept, KeptOf
<1>1. IsFiniteSet(1 .. Len(items)) /\ Cardinality(1 .. Len(items)) = Len(items)
  BY <1>0, FS_Interval
<1>2. IsFiniteSet(Expired(now)) /\ k <= Len(items)
  BY <1>1, FS_Subset DEF Expired
<1>3. k \in Nat
  BY <1>2, FS_CardinalityType
<1>4. ASSUME NEW i \in Expired(now)
      PROVE  i \in 1 .. k
  <2>1. i \in 1 .. Len(items) /\ \A j \in 1 .. i : j \in Expired(now)
    BY <1>0 DEF Expired
  <2>2. 1 .. i \in SUBSET Expired(now) /\ Cardinality(1 .. i) = i
    BY <2>1, <1>0, FS_Interval
  <2>3. Cardinality(1 .. i) <= Cardinality(Expired(now))
    BY <1>2, <2>2, FS_Subset
  <2>4. QED
    BY <1>0, <1>3, <2>1, <2>2, <2>3
<1>5. Expired(now) = 1 .. k
  <2>1. IsFiniteSet(1 .. k) /\ Cardinality(1 .. k) = k
    BY <1>3, FS_Interval
  <2>2. Expired(now) \in SUBSET (1 .. k)
    BY <1>4
  <2>3. QED
    BY <2>1, <2>2, FS_Subset
<1>6. PrunedRecords(now) = Elems(SubSeq(Kept, 1, k))
  <2>1. k \in 0 .. Len(items)
    BY <1>0, <1>2, <1>3
  <2> HIDE DEF k
  <2>2. Kept \in Seq(Records) /\ Len(Kept) = Len(items)
    BY <1>0, KeptOfType
  <2>3. /\ Len(SubSeq(Kept, 1, k)) = k
        /\ \A i \in 1 .. k : SubSeq(Kept, 1, k)[i] = Kept[i]
    BY <2>1, <2>2, CutAt
  <2>4. \A i \in 1 .. k : Kept[i] = items[i].record
    BY <1>0, <2>1 DEF Kept
  <2>5. QED
    BY <1>5, <2>3, <2>4 DEF PrunedRecords, Elems
<1>7. QED
  BY <1>0, <1>2, <1>3, <1>6 DEF Pruned

(* What pruning, taking the oldest and keeping the rest does to the items. *)
LEMMA Taking ==
  ASSUME items \in Seq(Items), Distinct(Kept), NEW now \in Nat,
         NEW most \in 0 .. Len(Pruned(now))
  PROVE  LET kept  == Pruned(now)
             front == SubSeq(kept, 1, most)
             rest  == SubSeq(kept, most + 1, Len(kept))
         IN  /\ kept \in Seq(Items) /\ Len(kept) <= Len(items)
             /\ front \in Seq(Items) /\ Len(front) = most
             /\ rest \in Seq(Items) /\ Len(rest) <= Len(items)
             /\ Elems(Kept) = PrunedRecords(now) \union Elems(KeptOf(kept))
             /\ PrunedRecords(now) \intersect Elems(KeptOf(kept)) = {}
             /\ Elems(KeptOf(kept)) = RecordsOf(front) \union Elems(KeptOf(rest))
             /\ RecordsOf(front) \intersect Elems(KeptOf(rest)) = {}
             /\ Distinct(KeptOf(kept)) /\ Distinct(KeptOf(front)) /\ Distinct(KeptOf(rest))
             /\ Rising(Kept) =>
                  /\ Rising(KeptOf(kept)) /\ Rising(KeptOf(rest))
                  /\ \A x \in RecordsOf(front), y \in Elems(KeptOf(rest)) : x < y
<1> DEFINE kept  == Pruned(now)
           front == SubSeq(kept, 1, most)
           rest  == SubSeq(kept, most + 1, Len(kept))
<1>1. PICK k \in 0 .. Len(items) :
        /\ kept = SubSeq(items, k + 1, Len(items))
        /\ PrunedRecords(now) = Elems(SubSeq(Kept, 1, k))
  BY Pruning
<1>2. /\ Kept = KeptOf(items) /\ Kept \in Seq(Records) /\ Len(Kept) = Len(items)
      /\ most \in 0 .. Len(kept)
  BY KeptOfType DEF Kept, KeptOf
<1> HIDE DEF kept
<1>3. /\ kept \in Seq(Items) /\ Len(kept) = Len(items) - k
      /\ Len(items) \in Nat /\ k \in Nat
      /\ KeptOf(kept) = SubSeq(Kept, k + 1, Len(Kept))
  <2>1. /\ kept \in Seq(Items) /\ Len(kept) = Len(items) - k
        /\ Len(items) \in Nat /\ k \in Nat
    BY <1>1, CutAt
  <2>2. KeptOf(kept) = SubSeq(Kept, k + 1, Len(items))
    BY <1>1, <1>2, KeptOfCut
  <2>3. QED
    BY <1>2, <2>1, <2>2
<1>4. /\ Elems(Kept) = PrunedRecords(now) \union Elems(KeptOf(kept))
      /\ PrunedRecords(now) \intersect Elems(KeptOf(kept)) = {}
      /\ Distinct(KeptOf(kept))
  <2>1. k \in 0 .. Len(Kept)
    BY <1>2
  <2>2. /\ Elems(Kept) = Elems(SubSeq(Kept, 1, k))
                           \union Elems(SubSeq(Kept, k + 1, Len(Kept)))
        /\ Distinct(SubSeq(Kept, k + 1, Len(Kept)))
        /\ Elems(SubSeq(Kept, 1, k))
             \intersect Elems(SubSeq(Kept, k + 1, Len(Kept))) = {}
    BY <1>2, <2>1, CutElems
  <2>3. QED
    BY <1>1, <1>3, <2>2
<1>5. /\ front \in Seq(Items) /\ Len(front) = most /\ most \in Nat
      /\ rest \in Seq(Items) /\ Len(rest) = Len(kept) - most
      /\ KeptOf(front) = SubSeq(KeptOf(kept), 1, most)
      /\ KeptOf(rest) = SubSeq(KeptOf(kept), most + 1, Len(kept))
  <2>1. /\ front \in Seq(Items) /\ Len(front) = most /\ most \in Nat
        /\ rest \in Seq(Items) /\ Len(rest) = Len(kept) - most
    BY <1>2, <1>3, CutAt
  <2>2. /\ KeptOf(front) = SubSeq(KeptOf(kept), 1, most)
        /\ KeptOf(rest) = SubSeq(KeptOf(kept), most + 1, Len(kept))
    BY <1>2, <1>3, KeptOfCut
  <2>3. QED
    BY <2>1, <2>2
<1>6. KeptOf(kept) \in Seq(Records) /\ Len(KeptOf(kept)) = Len(kept)
  BY <1>3, KeptOfType
<1> HIDE DEF front, rest
<1>7. RecordsOf(front) = Elems(KeptOf(front))
  BY <1>5, KeptOfType
<1>8. /\ Elems(KeptOf(kept)) = RecordsOf(front) \union Elems(KeptOf(rest))
      /\ RecordsOf(front) \intersect Elems(KeptOf(rest)) = {}
      /\ Distinct(KeptOf(front)) /\ Distinct(KeptOf(rest))
  <2>1. PICK q : q = KeptOf(kept)
    OBVIOUS
  <2>2. /\ q \in Seq(Records) /\ most \in 0 .. Len(q) /\ Distinct(q)
        /\ KeptOf(front) = SubSeq(q, 1, most)
        /\ KeptOf(rest) = SubSeq(q, most + 1, Len(q))
    BY <1>2, <1>4, <1>5, <1>6, <2>1
  <2>3. /\ Elems(q) = Elems(KeptOf(front)) \union Elems(KeptOf(rest))
        /\ Elems(KeptOf(front)) \intersect Elems(KeptOf(rest)) = {}
        /\ Distinct(KeptOf(front)) /\ Distinct(KeptOf(rest))
    BY <2>2, CutElems
  <2>4. QED
    BY <1>7, <2>1, <2>3
<1>9. ASSUME Rising(Kept)
      PROVE  /\ Rising(KeptOf(kept)) /\ Rising(KeptOf(rest))
             /\ \A x \in RecordsOf(front), y \in Elems(KeptOf(rest)) : x < y
  <2>1. Kept \in Seq(Nat) /\ KeptOf(kept) \in Seq(Nat)
    <3>1. Records \subseteq Nat
      BY DEF Records
    <3>2. QED
      BY <1>2, <1>6, <3>1, SeqMonotonic
  <2>2. Rising(KeptOf(kept))
    BY <1>2, <1>3, <1>9, <2>1, RisingCut
  <2>3. /\ Rising(SubSeq(KeptOf(kept), most + 1, Len(KeptOf(kept))))
        /\ \A x \in Elems(SubSeq(KeptOf(kept), 1, most)),
              y \in Elems(SubSeq(KeptOf(kept), most + 1, Len(KeptOf(kept)))) : x < y
    BY <1>2, <1>6, <2>1, <2>2, RisingCut
  <2>4. QED
    BY <1>5, <1>6, <1>7, <2>2, <2>3
<1>10. Len(kept) <= Len(items) /\ Len(rest) <= Len(items)
  BY <1>3, <1>5
<1>11. QED
  BY <1>3, <1>4, <1>5, <1>8, <1>9, <1>10 DEF kept, front, rest

-----------------------------------------------------------------------------
(* Where the records are                                                   *)

Phases == {"idle", "checking", "publishing", "appending", "pushing", "done"}
Fates  == {"none", "ignored", "broadcast", "expired", "polled", "pushed", "cleared"}

(* A sender that is on its way has records in its hand.  Home is never     *)
(* disabled, and without it nobody forwards.                               *)
Types ==
  /\ home \in BOOLEAN /\ clock \in Nat
  /\ published \in 0 .. MaxRecords
  /\ queue \in Seq(Records)
  /\ items \in Seq(Items)
  /\ at \in [Senders -> Phases]
  /\ hand \in [Senders -> Seq(Records)]
  /\ \A s \in Senders : at[s] \in {"idle", "done"} <=> hand[s] = <<>>
  /\ fate \in [Records -> Fates]
  /\ home => enabled /\ ~switching
  /\ home \/ \A f \in Forwarders : at[f] = "idle"

Held(s) == Elems(hand[s])

(* Nothing is in two places, and what is somewhere is exactly what was     *)
(* accepted and has not come to its end.                                   *)
Accounted ==
  /\ Elems(queue) \intersect Elems(Kept) = {}
  /\ \A s \in Senders : Held(s) \intersect (Elems(queue) \union Elems(Kept)) = {}
  /\ \A s, t \in Senders : s # t => Held(s) \intersect Held(t) = {}
  /\ \A r \in Records :
       (r \in Elems(queue) \union Elems(Kept) \/ \E s \in Senders : r \in Held(s))
         <=> r <= published /\ fate[r] = "none"
  /\ \A r \in Records : fate[r] # "none" => r <= published

Singly == Distinct(queue) /\ Distinct(Kept) /\ \A s \in Senders : Distinct(hand[s])

(* Without Home the kept records, the one of the worker and those that are *)
(* queued are in the order of publication, behind all that were polled.    *)
Ordered ==
  ~home =>
    /\ Rising(Kept) /\ Rising(hand[Worker]) /\ Rising(queue)
    /\ \A x \in Elems(Kept), y \in Held(Worker) \union Elems(queue) : x < y
    /\ \A x \in Held(Worker), y \in Elems(queue) : x < y
    /\ \A r \in Records : fate[r] = "polled" =>
         \A y \in Elems(Kept) \union Held(Worker) \union Elems(queue) : r < y

Inv == Types /\ Accounted /\ Singly /\ Ordered

LEMMA InRecords ==
  ASSUME Types
  PROVE  /\ Elems(queue) \subseteq Records /\ Elems(Kept) \subseteq Records
         /\ \A s \in Senders : Held(s) \subseteq Records
         /\ Kept = KeptOf(items) /\ Kept \in Seq(Records)
         /\ Records \subseteq Nat /\ Worker \in Senders /\ Forwarders \subseteq Senders
<1>1. Kept = KeptOf(items) /\ Kept \in Seq(Records)
  BY KeptOfType DEF Types, Kept, KeptOf
<1>2. \A q \in Seq(Records) : Elems(q) \subseteq Records
  BY ElementOfSeq DEF Elems
<1>3. QED
  BY <1>1, <1>2 DEF Types, Held, Records, Senders

(* Records of one sender, of the queue and of the items move among these   *)
(* or come to an end.                                                      *)
LEMMA Move ==
  ASSUME Types, Accounted, NEW s \in Senders, published' = published,
         \A t \in Senders : t # s => hand'[t] = hand[t],
         Elems(queue') \subseteq Elems(queue),
         Elems(Kept') \union Elems(hand'[s])
           \subseteq Elems(queue) \union Elems(Kept) \union Held(s),
         Elems(queue') \intersect Elems(Kept') = {},
         Elems(hand'[s]) \intersect (Elems(queue') \union Elems(Kept')) = {},
         \A r \in Records :
           fate'[r] = "none" <=>
             /\ fate[r] = "none"
             /\ r \in Elems(queue) \union Elems(Kept) \union Held(s)
                  => r \in Elems(queue') \union Elems(Kept') \union Elems(hand'[s])
  PROVE  Accounted'
<1> DEFINE old == Elems(queue) \union Elems(Kept) \union Held(s)
           new == Elems(queue') \union Elems(Kept') \union Elems(hand'[s])
<1>1. new \subseteq old
  OBVIOUS
<1>2. \A t \in Senders : t # s => Elems(hand'[t]) = Held(t) /\ Held(t) \intersect old = {}
  BY DEF Accounted, Held
<1>3. \A r \in Records :
        r \in old \/ (\E t \in Senders : t # s /\ r \in Held(t))
          <=> r <= published /\ fate[r] = "none"
  BY DEF Accounted
<1>4. \A r \in Records : fate[r] # "none" => r <= published
  BY DEF Accounted
<1> HIDE DEF old, new
<1>5. \A r \in Records :
        r \in new \/ (\E t \in Senders : t # s /\ r \in Held(t))
          <=> r <= published' /\ fate'[r] = "none"
  <2> SUFFICES ASSUME NEW r \in Records
               PROVE  r \in new \/ (\E t \in Senders : t # s /\ r \in Held(t))
                        <=> r <= published /\ fate'[r] = "none"
    OBVIOUS
  <2>1. fate'[r] = "none" <=> fate[r] = "none" /\ (r \in old => r \in new)
    BY DEF old, new
  <2>2. CASE r \in old
    <3>1. \A t \in Senders : t # s => r \notin Held(t)
      BY <1>2, <2>2
    <3>2. QED
      BY <1>3, <2>1, <2>2, <3>1
  <2>3. CASE r \notin old
    BY <1>1, <1>3, <2>1, <2>3
  <2>4. QED
    BY <2>2, <2>3
<1>6. \A r \in Records : fate'[r] # "none" => r <= published'
  BY <1>3, <1>4 DEF old, new
<1>7. \A t \in Senders : t # s => Elems(hand'[t]) \intersect new = {}
  BY <1>1, <1>2
<1>8. /\ \A t, u \in Senders : t # u => Elems(hand'[t]) \intersect Elems(hand'[u]) = {}
  <2>1. \A t, u \in Senders : t # s /\ u # s /\ t # u =>
          Elems(hand'[t]) \intersect Elems(hand'[u]) = {}
    BY <1>2 DEF Accounted
  <2>2. \A t \in Senders : t # s => Elems(hand'[t]) \intersect Elems(hand'[s]) = {}
    BY <1>7 DEF new
  <2>3. QED
    BY <2>1, <2>2
<1>9. /\ \A t \in Senders : Elems(hand'[t]) \intersect (Elems(queue') \union Elems(Kept')) = {}
  BY <1>7 DEF new
<1>10. \A r \in Records :
         (r \in Elems(queue') \union Elems(Kept')
            \/ \E t \in Senders : r \in Elems(hand'[t]))
           <=> r \in new \/ (\E t \in Senders : t # s /\ r \in Held(t))
  BY <1>2 DEF new
<1>11. QED
  BY <1>5, <1>6, <1>8, <1>9, <1>10 DEF Accounted, Held

(* A sender is done with the first record in its hand.                     *)
LEMMA HandOn ==
  ASSUME Types, NEW s \in Senders, hand[s] # <<>>,
         NEW busy \in Phases \ {"idle", "done"},
         hand' = [hand EXCEPT ![s] = Tail(@)],
         at' = [at EXCEPT ![s] = IF Len(hand[s]) > 1 THEN busy ELSE "idle"]
  PROVE  /\ hand' \in [Senders -> Seq(Records)] /\ at' \in [Senders -> Phases]
         /\ hand'[s] = Tail(hand[s]) /\ \A t \in Senders : t # s => hand'[t] = hand[t]
         /\ at'[s] \in {"idle", busy} /\ \A t \in Senders : t # s => at'[t] = at[t]
         /\ \A t \in Senders : at'[t] \in {"idle", "done"} <=> hand'[t] = <<>>
         /\ Head(hand[s]) \in Records
         /\ Held(s) = {Head(hand[s])} \union Elems(hand'[s])
         /\ Distinct(hand[s]) =>
              Distinct(hand'[s]) /\ Head(hand[s]) \notin Elems(hand'[s])
<1>1. hand[s] \in Seq(Records) /\ Len(hand[s]) \in Nat \ {0}
  BY EmptySeq DEF Types
<1>2. Tail(hand[s]) \in Seq(Records) /\ Len(Tail(hand[s])) = Len(hand[s]) - 1
  BY <1>1, HeadTailProperties
<1>3. Tail(hand[s]) = <<>> <=> ~(Len(hand[s]) > 1)
  <2>1. Tail(hand[s]) = <<>> <=> Len(Tail(hand[s])) = 0
    BY <1>2, EmptyLength
  <2>2. PICK n \in Nat \ {0} : n = Len(hand[s])
    BY <1>1
  <2>3. n - 1 = 0 <=> ~(n > 1)
    OBVIOUS
  <2>4. QED
    BY <1>2, <2>1, <2>2, <2>3, Zenon
<1>4. /\ hand' \in [Senders -> Seq(Records)] /\ hand'[s] = Tail(hand[s])
      /\ \A t \in Senders : t # s => hand'[t] = hand[t]
  BY <1>2 DEF Types
<1>5. /\ at' \in [Senders -> Phases]
      /\ at'[s] = IF Len(hand[s]) > 1 THEN busy ELSE "idle"
      /\ \A t \in Senders : t # s => at'[t] = at[t]
  BY DEF Types, Phases
<1>6. \A t \in Senders : at'[t] \in {"idle", "done"} <=> hand'[t] = <<>>
  BY <1>3, <1>4, <1>5 DEF Types
<1>7. QED
  BY <1>1, <1>4, <1>5, <1>6, TailElems DEF Held

(* The record a sender is done with came to its end.                       *)
LEMMA Leaves ==
  ASSUME Types, Accounted, Singly, NEW s \in Senders, hand[s] # <<>>,
         NEW what \in Fates \ {"none"}, Ends({Head(hand[s])}, what),
         hand' = [hand EXCEPT ![s] = Tail(@)],
         UNCHANGED <<published, queue, items>>
  PROVE  /\ fate' \in [Records -> Fates] /\ Accounted' /\ Singly'
         /\ \A r \in Records : fate'[r] = "polled" => fate[r] = "polled" \/ what = "polled"
<1>0. hand[s] \in Seq(Records) /\ hand \in [Senders -> Seq(Records)]
  BY DEF Types
<1>1. /\ Held(s) = {Head(hand[s])} \union Elems(hand'[s])
      /\ Distinct(hand'[s]) /\ Head(hand[s]) \notin Elems(hand'[s])
  BY <1>0, TailElems DEF Held, Singly
<1>2. \A t \in Senders : t # s => hand'[t] = hand[t]
  BY <1>0
<1>3. /\ fate' \in [Records -> Fates]
      /\ \A r \in Records :
           fate'[r] = IF r = Head(hand[s]) THEN what ELSE fate[r]
  BY DEF Ends, Types
<1>4. Kept' = Kept /\ queue' = queue /\ published' = published
  BY DEF Kept
<1>5. Singly'
  BY <1>1, <1>2, <1>4 DEF Singly
<1>6. Held(s) \intersect (Elems(queue) \union Elems(Kept)) = {}
  BY DEF Accounted
<1>7. \A r \in Records :
        fate'[r] = "none" <=>
          /\ fate[r] = "none"
          /\ r \in Elems(queue) \union Elems(Kept) \union Held(s)
               => r \in Elems(queue') \union Elems(Kept') \union Elems(hand'[s])
  BY <1>1, <1>3, <1>4, <1>6
<1>8. Elems(queue) \intersect Elems(Kept) = {}
  BY DEF Accounted
<1>9. Accounted'
  BY <1>1, <1>2, <1>4, <1>6, <1>7, <1>8, Move
<1>10. QED
  BY <1>3, <1>5, <1>9

(* ... and the order of the others is kept.                                *)
LEMMA LeavesOrdered ==
  ASSUME Types, Ordered, NEW s \in Senders, hand[s] # <<>>, home \/ s = Worker,
         hand' = [hand EXCEPT ![s] = Tail(@)],
         \A r \in Records : fate'[r] = "polled" => fate[r] = "polled",
         UNCHANGED <<home, queue, items>>
  PROVE  Ordered'
<1> SUFFICES ASSUME ~home
             PROVE  Ordered'
  BY DEF Ordered
<1>1. s = Worker /\ hand[Worker] \in Seq(Records) /\ hand[Worker] \in Seq(Nat)
  <2>1. hand[Worker] \in Seq(Records) /\ Records \subseteq Nat
    BY InRecords DEF Types
  <2>2. QED
    BY <2>1, SeqMonotonic
<1>2. hand'[Worker] = Tail(hand[Worker]) /\ Kept' = Kept /\ queue' = queue
  BY <1>1 DEF Types, Kept
<1>3. Elems(hand'[Worker]) \subseteq Held(Worker)
  BY <1>1, <1>2, TailElems DEF Held
<1>4. Rising(hand'[Worker])
  BY <1>1, <1>2, RisingTail DEF Ordered
<1>5. QED
  BY <1>2, <1>3, <1>4 DEF Ordered, Held

LEMMA PublishStep ==
  ASSUME Inv, Publish
  PROVE  Inv'
<1> DEFINE x == published + 1
<1> USE DEF Inv
<1>1. /\ x \in Records /\ x = published + 1 /\ published \in Nat /\ x \in Nat
      /\ published' = x /\ queue' = Append(queue, x)
      /\ UNCHANGED <<home, clock, enabled, switching, items, at, hand, fate>>
  BY PipelineAssumption DEF Publish, queueVars, senderVars, Types, Records
<1>2. queue \in Seq(Records) /\ Records \subseteq Nat
  BY InRecords DEF Types
<1> HIDE DEF x
<1>3. x \notin Elems(queue) \union Elems(Kept) /\ \A s \in Senders : x \notin Held(s)
  BY <1>1, <1>2 DEF Accounted
<1>4. /\ queue' \in Seq(Records) /\ Elems(queue') = Elems(queue) \union {x}
      /\ Distinct(queue')
  BY <1>1, <1>2, <1>3, AppendElems, AppendProperties DEF Singly
<1>5. Kept' = Kept /\ \A s \in Senders : Held(s)' = Held(s)
  BY <1>1 DEF Kept, Held
<1>6. published' \in 0 .. MaxRecords
  BY <1>1, <1>2 DEF Records
<1>7. Types'
  BY <1>1, <1>4, <1>6 DEF Types
<1>8. fate[x] = "none"
  BY <1>1, <1>2 DEF Accounted
<1>9. Accounted'
  <2>1. \A r \in Records : r <= x <=> r <= published \/ r = x
    BY <1>1, <1>2
  <2>2. \A r \in Records :
          (r \in Elems(queue') \union Elems(Kept') \/ \E s \in Senders : r \in Held(s)')
            <=> r <= published' /\ fate'[r] = "none"
    BY <1>1, <1>4, <1>5, <1>8, <2>1 DEF Accounted
  <2>3. QED
    BY <1>1, <1>3, <1>4, <1>5, <2>1, <2>2 DEF Accounted
<1>10. Singly'
  BY <1>1, <1>4, <1>5 DEF Singly
<1>11. Ordered'
  <2> SUFFICES ASSUME ~home
               PROVE  Ordered'
    BY <1>1 DEF Ordered
  <2>1. \A y \in Elems(queue) \union Elems(Kept) \union Held(Worker) : y < x
    <3> SUFFICES ASSUME NEW y \in Elems(queue) \union Elems(Kept) \union Held(Worker)
                 PROVE  y < x
      OBVIOUS
    <3>1. y \in Nat /\ y <= published
      BY InRecords DEF Accounted
    <3>2. QED
      BY <1>1, <3>1
  <2>2. queue \in Seq(Nat) /\ x \in Nat
    BY <1>1, <1>2, SeqMonotonic
  <2>3. Rising(queue')
    BY <1>1, <2>1, <2>2, RisingAppend DEF Ordered
  <2>4. \A r \in Records : fate[r] = "polled" => r < x
    BY <1>1, <1>2 DEF Accounted
  <2>5. QED
    BY <1>1, <1>4, <1>5, <2>1, <2>3, <2>4 DEF Ordered, Held
<1>12. QED
  BY <1>7, <1>9, <1>10, <1>11

LEMMA TakeRecordStep ==
  ASSUME Inv, TakeRecord
  PROVE  Inv'
<1> DEFINE x == Head(queue)
<1> USE DEF Inv
<1>0. /\ queue \in Seq(Records) /\ queue \in Seq(Nat) /\ Records \subseteq Nat
      /\ queue # <<>> /\ Worker \in Senders
      /\ hand[Worker] = <<>> /\ at[Worker] = "idle" /\ Held(Worker) = {}
  <2>1. queue \in Seq(Records) /\ queue # <<>> /\ hand[Worker] = <<>>
        /\ at[Worker] = "idle"
    BY InRecords DEF TakeRecord, Types
  <2>2. QED
    BY <2>1, InRecords, SeqMonotonic, EmptyElems DEF Held
<1>1. /\ queue' = Tail(queue) /\ queue' \in Seq(Records) /\ x \in Records
      /\ Elems(queue) = {x} \union Elems(queue')
      /\ x \notin Elems(queue') /\ Distinct(queue')
  BY <1>0, TailElems, HeadTailProperties DEF TakeRecord, Singly
<1>2. UNCHANGED <<home, clock, published, enabled, switching, items>> /\ Kept' = Kept
  BY DEF TakeRecord, queueVars, Kept
<1>3. x \notin Elems(Kept) /\ \A s \in Senders : x \notin Held(s)
  BY <1>1 DEF Accounted
<1>4. \A t \in Senders : t # Worker => hand'[t] = hand[t]
  BY DEF TakeRecord, Types
<1>5. CASE /\ at' = [at EXCEPT ![Worker] = "checking"]
           /\ hand' = [hand EXCEPT ![Worker] = <<x>>] /\ UNCHANGED fate
  <2>1. hand'[Worker] = <<x>> /\ <<x>> \in Seq(Records) /\ <<x>> # <<>>
    BY <1>0, <1>1, <1>5, SingleElems DEF Types
  <2>2. Elems(hand'[Worker]) = {x} /\ Distinct(hand'[Worker]) /\ Rising(hand'[Worker])
    BY <2>1, SingleElems
  <2>3. Types'
    <3>1. /\ at'[Worker] = "checking" /\ at' \in [Senders -> Phases]
          /\ \A t \in Senders : t # Worker => at'[t] = at[t]
      BY <1>0, <1>5 DEF Types, Phases
    <3>2. hand' \in [Senders -> Seq(Records)]
      BY <1>5, <2>1 DEF Types
    <3>3. \A t \in Senders : at'[t] \in {"idle", "done"} <=> hand'[t] = <<>>
      BY <1>4, <2>1, <3>1 DEF Types
    <3>4. home' \/ \A f \in Forwarders : at'[f] = "idle"
      BY <1>2, <3>1, PipelineAssumption DEF Types, Senders
    <3>5. QED
      BY <1>1, <1>2, <1>5, <3>1, <3>2, <3>3, <3>4 DEF Types
  <2>4. Accounted'
    <3>1. Elems(queue') \intersect Elems(Kept') = {}
      BY <1>1, <1>2 DEF Accounted
    <3>2. \A r \in Records :
            r \in Elems(queue) \union Elems(Kept) \union Held(Worker)
              => r \in Elems(queue') \union Elems(Kept') \union Elems(hand'[Worker])
      BY <1>0, <1>1, <1>2, <2>2
    <3>3. QED
      BY <1>0, <1>1, <1>2, <1>3, <1>4, <1>5, <2>2, <3>1, <3>2, Move
  <2>5. Singly'
    BY <1>1, <1>2, <1>4, <2>2 DEF Singly
  <2>6. Ordered'
    <3> SUFFICES ASSUME ~home
                 PROVE  Ordered'
      BY <1>2 DEF Ordered
    <3>1. Rising(queue') /\ \A y \in Elems(queue') : x < y
      BY <1>0, <1>1, RisingTail DEF Ordered
    <3>2. QED
      BY <1>1, <1>2, <1>5, <2>2, <3>1 DEF Ordered, Held
  <2>7. QED
    BY <2>3, <2>4, <2>5, <2>6
<1>6. CASE Ends({x}, "ignored") /\ UNCHANGED <<at, hand>>
  <2>1. /\ fate' \in [Records -> Fates]
        /\ \A r \in Records : fate'[r] = IF r = x THEN "ignored" ELSE fate[r]
    BY <1>6 DEF Ends, Types, Fates
  <2>2. Elems(hand'[Worker]) = {}
    BY <1>0, <1>6, EmptyElems
  <2>3. Types'
    BY <1>1, <1>2, <1>6, <2>1 DEF Types
  <2>4. Accounted'
    BY <1>0, <1>1, <1>2, <1>3, <1>4, <2>1, <2>2, Move DEF Accounted
  <2>5. Singly'
    BY <1>1, <1>2, <1>6 DEF Singly
  <2>6. Ordered'
    <3> SUFFICES ASSUME ~home
                 PROVE  Ordered'
      BY <1>2 DEF Ordered
    <3>1. Rising(queue')
      BY <1>0, <1>1, RisingTail DEF Ordered
    <3>2. QED
      BY <1>1, <1>2, <1>6, <2>1, <3>1 DEF Ordered, Held
  <2>7. QED
    BY <2>3, <2>4, <2>5, <2>6
<1>7. QED
  BY <1>5, <1>6 DEF TakeRecord

(* Steps that move no record.                                              *)
LEMMA NothingMoves ==
  ASSUME Inv, UNCHANGED <<home, published, queue, items, hand, fate>>,
         clock' \in Nat, at' \in [Senders -> Phases],
         \A s \in Senders : at'[s] \in {"idle", "done"} <=> at[s] \in {"idle", "done"},
         \A f \in Forwarders : at[f] = "idle" => at'[f] = "idle",
         home => enabled' /\ ~switching'
  PROVE  Inv'
<1>1. Kept' = Kept /\ \A s \in Senders : Held(s)' = Held(s)
  BY DEF Kept, Held
<1>2. Types'
  BY DEF Inv, Types
<1>3. Accounted' /\ Singly'
  BY <1>1 DEF Inv, Accounted, Singly
<1>4. Ordered'
  BY <1>1, InRecords DEF Inv, Ordered
<1>5. QED
  BY <1>2, <1>3, <1>4 DEF Inv

(* A sender whose record came to its end goes on with the next one, from   *)
(* the same place.                                                         *)
LEMMA LeavesStep ==
  ASSUME Inv, NEW s \in Senders, home \/ s = Worker, hand[s] # <<>>,
         NEW what \in Fates \ {"none", "polled"}, Ends({Head(hand[s])}, what),
         hand' = [hand EXCEPT ![s] = Tail(@)],
         NEW busy \in Phases \ {"idle", "done"},
         at' = [at EXCEPT ![s] = IF Len(hand[s]) > 1 THEN busy ELSE "idle"],
         UNCHANGED <<home, clock, published, queue, items, enabled, switching>>
  PROVE  Inv'
<1> USE DEF Inv
<1>1. /\ hand' \in [Senders -> Seq(Records)] /\ at' \in [Senders -> Phases]
      /\ \A t \in Senders : t # s => at'[t] = at[t]
      /\ \A t \in Senders : at'[t] \in {"idle", "done"} <=> hand'[t] = <<>>
  BY HandOn
<1>2. home \/ \A f \in Forwarders : at'[f] = "idle"
  BY <1>1, PipelineAssumption DEF Types, Senders
<1>3. /\ fate' \in [Records -> Fates] /\ Accounted' /\ Singly'
      /\ \A r \in Records : fate'[r] = "polled" => fate[r] = "polled"
  BY Leaves
<1>4. Ordered'
  BY <1>3, LeavesOrdered
<1>5. Types'
  BY <1>1, <1>2, <1>3 DEF Types
<1>6. QED
  BY <1>3, <1>4, <1>5

(* Senders that are on their way have a record, and without Home that is   *)
(* the worker.                                                             *)
LEMMA OnTheWay ==
  ASSUME Types, NEW s \in Senders, at[s] \notin {"idle", "done"}
  PROVE  hand[s] # <<>> /\ (home \/ s = Worker)
BY DEF Types, Senders

LEMMA CheckEnabledStep ==
  ASSUME Inv, NEW s \in Senders, CheckEnabled(s)
  PROVE  Inv'
<1>0. hand[s] # <<>> /\ (home \/ s = Worker) /\ Types
  BY OnTheWay DEF CheckEnabled, Inv
<1>1. UNCHANGED <<home, clock, published, queue, items, enabled, switching>>
  BY DEF CheckEnabled, managerVars, queueVars
<1>2. CASE enabled
  <2>1. at' = [at EXCEPT ![s] = "publishing"] /\ UNCHANGED <<hand, fate>> /\ at[s] = "checking"
    BY <1>2 DEF CheckEnabled
  <2>2. QED
    BY <1>0, <1>1, <2>1, NothingMoves DEF Types, Phases
<1>3. CASE ~enabled
  <2>1. Enqueued(s) /\ Ends({Head(hand[s])}, "ignored")
    BY <1>3 DEF CheckEnabled
  <2>2. "ignored" \in Fates \ {"none", "polled"} /\ "checking" \in Phases \ {"idle", "done"}
    BY DEF Fates, Phases
  <2>3. QED
    BY <1>0, <1>1, <2>1, <2>2, LeavesStep DEF Enqueued
<1>4. QED
  BY <1>2, <1>3

LEMMA PublishToSubscribersStep ==
  ASSUME Inv, NEW s \in Senders, PublishToSubscribers(s)
  PROVE  Inv'
<1>0. hand[s] # <<>> /\ (home \/ s = Worker) /\ Types
  BY OnTheWay DEF PublishToSubscribers, Inv
<1>1. UNCHANGED <<home, clock, published, queue, items, enabled, switching>>
  BY DEF PublishToSubscribers, managerVars, queueVars
<1>2. CASE subscribers = {}
  <2>1. /\ at' = [at EXCEPT ![s] = "appending"] /\ UNCHANGED <<hand, fate>>
        /\ at[s] = "publishing"
    BY <1>2 DEF PublishToSubscribers
  <2>2. QED
    BY <1>0, <1>1, <2>1, NothingMoves DEF Types, Phases
<1>3. CASE subscribers # {}
  <2>1. Enqueued(s) /\ Ends({Head(hand[s])}, "broadcast")
    BY <1>3 DEF PublishToSubscribers
  <2>2. "broadcast" \in Fates \ {"none", "polled"} /\ "checking" \in Phases \ {"idle", "done"}
    BY DEF Fates, Phases
  <2>3. QED
    BY <1>0, <1>1, <2>1, <2>2, LeavesStep DEF Enqueued
<1>4. QED
  BY <1>2, <1>3

LEMMA PushSteps ==
  ASSUME Inv, NEW f \in Forwarders, Push(f) \/ PushFails(f)
  PROVE  Inv'
<1>0. f \in Senders /\ at[f] = "pushing" /\ Types
  BY InRecords DEF Push, PushFails, Inv
<1>1. hand[f] # <<>> /\ home
  BY <1>0, PipelineAssumption DEF Types
<1>2. UNCHANGED <<home, clock, published, queue, items, enabled, switching>>
  BY DEF Push, PushFails, managerVars, queueVars
<1>3. CASE Push(f)
  <2>1. "pushed" \in Fates \ {"none", "polled"} /\ "pushing" \in Phases \ {"idle", "done"}
    BY DEF Fates, Phases
  <2>2. QED
    BY <1>0, <1>1, <1>2, <1>3, <2>1, LeavesStep DEF Push
<1>4. CASE PushFails(f)
  <2>1. at' = [at EXCEPT ![f] = "checking"] /\ UNCHANGED <<hand, fate>>
    BY <1>4 DEF PushFails
  <2>2. QED
    BY <1>0, <1>1, <1>2, <2>1, NothingMoves DEF Types, Phases
<1>5. QED
  BY <1>3, <1>4

(* Pruning the items, from the facts about items alone.                    *)
LEMMA PruneItems ==
  ASSUME Types, Singly, NEW now \in Nows
  PROVE  /\ now \in Nat /\ Pruned(now) \in Seq(Items)
         /\ Len(Pruned(now)) \in Nat /\ Len(Pruned(now)) <= Len(items)
         /\ KeptOf(Pruned(now)) \in Seq(Records) /\ Distinct(KeptOf(Pruned(now)))
         /\ Elems(Kept) = PrunedRecords(now) \union Elems(KeptOf(Pruned(now)))
         /\ PrunedRecords(now) \intersect Elems(KeptOf(Pruned(now))) = {}
         /\ Rising(Kept) => Rising(KeptOf(Pruned(now)))
<1>1. now \in Nat
  BY DEF Nows, Types
<1>2. items \in Seq(Items) /\ Len(items) \in Nat
  BY LenProperties DEF Types
<1>3. PICK k \in 0 .. Len(items) : Pruned(now) = SubSeq(items, k + 1, Len(items))
  BY <1>1, <1>2, Pruning
<1>4. Pruned(now) \in Seq(Items) /\ Len(Pruned(now)) = Len(items) - k
  BY <1>2, <1>3, CutAt
<1>5. 0 \in 0 .. Len(Pruned(now)) /\ Len(Pruned(now)) \in Nat
  BY <1>2, <1>4
<1>6. Distinct(Kept)
  BY DEF Singly
<1>7. KeptOf(Pruned(now)) \in Seq(Records)
  BY <1>4, KeptOfType
<1>8. QED
  BY <1>1, <1>2, <1>4, <1>5, <1>6, <1>7, Taking

LEMMA AppendItemStep ==
  ASSUME Inv, NEW s \in Senders, AppendItem(s)
  PROVE  Inv'
<1> USE DEF Inv
<1>0. hand[s] # <<>> /\ (home \/ s = Worker) /\ at[s] = "appending"
  BY OnTheWay DEF AppendItem
<1>1. PICK x \in Records : x = Head(hand[s])
  BY <1>0, HeadTailProperties DEF Types
<1>2. PICK now \in Nows :
        /\ items' = Append(Pruned(now), [record |-> x, enqueuedAt |-> now])
        /\ Ends(PrunedRecords(now), "expired")
  BY <1>1 DEF AppendItem
<1>3. UNCHANGED <<home, clock, published, queue, enabled, switching>>
  BY DEF AppendItem, managerVars
<1>4. PICK P : P = PrunedRecords(now)
  OBVIOUS
<1>5. PICK kept : kept = Pruned(now)
  OBVIOUS
<1>6. /\ now \in Nat /\ kept \in Seq(Items) /\ KeptOf(kept) \in Seq(Records)
      /\ Distinct(KeptOf(kept))
      /\ Elems(Kept) = P \union Elems(KeptOf(kept))
      /\ P \intersect Elems(KeptOf(kept)) = {}
      /\ Rising(Kept) => Rising(KeptOf(kept))
  BY <1>4, <1>5, PruneItems
<1>7. /\ hand' \in [Senders -> Seq(Records)] /\ at' \in [Senders -> Phases]
      /\ hand'[s] = Tail(hand[s]) /\ \A t \in Senders : t # s => hand'[t] = hand[t]
      /\ \A t \in Senders : t # s => at'[t] = at[t]
      /\ \A t \in Senders : at'[t] \in {"idle", "done"} <=> hand'[t] = <<>>
      /\ Held(s) = {x} \union Elems(hand'[s])
      /\ Distinct(hand'[s]) /\ x \notin Elems(hand'[s])
  <2>1. "checking" \in Phases \ {"idle", "done"}
    BY DEF Phases
  <2>2. QED
    BY <1>0, <1>1, <2>1, HandOn DEF AppendItem, Enqueued, Singly
<1>8. x \notin Elems(Kept) /\ x \notin Elems(queue)
  BY <1>7 DEF Accounted
<1>9. /\ items' \in Seq(Items) /\ Kept' = Append(KeptOf(kept), x)
  <2>1. [record |-> x, enqueuedAt |-> now] \in Items
    BY <1>6 DEF Items
  <2>2. /\ items' \in Seq(Items) /\ KeptOf(items') = Append(KeptOf(kept), x)
    BY <1>2, <1>5, <1>6, <2>1, KeptOfAppend
  <2>3. QED
    BY <2>2 DEF Kept, KeptOf
<1>10. Elems(Kept') = Elems(KeptOf(kept)) \union {x} /\ Distinct(Kept')
  BY <1>6, <1>8, <1>9, AppendElems
<1>11. /\ fate' \in [Records -> Fates]
       /\ \A r \in Records : fate'[r] = IF r \in P THEN "expired" ELSE fate[r]
  BY <1>2, <1>4 DEF Ends, Types, Fates
<1>12. Accounted'
  <2>1. P \intersect (Elems(queue) \union Held(s)) = {}
    BY <1>6 DEF Accounted
  <2>2. \A r \in Records :
          fate'[r] = "none" <=>
            /\ fate[r] = "none"
            /\ r \in Elems(queue) \union Elems(Kept) \union Held(s)
                 => r \in Elems(queue') \union Elems(Kept') \union Elems(hand'[s])
    BY <1>3, <1>6, <1>7, <1>8, <1>10, <1>11, <2>1
  <2>3. /\ Elems(queue') \intersect Elems(Kept') = {}
        /\ Elems(hand'[s]) \intersect (Elems(queue') \union Elems(Kept')) = {}
    BY <1>3, <1>6, <1>7, <1>8, <1>10 DEF Accounted
  <2>4. /\ Elems(queue') \subseteq Elems(queue)
        /\ Elems(Kept') \union Elems(hand'[s])
             \subseteq Elems(queue) \union Elems(Kept) \union Held(s)
    BY <1>3, <1>6, <1>7, <1>10
  <2>5. QED
    BY <1>3, <1>7, <2>2, <2>3, <2>4, Move
<1>13. Singly'
  BY <1>3, <1>7, <1>10 DEF Singly
<1>14. Types'
  <2>1. home' \/ \A f \in Forwarders : at'[f] = "idle"
    BY <1>0, <1>3, <1>7, PipelineAssumption DEF Types, Senders
  <2>2. QED
    BY <1>3, <1>7, <1>9, <1>11, <2>1 DEF Types
<1>15. Ordered'
  <2> SUFFICES ASSUME ~home
               PROVE  Ordered'
    BY <1>3 DEF Ordered
  <2>0. s = Worker /\ hand[Worker] \in Seq(Nat) /\ KeptOf(kept) \in Seq(Nat) /\ x \in Nat
    BY <1>0, <1>6, InRecords, SeqMonotonic DEF Types
  <2>1. Rising(hand'[Worker]) /\ \A y \in Elems(hand'[Worker]) : x < y
    BY <1>0, <1>1, <1>7, <2>0, RisingTail DEF Ordered
  <2>2. Rising(Kept')
    BY <1>6, <1>7, <1>9, <2>0, RisingAppend DEF Ordered
  <2>3. \A r \in Records : fate'[r] = "polled" => fate[r] = "polled"
    BY <1>11
  <2>4. \A y \in Elems(queue) : x < y
    BY <1>7, <2>0 DEF Ordered
  <2>5. Elems(Kept') \subseteq Elems(Kept) \union {x} /\ Elems(hand'[s]) \subseteq Held(s)
    BY <1>6, <1>7, <1>10
  <2>6. QED
    BY <1>3, <1>7, <2>0, <2>1, <2>2, <2>3, <2>4, <2>5 DEF Ordered, Held
<1>16. QED
  BY <1>12, <1>13, <1>14, <1>15

(* Poll and PopBatch take the oldest items behind those that expired.      *)
LEMMA TakeItems ==
  ASSUME Types, Singly, NEW now \in Nows, NEW count \in Nat,
         NEW most,
         most = IF count < Len(Pruned(now)) THEN count ELSE Len(Pruned(now)),
         items' = SubSeq(Pruned(now), most + 1, Len(Pruned(now)))
  PROVE  LET taken == RecordsOf(SubSeq(Pruned(now), 1, most)) IN
         /\ items' \in Seq(Items) /\ Distinct(Kept') /\ Len(items') <= Len(items)
         /\ Elems(Kept) = PrunedRecords(now) \union taken \union Elems(Kept')
         /\ PrunedRecords(now) \intersect taken = {}
         /\ (PrunedRecords(now) \union taken) \intersect Elems(Kept') = {}
         /\ taken \subseteq Records
         /\ Rising(Kept) =>
              Rising(Kept') /\ \A x \in taken, y \in Elems(Kept') : x < y
         /\ LET front == KeptOf(SubSeq(Pruned(now), 1, most)) IN
            /\ front \in Seq(Records) /\ Len(front) = most /\ Elems(front) = taken
            /\ Distinct(front) /\ front = [i \in 1 .. most |-> Pruned(now)[i].record]
<1>1. PICK kept : kept = Pruned(now)
  OBVIOUS
<1>2. /\ now \in Nat /\ kept \in Seq(Items) /\ Len(kept) \in Nat
  BY <1>1, PruneItems
<1>3. most \in 0 .. Len(kept)
  BY <1>1, <1>2
<1>4. PICK front : front = SubSeq(kept, 1, most)
  OBVIOUS
<1>5. Kept' = KeptOf(items')
  BY DEF Kept, KeptOf
<1>6. /\ front \in Seq(Items) /\ Len(front) = most
      /\ items' \in Seq(Items) /\ Len(items') <= Len(items)
      /\ Elems(Kept) = PrunedRecords(now) \union Elems(KeptOf(kept))
      /\ PrunedRecords(now) \intersect Elems(KeptOf(kept)) = {}
      /\ Elems(KeptOf(kept)) = RecordsOf(front) \union Elems(Kept')
      /\ RecordsOf(front) \intersect Elems(Kept') = {}
      /\ Distinct(KeptOf(front)) /\ Distinct(Kept')
      /\ Rising(Kept) =>
           Rising(Kept') /\ \A x \in RecordsOf(front), y \in Elems(Kept') : x < y
  <2>1. /\ items \in Seq(Items) /\ Distinct(Kept) /\ now \in Nat
        /\ most \in 0 .. Len(Pruned(now))
    BY <1>1, <1>2, <1>3 DEF Types, Singly
  <2>2. LET whole == Pruned(now)
            first == SubSeq(whole, 1, most)
            rest  == SubSeq(whole, most + 1, Len(whole))
        IN  /\ whole \in Seq(Items) /\ Len(whole) <= Len(items)
            /\ first \in Seq(Items) /\ Len(first) = most
            /\ rest \in Seq(Items) /\ Len(rest) <= Len(items)
            /\ Elems(Kept) = PrunedRecords(now) \union Elems(KeptOf(whole))
            /\ PrunedRecords(now) \intersect Elems(KeptOf(whole)) = {}
            /\ Elems(KeptOf(whole)) = RecordsOf(first) \union Elems(KeptOf(rest))
            /\ RecordsOf(first) \intersect Elems(KeptOf(rest)) = {}
            /\ Distinct(KeptOf(whole)) /\ Distinct(KeptOf(first)) /\ Distinct(KeptOf(rest))
            /\ Rising(Kept) =>
                 /\ Rising(KeptOf(whole)) /\ Rising(KeptOf(rest))
                 /\ \A x \in RecordsOf(first), y \in Elems(KeptOf(rest)) : x < y
    BY ONLY <2>1, Taking
  <2>3. PICK rest : rest = items'
    OBVIOUS
  <2>4. rest = SubSeq(kept, most + 1, Len(kept)) /\ Kept' = KeptOf(rest)
    BY <1>1, <1>5, <2>3
  <2>5. /\ front \in Seq(Items) /\ Len(front) = most
        /\ rest \in Seq(Items) /\ Len(rest) <= Len(items)
        /\ Elems(Kept) = PrunedRecords(now) \union Elems(KeptOf(kept))
        /\ PrunedRecords(now) \intersect Elems(KeptOf(kept)) = {}
        /\ Elems(KeptOf(kept)) = RecordsOf(front) \union Elems(KeptOf(rest))
        /\ RecordsOf(front) \intersect Elems(KeptOf(rest)) = {}
        /\ Distinct(KeptOf(front)) /\ Distinct(KeptOf(rest))
        /\ Rising(Kept) =>
             Rising(KeptOf(rest)) /\ \A x \in RecordsOf(front), y \in Elems(KeptOf(rest)) : x < y
    BY ONLY <1>1, <1>4, <2>2, <2>4
  <2>6. QED
    BY ONLY <2>3, <2>4, <2>5
<1>7. /\ KeptOf(front) \in Seq(Records) /\ Len(KeptOf(front)) = most
      /\ Elems(KeptOf(front)) = RecordsOf(front)
  BY <1>6, KeptOfType
<1>8. KeptOf(front) = [i \in 1 .. most |-> kept[i].record]
  BY <1>2, <1>3, <1>4, <1>6, CutAt DEF KeptOf
<1>9. RecordsOf(front) \subseteq Records
  BY <1>7, ElementOfSeq DEF Elems
<1>10. QED
  BY <1>1, <1>4, <1>6, <1>7, <1>8, <1>9

LEMMA PollStep ==
  ASSUME Inv, NEW p \in Pollers, Poll(p)
  PROVE  Inv'
<1> USE DEF Inv
<1>1. PICK count \in 1 .. Batch, now \in Nows :
        LET kept == Pruned(now)
            most == IF count < Len(kept) THEN count ELSE Len(kept)
        IN  /\ items' = SubSeq(kept, most + 1, Len(kept))
            /\ fate' = [r \in Records |->
                 IF r \in PrunedRecords(now) THEN "expired"
                 ELSE IF r \in RecordsOf(SubSeq(kept, 1, most)) THEN "polled"
                 ELSE fate[r]]
  BY DEF Poll
<1>2. UNCHANGED <<home, clock, published, queue, enabled, switching, at, hand>>
  BY DEF Poll, managerVars, senderVars
<1>3. PICK most :
        /\ most = IF count < Len(Pruned(now)) THEN count ELSE Len(Pruned(now))
        /\ items' = SubSeq(Pruned(now), most + 1, Len(Pruned(now)))
        /\ fate' = [r \in Records |->
             IF r \in PrunedRecords(now) THEN "expired"
             ELSE IF r \in RecordsOf(SubSeq(Pruned(now), 1, most)) THEN "polled"
             ELSE fate[r]]
  BY <1>1
<1>4. PICK taken : taken = RecordsOf(SubSeq(Pruned(now), 1, most))
  OBVIOUS
<1>5. PICK P : P = PrunedRecords(now)
  OBVIOUS
<1>6. /\ items' \in Seq(Items) /\ Distinct(Kept')
      /\ Elems(Kept) = P \union taken \union Elems(Kept')
      /\ P \intersect taken = {}
      /\ (P \union taken) \intersect Elems(Kept') = {}
      /\ taken \subseteq Records
      /\ Rising(Kept) => Rising(Kept') /\ \A x \in taken, y \in Elems(Kept') : x < y
  <2>1. count \in Nat
    BY PipelineAssumption
  <2>2. QED
    BY <1>3, <1>4, <1>5, <2>1, TakeItems
<1>7. /\ fate' \in [Records -> Fates]
      /\ \A r \in Records : fate'[r] = IF r \in P THEN "expired"
                                       ELSE IF r \in taken THEN "polled" ELSE fate[r]
  BY <1>3, <1>4, <1>5 DEF Types, Fates
<1>8. Worker \in Senders /\ Held(Worker)' = Held(Worker)
  BY <1>2 DEF Senders, Held
<1>9. Accounted'
  <2>1. Elems(queue') \intersect Elems(Kept') = {}
    BY <1>2, <1>6 DEF Accounted
  <2>2. Held(Worker) \intersect (Elems(queue) \union Elems(Kept)) = {}
    BY <1>8 DEF Accounted
  <2>3. Elems(queue) \intersect Elems(Kept) = {}
    BY DEF Accounted
  <2>4. \A r \in Records :
          fate'[r] = "none" <=>
            /\ fate[r] = "none"
            /\ r \in Elems(queue) \union Elems(Kept) \union Held(Worker)
                 => r \in Elems(queue') \union Elems(Kept') \union Elems(hand'[Worker])
    BY <1>2, <1>6, <1>7, <2>2, <2>3 DEF Held
  <2>5. QED
    BY <1>2, <1>6, <1>8, <2>1, <2>2, <2>4, Move DEF Held
<1>10. Singly'
  BY <1>2, <1>6 DEF Singly
<1>11. Types'
  BY <1>2, <1>6, <1>7 DEF Types
<1>12. Ordered'
  BY <1>2, <1>6, <1>7, <1>8 DEF Ordered
<1>13. QED
  BY <1>9, <1>10, <1>11, <1>12

LEMMA PopBatchStep ==
  ASSUME Inv, NEW f \in Forwarders, PopBatch(f)
  PROVE  Inv'
<1> USE DEF Inv
<1>0. /\ f \in Senders /\ home /\ at[f] = "idle" /\ hand[f] = <<>> /\ Held(f) = {}
      /\ hand \in [Senders -> Seq(Records)] /\ at \in [Senders -> Phases]
  BY InRecords, EmptyElems DEF PopBatch, Types, Held
<1>1. PICK now \in Nows :
        LET kept == Pruned(now)
            most == IF Batch < Len(kept) THEN Batch ELSE Len(kept)
        IN  /\ items' = SubSeq(kept, most + 1, Len(kept))
            /\ Ends(PrunedRecords(now), "expired")
            /\ hand' = [hand EXCEPT ![f] = [i \in 1 .. most |-> kept[i].record]]
            /\ at' = [at EXCEPT ![f] = IF most > 0 THEN "pushing" ELSE "idle"]
  BY DEF PopBatch
<1>2. UNCHANGED <<home, clock, published, queue, enabled, switching>>
  BY DEF PopBatch, managerVars
<1>3. PICK most :
        /\ most = IF Batch < Len(Pruned(now)) THEN Batch ELSE Len(Pruned(now))
        /\ items' = SubSeq(Pruned(now), most + 1, Len(Pruned(now)))
        /\ Ends(PrunedRecords(now), "expired")
        /\ hand' = [hand EXCEPT ![f] = [i \in 1 .. most |-> Pruned(now)[i].record]]
        /\ at' = [at EXCEPT ![f] = IF most > 0 THEN "pushing" ELSE "idle"]
  BY <1>1
<1>4. PICK taken : taken = RecordsOf(SubSeq(Pruned(now), 1, most))
  OBVIOUS
<1>5. PICK P : P = PrunedRecords(now)
  OBVIOUS
<1>6. PICK front : front = [i \in 1 .. most |-> Pruned(now)[i].record]
  OBVIOUS
<1>7. /\ items' \in Seq(Items) /\ Distinct(Kept')
      /\ Elems(Kept) = P \union taken \union Elems(Kept')
      /\ P \intersect taken = {}
      /\ (P \union taken) \intersect Elems(Kept') = {}
      /\ front \in Seq(Records) /\ Len(front) = most /\ Elems(front) = taken
      /\ Distinct(front)
  <2>1. Batch \in Nat
    BY PipelineAssumption
  <2>2. PICK cut : cut = KeptOf(SubSeq(Pruned(now), 1, most))
    OBVIOUS
  <2>3. /\ items' \in Seq(Items) /\ Distinct(Kept')
        /\ Elems(Kept) = P \union taken \union Elems(Kept')
        /\ P \intersect taken = {}
        /\ (P \union taken) \intersect Elems(Kept') = {}
        /\ cut \in Seq(Records) /\ Len(cut) = most /\ Elems(cut) = taken
        /\ Distinct(cut) /\ cut = front
    BY <1>3, <1>4, <1>5, <1>6, <2>1, <2>2, TakeItems
  <2>4. QED
    BY <2>3
<1>8. /\ hand' = [hand EXCEPT ![f] = front] /\ hand'[f] = front
      /\ \A t \in Senders : t # f => hand'[t] = hand[t] /\ at'[t] = at[t]
      /\ hand' \in [Senders -> Seq(Records)] /\ at' \in [Senders -> Phases]
      /\ at'[f] = IF most > 0 THEN "pushing" ELSE "idle"
  BY <1>0, <1>3, <1>6, <1>7 DEF Phases
<1>9. at'[f] \in {"idle", "done"} <=> hand'[f] = <<>>
  <2>1. front = <<>> <=> most = 0
    BY <1>7, EmptyLength
  <2>2. most \in Nat
    BY <1>7, LenProperties
  <2>3. most > 0 <=> most # 0
    BY <2>2
  <2>4. at'[f] \in {"idle", "done"} <=> ~(most > 0)
    BY <1>8
  <2>5. QED
    BY <1>8, <2>1, <2>3, <2>4
<1>10. \A t \in Senders : at'[t] \in {"idle", "done"} <=> hand'[t] = <<>>
  BY <1>8, <1>9 DEF Types
<1>11. /\ fate' \in [Records -> Fates]
       /\ \A r \in Records : fate'[r] = IF r \in P THEN "expired" ELSE fate[r]
  BY <1>3, <1>5 DEF Ends, Types, Fates
<1>12. Types'
  BY <1>0, <1>2, <1>7, <1>8, <1>10, <1>11 DEF Types
<1>13. Accounted'
  <2>1. Elems(queue) \intersect Elems(Kept) = {}
    BY DEF Accounted
  <2>2. \A r \in Records :
          fate'[r] = "none" <=>
            /\ fate[r] = "none"
            /\ r \in Elems(queue) \union Elems(Kept) \union Held(f)
                 => r \in Elems(queue') \union Elems(Kept') \union Elems(hand'[f])
    BY <1>0, <1>2, <1>7, <1>8, <1>11, <2>1
  <2>3. /\ Elems(queue') \intersect Elems(Kept') = {}
        /\ Elems(hand'[f]) \intersect (Elems(queue') \union Elems(Kept')) = {}
    BY <1>2, <1>7, <1>8, <2>1
  <2>4. /\ Elems(queue') \subseteq Elems(queue)
        /\ Elems(Kept') \union Elems(hand'[f])
             \subseteq Elems(queue) \union Elems(Kept) \union Held(f)
    BY <1>2, <1>7, <1>8
  <2>5. QED
    BY <1>0, <1>2, <1>8, <2>2, <2>3, <2>4, Move
<1>14. Singly'
  BY <1>2, <1>7, <1>8 DEF Singly
<1>15. Ordered'
  BY <1>0, <1>2 DEF Ordered
<1>16. QED
  BY <1>12, <1>13, <1>14, <1>15

(* clear ends the records that were kept.                                  *)
LEMMA ClearDisabledStep ==
  ASSUME Inv, ClearDisabled
  PROVE  Inv'
<1> USE DEF Inv
<1>1. /\ switching /\ items' = <<>> /\ Ends(RecordsOf(items), "cleared")
      /\ UNCHANGED <<home, clock, published, queue, enabled, at, hand>>
      /\ switching' = FALSE
  BY DEF ClearDisabled, Disable, Clear, managerVars, senderVars
<1>2. RecordsOf(items) = Elems(Kept)
  BY KeptOfType DEF Types, Kept, KeptOf
<1>3. items' \in Seq(Items) /\ Kept' = <<>>
  <2>1. items' \in Seq(Items) /\ Len(items') = 0
    BY <1>1, EmptySeq
  <2>2. KeptOf(items') \in Seq(Records) /\ Len(KeptOf(items')) = 0
    BY <2>1, KeptOfType
  <2>3. KeptOf(items') = <<>>
    BY <2>2, EmptyLength
  <2>4. QED
    BY <2>1, <2>3 DEF Kept, KeptOf
<1>4. Elems(Kept') = {} /\ Distinct(Kept') /\ Rising(Kept')
  BY <1>3, EmptyElems
<1>5. /\ fate' \in [Records -> Fates]
      /\ \A r \in Records :
           fate'[r] = IF r \in Elems(Kept) THEN "cleared" ELSE fate[r]
  BY <1>1, <1>2 DEF Ends, Types, Fates
<1>6. Worker \in Senders /\ Held(Worker)' = Held(Worker)
  BY <1>1 DEF Senders, Held
<1>7. Accounted'
  <2>1. /\ Held(Worker) \intersect (Elems(queue) \union Elems(Kept)) = {}
        /\ Elems(queue) \intersect Elems(Kept) = {}
    BY <1>6 DEF Accounted
  <2>2. \A r \in Records :
          fate'[r] = "none" <=>
            /\ fate[r] = "none"
            /\ r \in Elems(queue) \union Elems(Kept) \union Held(Worker)
                 => r \in Elems(queue') \union Elems(Kept') \union Elems(hand'[Worker])
    BY <1>1, <1>4, <1>5, <2>1 DEF Held
  <2>3. QED
    BY <1>1, <1>4, <1>6, <2>1, <2>2, Move DEF Held
<1>8. Singly'
  BY <1>1, <1>4 DEF Singly
<1>9. Types'
  BY <1>1, <1>3, <1>5 DEF Types
<1>10. Ordered'
  BY <1>1, <1>4, <1>5, <1>6 DEF Ordered
<1>11. QED
  BY <1>7, <1>8, <1>9, <1>10

-----------------------------------------------------------------------------
(* Every step                                                              *)

LEMMA InitHolds ==
  ASSUME Init
  PROVE  Inv
<1>1. /\ queue = <<>> /\ items = <<>> /\ published = 0
      /\ at = [s \in Senders |-> "idle"] /\ hand = [s \in Senders |-> <<>>]
      /\ fate = [r \in Records |-> "none"]
      /\ home \in BOOLEAN /\ clock = 0 /\ enabled = home /\ switching = FALSE
  BY DEF Init
<1>2. /\ queue \in Seq(Records) /\ items \in Seq(Items) /\ Len(items) = 0
      /\ \A s \in Senders : hand[s] = <<>>
      /\ hand \in [Senders -> Seq(Records)]
  BY <1>1, EmptySeq
<1>3. Kept = <<>>
  <2>1. KeptOf(items) \in Seq(Records) /\ Len(KeptOf(items)) = 0
    BY <1>2, KeptOfType
  <2>2. KeptOf(items) = <<>>
    BY <2>1, EmptyLength
  <2>3. QED
    BY <2>2 DEF Kept, KeptOf
<1>4. Types
  BY <1>1, <1>2, PipelineAssumption DEF Types, Phases, Fates, Senders
<1>5. Elems(queue) = {} /\ Elems(Kept) = {} /\ \A s \in Senders : Held(s) = {}
  BY <1>1, <1>2, <1>3, EmptyElems DEF Held
<1>6. Accounted
  <2>1. \A r \in Records : ~(r <= published)
    BY <1>1 DEF Records
  <2>2. QED
    BY <1>1, <1>5, <2>1 DEF Accounted
<1>7. Singly
  BY <1>1, <1>2, <1>3, EmptyElems DEF Singly
<1>8. Ordered
  <2>1. Worker \in Senders
    BY DEF Senders
  <2>2. Rising(Kept) /\ Rising(hand[Worker]) /\ Rising(queue)
    BY <1>1, <1>2, <1>3, <2>1, EmptyElems
  <2>3. QED
    BY <1>1, <1>5, <2>1, <2>2 DEF Ordered
<1>9. QED
  BY <1>4, <1>6, <1>7, <1>8 DEF Inv

(* Steps of the manager, of SetEnabled, of subscribers and of the clock    *)
(* leave the records where they are.                                       *)
OtherStep ==
  \/ Stop \/ Signal \/ Sleep \/ EndWorker \/ SetEnabled \/ SetDisabled
  \/ \E p \in Pollers : StartPoll(p)
  \/ \E u \in Subscribers : SubscriberStep(u)
  \/ NotifyUsageRefresh \/ Tick

LEMMA OtherSteps ==
  ASSUME Inv, OtherStep
  PROVE  Inv'
<1>0. Types
  BY DEF Inv
<1> DEFINE Quiet == /\ UNCHANGED <<home, published, queue, items, hand, fate>>
                    /\ clock' \in Nat
<1>1. ASSUME Quiet, at' = at, home => enabled' /\ ~switching'
      PROVE  Inv'
  BY <1>0, <1>1, NothingMoves DEF Types
<1>2. CASE Stop \/ Signal \/ Sleep
  BY <1>0, <1>1, <1>2 DEF Stop, Signal, Sleep, queueVars, senderVars, Types
<1>3. CASE EndWorker
  <2>1. Quiet /\ UNCHANGED <<enabled, switching>> /\ at[Worker] = "idle"
        /\ at' = [at EXCEPT ![Worker] = "done"]
    BY <1>0, <1>3 DEF EndWorker, managerVars, queueVars, Types
  <2>2. at' \in [Senders -> Phases]
    BY <1>0, <2>1 DEF Types, Phases
  <2>3. \A s \in Senders : at'[s] \in {"idle", "done"} <=> at[s] \in {"idle", "done"}
    BY <1>0, <2>1 DEF Types
  <2>4. \A f \in Forwarders : at[f] = "idle" => at'[f] = "idle"
    BY <1>0, <2>1, PipelineAssumption DEF Types, Senders
  <2>5. QED
    BY <1>0, <2>1, <2>2, <2>3, <2>4, NothingMoves DEF Types
<1>4. CASE SetEnabled \/ SetDisabled
  BY <1>0, <1>1, <1>4 DEF SetEnabled, SetDisabled, Switch, Disable, StoreDisabled,
     managerVars, senderVars, Types
<1>5. CASE \E p \in Pollers : StartPoll(p)
  BY <1>0, <1>1, <1>5 DEF StartPoll, managerVars, senderVars, Types
<1>6. CASE \E u \in Subscribers : SubscriberStep(u)
  BY <1>0, <1>1, <1>6 DEF SubscriberStep, Subscribe, Receive, Unsubscribe,
     CloseChannel, managerVars, queueVars, senderVars, Types
<1>7. CASE NotifyUsageRefresh
  BY <1>0, <1>1, <1>7 DEF NotifyUsageRefresh, managerVars, queueVars, senderVars, Types
<1>8. CASE Tick
  BY <1>0, <1>1, <1>8 DEF Tick, managerVars, queueVars, senderVars, Types
<1>9. QED
  BY <1>2, <1>3, <1>4, <1>5, <1>6, <1>7, <1>8 DEF OtherStep

(* The steps that move records.                                            *)
RecordStep ==
  \/ Publish \/ TakeRecord
  \/ \E s \in Senders : Enqueue(s)
  \/ \E f \in Forwarders : PopBatch(f) \/ Push(f) \/ PushFails(f)
  \/ \E p \in Pollers : Poll(p)
  \/ ClearDisabled

LEMMA StepsAreTwoKinds ==
  ASSUME Next
  PROVE  RecordStep \/ OtherStep
<1>1. Worker \in Senders /\ Forwarders \subseteq Senders
  BY DEF Senders
<1>2. CASE WorkerStep
  BY <1>1, <1>2 DEF WorkerStep, RecordStep, OtherStep
<1>3. CASE \E f \in Forwarders : ForwarderStep(f)
  BY <1>1, <1>3 DEF ForwarderStep, RecordStep
<1>4. QED
  BY <1>2, <1>3 DEF Next, RecordStep, OtherStep

LEMMA StepHolds ==
  ASSUME Inv, [Next]_vars
  PROVE  Inv'
<1>1. CASE RecordStep
  BY <1>1, PublishStep, TakeRecordStep, CheckEnabledStep, PublishToSubscribersStep,
     AppendItemStep, PopBatchStep, PushSteps, PollStep, ClearDisabledStep
     DEF RecordStep, Enqueue
<1>2. CASE OtherStep
  BY <1>2, OtherSteps
<1>3. CASE UNCHANGED vars
  <2>1. /\ UNCHANGED <<home, published, queue, items, hand, fate>>
        /\ UNCHANGED <<clock, at, enabled, switching>>
    BY <1>3 DEF vars, managerVars, queueVars, senderVars
  <2>2. QED
    BY <2>1, NothingMoves DEF Inv, Types
<1>4. QED
  BY <1>1, <1>2, <1>3, StepsAreTwoKinds

LEMMA InvHolds == Spec => []Inv
<1>1. Init => Inv
  BY InitHolds
<1>2. Inv /\ [Next]_vars => Inv'
  BY StepHolds
<1>3. QED
  BY <1>1, <1>2, PTL DEF Spec

-----------------------------------------------------------------------------
(* Every record in one place, and in line                                  *)

LEMMA Once ==
  ASSUME NEW q, NEW r
  PROVE  /\ r \notin Elems(q) => At(r, q) = {}
         /\ r \in Elems(q) /\ Distinct(q) => \E i : At(r, q) = {i}
<1>1. r \notin Elems(q) => At(r, q) = {}
  BY DEF At, Elems
<1>2. ASSUME r \in Elems(q), Distinct(q)
      PROVE  \E i : At(r, q) = {i}
  <2>1. PICK i \in 1 .. Len(q) : q[i] = r
    BY <1>2 DEF Elems
  <2>2. At(r, q) = {i}
    BY <1>2, <2>1 DEF At, Distinct
  <2>3. QED
    BY <2>2
<1>3. QED
  BY <1>1, <1>2

LEMMA OnePlace ==
  ASSUME Inv, NEW r \in 1 .. published
  PROVE  \E place : Places(r) = {place}
<1> USE DEF Inv
<1>1. r \in Records /\ r <= published
  BY PipelineAssumption DEF Types, Records
<1>2. fate[r] = "none" => AtEnd(r) = {}
  BY DEF AtEnd
<1>3. ASSUME \A s \in Senders : r \notin Held(s)
      PROVE  InHands(r) = {}
  <2>1. \A s \in Senders : At(r, hand[s]) = {}
    BY <1>3, Once DEF Held
  <2>2. QED
    BY <2>1 DEF InHands
<1>4. CASE fate[r] # "none"
  <2>1. r \notin Elems(queue) /\ r \notin Elems(Kept) /\ InHands(r) = {}
    BY <1>1, <1>3, <1>4 DEF Accounted
  <2>2. At(r, queue) = {} /\ At(r, Kept) = {}
    BY <2>1, Once
  <2>3. AtEnd(r) = {<<"end", fate[r]>>}
    BY <1>4 DEF AtEnd
  <2>4. Places(r) = AtEnd(r)
    BY <2>1, <2>2 DEF Places
  <2>5. QED
    BY <2>3, <2>4
<1>5. CASE r \in Elems(queue)
  <2>1. AtEnd(r) = {} /\ r \notin Elems(Kept) /\ InHands(r) = {}
    BY <1>1, <1>2, <1>3, <1>5 DEF Accounted
  <2>2. At(r, Kept) = {}
    BY <2>1, Once
  <2>3. PICK i : At(r, queue) = {i}
    BY <1>5, Once DEF Singly
  <2>4. Places(r) = {<<"queue", i>>}
    BY <2>1, <2>2, <2>3 DEF Places
  <2>5. QED
    BY <2>4
<1>6. CASE r \in Elems(Kept)
  <2>1. AtEnd(r) = {} /\ r \notin Elems(queue) /\ InHands(r) = {}
    BY <1>1, <1>2, <1>3, <1>6 DEF Accounted
  <2>2. At(r, queue) = {}
    BY <2>1, Once
  <2>3. PICK i : At(r, Kept) = {i}
    BY <1>6, Once DEF Singly
  <2>4. Places(r) = {<<"kept", i>>}
    BY <2>1, <2>2, <2>3 DEF Places
  <2>5. QED
    BY <2>4
<1>7. CASE \E s \in Senders : r \in Held(s)
  <2>1. PICK s \in Senders : r \in Held(s)
    BY <1>7
  <2>2. /\ AtEnd(r) = {} /\ r \notin Elems(queue) /\ r \notin Elems(Kept)
        /\ \A t \in Senders : t # s => r \notin Held(t)
    BY <1>1, <1>2, <2>1 DEF Accounted
  <2>3. /\ At(r, queue) = {} /\ At(r, Kept) = {}
        /\ \A t \in Senders : t # s => At(r, hand[t]) = {}
    BY <2>2, Once DEF Held
  <2>4. PICK i : At(r, hand[s]) = {i}
    BY <2>1, Once DEF Singly, Held
  <2>5. InHands(r) = {<<"hand", s, i>>}
    BY <2>3, <2>4 DEF InHands
  <2>6. Places(r) = {<<"hand", s, i>>}
    BY <2>2, <2>3, <2>5 DEF Places
  <2>7. QED
    BY <2>6
<1>8. QED
  BY <1>1, <1>4, <1>5, <1>6, <1>7 DEF Accounted

LEMMA InLine ==
  ASSUME Inv, ~home
  PROVE  /\ Line \in Seq(Nat) /\ Rising(Line)
         /\ Elems(Line) = Elems(Kept) \union Held(Worker) \union Elems(queue)
<1> USE DEF Inv
<1>1. Kept \in Seq(Nat) /\ hand[Worker] \in Seq(Nat) /\ queue \in Seq(Nat)
  <2>1. /\ Kept \in Seq(Records) /\ hand[Worker] \in Seq(Records)
        /\ queue \in Seq(Records) /\ Records \subseteq Nat
    BY InRecords DEF Types
  <2>2. QED
    BY <2>1, SeqMonotonic
<1>2. PICK p : p = Kept
  OBVIOUS
<1>3. PICK h : h = hand[Worker]
  OBVIOUS
<1>4. /\ Rising(p) /\ Rising(h) /\ Rising(queue)
      /\ \A x \in Elems(p), y \in Elems(h) \union Elems(queue) : x < y
      /\ \A x \in Elems(h), y \in Elems(queue) : x < y
  BY <1>2, <1>3 DEF Ordered, Held
<1>5. /\ p \o h \in Seq(Nat) /\ Rising(p \o h)
      /\ Elems(p \o h) = Elems(p) \union Elems(h)
  BY <1>1, <1>2, <1>3, <1>4, RisingConcat
<1>6. PICK front : front = p \o h
  OBVIOUS
<1>7. \A x \in Elems(front), y \in Elems(queue) : x < y
  BY <1>4, <1>5, <1>6
<1>8. /\ front \o queue \in Seq(Nat) /\ Rising(front \o queue)
      /\ Elems(front \o queue) = Elems(front) \union Elems(queue)
  BY <1>1, <1>4, <1>5, <1>6, <1>7, RisingConcat
<1>9. Line = front \o queue
  BY <1>2, <1>3, <1>6 DEF Line
<1>10. QED
  BY <1>2, <1>3, <1>5, <1>6, <1>8, <1>9 DEF Held

(* A record the manager accepted is in exactly one place, and without Home *)
(* the records stay in the order of their publication: Publish, run,       *)
(* HandleUsage, Enqueue, PopOldest, clear and the forwarders between them  *)
(* lose none and keep none twice, whatever pushes fail.                    *)
THEOREM RecordsAreAccounted == Spec => []RecordsAccounted
<1>1. ASSUME Inv
      PROVE  RecordsAccounted
  <2>1. ASSUME NEW r \in 1 .. published
        PROVE  Cardinality(Places(r)) = 1
    <3>1. PICK place : Places(r) = {place}
      BY <1>1, OnePlace
    <3>2. QED
      BY <3>1, FS_Singleton
  <2>2. ASSUME ~home
        PROVE  /\ \A i, j \in 1 .. Len(Line) : i < j => Line[i] < Line[j]
               /\ \A r \in Records, i \in 1 .. Len(Line) :
                    fate[r] = "polled" => r < Line[i]
    <3>1. /\ Rising(Line)
          /\ Elems(Line) = Elems(Kept) \union Held(Worker) \union Elems(queue)
      BY <1>1, <2>2, InLine
    <3>2. \A i \in 1 .. Len(Line) : Line[i] \in Elems(Line)
      BY DEF Elems
    <3>3. \A r \in Records, y \in Elems(Line) : fate[r] = "polled" => r < y
      BY <1>1, <2>2, <3>1 DEF Inv, Ordered
    <3>4. QED
      BY <3>1, <3>2, <3>3 DEF Rising
  <2>3. QED
    BY <2>1, <2>2 DEF RecordsAccounted
<1>2. QED
  BY <1>1, InvHolds, PTL

-----------------------------------------------------------------------------
(* A disabled queue                                                        *)

(* The worker found the queue enabled and has not kept its record yet.     *)
Coming == IF at[Worker] \in {"publishing", "appending"} THEN 1 ELSE 0

LittleLeft == ~enabled /\ ~switching => Len(items) + Coming <= 1

LEMMA LittleLeftStep ==
  ASSUME Inv, LittleLeft, Next
  PROVE  LittleLeft'
<1> SUFFICES ASSUME ~enabled', ~switching'
             PROVE  Len(items') + Coming' <= 1
  BY DEF LittleLeft
<1> USE DEF Inv
<1>0. /\ Types /\ Worker \in Senders /\ at \in [Senders -> Phases]
      /\ Len(items) \in Nat /\ Coming \in 0 .. 1
  BY InRecords, LenProperties DEF Types, Coming
<1>1. ASSUME UNCHANGED <<items, at, enabled, switching>>
      PROVE  Len(items') + Coming' <= 1
  BY <1>1 DEF LittleLeft, Coming
<1>2. CASE OtherStep
  <2>1. CASE EndWorker
    <3>1. UNCHANGED <<items, enabled, switching>> /\ at'[Worker] = "done"
      BY <1>0, <2>1 DEF EndWorker, queueVars
    <3>2. QED
      BY <1>0, <3>1 DEF LittleLeft, Coming
  <2>2. CASE SetEnabled \/ SetDisabled
    BY <2>2 DEF SetEnabled, SetDisabled
  <2>3. CASE \/ Stop \/ Signal \/ Sleep \/ (\E p \in Pollers : StartPoll(p))
             \/ NotifyUsageRefresh \/ Tick
    BY <1>1, <2>3 DEF Stop, Signal, Sleep, StartPoll, NotifyUsageRefresh, Tick,
       queueVars, senderVars
  <2>4. CASE \E u \in Subscribers : SubscriberStep(u)
    BY <1>1, <2>4 DEF SubscriberStep, Subscribe, Receive, Unsubscribe, CloseChannel,
       queueVars, senderVars
  <2>5. QED
    BY <1>2, <2>1, <2>2, <2>3, <2>4 DEF OtherStep
<1>3. CASE ClearDisabled
  <2>1. Len(items') = 0 /\ at' = at
    BY <1>3, EmptySeq DEF ClearDisabled, Disable, Clear, senderVars
  <2>2. QED
    BY <1>0, <2>1 DEF Coming
<1>4. CASE Publish \/ TakeRecord
  <2>1. UNCHANGED <<items, enabled, switching>>
        /\ (at' = at \/ at'[Worker] = "checking")
    BY <1>0, <1>4 DEF Publish, TakeRecord, queueVars, senderVars
  <2>2. QED
    BY <1>0, <2>1 DEF LittleLeft, Coming
<1>5. CASE \E p \in Pollers : Poll(p)
  <2>1. PICK p \in Pollers : Poll(p)
    BY <1>5
  <2>2. UNCHANGED <<enabled, switching, at>>
    BY <2>1 DEF Poll, senderVars
  <2>3. PICK count \in 1 .. Batch, now \in Nows :
          LET kept == Pruned(now)
              most == IF count < Len(kept) THEN count ELSE Len(kept)
          IN  items' = SubSeq(kept, most + 1, Len(kept))
    BY <2>1 DEF Poll
  <2>4. PICK most :
          /\ most = IF count < Len(Pruned(now)) THEN count ELSE Len(Pruned(now))
          /\ items' = SubSeq(Pruned(now), most + 1, Len(Pruned(now)))
    BY <2>3
  <2>5. items' \in Seq(Items) /\ Len(items') <= Len(items)
    <3>1. count \in Nat
      BY PipelineAssumption
    <3>2. QED
      BY <2>4, <3>1, TakeItems
  <2>6. Len(items') \in Nat /\ Coming' = Coming
    BY <2>2, <2>5, LenProperties DEF Coming
  <2>7. QED
    BY <1>0, <2>2, <2>5, <2>6 DEF LittleLeft
<1>6. CASE \E f \in Forwarders : PopBatch(f) \/ Push(f) \/ PushFails(f)
  <2>1. PICK f \in Forwarders : PopBatch(f) \/ Push(f) \/ PushFails(f)
    BY <1>6
  <2>2. f \in Senders /\ (home \/ at[f] = "idle")
    BY InRecords DEF Types
  <2>3. home /\ enabled' = enabled
    BY <2>1, <2>2 DEF PopBatch, Push, PushFails, queueVars
  <2>4. QED
    BY <2>3 DEF Types
<1>7. ASSUME NEW s \in Senders, Enqueue(s)
      PROVE  Len(items') + Coming' <= 1
  <2>1. UNCHANGED <<home, enabled, switching>> /\ at[s] \in {"checking", "publishing", "appending"}
    BY <1>7 DEF Enqueue, CheckEnabled, PublishToSubscribers, AppendItem, queueVars
  <2>2. s = Worker
    BY <2>1 DEF Types, Senders
  <2>3. Len(items) + Coming <= 1
    BY <2>1 DEF LittleLeft
  <2>4. CASE CheckEnabled(Worker)
    <3>1. items' = items /\ at'[Worker] \in {"checking", "idle"}
      BY <1>0, <2>1, <2>4 DEF CheckEnabled, Enqueued, queueVars
    <3>2. QED
      BY <1>0, <2>3, <3>1 DEF Coming
  <2>5. CASE PublishToSubscribers(Worker)
    <3>1. /\ items' = items /\ at[Worker] = "publishing"
          /\ at'[Worker] \in {"checking", "idle", "appending"}
      BY <1>0, <2>5 DEF PublishToSubscribers, Enqueued, queueVars
    <3>2. QED
      BY <1>0, <2>3, <3>1 DEF Coming
  <2>6. CASE AppendItem(Worker)
    <3>1. at[Worker] = "appending" /\ at'[Worker] \in {"checking", "idle"}
      BY <1>0, <2>6 DEF AppendItem, Enqueued
    <3>2. PICK now \in Nows, item \in Items : items' = Append(Pruned(now), item)
      <4>1. hand[Worker] # <<>> /\ hand[Worker] \in Seq(Records)
        BY <1>0, <3>1, OnTheWay DEF Types
      <4>2. Head(hand[Worker]) \in Records
        BY <4>1, HeadTailProperties
      <4>3. PICK now \in Nows :
              items' = Append(Pruned(now), [record |-> Head(hand[Worker]), enqueuedAt |-> now])
        BY <2>6 DEF AppendItem
      <4>4. now \in Nat
        BY <1>0 DEF Nows, Types
      <4>5. [record |-> Head(hand[Worker]), enqueuedAt |-> now] \in Items
        BY <4>2, <4>4 DEF Items
      <4>6. QED
        BY <4>3, <4>5
    <3>3. /\ Pruned(now) \in Seq(Items) /\ Len(Pruned(now)) \in Nat
          /\ Len(Pruned(now)) <= Len(items)
      BY PruneItems
    <3>4. Len(items') = Len(Pruned(now)) + 1
      BY <3>2, <3>3, AppendProperties
    <3>5. QED
      BY <1>0, <2>3, <3>1, <3>3, <3>4 DEF Coming
  <2>7. QED
    BY <1>7, <2>2, <2>4, <2>5, <2>6 DEF Enqueue
<1>8. QED
  BY <1>2, <1>3, <1>4, <1>5, <1>6, <1>7, StepsAreTwoKinds DEF RecordStep

(* What SetEnabled(false) leaves behind: once it has returned the queue    *)
(* holds one record at most, the one that was between the look at the flag *)
(* and the lock, as only one goroutine enqueues without Home.              *)
THEOREM LittleIsLeft == Spec => []ClearLeavesLittle
<1>1. Init => LittleLeft
  <2> SUFFICES ASSUME Init
               PROVE  LittleLeft
    OBVIOUS
  <2>1. Len(items) = 0 /\ at[Worker] = "idle"
    BY EmptySeq DEF Init, Senders
  <2>2. QED
    BY <2>1 DEF LittleLeft, Coming
<1>2. Inv /\ LittleLeft /\ [Next]_vars => LittleLeft'
  <2>1. ASSUME LittleLeft, UNCHANGED vars
        PROVE  LittleLeft'
    BY <2>1 DEF LittleLeft, Coming, vars, queueVars, senderVars
  <2>2. QED
    BY <2>1, LittleLeftStep
<1>3. ASSUME Inv, LittleLeft
      PROVE  ClearLeavesLittle
  <2> SUFFICES ASSUME ~enabled, ~switching
               PROVE  Len(items) + Cardinality({s \in Senders :
                        at[s] \in {"publishing", "appending"}}) <= 1
    BY DEF ClearLeavesLittle
  <2> DEFINE coming == {s \in Senders : at[s] \in {"publishing", "appending"}}
  <2>1. Len(items) \in Nat /\ Len(items) + Coming <= 1
    BY <1>3, LenProperties DEF Inv, Types, LittleLeft
  <2>2. coming \subseteq {Worker} /\ (Worker \in coming <=> Coming = 1)
    BY <1>3 DEF Inv, Types, Senders, Coming
  <2>3. coming = {} \/ coming = {Worker}
    BY <2>2
  <2>4. Cardinality({}) = 0 /\ Cardinality({Worker}) = 1
    BY FS_EmptySet, FS_Singleton
  <2>5. Coming \in 0 .. 1
    BY DEF Coming
  <2>6. Cardinality(coming) = Coming
    BY <2>2, <2>3, <2>4, <2>5
  <2>7. QED
    BY <2>1, <2>6
<1>4. QED
  BY <1>1, <1>2, <1>3, InvHolds, PTL DEF Spec

-----------------------------------------------------------------------------
(* Subscriptions                                                           *)

Subscribed == subscribers \union closing \union ended

(* What a subscriber was sent behind its first message are the broadcasts  *)
(* from its subscription on.                                               *)
Tracks(s, b, j) ==
  /\ Len(s) >= 1 /\ j + Len(s) - 1 <= Len(b)
  /\ \A i \in 2 .. Len(s) : s[i] = b[j + i - 1]

Follows(u) == Tracks(sent[u], broadcasts, joined[u])

Streams ==
  /\ Subscribed \subseteq Subscribers
  /\ sent \in [Subscribers -> Seq(Nat)] /\ joined \in [Subscribers -> Nat]
  /\ broadcasts \in Seq(Nat)
  /\ closing \intersect ended = {}
  /\ subscribers \intersect (closing \union ended) = {}
  /\ \A u \in Subscribed : Follows(u)
  /\ \A u \in subscribers : joined[u] + Len(sent[u]) - 1 = Len(broadcasts)

(* A sequence that tracks another one still does when that grows, and when *)
(* both get the same new element at their ends.                            *)
LEMMA TracksGrown ==
  ASSUME NEW s \in Seq(Nat), NEW b \in Seq(Nat), NEW j \in Nat, NEW m \in Nat,
         Tracks(s, b, j)
  PROVE  Tracks(s, Append(b, m), j)
<1> SUFFICES ASSUME NEW c, c = Append(b, m)
             PROVE  Tracks(s, c, j)
  OBVIOUS
<1>1. Len(b) \in Nat /\ Len(s) \in Nat /\ j \in Nat
  BY LenProperties
<1>2. /\ Len(c) = Len(b) + 1
      /\ \A i \in 1 .. Len(b) : c[i] = b[i]
  BY AppendProperties
<1>3. /\ Len(s) >= 1 /\ j + Len(s) - 1 <= Len(b)
      /\ \A i \in 2 .. Len(s) : s[i] = b[j + i - 1]
  BY DEF Tracks
<1>4. ASSUME NEW i \in 2 .. Len(s)
      PROVE  s[i] = c[j + i - 1]
  <2>1. j + i - 1 \in 1 .. Len(b)
    <3>1. i \in Nat /\ 2 <= i /\ i <= Len(s) /\ j + Len(s) - 1 <= Len(b)
      BY <1>1, <1>3
    <3>2. QED
      BY ONLY <1>1, <3>1
  <2>2. QED
    BY ONLY <1>2, <1>3, <1>4, <2>1
<1>5. j + Len(s) - 1 <= Len(c)
  BY ONLY <1>1, <1>2, <1>3
<1>6. QED
  BY ONLY <1>3, <1>4, <1>5 DEF Tracks

LEMMA TracksAppended ==
  ASSUME NEW s \in Seq(Nat), NEW b \in Seq(Nat), NEW j \in Nat, NEW m \in Nat,
         Tracks(s, b, j), j + Len(s) - 1 = Len(b)
  PROVE  /\ Tracks(Append(s, m), Append(b, m), j)
         /\ j + Len(Append(s, m)) - 1 = Len(Append(b, m))
<1> SUFFICES ASSUME NEW c, c = Append(b, m), NEW t, t = Append(s, m)
             PROVE  Tracks(t, c, j) /\ j + Len(t) - 1 = Len(c)
  OBVIOUS
<1>1. /\ Len(b) \in Nat /\ Len(s) \in Nat /\ j \in Nat
      /\ j + Len(s) - 1 = Len(b)
  BY LenProperties
<1>2. Len(c) = Len(b) + 1 /\ c[Len(b) + 1] = m
  BY AppendProperties
<1>3. /\ Len(t) = Len(s) + 1 /\ t[Len(s) + 1] = m
      /\ \A i \in 1 .. Len(s) : t[i] = s[i]
  BY AppendProperties
<1>4. /\ \A i \in 2 .. Len(s) : s[i] = c[j + i - 1]
      /\ Len(s) >= 1
  BY TracksGrown DEF Tracks
<1>5. ASSUME NEW i \in 2 .. Len(t)
      PROVE  t[i] = c[j + i - 1]
  <2>1. CASE i = Len(s) + 1
    <3>1. j + i - 1 = Len(b) + 1
      BY ONLY <1>1, <1>5, <2>1
    <3>2. QED
      BY ONLY <1>2, <1>3, <2>1, <3>1
  <2>2. CASE i # Len(s) + 1
    <3>1. i \in 2 .. Len(s) /\ i \in 1 .. Len(s)
      BY ONLY <1>1, <1>3, <1>5, <2>2
    <3>2. QED
      BY ONLY <1>3, <1>4, <3>1
  <2>3. QED
    BY <2>1, <2>2
<1>6. Len(t) >= 1 /\ j + Len(t) - 1 = Len(c) /\ j + Len(t) - 1 <= Len(c)
  BY ONLY <1>1, <1>2, <1>3
<1>7. QED
  BY ONLY <1>5, <1>6 DEF Tracks

LEMMA BroadcastStep ==
  ASSUME Streams, NEW message \in Nat, Broadcast(message)
  PROVE  Streams'
<1> USE DEF Streams
<1>1. PICK reached \in SUBSET subscribers :
        /\ sent' = [u \in Subscribers |-> IF u \in reached
                                            THEN Append(sent[u], message) ELSE sent[u]]
        /\ subscribers' = reached
        /\ ended' = ended \union (subscribers \ reached)
  BY DEF Broadcast, SendToSubscribers
<1>2. broadcasts' = Append(broadcasts, message) /\ UNCHANGED <<closing, joined>>
  BY DEF Broadcast
<1>3. /\ broadcasts' \in Seq(Nat) /\ Len(broadcasts) \in Nat
      /\ Len(broadcasts') = Len(broadcasts) + 1
      /\ \A i \in 1 .. Len(broadcasts) : broadcasts'[i] = broadcasts[i]
      /\ broadcasts'[Len(broadcasts) + 1] = message
  BY <1>2, AppendProperties, LenProperties
<1>4. Subscribed' = Subscribed
  BY <1>1, <1>2 DEF Subscribed
<1>5. ASSUME NEW u \in Subscribers
      PROVE  /\ sent[u] \in Seq(Nat) /\ Len(sent[u]) \in Nat /\ joined[u] \in Nat
             /\ sent'[u] = IF u \in reached THEN Append(sent[u], message) ELSE sent[u]
  BY <1>1, LenProperties
<1>6. subscribers \subseteq Subscribed /\ Subscribed \subseteq Subscribers
  BY DEF Subscribed
<1>7. sent' \in [Subscribers -> Seq(Nat)]
  <2>1. ASSUME NEW u \in Subscribers
        PROVE  (IF u \in reached THEN Append(sent[u], message) ELSE sent[u])
                 \in Seq(Nat)
    BY <1>5, AppendProperties
  <2>2. QED
    BY <1>1, <2>1
<1>8. ASSUME NEW u \in Subscribed
      PROVE  /\ Follows(u)'
             /\ u \in reached => joined'[u] + Len(sent'[u]) - 1 = Len(broadcasts')
  <2>1. /\ u \in Subscribers /\ joined'[u] = joined[u]
        /\ sent[u] \in Seq(Nat) /\ Len(sent[u]) \in Nat /\ joined[u] \in Nat
        /\ sent'[u] = IF u \in reached THEN Append(sent[u], message) ELSE sent[u]
    BY <1>2, <1>5, <1>6
  <2>2. Tracks(sent[u], broadcasts, joined[u]) /\ broadcasts \in Seq(Nat)
    BY DEF Follows
  <2>3. CASE u \notin reached
    <3>1. Tracks(sent[u], broadcasts', joined[u])
      BY ONLY <1>2, <2>1, <2>2, message \in Nat, TracksGrown
    <3>2. QED
      BY ONLY <2>1, <2>3, <3>1 DEF Follows
  <2>4. CASE u \in reached
    <3>1. joined[u] + Len(sent[u]) - 1 = Len(broadcasts)
      BY <2>4
    <3>2. /\ Tracks(sent'[u], broadcasts', joined[u])
          /\ joined[u] + Len(sent'[u]) - 1 = Len(broadcasts')
      <4>1. broadcasts' = Append(broadcasts, message) /\ sent'[u] = Append(sent[u], message)
        BY ONLY <1>2, <2>1, <2>4
      <4>2. /\ Tracks(Append(sent[u], message), Append(broadcasts, message), joined[u])
            /\ joined[u] + Len(Append(sent[u], message)) - 1 = Len(Append(broadcasts, message))
        BY ONLY <2>1, <2>2, <3>1, message \in Nat, TracksAppended
      <4>3. QED
        BY <4>1, <4>2, Zenon
    <3>3. QED
      BY ONLY <2>1, <3>2 DEF Follows
  <2>5. QED
    BY <2>3, <2>4
<1>9. ASSUME NEW u \in subscribers'
      PROVE  joined'[u] + Len(sent'[u]) - 1 = Len(broadcasts')
  BY <1>1, <1>6, <1>8
<1>10. /\ closing' \intersect ended' = {}
       /\ subscribers' \intersect (closing' \union ended') = {}
  BY <1>1, <1>2
<1>11. QED
  BY <1>2, <1>3, <1>4, <1>7, <1>8, <1>9, <1>10

LEMMA SubscribeStep ==
  ASSUME Streams, NEW v \in Subscribers, Subscribe(v)
  PROVE  Streams'
<1> USE DEF Streams
<1>1. /\ v \notin Subscribed /\ subscribers' = subscribers \union {v}
      /\ sent' = [sent EXCEPT ![v] = <<SupportRefresh>>]
      /\ joined' = [joined EXCEPT ![v] = Len(broadcasts)]
      /\ UNCHANGED <<closing, ended, broadcasts>>
  BY DEF Subscribe, Subscribed
<1>2. Len(broadcasts) \in Nat /\ <<SupportRefresh>> \in Seq(Nat) /\ Len(<<SupportRefresh>>) = 1
  BY LenProperties DEF SupportRefresh
<1>3. /\ sent' \in [Subscribers -> Seq(Nat)] /\ joined' \in [Subscribers -> Nat]
      /\ Len(sent'[v]) = 1 /\ joined'[v] = Len(broadcasts)
      /\ \A u \in Subscribers : u # v => sent'[u] = sent[u] /\ joined'[u] = joined[u]
  BY <1>1, <1>2
<1>4. Subscribed' = Subscribed \union {v}
  BY <1>1 DEF Subscribed
<1>5. \A i \in 2 .. 1 : FALSE
  OBVIOUS
<1>6. Follows(v)'
  <2>1. Len(sent'[v]) >= 1 /\ joined'[v] + Len(sent'[v]) - 1 <= Len(broadcasts')
    BY ONLY <1>1, <1>2, <1>3
  <2>2. \A i \in 2 .. Len(sent'[v]) : FALSE
    BY ONLY <1>3, <1>5
  <2>3. QED
    BY ONLY <2>1, <2>2 DEF Follows, Tracks
<1>7. ASSUME NEW u \in Subscribed
      PROVE  Follows(u)'
  <2>1. Follows(u) /\ u \in Subscribers /\ u # v
    BY <1>1
  <2>2. sent'[u] = sent[u] /\ joined'[u] = joined[u] /\ broadcasts' = broadcasts
    BY <1>1, <1>3, <2>1
  <2>3. QED
    BY ONLY <2>1, <2>2 DEF Follows
<1>8. ASSUME NEW u \in subscribers'
      PROVE  joined'[u] + Len(sent'[u]) - 1 = Len(broadcasts')
  <2>1. CASE u = v
    BY <1>1, <1>2, <1>3, <2>1
  <2>2. CASE u # v
    <3>1. u \in subscribers /\ u \in Subscribers
      BY <1>1, <2>2 DEF Subscribed
    <3>2. QED
      BY <1>1, <1>3, <2>2, <3>1
  <2>3. QED
    BY <2>1, <2>2
<1>9. QED
  BY <1>1, <1>3, <1>4, <1>6, <1>7, <1>8 DEF Subscribed

(* Steps that end a subscription, and those that touch none.               *)
LEMMA UnsubscribeStep ==
  ASSUME Streams, UNCHANGED <<sent, joined, broadcasts>>, Subscribed' = Subscribed,
         closing' \intersect ended' = {}, subscribers' \subseteq subscribers,
         subscribers' \intersect (closing' \union ended') = {}
  PROVE  Streams'
BY DEF Streams, Follows

LEMMA StreamsStep ==
  ASSUME Inv, Streams, [Next]_vars
  PROVE  Streams'
<1>1. ASSUME UNCHANGED streamVars
      PROVE  Streams'
  BY <1>1 DEF streamVars, Streams, Subscribed, Follows
<1>2. ASSUME NEW s \in Senders, Enqueue(s)
      PROVE  Streams'
  <2>1. CASE PublishToSubscribers(s) /\ subscribers # {}
    <3>1. at[s] = "publishing" /\ hand[s] \in Seq(Records) /\ Records \subseteq Nat
      BY <2>1, InRecords DEF PublishToSubscribers, Inv, Types
    <3>2. hand[s] # <<>>
      BY <3>1, OnTheWay DEF Inv
    <3>3. Head(hand[s]) \in Nat
      BY <3>1, <3>2, HeadTailProperties
    <3>4. Broadcast(Head(hand[s]))
      BY <2>1 DEF PublishToSubscribers
    <3>5. QED
      BY <3>3, <3>4, BroadcastStep
  <2>2. CASE ~(PublishToSubscribers(s) /\ subscribers # {})
    BY <1>1, <1>2, <2>2 DEF Enqueue, CheckEnabled, PublishToSubscribers, AppendItem
  <2>3. QED
    BY <2>1, <2>2
<1>3. ASSUME NEW u \in Subscribers, SubscriberStep(u)
      PROVE  Streams'
  <2>1. CASE Receive(u)
    BY <2>1, UnsubscribeStep DEF Receive, Streams, Subscribed
  <2>2. CASE Unsubscribe(u)
    BY <2>2, UnsubscribeStep DEF Unsubscribe, Streams, Subscribed
  <2>3. CASE CloseChannel(u)
    BY <2>3, UnsubscribeStep DEF CloseChannel, Streams, Subscribed
  <2>4. QED
    BY <1>3, <2>1, <2>2, <2>3, SubscribeStep DEF SubscriberStep
<1>4. CASE ClearDisabled
  BY <1>4, UnsubscribeStep DEF ClearDisabled, Disable, Clear, Streams, Subscribed
<1>5. CASE NotifyUsageRefresh
  BY <1>5, BroadcastStep DEF NotifyUsageRefresh, Refresh
<1>6. CASE OtherStep
  BY <1>1, <1>3, <1>5, <1>6 DEF OtherStep, Stop, Signal, Sleep, EndWorker, SetEnabled, SetDisabled,
     Disable, StoreDisabled, StartPoll, Tick
<1>7. CASE RecordStep
  BY <1>1, <1>2, <1>4, <1>7 DEF RecordStep, Publish, TakeRecord, PopBatch, Push,
     PushFails, Poll
<1>8. CASE UNCHANGED vars
  BY <1>1, <1>8 DEF vars
<1>9. QED
  BY <1>6, <1>7, <1>8, StepsAreTwoKinds

(* A subscription is sent what is broadcast from its beginning to its end, *)
(* without a gap, whichever of them overflow, leave or are cleared away    *)
(* meanwhile, and no channel is sent to or closed once it is closed:       *)
(* publishToSubscribers, clear and unsubscribe agree on who closes it.     *)
THEOREM StreamsAreSound == Spec => []StreamsSound
<1>1. Init => Streams
  <2> SUFFICES ASSUME Init
               PROVE  Streams
    OBVIOUS
  <2>1. /\ subscribers = {} /\ closing = {} /\ ended = {} /\ broadcasts = <<>>
        /\ sent = [u \in Subscribers |-> <<>>] /\ joined = [u \in Subscribers |-> 0]
    BY DEF Init
  <2>2. QED
    BY <2>1, EmptySeq DEF Streams, Subscribed
<1>2. Inv /\ Streams /\ [Next]_vars => Streams'
  BY StreamsStep
<1>3. ASSUME Streams
      PROVE  StreamsSound
  <2>1. ASSUME NEW u \in Subscribed
        PROVE  Tail(sent[u]) = SubSeq(broadcasts, joined[u] + 1,
                                      joined[u] + Len(sent[u]) - 1)
    <3>1. /\ sent[u] \in Seq(Nat) /\ joined[u] \in Nat /\ broadcasts \in Seq(Nat)
          /\ Follows(u)
      BY <1>3 DEF Streams
    <3>2. PICK tail : tail = Tail(sent[u])
      OBVIOUS
    <3>3. PICK part : part = SubSeq(broadcasts, joined[u] + 1, joined[u] + Len(sent[u]) - 1)
      OBVIOUS
    <3>4. PICK n \in Nat : Len(sent[u]) = n + 1 /\ joined[u] + n <= Len(broadcasts)
      <4>1. Len(sent[u]) \in Nat /\ Len(broadcasts) \in Nat
        BY <3>1, LenProperties
      <4>2. Len(sent[u]) - 1 \in Nat /\ Len(sent[u]) = (Len(sent[u]) - 1) + 1
            /\ joined[u] + (Len(sent[u]) - 1) <= Len(broadcasts)
        BY <3>1, <4>1 DEF Follows, Tracks
      <4>3. QED
        BY <4>2
    <3>5. /\ tail \in Seq(Nat) /\ Len(tail) = n
          /\ \A i \in 1 .. n : tail[i] = sent[u][i + 1]
      BY <3>1, <3>2, <3>4, EmptySeq, HeadTailProperties
    <3>6. /\ part \in Seq(Nat) /\ Len(part) = n
          /\ \A i \in 1 .. n : part[i] = broadcasts[joined[u] + i]
      <4>1. part = SubSeq(broadcasts, joined[u] + 1, joined[u] + n)
        <5>1. joined[u] + Len(sent[u]) - 1 = joined[u] + n
          BY <3>1, <3>4
        <5>2. QED
          BY <3>3, <5>1, Zenon
      <4>2. Len(broadcasts) \in Nat /\ \A i \in 1 .. Len(broadcasts) : broadcasts[i] \in Nat
        BY <3>1, LenProperties, ElementOfSeq
      <4>3. PICK j \in Nat : j = joined[u]
        BY <3>1
      <4>4. \A i \in j + 1 .. j + n : i \in 1 .. Len(broadcasts)
        BY <3>4, <4>2, <4>3
      <4>5. \A i \in j + 1 .. j + n : broadcasts[i] \in Nat
        BY <4>2, <4>4
      <4>6. j + 1 \in Int /\ j + n \in Int /\ j + n - (j + 1) + 1 = n
        OBVIOUS
      <4>7. j + 1 <= j + n \/ n = 0
        OBVIOUS
      <4>8. /\ part \in Seq(Nat)
            /\ Len(part) = IF j + 1 <= j + n THEN j + n - (j + 1) + 1 ELSE 0
            /\ \A i \in 1 .. j + n - (j + 1) + 1 : part[i] = broadcasts[(j + 1) + i - 1]
        <5>1. PICK low \in Int : low = j + 1
          BY <4>6
        <5>2. PICK high \in Int : high = j + n
          BY <4>6
        <5>3. \A i \in low .. high : broadcasts[i] \in Nat
          BY <4>5, <5>1, <5>2
        <5>4. part = SubSeq(broadcasts, low, high)
          BY <4>1, <4>3, <5>1, <5>2
        <5>5. /\ part \in Seq(Nat)
              /\ Len(part) = IF low <= high THEN high - low + 1 ELSE 0
              /\ \A i \in 1 .. high - low + 1 : part[i] = broadcasts[low + i - 1]
          BY <5>3, <5>4, SubSeqProperties
        <5>6. QED
          BY <5>1, <5>2, <5>5
      <4>9. \A i \in 1 .. n : (j + 1) + i - 1 = j + i
        OBVIOUS
      <4>10. Len(part) = n
        BY <4>6, <4>7, <4>8
      <4>11. ASSUME NEW i \in 1 .. n
             PROVE  part[i] = broadcasts[joined[u] + i]
        <5>1. part[i] = broadcasts[(j + 1) + i - 1]
          BY <4>6, <4>8
        <5>2. (j + 1) + i - 1 = joined[u] + i
          BY <4>3, <4>9
        <5>3. QED
          BY <5>1, <5>2, Zenon
      <4>12. QED
        BY <4>8, <4>10, <4>11
    <3>7. ASSUME NEW i \in 1 .. n
          PROVE  tail[i] = part[i]
      <4>1. i + 1 \in 2 .. Len(sent[u]) /\ joined[u] + (i + 1) - 1 = joined[u] + i
        BY <3>1, <3>4
      <4>2. sent[u][i + 1] = broadcasts[joined[u] + (i + 1) - 1]
        BY <3>1, <4>1 DEF Follows, Tracks
      <4>3. QED
        BY <3>5, <3>6, <4>1, <4>2
    <3>8. tail = part
      BY <3>5, <3>6, <3>7, SeqEqual
    <3>9. QED
      BY <3>2, <3>3, <3>8
  <2>2. QED
    BY <1>3, <2>1 DEF StreamsSound, Streams, Subscribed
<1>4. QED
  BY <1>1, <1>2, <1>3, InvHolds, PTL DEF Spec
=============================================================================
