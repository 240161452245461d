------------------------ MODULE WaylandUtilitiesProofs ------------------------
(***************************************************************************)
(* The guest's arrays, proved for every width of size_t, any number of     *)
(* arrays and any sizes that are asked for, and its lists, for any number  *)
(* of lists and elements.                                                  *)
(***************************************************************************)
EXTENDS WaylandUtilities, SequenceTheorems, TLAPS

\* Lengths and capacities are numbers of the guest's width, also of the call under way,
\* which has room for what it was asked for once its loop is over.
ArrayInv ==
    /\ size \in [Arrays -> Sizes]
    /\ alloc \in [Arrays -> Sizes]
    /\ block \in [Arrays -> Sizes]
    /\ given \in [Arrays -> Nat]
    /\ call \in {NoCall} \cup
               [array : Arrays, required : Sizes, capacity : Sizes, given : Nat]
    /\ call # NoCall => call.given = call.required /\ call.required > alloc[call.array]
    /\ ArraysFit

\* The first test of wl_array_add makes the sum one of the guest's numbers.
LEMMA BeginFits ==
    ASSUME ArrayInv, call = NoCall, NEW a \in Arrays, NEW n \in Sizes, Begin(a, n),
           UNCHANGED <<alloc, block>>
    PROVE  ArrayInv'
  <1> USE SizesAssumption DEF Sizes
  <1>0. /\ size[a] \in Sizes /\ alloc[a] \in Sizes /\ block[a] \in Sizes
        /\ size[a] <= alloc[a] /\ alloc[a] <= block[a]
    BY DEF ArrayInv, ArraysFit
  <1>1. CASE n > SizeMax - size[a]
    BY <1>1 DEF Begin, ArrayInv, ArraysFit
  <1>2. CASE ~(n > SizeMax - size[a])
    <2> DEFINE required == size[a] + n
    <2>1. required \in Sizes /\ Ask(a, required, required)
      BY <1>0, <1>2 DEF Begin
    <2> HIDE DEF required
    <2>2. CASE required > alloc[a]
      <3> DEFINE begun == [array |-> a, required |-> required, given |-> required,
                           capacity |-> Larger(alloc[a], MinCapacity)]
      <3>1. call' = begun /\ UNCHANGED <<size, given, alloc, block>>
        BY <2>1, <2>2 DEF Ask
      <3>2. Larger(alloc[a], MinCapacity) \in Sizes
        BY <1>0 DEF Larger
      <3>3. begun \in [array : Arrays, required : Sizes, capacity : Sizes, given : Nat]
        BY <2>1, <3>2
      <3>4. begun.given = begun.required /\ begun.required > alloc[begun.array]
        BY <2>2
      <3> HIDE DEF begun
      <3> QED
        BY <3>1, <3>3, <3>4 DEF ArrayInv, ArraysFit
    <2>3. CASE ~(required > alloc[a])
      <3>1. /\ size' = [size EXCEPT ![a] = required]
            /\ given' = [given EXCEPT ![a] = required]
            /\ call' = NoCall /\ alloc' = alloc /\ block' = block
        BY <2>1, <2>3 DEF Ask
      <3> QED
        BY <1>0, <2>1, <2>3, <3>1 DEF ArrayInv, ArraysFit
    <2> QED
      BY <2>2, <2>3
  <1> QED
    BY <1>1, <1>2

\* Doubling stays within the guest's numbers: beyond half of them it asks for no more
\* than it needs.
LEMMA DoubleFits == ArrayInv /\ Double => ArrayInv'
  <1> USE SizesAssumption DEF Sizes
  <1> SUFFICES ASSUME ArrayInv, Double PROVE ArrayInv'
    OBVIOUS
  <1>1. /\ call \in [array : Arrays, required : Sizes, capacity : Sizes, given : Nat]
        /\ call.given = call.required /\ call.required > alloc[call.array]
        /\ call # NoCall
    BY DEF ArrayInv, Double
  <1> DEFINE doubled == IF call.capacity > SizeMax \div 2 THEN call.required ELSE 2 * call.capacity
  <1>2. doubled \in Sizes
    <2>1. call.capacity \in Sizes /\ call.required \in Sizes
      BY <1>1
    <2>2. SizeMax \div 2 \in Nat /\ 2 * (SizeMax \div 2) <= SizeMax
      OBVIOUS
    <2> HIDE DEF Sizes
    <2>3. CASE call.capacity > SizeMax \div 2
      BY <2>1, <2>3
    <2>4. CASE ~(call.capacity > SizeMax \div 2)
      BY <2>1, <2>2, <2>4 DEF Sizes
    <2> QED
      BY <2>3, <2>4
  <1> HIDE DEF doubled
  <1>3. call' = [call EXCEPT !.capacity = doubled]
        /\ UNCHANGED <<size, alloc, block, given>>
    BY DEF Double, doubled
  <1>4. /\ call' \in [array : Arrays, required : Sizes, capacity : Sizes, given : Nat]
        /\ call'.given = call.given /\ call'.required = call.required
        /\ call'.array = call.array
    BY <1>1, <1>2, <1>3
  <1> QED
    BY <1>1, <1>3, <1>4 DEF ArrayInv, ArraysFit

\* realloc gives the whole capacity or changes nothing.
LEMMA ReallocateFits == ArrayInv /\ Reallocate => ArrayInv'
  <1> USE DEF Sizes
  <1> SUFFICES ASSUME ArrayInv, Reallocate PROVE ArrayInv'
    OBVIOUS
  <1>1. /\ call.array \in Arrays /\ call.required \in Sizes /\ call.capacity \in Sizes
        /\ call.given = call.required /\ call.required <= call.capacity
    BY SizesAssumption DEF ArrayInv, Reallocate
  <1>2. call' = NoCall
    BY DEF Reallocate
  <1>3. CASE UNCHANGED <<size, alloc, block, given>>
    BY <1>2, <1>3 DEF ArrayInv, ArraysFit
  <1>4. CASE /\ block' = [block EXCEPT ![call.array] = call.capacity]
             /\ alloc' = [alloc EXCEPT ![call.array] = call.capacity]
             /\ size' = [size EXCEPT ![call.array] = call.required]
             /\ given' = [given EXCEPT ![call.array] = call.given]
    BY <1>1, <1>2, <1>4, SizesAssumption DEF ArrayInv, ArraysFit
  <1> QED
    BY <1>3, <1>4 DEF Reallocate

\* Every operation keeps the arrays' numbers in order.
LEMMA ArrayStep == ArrayInv /\ [Next]_vars => ArrayInv'
  <1> SUFFICES ASSUME ArrayInv, [Next]_vars PROVE ArrayInv'
    OBVIOUS
  <1> USE SizesAssumption DEF Sizes
  <1>1. CASE UNCHANGED arrayVars
    BY <1>1 DEF arrayVars, ArrayInv, ArraysFit
  <1>2. ASSUME NEW a \in Arrays, Release(a) PROVE ArrayInv'
    BY <1>2 DEF Release, ArrayInv, ArraysFit
  <1>3. ASSUME NEW a \in Arrays, NEW n \in Sizes, Add(a, n) PROVE ArrayInv'
    BY <1>3, BeginFits DEF Add
  <1>4. ASSUME NEW a \in Arrays, NEW b \in Arrays, Copy(a, b) PROVE ArrayInv'
    <2>0. size[a] \in Sizes /\ size[b] \in Sizes /\ alloc[a] \in Sizes /\ block[a] \in Sizes
          /\ size[a] <= alloc[a] /\ alloc[a] <= block[a]
      BY DEF ArrayInv, ArraysFit
    <2>1. CASE size[b] > size[a]
      <3>1. size[b] - size[a] \in Sizes
        BY <2>0, <2>1
      <3>2. call = NoCall /\ Begin(a, size[b] - size[a]) /\ UNCHANGED <<alloc, block>>
        BY <1>4, <2>1 DEF Copy
      <3> QED
        BY <3>1, <3>2, BeginFits
    <2>2. CASE ~(size[b] > size[a])
      <3>1. /\ size' = [size EXCEPT ![a] = size[b]]
            /\ given' = [given EXCEPT ![a] = size[b]]
            /\ call = NoCall /\ UNCHANGED <<call, alloc, block>>
        BY <1>4, <2>2 DEF Copy
      <3> QED
        BY <2>0, <2>2, <3>1 DEF ArrayInv, ArraysFit
    <2> QED
      BY <2>1, <2>2
  <1>5. CASE Double \/ Reallocate
    BY <1>5, DoubleFits, ReallocateFits
  <1> QED
    BY <1>1, <1>2, <1>3, <1>4, <1>5
    DEF Next, ListInit, ListInsert, ListRemove, ListInsertList, arrayVars, vars

\* The arrays' numbers are in order, whatever sizes the guest asks for.
THEOREM ArrayInvariance == Spec => []ArrayInv
  <1>1. Init => ArrayInv
    BY SizesAssumption DEF Init, ArrayInv, ArraysFit, Sizes
  <1> QED
    BY <1>1, ArrayStep, PTL DEF Spec

\* No caller is given more than was allocated.
THEOREM RoomForAll == Spec => []ArraysFit
  <1>1. ArrayInv => ArraysFit
    BY DEF ArrayInv
  <1> QED
    BY <1>1, ArrayInvariance, PTL

---------------------------------------------------------------------------
\* No node is in two places: the heads and elements of all lists are different.
NodesDiffer ==
    \A h, k \in InUse : \A i \in 0 .. Len(ring[h]) : \A j \in 0 .. Len(ring[k]) :
        NodeAt(h, i) = NodeAt(k, j) => h = k /\ i = j

RingInv ==
    /\ next \in [Nodes -> Nodes \cup {Null}]
    /\ prev \in [Nodes -> Nodes \cup {Null}]
    /\ InUse \subseteq Heads
    /\ \A h \in InUse : ring[h] \in Seq(Elements)
    /\ NodesDiffer
    /\ RingsAreLists

\* What inserting and removing do to the positions of a sequence over S.
IsInserted(S, s, i, e, t) ==
    /\ t \in Seq(S) /\ Len(t) = Len(s) + 1
    /\ \A j \in 1 .. i : t[j] = s[j]
    /\ t[i + 1] = e
    /\ \A j \in i + 2 .. Len(s) + 1 : t[j] = s[j - 1]

IsRemoved(S, s, i, t) ==
    /\ t \in Seq(S) /\ Len(t) = Len(s) - 1
    /\ \A j \in 1 .. i - 1 : t[j] = s[j]
    /\ \A j \in i .. Len(s) - 1 : t[j] = s[j + 1]

LEMMA Inserted ==
    ASSUME NEW S, NEW s \in Seq(S), NEW e \in S, NEW i \in 0 .. Len(s)
    PROVE  IsInserted(S, s, i, e, InsertAt(s, i + 1, e))
  <1> DEFINE front == SubSeq(s, 1, i)
             back == SubSeq(s, i + 1, Len(s))
             r == front \o <<e>> \o back
  <1>1. /\ front \in Seq(S) /\ Len(front) = i /\ \A j \in 1 .. i : front[j] = s[j]
        /\ back \in Seq(S) /\ Len(back) = Len(s) - i
        /\ \A j \in 1 .. Len(s) - i : back[j] = s[i + j]
    <2>1. Len(s) \in Nat /\ \A j \in 1 .. Len(s) : s[j] \in S
      BY LenProperties, ElementOfSeq
    <2>2. /\ i \in Int /\ i - 1 \in Int /\ i + 1 \in Int /\ Len(s) \in Int
          /\ \A j \in 1 .. i : s[j] \in S
          /\ \A j \in i + 1 .. Len(s) : s[j] \in S
      BY <2>1
    <2>3. /\ front \in Seq(S) /\ Len(front) = (IF 1 <= i THEN i - 1 + 1 ELSE 0)
          /\ \A j \in 1 .. i - 1 + 1 : front[j] = s[1 + j - 1]
      BY <2>2, SubSeqProperties
    <2>4. /\ back \in Seq(S) /\ Len(back) = (IF i + 1 <= Len(s) THEN Len(s) - (i + 1) + 1 ELSE 0)
          /\ \A j \in 1 .. Len(s) - (i + 1) + 1 : back[j] = s[i + 1 + j - 1]
      BY <2>2, SubSeqProperties
    <2> HIDE DEF front, back
    <2>5. \A j \in 1 .. i : front[j] = s[j]
      BY <2>1, <2>3
    <2>6. \A j \in 1 .. Len(s) - i : back[j] = s[i + j]
      BY <2>1, <2>4
    <2> QED
      BY <2>1, <2>3, <2>4, <2>5, <2>6
  <1>2. <<e>> \in Seq(S) /\ Len(<<e>>) = 1 /\ <<e>>[1] = e
    OBVIOUS
  <1> HIDE DEF front, back
  <1>3. /\ front \o <<e>> \in Seq(S) /\ Len(front \o <<e>>) = i + 1
        /\ \A j \in 1 .. i : (front \o <<e>>)[j] = s[j]
        /\ (front \o <<e>>)[i + 1] = e
    BY <1>1, <1>2, ConcatProperties
  <1>4. r \in Seq(S) /\ Len(r) = Len(s) + 1
    BY <1>1, <1>3, ConcatProperties, LenProperties
  <1>5. \A j \in 1 .. i : r[j] = s[j]
    BY <1>1, <1>3, ConcatProperties
  <1>6. r[i + 1] = e
    BY <1>1, <1>3, ConcatProperties
  <1>7. ASSUME NEW j \in i + 2 .. Len(s) + 1 PROVE r[j] = s[j - 1]
    <2>1. /\ i \in Nat /\ j \in Int /\ Len(s) \in Nat
          /\ j - (i + 1) \in 1 .. Len(s) - i /\ i + (j - (i + 1)) = j - 1
          /\ j \in 1 .. (i + 1) + (Len(s) - i) /\ ~(j <= i + 1)
      BY LenProperties
    <2>2. r[j] = back[j - (i + 1)]
      BY <1>1, <1>3, <2>1, ConcatProperties
    <2> QED
      BY <1>1, <2>1, <2>2
  <1>8. InsertAt(s, i + 1, e) = r
    <2>1. (i + 1) - 1 = i
      OBVIOUS
    <2> QED
      BY <2>1 DEF InsertAt, front, back
  <1> QED
    BY <1>4, <1>5, <1>6, <1>7, <1>8 DEF IsInserted

LEMMA Removed ==
    ASSUME NEW S, NEW s \in Seq(S), NEW i \in 1 .. Len(s)
    PROVE  IsRemoved(S, s, i, RemoveAt(s, i))
  <1> DEFINE front == SubSeq(s, 1, i - 1)
             back == SubSeq(s, i + 1, Len(s))
             r == front \o back
  <1>1. /\ front \in Seq(S) /\ Len(front) = i - 1 /\ \A j \in 1 .. i - 1 : front[j] = s[j]
        /\ back \in Seq(S) /\ Len(back) = Len(s) - i
        /\ \A j \in 1 .. Len(s) - i : back[j] = s[i + j]
    <2>1. Len(s) \in Nat /\ \A j \in 1 .. Len(s) : s[j] \in S
      BY LenProperties, ElementOfSeq
    <2>2. /\ i \in Int /\ i - 1 \in Int /\ i + 1 \in Int /\ Len(s) \in Int
          /\ \A j \in 1 .. i - 1 : s[j] \in S
          /\ \A j \in i + 1 .. Len(s) : s[j] \in S
      BY <2>1
    <2>3. /\ front \in Seq(S) /\ Len(front) = (IF 1 <= (i - 1) THEN (i - 1) - 1 + 1 ELSE 0)
          /\ \A j \in 1 .. (i - 1) - 1 + 1 : front[j] = s[1 + j - 1]
      BY <2>2, SubSeqProperties
    <2>4. /\ back \in Seq(S) /\ Len(back) = (IF i + 1 <= Len(s) THEN Len(s) - (i + 1) + 1 ELSE 0)
          /\ \A j \in 1 .. Len(s) - (i + 1) + 1 : back[j] = s[i + 1 + j - 1]
      BY <2>2, SubSeqProperties
    <2> HIDE DEF front, back
    <2>5. \A j \in 1 .. i - 1 : front[j] = s[j]
      BY <2>1, <2>3
    <2>6. \A j \in 1 .. Len(s) - i : back[j] = s[i + j]
      BY <2>1, <2>4
    <2> QED
      BY <2>1, <2>3, <2>4, <2>5, <2>6
  <1> HIDE DEF front, back
  <1>2. r \in Seq(S) /\ Len(r) = Len(s) - 1
    BY <1>1, ConcatProperties, LenProperties
  <1>3. \A j \in 1 .. i - 1 : r[j] = s[j]
    BY <1>1, ConcatProperties
  <1>4. ASSUME NEW j \in i .. Len(s) - 1 PROVE r[j] = s[j + 1]
    <2>1. /\ i \in Nat /\ j \in Int /\ Len(s) \in Nat
          /\ j - (i - 1) \in 1 .. Len(s) - i /\ i + (j - (i - 1)) = j + 1
          /\ j \in 1 .. (i - 1) + (Len(s) - i) /\ ~(j <= i - 1)
      BY LenProperties
    <2>2. r[j] = back[j - (i - 1)]
      BY <1>1, <2>1, ConcatProperties
    <2> QED
      BY <1>1, <2>1, <2>2
  <1>5. RemoveAt(s, i) = r
    BY DEF RemoveAt, front, back
  <1> QED
    BY <1>2, <1>3, <1>4, <1>5 DEF IsRemoved

\* The ring of a list goes from its head through its elements to its head.
LEMMA Round ==
    ASSUME RingInv, NEW h \in InUse
    PROVE  /\ Len(ring[h]) \in Nat /\ h \in Heads
           /\ NodeAt(h, 0) = h /\ NodeAt(h, Len(ring[h]) + 1) = h
           /\ \A i \in 1 .. Len(ring[h]) : NodeAt(h, i) = ring[h][i] /\ NodeAt(h, i) \in Elements
           /\ \A i \in 0 .. Len(ring[h]) + 1 : NodeAt(h, i) \in Nodes
  BY DEF RingInv, NodeAt, Nodes

\* Different places also have different successors.
LEMMA SuccessorsDiffer ==
    ASSUME RingInv, NEW h \in InUse, NEW k \in InUse,
           NEW i \in 0 .. Len(ring[h]), NEW j \in 0 .. Len(ring[k]),
           NodeAt(h, i + 1) = NodeAt(k, j + 1)
    PROVE  h = k /\ i = j
  <1>1. /\ Len(ring[h]) \in Nat /\ NodeAt(h, 0) = NodeAt(h, Len(ring[h]) + 1)
        /\ Len(ring[k]) \in Nat /\ NodeAt(k, 0) = NodeAt(k, Len(ring[k]) + 1)
    BY Round
  <1>2. NodesDiffer
    BY DEF RingInv
  <1>3. CASE i = Len(ring[h]) /\ j = Len(ring[k])
    BY <1>1, <1>2, <1>3 DEF NodesDiffer
  <1>4. CASE i = Len(ring[h]) /\ j # Len(ring[k])
    <2>1. j + 1 \in 0 .. Len(ring[k]) /\ 0 \in 0 .. Len(ring[h]) /\ NodeAt(h, 0) = NodeAt(k, j + 1)
      BY <1>1, <1>4
    <2> QED
      BY <2>1, <1>1, <1>2 DEF NodesDiffer
  <1>5. CASE i # Len(ring[h]) /\ j = Len(ring[k])
    <2>1. i + 1 \in 0 .. Len(ring[h]) /\ 0 \in 0 .. Len(ring[k]) /\ NodeAt(h, i + 1) = NodeAt(k, 0)
      BY <1>1, <1>5
    <2> QED
      BY <2>1, <1>1, <1>2 DEF NodesDiffer
  <1>6. CASE i # Len(ring[h]) /\ j # Len(ring[k])
    <2>1. i + 1 \in 0 .. Len(ring[h]) /\ j + 1 \in 0 .. Len(ring[k])
      BY <1>1, <1>6
    <2> QED
      BY <2>1, <1>2 DEF NodesDiffer
  <1> QED
    BY <1>3, <1>4, <1>5, <1>6

\* A node that is listed nowhere is none of the nodes of a ring.
LEMMA Unlisted ==
    ASSUME RingInv, NEW e \in Elements, ~Listed(e),
           NEW h \in InUse, NEW i \in 0 .. Len(ring[h]) + 1
    PROVE  NodeAt(h, i) # e
  BY Round, NodesAssumption DEF NodeAt, Listed, RingInv

\* A list that is initialised is a ring of its own.
LEMMA InitRing ==
    ASSUME RingInv, NEW h \in Heads, ListInit(h)
    PROVE  RingInv'
  <1>1. /\ h \notin InUse
        /\ next' = [next EXCEPT ![h] = h] /\ prev' = [prev EXCEPT ![h] = h]
        /\ InUse' = InUse \cup {h}
        /\ ring'[h] = <<>> /\ \A k \in InUse : ring'[k] = ring[k]
    BY DEF ListInit, With, InUse
  <1>2. /\ next' \in [Nodes -> Nodes \cup {Null}] /\ prev' \in [Nodes -> Nodes \cup {Null}]
        /\ InUse' \subseteq Heads /\ \A k \in InUse' : ring'[k] \in Seq(Elements)
    <2>1. <<>> \in Seq(Elements)
      OBVIOUS
    <2>2. ASSUME NEW k \in InUse' PROVE ring'[k] \in Seq(Elements)
      BY <1>1, <2>1 DEF RingInv
    <2> QED
      BY <1>1, <2>2 DEF RingInv, Nodes
  <1>3. Len(ring'[h]) = 0 /\ \A j \in {0, 1} : NodeAt(h, j)' = h
    BY <1>1 DEF NodeAt
  <1>4. ASSUME NEW k \in InUse
        PROVE  /\ k # h /\ Len(ring'[k]) = Len(ring[k]) /\ Len(ring[k]) \in Nat
               /\ \A j \in 0 .. Len(ring[k]) + 1 :
                     NodeAt(k, j)' = NodeAt(k, j) /\ NodeAt(k, j) # h /\ NodeAt(k, j) \in Nodes
    <2>1. k # h /\ ring'[k] = ring[k] /\ Len(ring[k]) \in Nat
      BY <1>1, Round
    <2>2. ASSUME NEW j \in 0 .. Len(ring[k]) + 1 PROVE NodeAt(k, j) # h
      BY <2>1, Round, NodesAssumption DEF NodeAt
    <2> QED
      BY <2>1, <2>2, Round DEF NodeAt
  <1>5. NodesDiffer'
    <2> SUFFICES ASSUME NEW k \in InUse', NEW l \in InUse',
                        NEW i \in 0 .. Len(ring'[k]), NEW j \in 0 .. Len(ring'[l]),
                        NodeAt(k, i)' = NodeAt(l, j)'
                 PROVE  k = l /\ i = j
      BY DEF NodesDiffer
    <2>1. CASE k = h \/ l = h
      BY <1>1, <1>3, <1>4, <2>1
    <2>2. CASE k # h /\ l # h
      BY <1>1, <1>4, <2>2 DEF RingInv, NodesDiffer
    <2> QED
      BY <2>1, <2>2
  <1>6. RingsAreLists'
    <2> SUFFICES ASSUME NEW k \in InUse', NEW i \in 0 .. Len(ring'[k])
                 PROVE  next'[NodeAt(k, i)'] = NodeAt(k, i + 1)' /\ prev'[NodeAt(k, i + 1)'] = NodeAt(k, i)'
      BY DEF RingsAreLists
    <2>1. CASE k = h
      BY <1>1, <1>3, <2>1 DEF RingInv, Nodes
    <2>2. CASE k # h
      <3>1. /\ k \in InUse /\ i \in 0 .. Len(ring[k])
            /\ i \in 0 .. Len(ring[k]) + 1 /\ i + 1 \in 0 .. Len(ring[k]) + 1
        BY <1>1, <1>4, <2>2
      <3> QED
        BY <1>1, <1>4, <3>1 DEF RingInv, RingsAreLists
    <2> QED
      BY <2>1, <2>2
  <1> QED
    BY <1>2, <1>5, <1>6 DEF RingInv

\* An element that is inserted comes between two neighbours and moves nothing else.
LEMMA InsertRing ==
    ASSUME RingInv, NEW h \in InUse, NEW i \in 0 .. Len(ring[h]), NEW e \in Elements,
           ListInsert(h, i, e)
    PROVE  RingInv'
  <1> DEFINE n == Len(ring[h])
             at == NodeAt(h, i)
             after == NodeAt(h, i + 1)
  <1>1. /\ n \in Nat /\ i \in Nat /\ i <= n /\ at \in Nodes /\ after \in Nodes /\ e \in Nodes
        /\ next[at] = after /\ at # e /\ after # e
    <2>1. n \in Nat /\ i \in 0 .. n + 1 /\ i + 1 \in 0 .. n + 1
      BY Round
    <2>2. ~Listed(e)
      BY DEF ListInsert
    <2> QED
      BY <2>1, <2>2, Round, Unlisted DEF RingInv, RingsAreLists, Nodes
  <1>2. /\ next' = [next EXCEPT ![e] = after, ![at] = e]
        /\ prev' = [[prev EXCEPT ![e] = at] EXCEPT ![after] = e]
        /\ ring' = With(h, InsertAt(ring[h], i + 1, e))
    BY <1>1 DEF ListInsert
  <1>3. /\ next' \in [Nodes -> Nodes \cup {Null}] /\ prev' \in [Nodes -> Nodes \cup {Null}]
        /\ next'[e] = after /\ next'[at] = e
        /\ \A x \in Nodes \ {e, at} : next'[x] = next[x]
        /\ prev'[e] = at /\ prev'[after] = e
        /\ \A x \in Nodes \ {e, after} : prev'[x] = prev[x]
    BY <1>1, <1>2 DEF RingInv
  <1>4. /\ InUse' = InUse /\ ring'[h] = InsertAt(ring[h], i + 1, e)
        /\ \A k \in InUse \ {h} : ring'[k] = ring[k]
    BY <1>2 DEF With, InUse
  <1>5. /\ ring'[h] \in Seq(Elements) /\ Len(ring'[h]) = n + 1
        /\ \A j \in 1 .. i : ring'[h][j] = ring[h][j]
        /\ ring'[h][i + 1] = e
        /\ \A j \in i + 2 .. n + 1 : ring'[h][j] = ring[h][j - 1]
    <2>1. ring[h] \in Seq(Elements)
      BY DEF RingInv
    <2>2. IsInserted(Elements, ring[h], i, e, InsertAt(ring[h], i + 1, e))
      BY <2>1, Inserted
    <2> QED
      BY <1>4, <2>2 DEF IsInserted
  <1>6. /\ NodeAt(h, i + 1)' = e
        /\ \A j \in 0 .. i : NodeAt(h, j)' = NodeAt(h, j)
        /\ \A j \in i + 2 .. n + 2 : NodeAt(h, j)' = NodeAt(h, j - 1)
    <2>1. DOMAIN ring'[h] = 1 .. n + 1 /\ DOMAIN ring[h] = 1 .. n
      BY <1>5, LenProperties DEF RingInv
    <2> QED
      BY <1>1, <1>5, <2>1 DEF NodeAt
  <1>7. ASSUME NEW k \in InUse, k # h
        PROVE  Len(ring'[k]) = Len(ring[k]) /\ \A j \in Int : NodeAt(k, j)' = NodeAt(k, j)
    <2>1. ring'[k] = ring[k]
      BY <1>4, <1>7
    <2> QED
      BY <2>1 DEF NodeAt
  <1>8. ASSUME NEW k \in InUse, NEW j \in 0 .. Len(ring[k]) + 1
        PROVE  NodeAt(k, j) # e /\ NodeAt(k, j) \in Nodes
    BY Unlisted, Round DEF ListInsert
  <1> HIDE DEF n, at, after
  <1>9. NodesDiffer'
    <2> SUFFICES ASSUME NEW k \in InUse, NEW l \in InUse,
                        NEW p \in 0 .. Len(ring'[k]), NEW q \in 0 .. Len(ring'[l]),
                        NodeAt(k, p)' = NodeAt(l, q)'
                 PROVE  k = l /\ p = q
      BY <1>4 DEF NodesDiffer
    \* Where a node of the new rings was, if it is not the new one.
    <2> DEFINE old(x, j) == IF x = h /\ j > i + 1 THEN j - 1 ELSE j
               new(x, j) == x = h /\ j = i + 1
    <2>1. ASSUME NEW x \in InUse, NEW j \in 0 .. Len(ring'[x]), ~new(x, j)
          PROVE  old(x, j) \in 0 .. Len(ring[x]) /\ NodeAt(x, j)' = NodeAt(x, old(x, j))
      <3>0. h \in InUse /\ i \in Nat /\ j \in Int /\ n = Len(ring[h])
        BY <1>1 DEF n
      <3>1. CASE x # h
        BY <3>1, <1>7
      <3>2. CASE x = h /\ j <= i
        <4>1. j \in 0 .. i /\ j \in 0 .. n /\ old(x, j) = j
          BY <3>0, <3>2, <1>1
        <4> QED
          BY <3>0, <3>2, <4>1, <1>6
      <3>3. CASE x = h /\ j > i + 1
        <4>1. j \in i + 2 .. n + 2 /\ j - 1 \in 0 .. n /\ old(x, j) = j - 1
          BY <3>0, <3>3, <1>1, <1>5
        <4> QED
          BY <3>0, <3>3, <4>1, <1>6
      <3> QED
        BY <3>0, <3>1, <3>2, <3>3, <2>1
    <2>2. ASSUME NEW x \in InUse, NEW j \in 0 .. Len(ring'[x]), ~new(x, j)
          PROVE  NodeAt(x, j)' # e
      <3>1. old(x, j) \in 0 .. Len(ring[x]) + 1 /\ NodeAt(x, j)' = NodeAt(x, old(x, j))
        BY <2>1, <2>2, Round
      <3> QED
        BY <3>1, <1>8
    <2>3. CASE new(k, p) /\ new(l, q)
      BY <2>3
    <2>4. CASE new(k, p) /\ ~new(l, q)
      BY <2>2, <2>4, <1>6
    <2>5. CASE ~new(k, p) /\ new(l, q)
      BY <2>2, <2>5, <1>6
    <2>6. CASE ~new(k, p) /\ ~new(l, q)
      <3>1. /\ old(k, p) \in 0 .. Len(ring[k]) /\ NodeAt(k, p)' = NodeAt(k, old(k, p))
            /\ old(l, q) \in 0 .. Len(ring[l]) /\ NodeAt(l, q)' = NodeAt(l, old(l, q))
        BY <2>1, <2>6
      <3>2. \A a \in 0 .. Len(ring[k]), b \in 0 .. Len(ring[l]) :
               NodeAt(k, a) = NodeAt(l, b) => k = l /\ a = b
        BY DEF RingInv, NodesDiffer
      <3>3. p \in Int /\ q \in Int /\ i \in Int
        BY <1>1
      <3>4. k = l /\ old(k, p) = old(l, q)
        <4> HIDE DEF old
        <4>1. NodeAt(k, old(k, p)) = NodeAt(l, old(l, q))
          BY <3>1
        <4> QED
          BY <3>1, <3>2, <4>1, Zenon
      <3> QED
        BY <3>3, <3>4, <2>6
    <2> QED
      BY <2>3, <2>4, <2>5, <2>6
  <1>10. RingsAreLists'
    <2> SUFFICES ASSUME NEW k \in InUse, NEW j \in 0 .. Len(ring'[k])
                 PROVE  next'[NodeAt(k, j)'] = NodeAt(k, j + 1)' /\ prev'[NodeAt(k, j + 1)'] = NodeAt(k, j)'
      BY <1>4 DEF RingsAreLists
    \* Two neighbours of an old ring, other than those that the element comes between.
    <2>1. ASSUME NEW x \in InUse, NEW m \in 0 .. Len(ring[x]), ~(x = h /\ m = i)
          PROVE  next'[NodeAt(x, m)] = NodeAt(x, m + 1) /\ prev'[NodeAt(x, m + 1)] = NodeAt(x, m)
      <3>1. NodeAt(x, m) # at
        BY <2>1 DEF at, RingInv, NodesDiffer
      <3>2. NodeAt(x, m + 1) # after
        BY <2>1, SuccessorsDiffer DEF after
      <3>3. /\ Len(ring[x]) \in Nat
            /\ m \in 0 .. Len(ring[x]) + 1 /\ m + 1 \in 0 .. Len(ring[x]) + 1
        BY Round
      <3>4. next[NodeAt(x, m)] = NodeAt(x, m + 1) /\ prev[NodeAt(x, m + 1)] = NodeAt(x, m)
        BY DEF RingInv, RingsAreLists
      <3> QED
        BY <3>1, <3>2, <3>3, <3>4, <1>3, <1>8
    <2>2. CASE k # h
      <3>1. Len(ring[k]) \in Nat /\ j \in 0 .. Len(ring[k])
        BY <2>2, <1>7, Round
      <3>2. next'[NodeAt(k, j)] = NodeAt(k, j + 1) /\ prev'[NodeAt(k, j + 1)] = NodeAt(k, j)
        BY <2>1, <2>2, <3>1
      <3>3. j \in Int /\ j + 1 \in Int
        OBVIOUS
      <3>4. NodeAt(k, j)' = NodeAt(k, j) /\ NodeAt(k, j + 1)' = NodeAt(k, j + 1)
        BY <2>2, <3>3, <1>7
      <3> QED
        BY <3>2, <3>4
    <2>3. CASE k = h /\ j < i
      BY <2>1, <2>3, <1>1, <1>6 DEF n
    <2>4. CASE k = h /\ j = i
      BY <2>4, <1>1, <1>3, <1>6 DEF at
    <2>5. CASE k = h /\ j = i + 1
      <3>1. NodeAt(h, i + 2)' = after
        BY <1>1, <1>6 DEF after
      <3> QED
        BY <2>5, <3>1, <1>1, <1>3, <1>6
    <2>6. CASE k = h /\ j > i + 1
      <3>1. j \in i + 2 .. n + 1 /\ j + 1 \in i + 2 .. n + 2 /\ j - 1 \in 0 .. n /\ j - 1 # i
            /\ (j - 1) + 1 = j /\ (j + 1) - 1 = j
        BY <2>6, <1>1, <1>5
      <3>2. next'[NodeAt(h, j - 1)] = NodeAt(h, j) /\ prev'[NodeAt(h, j)] = NodeAt(h, j - 1)
        BY <2>1, <3>1 DEF n
      <3>3. NodeAt(h, j)' = NodeAt(h, j - 1)
        BY <3>1, <1>1, <1>6
      <3>4. NodeAt(h, j + 1)' = NodeAt(h, (j + 1) - 1)
        BY <3>1, <1>6
      <3> QED
        BY <2>6, <3>1, <3>2, <3>3, <3>4
    <2> QED
      BY <2>2, <2>3, <2>4, <2>5, <2>6, <1>1, <1>5, <1>7, Round
  <1>11. InUse' \subseteq Heads /\ \A k \in InUse' : ring'[k] \in Seq(Elements)
    BY <1>4, <1>5 DEF RingInv
  <1> QED
    BY <1>3, <1>9, <1>10, <1>11 DEF RingInv

\* An element that is removed leaves its neighbours to each other.
LEMMA RemoveRing ==
    ASSUME RingInv, NEW h \in InUse, NEW i \in 1 .. Len(ring[h]), ListRemove(h, i)
    PROVE  RingInv'
  <1> DEFINE n == Len(ring[h])
             e == NodeAt(h, i)
             before == NodeAt(h, i - 1)
             after == NodeAt(h, i + 1)
  <1>0. /\ n \in Nat /\ i \in Nat /\ 1 <= i /\ i <= n
        /\ i - 1 \in 0 .. n /\ i \in 0 .. n /\ (i - 1) + 1 = i
        /\ i - 1 \in 0 .. n + 1 /\ i \in 0 .. n + 1 /\ i + 1 \in 0 .. n + 1
    BY Round
  <1>1. /\ e \in Nodes /\ before \in Nodes /\ after \in Nodes
        /\ next[e] = after /\ prev[e] = before /\ before # e /\ after # e
    <2>1. e \in Nodes /\ before \in Nodes /\ after \in Nodes
      BY <1>0, Round
    <2>2. next[e] = after
      BY <1>0 DEF RingInv, RingsAreLists
    <2>3. prev[NodeAt(h, (i - 1) + 1)] = before
      BY <1>0 DEF RingInv, RingsAreLists
    <2>4. before # e
      BY <1>0 DEF RingInv, NodesDiffer
    <2>5. NodeAt(h, i + 1) # NodeAt(h, (i - 1) + 1)
      <3>1. i # i - 1 /\ i \in 0 .. Len(ring[h]) /\ i - 1 \in 0 .. Len(ring[h])
        BY <1>0
      <3> QED
        BY <3>1, SuccessorsDiffer, Zenon
    <2> QED
      BY <1>0, <2>1, <2>2, <2>3, <2>4, <2>5
  <1>2. /\ next' = [[next EXCEPT ![before] = after] EXCEPT ![e] = Null]
        /\ prev' = [[prev EXCEPT ![after] = before] EXCEPT ![e] = Null]
        /\ ring' = With(h, RemoveAt(ring[h], i))
    BY <1>1 DEF ListRemove
  <1>3. /\ next' \in [Nodes -> Nodes \cup {Null}] /\ prev' \in [Nodes -> Nodes \cup {Null}]
        /\ next'[before] = after /\ prev'[after] = before
        /\ \A x \in Nodes \ {e, before} : next'[x] = next[x]
        /\ \A x \in Nodes \ {e, after} : prev'[x] = prev[x]
    BY <1>1, <1>2 DEF RingInv
  <1>4. /\ InUse' = InUse /\ ring'[h] = RemoveAt(ring[h], i)
        /\ \A k \in InUse \ {h} : ring'[k] = ring[k]
    BY <1>2 DEF With, InUse
  <1>5. /\ ring'[h] \in Seq(Elements) /\ Len(ring'[h]) = n - 1
        /\ \A j \in 1 .. i - 1 : ring'[h][j] = ring[h][j]
        /\ \A j \in i .. n - 1 : ring'[h][j] = ring[h][j + 1]
    <2>1. ring[h] \in Seq(Elements)
      BY DEF RingInv
    <2>2. IsRemoved(Elements, ring[h], i, RemoveAt(ring[h], i))
      BY <2>1, Removed
    <2> QED
      BY <1>4, <2>2 DEF IsRemoved
  <1>6. /\ \A j \in 0 .. i - 1 : NodeAt(h, j)' = NodeAt(h, j)
        /\ \A j \in i .. n : NodeAt(h, j)' = NodeAt(h, j + 1)
    <2>1. DOMAIN ring'[h] = 1 .. n - 1 /\ DOMAIN ring[h] = 1 .. n
      BY <1>5, LenProperties DEF RingInv
    <2> QED
      BY <1>0, <1>5, <2>1 DEF NodeAt
  <1>7. ASSUME NEW k \in InUse, k # h
        PROVE  Len(ring'[k]) = Len(ring[k]) /\ \A j \in Int : NodeAt(k, j)' = NodeAt(k, j)
    <2>1. ring'[k] = ring[k]
      BY <1>4, <1>7
    <2> QED
      BY <2>1 DEF NodeAt
  <1> HIDE DEF n, e, before, after
  <1>8. NodesDiffer'
    <2> SUFFICES ASSUME NEW k \in InUse, NEW l \in InUse,
                        NEW p \in 0 .. Len(ring'[k]), NEW q \in 0 .. Len(ring'[l]),
                        NodeAt(k, p)' = NodeAt(l, q)'
                 PROVE  k = l /\ p = q
      BY <1>4 DEF NodesDiffer
    \* Where a node of the new rings was.
    <2> DEFINE old(x, j) == IF x = h /\ j >= i THEN j + 1 ELSE j
    <2>1. ASSUME NEW x \in InUse, NEW j \in 0 .. Len(ring'[x])
          PROVE  old(x, j) \in 0 .. Len(ring[x]) /\ NodeAt(x, j)' = NodeAt(x, old(x, j))
      <3>0. h \in InUse /\ i \in Nat /\ j \in Int /\ n = Len(ring[h])
        BY <1>0 DEF n
      <3>1. CASE x # h
        BY <3>1, <1>7
      <3>2. CASE x = h /\ j < i
        <4>1. j \in 0 .. i - 1 /\ j \in 0 .. n /\ old(x, j) = j
          BY <3>0, <3>2, <1>0
        <4> QED
          BY <3>0, <3>2, <4>1, <1>6
      <3>3. CASE x = h /\ j >= i
        <4>1. j \in i .. n /\ j + 1 \in 0 .. n /\ old(x, j) = j + 1
          BY <3>0, <3>3, <1>0, <1>5
        <4> QED
          BY <3>0, <3>3, <4>1, <1>6
      <3> QED
        BY <3>0, <3>1, <3>2, <3>3
    <2>2. /\ old(k, p) \in 0 .. Len(ring[k]) /\ NodeAt(k, p)' = NodeAt(k, old(k, p))
          /\ old(l, q) \in 0 .. Len(ring[l]) /\ NodeAt(l, q)' = NodeAt(l, old(l, q))
      BY <2>1
    <2>3. \A a \in 0 .. Len(ring[k]), b \in 0 .. Len(ring[l]) :
             NodeAt(k, a) = NodeAt(l, b) => k = l /\ a = b
      BY DEF RingInv, NodesDiffer
    <2>4. k = l /\ old(k, p) = old(l, q)
      <3> HIDE DEF old
      <3>1. NodeAt(k, old(k, p)) = NodeAt(l, old(l, q))
        BY <2>2
      <3> QED
        BY <2>2, <2>3, <3>1, Zenon
    <2>5. p \in Int /\ q \in Int /\ i \in Int
      BY <1>0
    <2> QED
      BY <2>4, <2>5
  <1>9. RingsAreLists'
    <2> SUFFICES ASSUME NEW k \in InUse, NEW j \in 0 .. Len(ring'[k])
                 PROVE  next'[NodeAt(k, j)'] = NodeAt(k, j + 1)' /\ prev'[NodeAt(k, j + 1)'] = NodeAt(k, j)'
      BY <1>4 DEF RingsAreLists
    \* Two neighbours of an old ring, neither of which is the element.
    <2>1. ASSUME NEW x \in InUse, NEW m \in 0 .. Len(ring[x]), x = h => m # i - 1 /\ m # i
          PROVE  next'[NodeAt(x, m)] = NodeAt(x, m + 1) /\ prev'[NodeAt(x, m + 1)] = NodeAt(x, m)
      <3>1. NodeAt(x, m) # before /\ NodeAt(x, m) # e
        BY <2>1, <1>0 DEF before, e, n, RingInv, NodesDiffer
      <3>2. NodeAt(x, m + 1) # after /\ NodeAt(x, m + 1) # NodeAt(h, (i - 1) + 1)
        <4>1. i \in 0 .. Len(ring[h]) /\ i - 1 \in 0 .. Len(ring[h])
          BY <1>0 DEF n
        <4> QED
          BY <2>1, <4>1, SuccessorsDiffer, Zenon DEF after
      <3>3. /\ Len(ring[x]) \in Nat
            /\ m \in 0 .. Len(ring[x]) + 1 /\ m + 1 \in 0 .. Len(ring[x]) + 1
        BY Round
      <3>4. next[NodeAt(x, m)] = NodeAt(x, m + 1) /\ prev[NodeAt(x, m + 1)] = NodeAt(x, m)
        BY DEF RingInv, RingsAreLists
      <3>5. NodeAt(x, m + 1) # e
        BY <3>2, <1>0 DEF e
      <3>6. NodeAt(x, m) \in Nodes /\ NodeAt(x, m + 1) \in Nodes
        BY <3>3, Round
      <3> QED
        BY <3>1, <3>2, <3>4, <3>5, <3>6, <1>3
    <2>2. CASE k # h
      <3>1. Len(ring[k]) \in Nat /\ j \in 0 .. Len(ring[k])
        BY <2>2, <1>7, Round
      <3>2. next'[NodeAt(k, j)] = NodeAt(k, j + 1) /\ prev'[NodeAt(k, j + 1)] = NodeAt(k, j)
        BY <2>1, <2>2, <3>1
      <3>3. j \in Int /\ j + 1 \in Int
        OBVIOUS
      <3>4. NodeAt(k, j)' = NodeAt(k, j) /\ NodeAt(k, j + 1)' = NodeAt(k, j + 1)
        BY <2>2, <3>3, <1>7
      <3> QED
        BY <3>2, <3>4
    <2>3. CASE k = h /\ j < i - 1
      BY <2>1, <2>3, <1>0, <1>6 DEF n
    <2>4. CASE k = h /\ j = i - 1
      <3>1. NodeAt(h, i - 1)' = before /\ NodeAt(h, i)' = after
        BY <1>0, <1>6 DEF before, after
      <3> QED
        BY <2>4, <3>1, <1>0, <1>3
    <2>5. CASE k = h /\ j >= i
      <3>1. j \in i .. n /\ j + 1 \in i .. n /\ j + 1 # i - 1 /\ j + 1 # i
        BY <2>5, <1>0, <1>5
      <3>2. j + 1 \in 0 .. n
        BY <3>1, <1>0
      <3>3. next'[NodeAt(h, j + 1)] = NodeAt(h, (j + 1) + 1) /\ prev'[NodeAt(h, (j + 1) + 1)] = NodeAt(h, j + 1)
        BY <2>1, <3>1, <3>2 DEF n
      <3>4. NodeAt(h, j)' = NodeAt(h, j + 1) /\ NodeAt(h, j + 1)' = NodeAt(h, (j + 1) + 1)
        BY <3>1, <1>6
      <3> QED
        BY <2>5, <3>3, <3>4
    <2>6. j \in Int /\ i \in Int
      BY <1>0
    <2> QED
      BY <2>2, <2>3, <2>4, <2>5, <2>6
  <1>10. InUse' \subseteq Heads /\ \A k \in InUse' : ring'[k] \in Seq(Elements)
    BY <1>4, <1>5 DEF RingInv
  <1> QED
    BY <1>3, <1>8, <1>9, <1>10 DEF RingInv

\* A list that is spliced in comes between the head and its first element.
LEMMA SpliceRing ==
    ASSUME RingInv, NEW h \in Heads, NEW other \in Heads, ListInsertList(h, other)
    PROVE  RingInv'
  <1>1. h \in InUse /\ other \in InUse /\ h # other
    BY DEF ListInsertList
  <1>2. PICK m : m = Len(ring[other])
    OBVIOUS
  <1> DEFINE n == Len(ring[h])
             first == NodeAt(other, 1)
             last == NodeAt(other, m)
             after == NodeAt(h, 1)
  <1>3. CASE next[other] = other
    BY <1>3 DEF ListInsertList, listVars, RingInv, NodesDiffer, RingsAreLists, InUse, NodeAt
  <1>4. CASE next[other] # other
    <2>1. /\ n \in Nat /\ m \in Nat /\ m >= 1 /\ 0 \in 0 .. n /\ 0 \in 0 .. m /\ m \in 0 .. m
          /\ next[h] = after /\ next[other] = first /\ prev[other] = last
      <3>1. n \in Nat /\ m \in Nat /\ NodeAt(h, 0) = h
            /\ NodeAt(other, 0) = other /\ NodeAt(other, m + 1) = other
        BY <1>1, <1>2, Round
      <3>2. /\ next[NodeAt(h, 0)] = NodeAt(h, 0 + 1) /\ next[NodeAt(other, 0)] = NodeAt(other, 0 + 1)
            /\ prev[NodeAt(other, m + 1)] = last
        BY <1>1, <1>2, <3>1 DEF RingInv, RingsAreLists
      <3>3. m # 0
        BY <1>4, <3>1, <3>2
      <3> QED
        BY <3>1, <3>2, <3>3
    <2>2. /\ first \in Nodes /\ last \in Nodes /\ after \in Nodes /\ h \in Nodes
          /\ last # h /\ first # after
      <3>1. 1 \in 0 .. n + 1 /\ 1 \in 0 .. m + 1 /\ m \in 0 .. m + 1 /\ NodeAt(h, 0) = h
        BY <1>1, <1>2, <2>1, Round
      <3>2. last # NodeAt(h, 0)
        BY <1>1, <1>2, <2>1 DEF RingInv, NodesDiffer
      <3>3. NodeAt(other, 0 + 1) # NodeAt(h, 0 + 1)
        <4>1. 0 \in 0 .. Len(ring[h]) /\ 0 \in 0 .. Len(ring[other])
          BY <1>2, <2>1
        <4> QED
          BY <1>1, <4>1, SuccessorsDiffer, Zenon
      <3> QED
        BY <1>1, <1>2, <3>1, <3>2, <3>3, Round DEF Nodes
    <2>3. /\ next' = [[next EXCEPT ![last] = after] EXCEPT ![h] = first]
          /\ prev' = [[prev EXCEPT ![first] = h] EXCEPT ![after] = last]
          /\ ring' = [x \in InUse \ {other} |->
                          IF x = h THEN ring[other] \o ring[h] ELSE ring[x]]
      BY <1>4, <2>1 DEF ListInsertList
    <2>4. /\ next' \in [Nodes -> Nodes \cup {Null}] /\ prev' \in [Nodes -> Nodes \cup {Null}]
          /\ next'[last] = after /\ next'[h] = first
          /\ \A x \in Nodes \ {last, h} : next'[x] = next[x]
          /\ prev'[first] = h /\ prev'[after] = last
          /\ \A x \in Nodes \ {first, after} : prev'[x] = prev[x]
      BY <2>2, <2>3 DEF RingInv
    <2>5. /\ InUse' = InUse \ {other} /\ ring'[h] = ring[other] \o ring[h]
          /\ \A k \in InUse \ {other, h} : ring'[k] = ring[k]
      BY <1>1, <2>3 DEF InUse
    <2>6. /\ ring'[h] \in Seq(Elements) /\ Len(ring'[h]) = m + n
          /\ \A j \in 1 .. m + n : ring'[h][j] = IF j <= m THEN ring[other][j] ELSE ring[h][j - m]
      <3>1. ring[h] \in Seq(Elements) /\ ring[other] \in Seq(Elements)
        BY <1>1 DEF RingInv
      <3>2. /\ ring[other] \o ring[h] \in Seq(Elements)
            /\ Len(ring[other] \o ring[h]) = Len(ring[other]) + Len(ring[h])
            /\ \A i \in 1 .. Len(ring[other]) + Len(ring[h]) : (ring[other] \o ring[h])[i] =
                   IF i <= Len(ring[other]) THEN ring[other][i] ELSE ring[h][i - Len(ring[other])]
        BY <3>1, ConcatProperties, Zenon
      <3> QED
        BY <1>2, <2>5, <3>2
    <2>7. /\ NodeAt(h, 0)' = h
          /\ \A j \in 1 .. m : NodeAt(h, j)' = NodeAt(other, j)
          /\ \A j \in m + 1 .. m + n + 1 : NodeAt(h, j)' = NodeAt(h, j - m)
      <3>1. DOMAIN ring'[h] = 1 .. m + n /\ DOMAIN ring[h] = 1 .. n /\ DOMAIN ring[other] = 1 .. m
        BY <1>1, <1>2, <2>6, LenProperties DEF RingInv
      <3>2. NodeAt(h, 0)' = h
        BY <2>1, <3>1 DEF NodeAt
      <3>3. ASSUME NEW j \in 1 .. m PROVE NodeAt(h, j)' = NodeAt(other, j)
        BY <2>1, <2>6, <3>1 DEF NodeAt
      <3>4. ASSUME NEW j \in m + 1 .. m + n + 1 PROVE NodeAt(h, j)' = NodeAt(h, j - m)
        BY <2>1, <2>6, <3>1 DEF NodeAt
      <3> QED
        BY <3>2, <3>3, <3>4
    <2>8. ASSUME NEW k \in InUse, k # h, k # other
          PROVE  Len(ring'[k]) = Len(ring[k]) /\ \A j \in Int : NodeAt(k, j)' = NodeAt(k, j)
      <3>1. ring'[k] = ring[k]
        BY <2>5, <2>8
      <3> QED
        BY <3>1 DEF NodeAt
    <2> HIDE DEF n, first, last, after
    <2>9. NodesDiffer'
      <3> SUFFICES ASSUME NEW k \in InUse \ {other}, NEW l \in InUse \ {other},
                          NEW p \in 0 .. Len(ring'[k]), NEW q \in 0 .. Len(ring'[l]),
                          NodeAt(k, p)' = NodeAt(l, q)'
                   PROVE  k = l /\ p = q
        BY <2>5 DEF NodesDiffer
      \* Which list a node of the new rings was in, and where.
      <3> DEFINE list(x, j) == IF x = h /\ 1 <= j /\ j <= m THEN other ELSE x
                 old(x, j) == IF x = h /\ m < j THEN j - m ELSE j
      <3>1. ASSUME NEW x \in InUse \ {other}, NEW j \in 0 .. Len(ring'[x])
            PROVE  /\ list(x, j) \in InUse /\ old(x, j) \in 0 .. Len(ring[list(x, j)])
                   /\ NodeAt(x, j)' = NodeAt(list(x, j), old(x, j))
        <4>1. CASE x # h
          BY <4>1, <2>8
        <4>2. CASE x = h /\ j = 0
          <5>1. NodeAt(h, 0) = h
            BY <1>1, Round
          <5> QED
            BY <4>2, <5>1, <2>1, <2>7, <1>1 DEF n
        <4>3. CASE x = h /\ 1 <= j /\ j <= m
          BY <4>3, <2>1, <2>7, <1>1, <1>2
        <4>4. CASE x = h /\ m < j
          BY <4>4, <2>1, <2>6, <2>7, <1>1 DEF n
        <4> QED
          BY <4>1, <4>2, <4>3, <4>4, <2>1
      <3>2. /\ list(k, p) \in InUse /\ old(k, p) \in 0 .. Len(ring[list(k, p)])
            /\ list(l, q) \in InUse /\ old(l, q) \in 0 .. Len(ring[list(l, q)])
            /\ NodeAt(list(k, p), old(k, p)) = NodeAt(list(l, q), old(l, q))
        <4>1. /\ list(k, p) \in InUse /\ old(k, p) \in 0 .. Len(ring[list(k, p)])
              /\ NodeAt(k, p)' = NodeAt(list(k, p), old(k, p))
          BY <3>1
        <4>2. /\ list(l, q) \in InUse /\ old(l, q) \in 0 .. Len(ring[list(l, q)])
              /\ NodeAt(l, q)' = NodeAt(list(l, q), old(l, q))
          BY <3>1
        <4> HIDE DEF list, old
        <4> QED
          BY <4>1, <4>2
      <3>3. list(k, p) = list(l, q) /\ old(k, p) = old(l, q)
        <4> HIDE DEF list, old
        <4>1. PICK x, a : x = list(k, p) /\ a = old(k, p)
          OBVIOUS
        <4>2. PICK y, b : y = list(l, q) /\ b = old(l, q)
          OBVIOUS
        <4>3. /\ x \in InUse /\ a \in 0 .. Len(ring[x])
              /\ y \in InUse /\ b \in 0 .. Len(ring[y])
              /\ NodeAt(x, a) = NodeAt(y, b)
          BY <3>2, <4>1, <4>2, Zenon
        <4>4. x = y /\ a = b
          BY <4>3 DEF RingInv, NodesDiffer
        <4> QED
          BY <4>1, <4>2, <4>4
      <3>4. p \in Int /\ q \in Int /\ 0 <= p /\ 0 <= q
        OBVIOUS
      <3> QED
        BY <3>3, <3>4, <2>1, <1>1
    <2>10. RingsAreLists'
      <3> SUFFICES ASSUME NEW k \in InUse \ {other}, NEW j \in 0 .. Len(ring'[k])
                   PROVE  next'[NodeAt(k, j)'] = NodeAt(k, j + 1)' /\ prev'[NodeAt(k, j + 1)'] = NodeAt(k, j)'
        BY <2>5 DEF RingsAreLists
      <3>0. NodeAt(h, 0) = h /\ NodeAt(h, 0 + 1) = after /\ NodeAt(other, 0 + 1) = first
        BY <1>1, Round DEF after, first
      \* Two neighbours that remain neighbours.
      <3>1. ASSUME NEW x \in InUse, NEW a \in 0 .. Len(ring[x]),
                   x = h => a # 0, x = other => a # 0 /\ a # m
            PROVE  next'[NodeAt(x, a)] = NodeAt(x, a + 1) /\ prev'[NodeAt(x, a + 1)] = NodeAt(x, a)
        <4>1. NodeAt(x, a) # last /\ NodeAt(x, a) # NodeAt(h, 0)
          BY <3>1, <1>1, <1>2, <2>1 DEF last, n, RingInv, NodesDiffer
        <4>2. NodeAt(x, a + 1) # NodeAt(h, 0 + 1) /\ NodeAt(x, a + 1) # NodeAt(other, 0 + 1)
          <5>1. 0 \in 0 .. Len(ring[h]) /\ 0 \in 0 .. Len(ring[other])
            BY <2>1, <1>2 DEF n
          <5> QED
            BY <3>1, <1>1, <5>1, SuccessorsDiffer, Zenon
        <4>3. /\ Len(ring[x]) \in Nat
              /\ a \in 0 .. Len(ring[x]) + 1 /\ a + 1 \in 0 .. Len(ring[x]) + 1
          BY Round
        <4>4. next[NodeAt(x, a)] = NodeAt(x, a + 1) /\ prev[NodeAt(x, a + 1)] = NodeAt(x, a)
          BY DEF RingInv, RingsAreLists
        <4>5. NodeAt(x, a) \in Nodes /\ NodeAt(x, a + 1) \in Nodes
          BY <4>3, Round
        <4> QED
          BY <3>0, <4>1, <4>2, <4>4, <4>5, <2>4
      <3>2. CASE k # h
        <4>1. Len(ring[k]) \in Nat /\ j \in 0 .. Len(ring[k])
          BY <3>2, <2>8, Round
        <4>2. next'[NodeAt(k, j)] = NodeAt(k, j + 1) /\ prev'[NodeAt(k, j + 1)] = NodeAt(k, j)
          BY <3>1, <3>2, <4>1
        <4>3. j \in Int /\ j + 1 \in Int
          OBVIOUS
        <4>4. NodeAt(k, j)' = NodeAt(k, j) /\ NodeAt(k, j + 1)' = NodeAt(k, j + 1)
          BY <3>2, <4>3, <2>8
        <4> QED
          BY <4>2, <4>4
      <3>3. CASE k = h /\ j = 0
        <4>1. NodeAt(h, 0)' = h /\ NodeAt(h, 1)' = first
          BY <2>1, <2>7 DEF first
        <4> QED
          BY <3>3, <4>1, <2>4
      <3>4. CASE k = h /\ 1 <= j /\ j < m
        <4>1. j \in 1 .. m /\ j + 1 \in 1 .. m /\ j \in 0 .. m
          BY <3>4, <2>1
        <4>2. next'[NodeAt(other, j)] = NodeAt(other, j + 1) /\ prev'[NodeAt(other, j + 1)] = NodeAt(other, j)
          BY <3>1, <3>4, <4>1, <1>1, <1>2
        <4>3. NodeAt(h, j)' = NodeAt(other, j) /\ NodeAt(h, j + 1)' = NodeAt(other, j + 1)
          BY <4>1, <2>7
        <4> QED
          BY <3>4, <4>2, <4>3
      <3>5. CASE k = h /\ j = m
        <4>1. NodeAt(h, m)' = last /\ NodeAt(h, m + 1)' = after
          BY <2>1, <2>7 DEF last, after
        <4> QED
          BY <3>5, <4>1, <2>4
      <3>6. CASE k = h /\ m < j
        <4>1. /\ j \in m + 1 .. m + n + 1 /\ j + 1 \in m + 1 .. m + n + 1
              /\ j - m \in 0 .. n /\ j - m # 0 /\ (j + 1) - m = (j - m) + 1
          BY <3>6, <2>1, <2>6
        <4>2. next'[NodeAt(h, j - m)] = NodeAt(h, (j - m) + 1) /\ prev'[NodeAt(h, (j - m) + 1)] = NodeAt(h, j - m)
          BY <3>1, <4>1, <1>1 DEF n
        <4>3. NodeAt(h, j)' = NodeAt(h, j - m)
          BY <4>1, <2>7
        <4>4. NodeAt(h, j + 1)' = NodeAt(h, (j + 1) - m)
          BY <4>1, <2>7
        <4>5. NodeAt(h, j + 1)' = NodeAt(h, (j - m) + 1)
          BY <4>1, <4>4
        <4> QED
          BY <3>6, <4>2, <4>3, <4>5
      <3> QED
        BY <3>2, <3>3, <3>4, <3>5, <3>6, <2>1
    <2>11. InUse' \subseteq Heads /\ \A k \in InUse' : ring'[k] \in Seq(Elements)
      BY <2>5, <2>6 DEF RingInv
    <2> QED
      BY <2>4, <2>9, <2>10, <2>11 DEF RingInv
  <1> QED
    BY <1>3, <1>4

\* The lists' pointers are rings of different nodes after every operation.
LEMMA RingStep == RingInv /\ [Next]_vars => RingInv'
  <1> SUFFICES ASSUME RingInv, [Next]_vars PROVE RingInv'
    OBVIOUS
  <1>1. CASE UNCHANGED listVars
    BY <1>1 DEF listVars, RingInv, NodesDiffer, RingsAreLists, InUse, NodeAt
  <1>2. ASSUME NEW h \in Heads, ListInit(h) PROVE RingInv'
    BY <1>2, InitRing
  <1>3. ASSUME NEW h \in Heads, NEW other \in Heads, ListInsertList(h, other) PROVE RingInv'
    BY <1>3, SpliceRing
  <1>4. ASSUME NEW h \in InUse, NEW i \in 0 .. Len(ring[h]), ListRemove(h, i) PROVE RingInv'
    <2>1. i \in 1 .. Len(ring[h])
      BY <1>4, LenProperties DEF ListRemove, RingInv
    <2> QED
      BY <1>4, <2>1, RemoveRing
  <1>5. ASSUME NEW h \in InUse, NEW i \in 0 .. Len(ring[h]), NEW e \in Elements,
               ListInsert(h, i, e)
        PROVE  RingInv'
    BY <1>5, InsertRing
  <1>6. ASSUME NEW a \in Arrays,
               Release(a) \/ (\E n \in Sizes : Add(a, n)) \/ (\E b \in Arrays : Copy(a, b))
        PROVE  UNCHANGED listVars
    BY <1>6 DEF Release, Add, Copy
  <1>7. Double \/ Reallocate => UNCHANGED listVars
    BY DEF Double, Reallocate
  <1> QED
    BY <1>1, <1>2, <1>3, <1>4, <1>5, <1>6, <1>7 DEF Next, vars

THEOREM RingInvariance == Spec => []RingInv
  <1>1. Init => RingInv
    BY DEF Init, RingInv, NodesDiffer, RingsAreLists, InUse
  <1> QED
    BY <1>1, RingStep, PTL DEF Spec

\* However the lists are used, each is a ring of its head and its elements in order.
THEOREM ListsStayLists == Spec => []RingsAreLists
  <1>1. RingInv => RingsAreLists
    BY DEF RingInv
  <1> QED
    BY <1>1, RingInvariance, PTL

---------------------------------------------------------------------------
(* Why growing an array ends: a variant of the loop.                       *)

\* The loop starts from a capacity that doubling changes.
CapacityInv == call # NoCall => call.capacity >= MinCapacity

\* Each round of the loop brings the capacity up, and never beyond the guest's numbers.
LoopClimbs ==
    Double => /\ call'.capacity > call.capacity
              /\ call'.capacity <= SizeMax
              /\ call'.required = call.required /\ call'.array = call.array

LEMMA Climbs == ArrayInv /\ CapacityInv /\ Double => LoopClimbs
  <1> SUFFICES ASSUME ArrayInv, CapacityInv, Double PROVE LoopClimbs
    OBVIOUS
  <1>0. /\ call \in [array : Arrays, required : Sizes, capacity : Sizes, given : Nat]
        /\ call # NoCall /\ call.capacity < call.required
    BY DEF ArrayInv, Double
  <1> DEFINE doubled == IF call.capacity > SizeMax \div 2 THEN call.required ELSE 2 * call.capacity
  <1>1. /\ call.capacity \in Nat /\ call.required \in Nat
        /\ call.required <= SizeMax /\ call.capacity >= 1
    BY <1>0, SizesAssumption DEF Sizes, CapacityInv
  <1>2. doubled > call.capacity /\ doubled <= SizeMax
    <2>1. SizeMax \div 2 \in Nat /\ 2 * (SizeMax \div 2) <= SizeMax
      BY SizesAssumption
    <2>2. CASE call.capacity > SizeMax \div 2
      BY <1>0, <1>1, <2>2
    <2>3. CASE ~(call.capacity > SizeMax \div 2)
      BY <1>1, <2>1, <2>3, SizesAssumption
    <2> QED
      BY <2>2, <2>3
  <1> HIDE DEF doubled
  <1>3. call' = [call EXCEPT !.capacity = doubled]
    BY DEF Double, doubled
  <1>4. call'.capacity = doubled /\ call'.required = call.required /\ call'.array = call.array
    BY <1>0, <1>3
  <1> QED
    BY <1>2, <1>4 DEF LoopClimbs

\* Only wl_array_add begins a call, with the larger of its capacity and the least one.
LEMMA CapacityStep == ArrayInv /\ CapacityInv /\ [Next]_vars => CapacityInv'
  <1> SUFFICES ASSUME ArrayInv, CapacityInv, [Next]_vars PROVE CapacityInv'
    OBVIOUS
  <1>1. CASE call' = call
    BY <1>1 DEF CapacityInv
  <1>2. ASSUME NEW a \in Arrays, NEW n, Begin(a, n) PROVE CapacityInv'
    <2>1. \/ call' = call
          \/ \E r : call' = [array |-> a, required |-> r, given |-> r,
                             capacity |-> Larger(alloc[a], MinCapacity)]
      BY <1>2 DEF Begin, Ask
    <2>2. alloc[a] \in Nat /\ MinCapacity \in Nat
      BY SizesAssumption DEF ArrayInv, Sizes
    <2>3. Larger(alloc[a], MinCapacity) >= MinCapacity
      BY <2>2 DEF Larger
    <2>4. CASE call' # call
      <3>1. call'.capacity = Larger(alloc[a], MinCapacity)
        BY <2>1, <2>4
      <3> QED
        BY <2>3, <3>1 DEF CapacityInv
    <2> QED
      BY <1>1, <2>4
  <1>3. CASE Double
    <2>1. /\ call'.capacity > call.capacity
          /\ call.capacity >= MinCapacity /\ call'.capacity \in Nat /\ call.capacity \in Nat
      <3>1. ArrayInv'
        BY <1>3, DoubleFits
      <3>2. call \in [array : Arrays, required : Sizes, capacity : Sizes, given : Nat]
            /\ call # NoCall
        BY <1>3 DEF ArrayInv, Double
      <3>3. call' # NoCall
        BY <1>3, <3>2 DEF Double, NoCall
      <3>4. call' \in [array : Arrays, required : Sizes, capacity : Sizes, given : Nat]
        BY <3>1, <3>3 DEF ArrayInv
      <3> QED
        BY <1>3, <3>2, <3>4, Climbs, SizesAssumption DEF LoopClimbs, CapacityInv, Sizes
    <2> QED
      BY <2>1, SizesAssumption DEF CapacityInv
  <1>4. CASE call' = NoCall
    BY <1>4 DEF CapacityInv
  <1>5. ASSUME NEW a \in Arrays, NEW b \in Arrays, Copy(a, b) PROVE CapacityInv'
    BY <1>1, <1>2, <1>5 DEF Copy
  <1> QED
    BY <1>1, <1>2, <1>3, <1>4, <1>5
    DEF Next, ListInit, ListInsert, ListRemove, ListInsertList, Release, Add, Reallocate,
      arrayVars, vars

\* The doubling loop of wl_array_add has a bounded variant: the capacity rises with each
\* round and stays below SIZE_MAX, so that it reaches what is required.
THEOREM DoublingEnds == Spec => [][LoopClimbs]_vars
  <1>1. Init => CapacityInv
    BY DEF Init, CapacityInv
  <1>2. ASSUME ArrayInv, CapacityInv, [Next]_vars PROVE LoopClimbs
    BY <1>2, Climbs DEF LoopClimbs
  <1> QED
    BY <1>1, <1>2, CapacityStep, ArrayInvariance, PTL DEF Spec

\* Pointers lead to nodes, and sizes are the guest's numbers, whatever the guest does.
THEOREM TypeCorrect == Spec => []TypeOK
  <1>1. ArrayInv /\ RingInv => TypeOK
    BY DEF ArrayInv, RingInv, TypeOK, InUse
  <1> QED
    BY <1>1, ArrayInvariance, RingInvariance, PTL
=============================================================================
