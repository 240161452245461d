-------------------------- MODULE WaylandUtilities --------------------------
(***************************************************************************)
(* The wl_list and wl_array functions of the Wayland thunk, which work on  *)
(* guest memory: lists are rings of next and prev pointers with a head in   *)
(* each, arrays grow by doubling with arithmetic modulo SizeMax + 1.       *)
(* `ring` is what the lists stand for: for each head, its elements.        *)
(***************************************************************************)
EXTENDS Integers, SequencesExt

CONSTANTS
    Heads,       \* wl_lists that are used as lists
    Elements,    \* wl_lists that are embedded in what the lists hold
    Null,
    Arrays,
    MinCapacity, \* 16
    SizeMax      \* SIZE_MAX of the guest

ASSUME NodesAssumption == Heads \cap Elements = {} /\ Null \notin Heads \cup Elements
ASSUME SizesAssumption ==
    /\ MinCapacity \in Nat \ {0}
    /\ SizeMax \in Nat
    /\ MinCapacity <= SizeMax

Nodes == Heads \cup Elements
Sizes == 0 .. SizeMax

VARIABLES
    next, prev, \* the pointers of each wl_list
    ring,       \* the elements of the lists that are in use
    size, alloc,\* the fields of each array
    block,      \* the size of what `data` points to
    given,      \* how far the callers of each array were told they may write
    call        \* the wl_array_add under way, if any

listVars == <<next, prev, ring>>
arrayVars == <<size, alloc, block, given, call>>
vars == <<listVars, arrayVars>>

NoCall == [array |-> Null]

TypeOK ==
    /\ next \in [Nodes -> Nodes \cup {Null}]
    /\ prev \in [Nodes -> Nodes \cup {Null}]
    /\ DOMAIN ring \subseteq Heads
    /\ \A h \in DOMAIN ring : ring[h] \in Seq(Elements)
    /\ size \in [Arrays -> Sizes]
    /\ alloc \in [Arrays -> Sizes]
    /\ block \in [Arrays -> Sizes]
    /\ given \in [Arrays -> Nat]
    /\ call \in {NoCall} \cup
               [array : Arrays, required : Sizes, capacity : Sizes, given : Nat]

Init ==
    /\ next = [n \in Nodes |-> Null]
    /\ prev = [n \in Nodes |-> Null]
    /\ ring = [h \in {} |-> <<>>]
    /\ size = [a \in Arrays |-> 0]
    /\ alloc = [a \in Arrays |-> 0]
    /\ block = [a \in Arrays |-> 0]
    /\ given = [a \in Arrays |-> 0]
    /\ call = NoCall

---------------------------------------------------------------------------
(* Lists.                                                                  *)

\* The sequence with which a list's users think of it: for a head h in use, its
\* elements in order; the ring goes from h through them back to h.
InUse == DOMAIN ring
Listed(e) == \E h \in InUse : \E i \in DOMAIN ring[h] : ring[h][i] = e
With(h, s) == [x \in InUse \cup {h} |-> IF x = h THEN s ELSE ring[x]]

\* wl_list_init, of a new list or of one that wl_list_insert_list has emptied.
ListInit(h) ==
    /\ h \notin InUse
    /\ next' = [next EXCEPT ![h] = h]
    /\ prev' = [prev EXCEPT ![h] = h]
    /\ ring' = With(h, <<>>)
    /\ UNCHANGED arrayVars

\* The nodes of the ring of h, from h at 0 to h again.
NodeAt(h, i) == IF i \in DOMAIN ring[h] THEN ring[h][i] ELSE h

\* Mutant: the neighbour's pointer is set through the list's own, which is changed already.
ListInsert_Late(h, i, e) ==
    /\ h \in InUse /\ i \in 0 .. Len(ring[h]) /\ ~Listed(e)
    /\ LET at == NodeAt(h, i)
       IN /\ next' = [next EXCEPT ![e] = next[at], ![at] = e]
          /\ prev' = [prev EXCEPT ![e] = e]
    /\ ring' = With(h, InsertAt(ring[h], i + 1, e))
    /\ UNCHANGED arrayVars

\* The element is inserted after the node at i, the head or an element.
ListInsert(h, i, e) ==
    /\ h \in InUse /\ i \in 0 .. Len(ring[h]) /\ ~Listed(e)
    /\ LET at == NodeAt(h, i)
       IN /\ next' = [next EXCEPT ![e] = next[at], ![at] = e]
          /\ prev' = [[prev EXCEPT ![e] = at] EXCEPT ![next[at]] = e]
    /\ ring' = With(h, InsertAt(ring[h], i + 1, e))
    /\ UNCHANGED arrayVars

ListRemove(h, i) ==
    /\ h \in InUse /\ i \in DOMAIN ring[h]
    /\ LET e == NodeAt(h, i)
       IN /\ next' = [[next EXCEPT ![prev[e]] = next[e]] EXCEPT ![e] = Null]
          /\ prev' = [[prev EXCEPT ![next[e]] = prev[e]] EXCEPT ![e] = Null]
    /\ ring' = With(h, RemoveAt(ring[h], i))
    /\ UNCHANGED arrayVars

\* The elements of `other` go to the front; `other` itself still points at them and is
\* not to be used before wl_list_init.
ListInsertList(h, other) ==
    /\ h \in InUse /\ other \in InUse /\ h # other
    /\ IF next[other] = other
       THEN UNCHANGED listVars
       ELSE /\ LET first == next[other]
                   last == prev[other]
               IN /\ next' = [[next EXCEPT ![last] = next[h]] EXCEPT ![h] = first]
                  /\ prev' = [[prev EXCEPT ![first] = h] EXCEPT ![next[h]] = last]
            /\ ring' = [x \in InUse \ {other} |->
                            IF x = h THEN ring[other] \o ring[h] ELSE ring[x]]
    /\ UNCHANGED arrayVars

---------------------------------------------------------------------------
(* Arrays.  An array that was released is initialised before it is used     *)
(* again.                                                                  *)

\* wl_array_release, then wl_array_init.
Release(a) ==
    /\ call = NoCall
    /\ size' = [size EXCEPT ![a] = 0]
    /\ alloc' = [alloc EXCEPT ![a] = 0]
    /\ block' = [block EXCEPT ![a] = 0]
    /\ given' = [given EXCEPT ![a] = 0]
    /\ UNCHANGED <<listVars, call>>

Larger(x, y) == IF x > y THEN x ELSE y

\* Room for `required` bytes in array a, whose callers may then write up to `end`: it is
\* there, or the loop begins.
Ask(a, required, end) ==
    IF required > alloc[a]
    THEN /\ call' = [array |-> a, required |-> required, given |-> end,
                     capacity |-> Larger(alloc[a], MinCapacity)]
         /\ UNCHANGED <<size, given>>
    ELSE /\ size' = [size EXCEPT ![a] = required]
         /\ given' = [given EXCEPT ![a] = end]
         /\ UNCHANGED call

\* Mutant: the sum is taken as it comes.
Begin_Wraps(a, n) == Ask(a, (size[a] + n) % (SizeMax + 1), size[a] + n)

\* wl_array_add up to its loop; it fails at once if the sum would wrap.
Begin(a, n) ==
    IF n > SizeMax - size[a]
    THEN UNCHANGED <<size, given, call>>
    ELSE Ask(a, size[a] + n, size[a] + n)

Add(a, n) ==
    /\ call = NoCall
    /\ Begin(a, n)
    /\ UNCHANGED <<listVars, alloc, block>>

\* Mutant: doubling wraps.
Double_Wraps ==
    /\ call # NoCall
    /\ call.capacity < call.required
    /\ call' = [call EXCEPT !.capacity = (2 * @) % (SizeMax + 1)]
    /\ UNCHANGED <<listVars, size, alloc, block, given>>

Double ==
    /\ call # NoCall
    /\ call.capacity < call.required
    /\ call' = [call EXCEPT !.capacity = IF @ > SizeMax \div 2 THEN call.required ELSE 2 * @]
    /\ UNCHANGED <<listVars, size, alloc, block, given>>

\* realloc, which may fail.
Reallocate ==
    /\ call # NoCall
    /\ call.capacity >= call.required
    /\ call' = NoCall
    /\ \/ /\ block' = [block EXCEPT ![call.array] = call.capacity]
          /\ alloc' = [alloc EXCEPT ![call.array] = call.capacity]
          /\ size' = [size EXCEPT ![call.array] = call.required]
          /\ given' = [given EXCEPT ![call.array] = call.given]
       \/ UNCHANGED <<size, alloc, block, given>>
    /\ UNCHANGED listVars

\* wl_array_copy: where the target is smaller it grows by the difference first, and its
\* size is then the source's, which is the sum; otherwise the size shrinks.
Copy(a, b) ==
    /\ call = NoCall
    /\ a # b
    /\ IF size[b] > size[a]
       THEN Begin(a, size[b] - size[a])
       ELSE /\ size' = [size EXCEPT ![a] = size[b]]
            /\ given' = [given EXCEPT ![a] = size[b]]
            /\ UNCHANGED call
    /\ UNCHANGED <<listVars, alloc, block>>

---------------------------------------------------------------------------
Next ==
    \/ \E h \in Heads : ListInit(h) \/ \E other \in Heads : ListInsertList(h, other)
    \/ \E h \in InUse : \E i \in 0 .. Len(ring[h]) :
          ListRemove(h, i) \/ \E e \in Elements : ListInsert(h, i, e)
    \/ \E a \in Arrays :
          \/ Release(a)
          \/ \E n \in Sizes : Add(a, n)
          \/ \E b \in Arrays : Copy(a, b)
    \/ Double \/ Reallocate

Spec == Init /\ [][Next]_vars

\* A function that was called comes to its end.
FairSpec == Spec /\ WF_vars(Double) /\ WF_vars(Reallocate)

---------------------------------------------------------------------------
\* Every list in use is a ring in both directions, of its head and its elements in
\* their order: what was inserted, removed or spliced moved no other element.
RingsAreLists ==
    \A h \in InUse : \A i \in 0 .. Len(ring[h]) :
        next[NodeAt(h, i)] = NodeAt(h, i + 1) /\ prev[NodeAt(h, i + 1)] = NodeAt(h, i)

\* What the callers of an array may write, and its elements, lie in the block that was
\* allocated, whatever sizes the guest asks for: no sum and no doubling wraps around,
\* and a failed call leaves the array as it was.
ArraysFit ==
    \A a \in Arrays : given[a] <= block[a] /\ size[a] <= alloc[a] /\ alloc[a] <= block[a]

\* A call that grows an array ends: the loop does not double for ever.
AddEnds == call # NoCall ~> call = NoCall
=============================================================================
