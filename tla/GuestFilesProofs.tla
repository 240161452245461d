--------------------------- MODULE GuestFilesProofs ---------------------------
(***************************************************************************)
(* What the builds of FEX and of the guest's image promise about paths,    *)
(* proved for every database, every package, every tree of links and every *)
(* mount point.                                                            *)
(***************************************************************************)
EXTENDS ThunkPaths, GuestImage, SequenceTheorems, WellFoundedInduction, TLAPS

---------------------------------------------------------------------------
(* The thunk database.                                                     *)

\* A version of a version is a version.
LEMMA ExtendsTransitive ==
    ASSUME NEW S, NEW a \in Seq(S), NEW b \in Seq(S), NEW c \in Seq(S),
           Extends(a, b), Extends(b, c)
    PROVE  Extends(a, c)
  BY DEF Extends

\* Whatever the packages ship, the database that is built passes the check of the image,
\* if upstream lists a name and has no paths of its own below the packages' directories: a
\* name that is added and ends in .so itself brings in no file that was not added with it.
THEOREM DatabaseIsAccepted ==
    ASSUME NEW Word, NEW Part, NEW overlay, NEW paths \in SUBSET Seq(Part), NEW files,
           \A e \in overlay : e.name \in Seq(Word),
           \A d \in paths : \A n \in files[d] : n \in Seq(Word),
           \E e \in overlay : e.dir = Prefix,
           \A e \in overlay : \A d \in paths : ~Extends(e.dir, d)
    PROVE  Accepted(Extended(overlay, paths, files), paths, files)
  <1> DEFINE built == Extended(overlay, paths, files)
             names == Sonames(overlay, paths, files)
  <1>1. \A n \in names : n \in Seq(Word)
    BY DEF Sonames, Listed
  <1>2. SUFFICES ASSUME NEW d \in paths
                 PROVE  /\ Mapped(built, d) # {}
                        /\ \A n \in files[d] : OfFamily(n, Mapped(built, d))
                                                 => [dir |-> d, name |-> n] \in built
    BY DEF Accepted
  <1>3. \A n \in names : [dir |-> d, name |-> n] \in built
    <2> HIDE DEF names
    <2> QED
      BY DEF Extended, names
  <1>4. Mapped(built, d) \subseteq names
    <2> SUFFICES ASSUME NEW e \in built, Extends(e.dir, d) PROVE e.name \in names
      BY DEF Mapped
    <2>1. e \notin overlay
      OBVIOUS
    <2> QED
      BY <2>1 DEF Extended
  <1>5. Mapped(built, d) # {}
    <2>1. PICK e \in overlay : e.dir = Prefix
      OBVIOUS
    <2>2. e.name \in names
      BY <2>1 DEF Sonames, Listed
    <2> DEFINE added == [dir |-> d, name |-> e.name]
    <2>3. added \in built
      BY <1>3, <2>2
    <2>4. Extends(added.dir, d)
      BY DEF Extends
    <2> HIDE DEF built, added
    <2>5. added.name \in Mapped(built, d)
      BY <2>3, <2>4 DEF Mapped
    <2> QED
      BY <2>5
  <1>6. ASSUME NEW n \in files[d], OfFamily(n, Mapped(built, d)) PROVE n \in names
    <2>1. PICK f \in names : IsFamily(f) /\ Extends(n, f)
      BY <1>4, <1>6 DEF OfFamily, Families
    <2>2. CASE f \in Listed(overlay)
      BY <2>1, <2>2 DEF Sonames, OfFamily, Families
    <2>3. CASE f \notin Listed(overlay)
      <3>1. PICK g \in Listed(overlay) : IsFamily(g) /\ Extends(f, g)
        BY <2>1, <2>3 DEF Sonames, OfFamily, Families
      <3>2. f \in Seq(Word) /\ g \in Seq(Word) /\ n \in Seq(Word)
        BY <1>1, <2>1, <3>1 DEF Sonames
      <3>3. Extends(n, g)
        BY <2>1, <3>1, <3>2, ExtendsTransitive
      <3> QED
        BY <3>1, <3>3 DEF Sonames, OfFamily, Families
    <2> QED
      BY <2>2, <2>3
  <1> QED
    BY <1>3, <1>5, <1>6

---------------------------------------------------------------------------
(* The links of the image.                                                 *)

\* What follows a mount point is found again.
LEMMA Beyond ==
    ASSUME NEW Name, NEW m \in Paths(Name), NEW p \in Paths(Name)
    PROVE  SubSeq(m \o p, Len(m) + 1, Len(m \o p)) = p
  <1> DEFINE s == SubSeq(m \o p, Len(m) + 1, Len(m \o p))
  <1>1. s \in Seq(Name) /\ Len(s) = Len(p)
    BY DEF Paths
  <1>2. \A i \in 1 .. Len(p) : s[i] = p[i]
    BY DEF Paths
  <1> QED
    BY <1>1, <1>2 DEF Paths

\* The same link is where its directory is bound.
LEMMA MountedLinks ==
    ASSUME NEW Name, NEW m \in Paths(Name), NEW dirs, NEW links, DOMAIN links \subseteq Paths(Name),
           NEW p \in Paths(Name), p[1] \in dirs
    PROVE  /\ m \o p \in DOMAIN Mounted(links, dirs, m) <=> p \in DOMAIN links
           /\ p \in DOMAIN links => Mounted(links, dirs, m)[m \o p] = links[p]
  <1>1. ASSUME m \o p \in DOMAIN Mounted(links, dirs, m) PROVE p \in DOMAIN links
    <2>1. PICK q \in DOMAIN links : m \o p = m \o q
      BY <1>1 DEF Mounted
    <2>2. p = q
      BY <2>1, Beyond
    <2> QED
      BY <2>2
  <1>2. ASSUME p \in DOMAIN links
        PROVE  /\ m \o p \in DOMAIN Mounted(links, dirs, m)
               /\ Mounted(links, dirs, m)[m \o p] = links[p]
    BY <1>2, Beyond DEF Mounted
  <1> QED
    BY <1>1, <1>2

Walks(Name) == [at : Paths(Name), parts : Paths(Name)]

\* The links of a tree of these names: the root is none of them.
IsTree(Name, links) ==
    /\ DOMAIN links \subseteq Paths(Name) \ {<<>>}
    /\ \A p \in DOMAIN links : links[p] \in Targets(Name)

\* The walk meets no link that leads out of the image: one that is absolute leads into
\* the store, and one that is relative does not climb above the root.
StaysInside(links, walk) ==
    walk.parts # <<>> /\ Append(walk.at, Head(walk.parts)) \in DOMAIN links =>
        LET target == links[Append(walk.at, Head(walk.parts))]
        IN InStore(target) \/ (~target.absolute /\ target.up <= Len(walk.at))

\* The walk's next step is into one of the top-level directories that are bound, or in it.
StaysBound(dirs, walk) ==
    walk.parts # <<>> => Append(walk.at, Head(walk.parts))[1] \in dirs

\* The walk that a container takes where directories of the image are bound below m.
Shifted(m, walk) == [at |-> m \o walk.at, parts |-> walk.parts]

\* Wherever directories of the image are bound, a walk in them goes from directory to
\* directory as it does where the image is the root, if the links it meets led into the
\* store or were relative: assemble leaves none of them absolute.
THEOREM WalksAreRelocatable ==
    ASSUME NEW Name, NEW m \in Paths(Name), NEW dirs, NEW closure, IsTree(Name, closure),
           NEW links, Assembled(links, closure),
           NEW walk \in Walks(Name), walk.parts # <<>>, StaysInside(closure, walk),
           StaysBound(dirs, walk)
    PROVE  Step(Mounted(links, dirs, m), Shifted(m, walk)) = Shifted(m, Step(links, walk))
  <1> DEFINE at == walk.at
             parts == walk.parts
             part == Head(parts)
             next == Append(at, part)
             there == Append(m \o at, part)
  <1>0. /\ at \in Paths(Name) /\ parts \in Paths(Name) /\ parts # <<>>
        /\ walk = [at |-> at, parts |-> parts]
        /\ \A p \in DOMAIN closure : p \in Paths(Name) /\ closure[p] \in Targets(Name)
        /\ next \in DOMAIN closure =>
              \/ InStore(closure[next])
              \/ ~closure[next].absolute /\ closure[next].up <= Len(at)
        /\ next[1] \in dirs
    BY DEF Walks, IsTree, StaysInside, StaysBound
  <1> HIDE DEF at, parts
  <1>1. part \in Name /\ next \in Paths(Name) /\ there = m \o next
    <2>1. part \in Name /\ m \in Seq(Name) /\ at \in Seq(Name)
      BY <1>0 DEF Paths
    <2> HIDE DEF part
    <2>2. next = at \o <<part>> /\ there = (m \o at) \o <<part>>
      BY <2>1
    <2>3. (m \o at) \o <<part>> = m \o (at \o <<part>>)
      BY <2>1, ConcatAssociative
    <2> QED
      BY <2>1, <2>2, <2>3 DEF Paths
  <1>2. DOMAIN links \subseteq Paths(Name)
    BY <1>0 DEF Assembled
  <1>3. /\ there \in DOMAIN Mounted(links, dirs, m) <=> next \in DOMAIN links
        /\ next \in DOMAIN links => Mounted(links, dirs, m)[there] = links[next]
    <2> HIDE DEF part, next, there
    <2> QED
      BY <1>0, <1>1, <1>2, MountedLinks
  <1>4. CASE next \notin DOMAIN links
    BY <1>0, <1>1, <1>3, <1>4 DEF Step, Shifted
  <1>5. CASE next \in DOMAIN links
    <2>1. ~links[next].absolute /\ links[next].up \in 0 .. Len(at)
      <3>1. next \in DOMAIN closure /\ closure[next] \in Targets(Name)
        BY <1>0, <1>5 DEF Assembled
      <3>2. CASE InStore(closure[next])
        <4>1. IsRelPath(links[next], closure[next].path, Parent(next))
          BY <3>1, <3>2 DEF Assembled
        <4>2. Len(Parent(next)) = Len(at)
          BY <1>0 DEF Parent, Paths
        <4>3. PICK c \in Shared(Parent(next), closure[next].path) :
                 links[next] = [absolute |-> FALSE, up |-> Len(Parent(next)) - c,
                                path |-> SubSeq(closure[next].path, c + 1,
                                                Len(closure[next].path))]
          BY <4>1 DEF IsRelPath
        <4>4. c \in 0 .. Len(at)
          BY <4>2 DEF Shared
        <4> QED
          BY <1>0, <4>2, <4>3, <4>4 DEF Paths
      <3>3. CASE ~InStore(closure[next])
        <4>1. links[next] = closure[next]
          BY <3>1, <3>3 DEF Assembled
        <4>2. ~closure[next].absolute /\ closure[next].up <= Len(at)
          BY <1>0, <3>1, <3>3
        <4> QED
          BY <1>0, <3>1, <4>1, <4>2 DEF Targets, Paths
      <3> QED
        BY <3>2, <3>3
    <2> DEFINE k == Len(at) - links[next].up
    <2>2. SubSeq(m \o at, 1, Len(m \o at) - links[next].up) = m \o SubSeq(at, 1, k)
      <3>1. k \in 0 .. Len(at) /\ Len(m \o at) - links[next].up = Len(m) + k
        BY <1>0, <2>1 DEF Paths
      <3> HIDE DEF k
      <3>2. SubSeq(m \o at, 1, Len(m) + k) = m \o SubSeq(at, 1, k)
        <4>1. m \in Seq(Name) /\ at \in Seq(Name) /\ Len(at) \in Nat /\ Len(m) \in Nat
          BY <1>0 DEF Paths
        <4>2. /\ Len(m \o at) = Len(m) + Len(at)
              /\ \A i \in 1 .. Len(m) + k :
                    (m \o at)[i] = (m \o SubSeq(at, 1, k))[i]
          BY <3>1, <4>1
        <4> QED
          BY <3>1, <4>1, <4>2
      <3> QED
        BY <3>1, <3>2
    <2> QED
      BY <1>0, <1>1, <1>3, <1>5, <2>1, <2>2 DEF Step, Shifted
  <1> QED
    BY <1>4, <1>5

\* A rewritten link still names what it named: where a walk stands after it, and what is
\* then before the walk, make up the old target.
THEOREM LinksKeepTheirTarget ==
    ASSUME NEW Name, NEW closure, IsTree(Name, closure), NEW links, Assembled(links, closure),
           NEW walk \in Walks(Name), walk.parts # <<>>,
           Append(walk.at, Head(walk.parts)) \in DOMAIN closure,
           InStore(closure[Append(walk.at, Head(walk.parts))])
    PROVE  LET after == Step(links, walk)
           IN after.at \o after.parts
              = closure[Append(walk.at, Head(walk.parts))].path \o Tail(walk.parts)
  <1> DEFINE at == walk.at
             parts == walk.parts
             next == Append(at, Head(parts))
             path == closure[next].path
             rest == Tail(parts)
  <1>0. /\ at \in Paths(Name) /\ parts \in Paths(Name) /\ parts # <<>>
        /\ walk = [at |-> at, parts |-> parts]
        /\ next \in DOMAIN closure /\ closure[next] \in Targets(Name) /\ InStore(closure[next])
    BY DEF Walks, IsTree
  <1> HIDE DEF at, parts
  <1>1. path \in Seq(Name) /\ rest \in Seq(Name) /\ at \in Seq(Name)
    BY <1>0 DEF Targets, Paths
  <1>2. Parent(next) = at
    BY <1>0 DEF Parent, Paths
  <1>3. PICK c \in Shared(at, path) :
           links[next] = [absolute |-> FALSE, up |-> Len(at) - c,
                          path |-> SubSeq(path, c + 1, Len(path))]
    <2>1. IsRelPath(links[next], path, Parent(next))
      BY <1>0 DEF Assembled
    <2> HIDE DEF next, path
    <2>2. IsRelPath(links[next], path, at)
      BY <1>2, <2>1
    <2> QED
      BY <2>2 DEF IsRelPath
  <1>4. c \in 0 .. Len(at) /\ c <= Len(path) /\ \A i \in 1 .. c : at[i] = path[i]
    BY <1>3 DEF Shared
  <1> HIDE DEF next, path, rest
  <1>5. SubSeq(at, 1, c) \o SubSeq(path, c + 1, Len(path)) = path
    <2>1. SubSeq(at, 1, c) = SubSeq(path, 1, c)
      BY <1>1, <1>4
    <2>2. SubSeq(path, 1, c) \o SubSeq(path, c + 1, Len(path)) = path
      <3>1. SubSeq(path, 1, c) \o SubSeq(path, c + 1, Len(path)) = SubSeq(path, 1, Len(path))
        <4>1. /\ 1 \in 1 .. Len(path) + 1 /\ c \in 1 - 1 .. Len(path)
              /\ Len(path) \in c .. Len(path)
          BY <1>1, <1>4
        <4> QED
          BY <1>1, <4>1, ConcatAdjacentSubSeq
      <3> QED
        BY <1>1, <3>1, SubSeqFull
    <2> QED
      BY <2>1, <2>2
  <1>6. Step(links, walk)
           = [at |-> SubSeq(at, 1, c), parts |-> SubSeq(path, c + 1, Len(path)) \o rest]
    <2>1. next \in DOMAIN links
      BY <1>0 DEF Assembled, next
    <2>2. Len(at) - (Len(at) - c) = c
      BY <1>1, <1>4
    <2>3. /\ ~links[next].absolute /\ links[next].up = Len(at) - c
          /\ links[next].path = SubSeq(path, c + 1, Len(path))
      <3> DEFINE level == Len(at) - c
                 down == SubSeq(path, c + 1, Len(path))
      <3> HIDE DEF level, down
      <3>1. links[next] = [absolute |-> FALSE, up |-> level, path |-> down]
        BY <1>3 DEF level, down
      <3>2. ~links[next].absolute /\ links[next].up = level /\ links[next].path = down
        BY <3>1
      <3> QED
        BY <3>2 DEF level, down
    <2>4. Step(links, walk)
             = [at |-> SubSeq(at, 1, Len(at) - links[next].up),
                parts |-> links[next].path \o rest]
      BY <1>0, <2>1, <2>3 DEF Step, next, rest
    <2> QED
      BY <2>2, <2>3, <2>4
  <1>7. SubSeq(at, 1, c) \o (SubSeq(path, c + 1, Len(path)) \o rest) = path \o rest
    <2> DEFINE x == SubSeq(at, 1, c)
               y == SubSeq(path, c + 1, Len(path))
    <2>1. x \in Seq(Name) /\ y \in Seq(Name)
      BY <1>1, <1>4
    <2> HIDE DEF x, y
    <2>2. x \o (y \o rest) = (x \o y) \o rest
      BY <1>1, <2>1
    <2> QED
      BY <1>5, <2>2 DEF x, y
  <1> QED
    <2> DEFINE after == Step(links, walk)
               x == SubSeq(at, 1, c)
               y == SubSeq(path, c + 1, Len(path)) \o rest
    <2>1. after = [at |-> x, parts |-> y] /\ x \o y = path \o rest
      BY <1>6, <1>7
    <2> HIDE DEF after, x, y
    <2>2. after.at \o after.parts = path \o rest
      BY <2>1
    <2> QED
      BY <2>2 DEF after, next, path, rest, at, parts
---------------------------------------------------------------------------
(* A whole walk.  What it visits is the least set that holds its start and, *)
(* while parts are left, the step from what it holds.                      *)

Closed(links, S) == \A walk \in S : walk.parts # <<>> => Step(links, walk) \in S

Visited(Name, links, start) ==
    {walk \in Walks(Name) : \A S \in SUBSET Walks(Name) : start \in S /\ Closed(links, S)
                                                            => walk \in S}

FromRoot(path) == [at |-> <<>>, parts |-> path]

\* The path from the root leads to p, and no link is left in p.
Resolves(Name, links, path, p) ==
    [at |-> p, parts |-> <<>>] \in Visited(Name, links, FromRoot(path))

\* No directory on the way to this one is a link.
Settled(links, at) == \A k \in 1 .. Len(at) : SubSeq(at, 1, k) \notin DOMAIN links

\* k parts of the way to `walk`, which is then the rest of the way.
Before(walk, k) ==
    [at |-> SubSeq(walk.at, 1, k), parts |-> SubSeq(walk.at, k + 1, Len(walk.at)) \o walk.parts]

\* A set of numbers up to n that holds 0 and with each number the next holds them all.
LEMMA AllUpTo ==
    ASSUME NEW n \in Nat, NEW K, 0 \in K, \A k \in 0 .. n - 1 : k \in K => k + 1 \in K
    PROVE  \A k \in 0 .. n : k \in K
  <1> DEFINE T == {k \in 0 .. n : k \notin K}
  <1> SUFFICES ASSUME T # {} PROVE FALSE
    OBVIOUS
  <1>1. PICK k \in T : \A j \in T : ~ (<<j, k>> \in OpToRel(<, Nat))
    <2>1. T \subseteq Nat
      OBVIOUS
    <2> HIDE DEF T
    <2> QED
      BY <2>1, WFMin, NatLessThanWellFounded
  <1>2. k \in 1 .. n /\ k - 1 \in 0 .. n - 1
    OBVIOUS
  <1>3. k - 1 \in T
    <2>1. (k - 1) + 1 = k
      BY <1>2
    <2>2. k - 1 \notin K
      BY <1>2, <2>1, Zenon
    <2> QED
      BY <1>2, <2>2
  <1>4. <<k - 1, k>> \in OpToRel(<, Nat)
    BY <1>2 DEF OpToRel
  <1> QED
    BY <1>1, <1>3, <1>4

\* The parts of a step are parts again.
LEMMA StepIsWalk ==
    ASSUME NEW Name, NEW links, IsTree(Name, links), NEW walk \in Walks(Name),
           walk.parts # <<>>
    PROVE  Step(links, walk) \in Walks(Name)
  <1> DEFINE next == Append(walk.at, Head(walk.parts))
             rest == Tail(walk.parts)
  <1>1. next \in Seq(Name) /\ rest \in Seq(Name) /\ walk.at \in Seq(Name)
    BY DEF Walks, Paths
  <1> HIDE DEF next, rest
  <1>2. CASE next \notin DOMAIN links
    <2>1. Step(links, walk) = [at |-> next, parts |-> rest]
      BY <1>2 DEF Step, next, rest
    <2> QED
      BY <1>1, <2>1 DEF Walks, Paths
  <1>3. CASE next \in DOMAIN links
    <2>1. links[next].path \in Seq(Name) /\ links[next].up \in Nat
      BY <1>3 DEF IsTree, Targets, Paths
    <2>2. links[next].path \o rest \in Seq(Name)
      BY <1>1, <2>1
    <2>3. CASE links[next].absolute
      <3>1. Step(links, walk) = [at |-> <<>>, parts |-> links[next].path \o rest]
        BY <1>3, <2>3 DEF Step, next, rest
      <3> QED
        BY <2>2, <3>1 DEF Walks, Paths
    <2>4. CASE ~links[next].absolute
      <3> DEFINE up == SubSeq(walk.at, 1, Len(walk.at) - links[next].up)
      <3>1. Step(links, walk) = [at |-> up, parts |-> links[next].path \o rest]
        BY <1>3, <2>4 DEF Step, next, rest
      <3>2. up \in Seq(Name)
        BY <1>1, <2>1
      <3> HIDE DEF up
      <3> QED
        BY <2>2, <3>1, <3>2 DEF Walks, Paths
    <2> QED
      BY <2>3, <2>4
  <1> QED
    BY <1>2, <1>3

\* A walk visits its start, and the step from all that it visits with parts left.
LEMMA VisitedIsClosed ==
    ASSUME NEW Name, NEW links, IsTree(Name, links), NEW start \in Walks(Name)
    PROVE  start \in Visited(Name, links, start) /\ Closed(links, Visited(Name, links, start))
  <1>1. start \in Visited(Name, links, start)
    BY DEF Visited
  <1>2. ASSUME NEW walk \in Visited(Name, links, start), walk.parts # <<>>
        PROVE  Step(links, walk) \in Visited(Name, links, start)
    <2>1. walk \in Walks(Name)
      BY DEF Visited
    <2>2. Step(links, walk) \in Walks(Name)
      BY <1>2, <2>1, StepIsWalk
    <2>3. ASSUME NEW S \in SUBSET Walks(Name), start \in S, Closed(links, S)
          PROVE  Step(links, walk) \in S
      BY <1>2, <2>3 DEF Visited, Closed
    <2> QED
      BY <2>2, <2>3 DEF Visited
  <1> QED
    BY <1>1, <1>2 DEF Closed

\* What holds of the start and goes from step to step holds of all that is visited.
LEMMA VisitedIsLeast ==
    ASSUME NEW Name, NEW links, NEW start, NEW S \in SUBSET Walks(Name),
           start \in S, Closed(links, S)
    PROVE  Visited(Name, links, start) \subseteq S
  BY DEF Visited

\* A walk in a settled directory goes on in one.
LEMMA StepSettles ==
    ASSUME NEW Name, NEW links, IsTree(Name, links), NEW walk \in Walks(Name),
           walk.parts # <<>>, Settled(links, walk.at)
    PROVE  Settled(links, Step(links, walk).at)
  <1> DEFINE at == walk.at
             part == Head(walk.parts)
             next == Append(at, part)
  <1>1. at \in Seq(Name) /\ part \in Name
    BY DEF Walks, Paths
  <1> HIDE DEF at, part
  <1>2. CASE next \notin DOMAIN links
    <2>1. Step(links, walk).at = next
      BY <1>2 DEF Step, at, part
    <2>2. ASSUME NEW k \in 1 .. Len(next) PROVE SubSeq(next, 1, k) \notin DOMAIN links
      <3>1. CASE k = Len(at) + 1
        <4>1. SubSeq(next, 1, k) = next
          BY <1>1, <3>1
        <4> QED
          BY <1>2, <4>1
      <3>2. CASE k \in 1 .. Len(at)
        <4>1. SubSeq(next, 1, k) = SubSeq(at, 1, k)
          BY <1>1, <3>2
        <4> QED
          BY <3>2, <4>1 DEF Settled, at
      <3> QED
        BY <1>1, <3>1, <3>2
    <2> QED
      BY <2>1, <2>2 DEF Settled
  <1>3. CASE next \in DOMAIN links /\ links[next].absolute
    <2>1. Step(links, walk).at = <<>>
      BY <1>3 DEF Step, at, part
    <2> QED
      BY <2>1 DEF Settled
  <1>4. CASE next \in DOMAIN links /\ ~links[next].absolute
    <2> DEFINE l == Len(at) - links[next].up
               up == SubSeq(at, 1, l)
    <2>1. Step(links, walk).at = up
      BY <1>4 DEF Step, at, part
    <2>2. links[next].up \in Nat
      BY <1>4 DEF IsTree, Targets
    <2>3. ASSUME NEW k \in 1 .. Len(up) PROVE SubSeq(up, 1, k) \notin DOMAIN links
      <3>1. l \in Int /\ l <= Len(at)
        BY <1>1, <2>2
      <3> HIDE DEF l
      <3>2. k \in 1 .. l /\ k \in 1 .. Len(at)
        BY <1>1, <3>1
      <3>3. SubSeq(up, 1, k) = SubSeq(at, 1, k)
        BY <1>1, <3>1, <3>2
      <3> QED
        BY <3>2, <3>3 DEF Settled, at
    <2> HIDE DEF up
    <2> QED
      BY <2>1, <2>3 DEF Settled
  <1> QED
    BY <1>2, <1>3, <1>4

\* The way to a settled directory meets no link.
LEMMA StraightOn ==
    ASSUME NEW Name, NEW links, NEW walk \in Walks(Name), Settled(links, walk.at),
           NEW k \in 0 .. Len(walk.at) - 1
    PROVE  /\ Before(walk, k).parts # <<>>
           /\ Step(links, Before(walk, k)) = Before(walk, k + 1)
  <1> DEFINE at == walk.at
             x == SubSeq(at, 1, k)
             y == SubSeq(at, k + 1, Len(at))
             parts == y \o walk.parts
  <1>1. at \in Seq(Name) /\ walk.parts \in Seq(Name) /\ k \in 0 .. Len(at) - 1
    BY DEF Walks, Paths
  <1> HIDE DEF at
  <1>2. /\ x \in Seq(Name) /\ y \in Seq(Name) /\ y # <<>>
        /\ Head(y) = at[k + 1] /\ Tail(y) = SubSeq(at, k + 2, Len(at))
        /\ Append(x, at[k + 1]) = SubSeq(at, 1, k + 1)
    <2>1. x \in Seq(Name) /\ Len(x) = k /\ \A i \in 1 .. k : x[i] = at[i]
      BY <1>1
    <2>2. /\ y \in Seq(Name) /\ Len(y) = Len(at) - k
          /\ \A i \in 1 .. Len(y) : y[i] = at[i + k]
      BY <1>1
    <2>3. y # <<>>
      <3> HIDE DEF x, y
      <3>1. Len(at) \in Nat
        BY <1>1
      <3>2. Len(y) # 0
        BY <1>1, <2>2, <3>1
      <3> QED
        BY <3>2
    <2>4. Head(y) = at[k + 1] /\ Tail(y) = SubSeq(at, k + 2, Len(at))
      <3>1. /\ k + 1 \in 1 .. Len(at) /\ Len(at) \in k + 1 .. Len(at)
            /\ (k + 1) + 1 = k + 2
        BY <1>1
      <3>2. /\ Head(SubSeq(at, k + 1, Len(at))) = at[k + 1]
            /\ Tail(SubSeq(at, k + 1, Len(at))) = SubSeq(at, (k + 1) + 1, Len(at))
        BY <1>1, <3>1, HeadTailOfSubSeq
      <3> QED
        BY <3>1, <3>2
    <2>5. Append(x, at[k + 1]) = SubSeq(at, 1, k + 1)
      BY <1>1, <2>1
    <2> QED
      BY <2>1, <2>2, <2>3, <2>4, <2>5
  <1> HIDE DEF x, y
  <1>3. parts # <<>> /\ Head(parts) = Head(y) /\ Tail(parts) = Tail(y) \o walk.parts
    BY <1>1, <1>2
  <1>4. Before(walk, k) = [at |-> x, parts |-> parts]
    BY DEF Before, at, x, y
  <1>5. SubSeq(at, 1, k + 1) \notin DOMAIN links
    BY <1>1 DEF Settled, at
  <1>6. Before(walk, k + 1)
           = [at |-> SubSeq(at, 1, k + 1), parts |-> SubSeq(at, k + 2, Len(at)) \o walk.parts]
    <2>1. (k + 1) + 1 = k + 2
      BY <1>1
    <2> QED
      BY <2>1 DEF Before, at
  <1> HIDE DEF parts
  <1>7. Step(links, [at |-> x, parts |-> parts])
           = [at |-> Append(x, Head(parts)), parts |-> Tail(parts)]
    BY <1>2, <1>3, <1>5 DEF Step
  <1>8. Append(x, Head(parts)) = SubSeq(at, 1, k + 1)
    BY <1>2, <1>3
  <1>9. Tail(parts) = SubSeq(at, k + 2, Len(at)) \o walk.parts
    BY <1>2, <1>3
  <1>10. Step(links, Before(walk, k)) = Before(walk, k + 1)
    BY <1>4, <1>6, <1>7, <1>8, <1>9
  <1> QED
    BY <1>3, <1>4, <1>10

\* The two ends of the way to a directory.
LEMMA BeforeEnds ==
    ASSUME NEW Name, NEW walk \in Walks(Name)
    PROVE  /\ Before(walk, 0) = FromRoot(walk.at \o walk.parts)
           /\ Before(walk, Len(walk.at)) = walk
           /\ \A k \in 0 .. Len(walk.at) : Before(walk, k) \in Walks(Name)
  <1> DEFINE at == walk.at
             parts == walk.parts
  <1>1. at \in Seq(Name) /\ parts \in Seq(Name) /\ walk = [at |-> at, parts |-> parts]
    BY DEF Walks, Paths
  <1> HIDE DEF at, parts
  <1>2. Before(walk, 0) = FromRoot(at \o parts)
    <2>1. SubSeq(at, 1, 0) = <<>> /\ SubSeq(at, 0 + 1, Len(at)) = at
      BY <1>1
    <2> QED
      BY <2>1 DEF Before, FromRoot, at, parts
  <1>3. Before(walk, Len(at)) = walk
    <2>1. /\ SubSeq(at, 1, Len(at)) = at
          /\ SubSeq(at, Len(at) + 1, Len(at)) \o parts = parts
      BY <1>1
    <2> QED
      BY <1>1, <2>1 DEF Before, at, parts
  <1>4. ASSUME NEW k \in 0 .. Len(at) PROVE Before(walk, k) \in Walks(Name)
    <2> DEFINE x == SubSeq(at, 1, k)
               y == SubSeq(at, k + 1, Len(at)) \o parts
    <2>1. x \in Seq(Name) /\ y \in Seq(Name)
      BY <1>1
    <2>2. Before(walk, k) = [at |-> x, parts |-> y]
      BY DEF Before, at, parts
    <2> HIDE DEF x, y
    <2> QED
      BY <2>1, <2>2 DEF Walks, Paths
  <1> QED
    BY <1>2, <1>3, <1>4 DEF at, parts

\* So a walk from the root gets there.
LEMMA WayDown ==
    ASSUME NEW Name, NEW links, NEW walk \in Walks(Name), Settled(links, walk.at),
           NEW S, Closed(links, S), FromRoot(walk.at \o walk.parts) \in S
    PROVE  walk \in S
  <1> DEFINE n == Len(walk.at)
             K == {k \in 0 .. n : Before(walk, k) \in S}
  <1>1. n \in Nat
    BY DEF Walks, Paths
  <1>2. 0 \in K
    BY <1>1, BeforeEnds
  <1>3. ASSUME NEW k \in 0 .. n - 1, k \in K PROVE k + 1 \in K
    <2>1. Step(links, Before(walk, k)) \in S
      BY <1>3, StraightOn DEF Closed
    <2>2. Before(walk, k + 1) \in S
      BY <2>1, StraightOn
    <2> QED
      BY <1>1, <2>2
  <1>4. n \in K
    <2> HIDE DEF n, K
    <2>1. \A k \in 0 .. n : k \in K
      BY <1>1, <1>2, <1>3, AllUpTo
    <2> QED
      BY <1>1, <2>1
  <1> QED
    BY <1>4, BeforeEnds

\* assemble leaves a tree, with links in the same places.
LEMMA AssembledIsTree ==
    ASSUME NEW Name, NEW closure, IsTree(Name, closure), NEW links, Assembled(links, closure)
    PROVE  IsTree(Name, links) /\ DOMAIN links = DOMAIN closure
  <1>1. DOMAIN links = DOMAIN closure
    BY DEF Assembled
  <1>2. ASSUME NEW p \in DOMAIN links PROVE links[p] \in Targets(Name)
    <2> DEFINE path == closure[p].path
               dir == Parent(p)
    <2>1. closure[p] \in Targets(Name) /\ path \in Seq(Name) /\ dir \in Seq(Name)
      BY <1>1 DEF IsTree, Targets, Parent, Paths
    <2>2. CASE InStore(closure[p])
      <3>1. PICK c \in Shared(dir, path) :
               links[p] = [absolute |-> FALSE, up |-> Len(dir) - c,
                           path |-> SubSeq(path, c + 1, Len(path))]
        BY <1>1, <2>2 DEF Assembled, IsRelPath
      <3>2. c \in 0 .. Len(dir)
        BY <3>1 DEF Shared
      <3> HIDE DEF path, dir
      <3>3. Len(dir) - c \in Nat /\ SubSeq(path, c + 1, Len(path)) \in Seq(Name)
        BY <2>1, <3>2
      <3> QED
        BY <3>1, <3>3 DEF Targets, Paths
    <2>3. CASE ~InStore(closure[p])
      BY <1>1, <2>1, <2>3 DEF Assembled
    <2> QED
      BY <2>2, <2>3
  <1> QED
    BY <1>1, <1>2 DEF IsTree

\* Where the closure's link is not rewritten, both walks take the same step; where it is,
\* the closure's is at the root and has before it the way to where the other one is.
LEMMA StepsOfBoth ==
    ASSUME NEW Name, NEW closure, IsTree(Name, closure), NEW links, Assembled(links, closure),
           NEW walk \in Walks(Name), walk.parts # <<>>
    PROVE  \/ Step(closure, walk) = Step(links, walk)
           \/ Step(closure, walk) = Before(Step(links, walk), 0)
  <1> DEFINE next == Append(walk.at, Head(walk.parts))
             after == Step(links, walk)
  <1>1. /\ walk.at \in Paths(Name) /\ walk.parts \in Paths(Name)
        /\ walk = [at |-> walk.at, parts |-> walk.parts]
    BY DEF Walks
  <1>2. CASE next \notin DOMAIN closure \/ ~InStore(closure[next])
    BY <1>2 DEF Step, Assembled
  <1>3. CASE next \in DOMAIN closure /\ InStore(closure[next])
    <2>1. after.at \o after.parts = closure[next].path \o Tail(walk.parts)
      BY <1>3, LinksKeepTheirTarget
    <2>2. Step(closure, walk) = FromRoot(closure[next].path \o Tail(walk.parts))
      BY <1>3 DEF Step, InStore, FromRoot
    <2>3. after \in Walks(Name)
      BY AssembledIsTree, StepIsWalk
    <2> HIDE DEF next, after
    <2>4. Before(after, 0) = FromRoot(after.at \o after.parts)
      BY <2>3, BeforeEnds
    <2>5. Step(closure, walk) = Before(after, 0)
      BY <2>1, <2>2, <2>4
    <2> QED
      BY <2>5 DEF after
  <1> QED
    BY <1>2, <1>3

\* A walk through the rewritten links visits nothing that the closure's own does not visit,
\* and stays where no link is left.
LEMMA AssembledVisitsNoMore ==
    ASSUME NEW Name, NEW closure, IsTree(Name, closure), NEW links, Assembled(links, closure),
           NEW start \in Walks(Name), Settled(closure, start.at)
    PROVE  \A walk \in Visited(Name, links, start) :
              walk \in Visited(Name, closure, start) /\ Settled(closure, walk.at)
  <1> DEFINE V == Visited(Name, closure, start)
             R == {walk \in V : Settled(closure, walk.at)}
  <1>1. start \in V /\ Closed(closure, V) /\ V \subseteq Walks(Name)
    BY VisitedIsClosed DEF Visited
  <1> HIDE DEF V
  <1>2. IsTree(Name, links) /\ DOMAIN links = DOMAIN closure
    BY AssembledIsTree
  <1>3. ASSUME NEW walk \in R, walk.parts # <<>> PROVE Step(links, walk) \in R
    <2> DEFINE after == Step(links, walk)
    <2>1. walk \in V /\ walk \in Walks(Name) /\ Settled(closure, walk.at)
      BY <1>1
    <2>2. after \in Walks(Name)
      BY <1>2, <1>3, <2>1, StepIsWalk
    <2>3. Settled(closure, after.at)
      <3>1. Settled(links, walk.at)
        BY <1>2, <2>1 DEF Settled
      <3>2. Settled(links, after.at)
        BY <1>2, <1>3, <2>1, <3>1, StepSettles
      <3> QED
        BY <1>2, <3>2 DEF Settled
    <2>4. Step(closure, walk) \in V
      BY <1>1, <1>3, <2>1 DEF Closed
    <2>5. Step(closure, walk) = after \/ Step(closure, walk) = Before(after, 0)
      BY <1>3, <2>1, StepsOfBoth
    <2> HIDE DEF after
    <2>6. ASSUME Before(after, 0) \in V PROVE after \in V
      <3>1. FromRoot(after.at \o after.parts) \in V
        BY <2>2, <2>6, BeforeEnds
      <3> QED
        BY <1>1, <2>2, <2>3, <3>1, WayDown
    <2>7. after \in R
      BY <2>3, <2>4, <2>5, <2>6
    <2> QED
      BY <2>7 DEF after
  <1>4. start \in R /\ R \subseteq Walks(Name)
    BY <1>1
  <1>5. Closed(links, R)
    <2> HIDE DEF R
    <2> QED
      BY <1>3 DEF Closed
  <1>6. Visited(Name, links, start) \subseteq R
    <2> HIDE DEF R
    <2> QED
      BY <1>4, <1>5, VisitedIsLeast
  <1> QED
    BY <1>6 DEF V

\* And what the closure's walk visits is on the way to something that the other visits.
LEMMA ClosureVisitsTheWays ==
    ASSUME NEW Name, NEW closure, IsTree(Name, closure), NEW links, Assembled(links, closure),
           NEW start \in Walks(Name), Settled(closure, start.at)
    PROVE  \A walk \in Visited(Name, closure, start) :
              \E goal \in Visited(Name, links, start) :
                 \E k \in 0 .. Len(goal.at) : walk = Before(goal, k)
  <1> DEFINE V == Visited(Name, links, start)
             R == {walk \in Walks(Name) :
                      \E goal \in V : \E k \in 0 .. Len(goal.at) : walk = Before(goal, k)}
  <1>1. IsTree(Name, links) /\ DOMAIN links = DOMAIN closure
    BY AssembledIsTree
  <1>2. start \in V /\ Closed(links, V) /\ V \subseteq Walks(Name)
    BY <1>1, VisitedIsClosed DEF Visited
  <1>3. \A walk \in V : Settled(closure, walk.at)
    BY AssembledVisitsNoMore
  <1> HIDE DEF V
  <1>4. ASSUME NEW goal \in V, NEW k \in 0 .. Len(goal.at) PROVE Before(goal, k) \in R
    BY <1>2, <1>4, BeforeEnds
  <1>5. ASSUME NEW goal \in V
        PROVE  Len(goal.at) \in Nat /\ 0 \in 0 .. Len(goal.at)
               /\ Len(goal.at) \in 0 .. Len(goal.at) /\ Before(goal, Len(goal.at)) = goal
    <2>1. Len(goal.at) \in Nat
      BY <1>2 DEF Walks, Paths
    <2> QED
      BY <1>2, <2>1, BeforeEnds
  <1>6. ASSUME NEW goal \in V PROVE goal \in R
    BY <1>4, <1>5
  <1>7. ASSUME NEW walk \in R, walk.parts # <<>> PROVE Step(closure, walk) \in R
    <2>1. PICK goal \in V : \E k \in 0 .. Len(goal.at) : walk = Before(goal, k)
      OBVIOUS
    <2>2. PICK k \in 0 .. Len(goal.at) : walk = Before(goal, k)
      BY <2>1
    <2> HIDE DEF R
    <2>3. CASE k \in 0 .. Len(goal.at) - 1
      <3>1. Step(closure, walk) = Before(goal, k + 1)
        BY <1>2, <1>3, <2>2, <2>3, StraightOn
      <3>2. k + 1 \in 0 .. Len(goal.at)
        BY <1>5, <2>3
      <3> QED
        BY <1>4, <3>1, <3>2
    <2>4. CASE k = Len(goal.at)
      <3>1. walk = goal /\ walk \in V /\ walk \in Walks(Name)
        BY <1>2, <1>5, <2>2, <2>4
      <3>2. Step(links, walk) \in V
        BY <1>2, <1>7, <3>1 DEF Closed
      <3>3. Before(Step(links, walk), 0) \in R /\ Step(links, walk) \in R
        BY <1>4, <1>5, <1>6, <3>2
      <3> QED
        BY <1>7, <3>1, <3>3, StepsOfBoth
    <2> QED
      BY <1>5, <2>3, <2>4
  <1>8. start \in R /\ R \subseteq Walks(Name)
    BY <1>2, <1>6
  <1>9. Closed(closure, R)
    <2> HIDE DEF R
    <2> QED
      BY <1>7 DEF Closed
  <1>10. Visited(Name, closure, start) \subseteq R
    <2> HIDE DEF R
    <2> QED
      BY <1>8, <1>9, VisitedIsLeast
  <1> QED
    BY <1>10 DEF V

\* The way to a walk ends when the walk has.
LEMMA EndOfTheWay ==
    ASSUME NEW Name, NEW walk \in Walks(Name), NEW k \in 0 .. Len(walk.at),
           Before(walk, k).parts = <<>>
    PROVE  Before(walk, k) = walk
  <1> DEFINE at == walk.at
             parts == walk.parts
             y == SubSeq(at, k + 1, Len(at))
  <1>1. at \in Seq(Name) /\ parts \in Seq(Name) /\ k \in 0 .. Len(at)
    BY DEF Walks, Paths
  <1>2. y \o parts = <<>>
    BY DEF Before
  <1> HIDE DEF at, parts
  <1>3. y \in Seq(Name) /\ Len(y) = Len(at) - k
    BY <1>1
  <1> HIDE DEF y
  <1>4. Len(y) = 0
    <2>1. Len(y \o parts) = Len(y) + Len(parts) /\ Len(y) \in Nat /\ Len(parts) \in Nat
      BY <1>1, <1>3
    <2> QED
      BY <1>2, <2>1
  <1>5. k = Len(at)
    BY <1>1, <1>3, <1>4
  <1> QED
    BY <1>5, BeforeEnds DEF at

\* Rewriting the links of the closure changes where no path leads: a path of the image ends
\* where it ended in the closure, and is lost or goes in circles where it did so there.
THEOREM AssemblyKeepsPaths ==
    ASSUME NEW Name, NEW closure, IsTree(Name, closure), NEW links, Assembled(links, closure),
           NEW path \in Paths(Name), NEW p \in Paths(Name)
    PROVE  Resolves(Name, links, path, p) <=> Resolves(Name, closure, path, p)
  <1> DEFINE start == FromRoot(path)
             end == [at |-> p, parts |-> <<>>]
  <1>1. start \in Walks(Name) /\ Settled(closure, start.at)
    BY DEF FromRoot, Walks, Paths, Settled
  <1>2. ASSUME end \in Visited(Name, links, start) PROVE end \in Visited(Name, closure, start)
    <2> HIDE DEF start, end
    <2> QED
      BY <1>1, <1>2, AssembledVisitsNoMore
  <1>3. ASSUME end \in Visited(Name, closure, start) PROVE end \in Visited(Name, links, start)
    <2>1. end.parts = <<>>
      OBVIOUS
    <2> HIDE DEF start, end
    <2>2. PICK goal \in Visited(Name, links, start) :
             \E k \in 0 .. Len(goal.at) : end = Before(goal, k)
      BY <1>1, <1>3, ClosureVisitsTheWays
    <2>3. PICK k \in 0 .. Len(goal.at) : end = Before(goal, k)
      BY <2>2
    <2>4. goal \in Walks(Name)
      BY DEF Visited
    <2>5. end = goal
      BY <2>1, <2>3, <2>4, EndOfTheWay
    <2> QED
      BY <2>5
  <1> QED
    BY <1>2, <1>3 DEF Resolves

\* The image's links are a tree where it is bound, with none on the way to it.
LEMMA MountedIsTree ==
    ASSUME NEW Name, NEW m \in Paths(Name), NEW dirs, NEW links, IsTree(Name, links)
    PROVE  IsTree(Name, Mounted(links, dirs, m)) /\ Settled(Mounted(links, dirs, m), m)
  <1>1. m \in Seq(Name) /\ DOMAIN links \subseteq Paths(Name)
        /\ \A q \in DOMAIN links : q \in Seq(Name) /\ q # <<>>
    BY DEF IsTree, Paths
  <1>2. ASSUME NEW q \in DOMAIN links
        PROVE  m \o q \in Seq(Name) /\ Len(m \o q) > Len(m)
    <2>1. Len(m \o q) = Len(m) + Len(q) /\ Len(m) \in Nat /\ Len(q) \in Nat
      BY <1>1
    <2>2. Len(q) # 0
      BY <1>1
    <2> QED
      BY <1>1, <2>1, <2>2
  <1>3. DOMAIN Mounted(links, dirs, m) = {m \o q : q \in {l \in DOMAIN links : l[1] \in dirs}}
    BY DEF Mounted
  <1>4. ASSUME NEW p \in DOMAIN Mounted(links, dirs, m)
        PROVE  /\ p \in Paths(Name) \ {<<>>} /\ Len(p) > Len(m)
               /\ Mounted(links, dirs, m)[p] \in Targets(Name)
    <2>1. PICK q \in DOMAIN links : p = m \o q /\ q[1] \in dirs
      BY <1>3
    <2>2. Mounted(links, dirs, m)[p] = links[q]
      BY <1>1, <2>1, MountedLinks
    <2>3. p \in Seq(Name) /\ Len(p) > Len(m) /\ Len(m) \in Nat
      BY <1>1, <1>2, <2>1
    <2> QED
      BY <2>2, <2>3 DEF IsTree, Paths
  <1>5. ASSUME NEW k \in 1 .. Len(m) PROVE SubSeq(m, 1, k) \notin DOMAIN Mounted(links, dirs, m)
    <2> DEFINE q == SubSeq(m, 1, k)
    <2>1. Len(q) \in Int /\ Len(m) \in Int /\ Len(q) <= Len(m)
      BY <1>1
    <2> HIDE DEF q
    <2>2. ASSUME q \in DOMAIN Mounted(links, dirs, m) PROVE FALSE
      <3>1. Len(q) > Len(m)
        BY <1>4, <2>2
      <3> QED
        BY <2>1, <3>1
    <2> QED
      BY <2>2 DEF q
  <1> QED
    BY <1>4, <1>5 DEF IsTree, Settled

\* Below a mount point the walk visits what it visits in the image, shifted, and no more, if
\* that is within what is bound.
LEMMA ShiftedVisits ==
    ASSUME NEW Name, NEW m \in Paths(Name), NEW dirs, NEW closure, IsTree(Name, closure),
           NEW links, Assembled(links, closure), NEW start \in Walks(Name),
           \A walk \in Visited(Name, links, start) :
              StaysInside(closure, walk) /\ StaysBound(dirs, walk)
    PROVE  Visited(Name, Mounted(links, dirs, m), Shifted(m, start))
           = {Shifted(m, walk) : walk \in Visited(Name, links, start)}
  <1> DEFINE V == Visited(Name, links, start)
             M == Mounted(links, dirs, m)
             W == Visited(Name, M, Shifted(m, start))
             R == {Shifted(m, walk) : walk \in V}
             Q == {walk \in V : Shifted(m, walk) \in W}
  <1>1. IsTree(Name, links) /\ IsTree(Name, M)
    BY AssembledIsTree, MountedIsTree
  <1>2. start \in V /\ Closed(links, V) /\ V \subseteq Walks(Name)
    BY <1>1, VisitedIsClosed DEF Visited
  <1>3. ASSUME NEW walk \in Walks(Name) PROVE Shifted(m, walk) \in Walks(Name)
    <2>1. walk.at \in Seq(Name) /\ walk.parts \in Seq(Name) /\ m \in Seq(Name)
      BY DEF Walks, Paths
    <2>2. m \o walk.at \in Seq(Name)
      BY <2>1
    <2> QED
      BY <2>1, <2>2 DEF Shifted, Walks, Paths
  <1>4. Shifted(m, start) \in W /\ Closed(M, W)
    <2> HIDE DEF M
    <2> QED
      BY <1>1, <1>3, VisitedIsClosed
  <1>5. ASSUME NEW walk \in V, walk.parts # <<>>
        PROVE  Step(links, walk) \in V /\ Step(M, Shifted(m, walk)) = Shifted(m, Step(links, walk))
    BY <1>2, <1>5, WalksAreRelocatable DEF Closed
  <1> HIDE DEF V, M, W
  <1>6. W \subseteq R
    <2>1. ASSUME NEW x \in R, x.parts # <<>> PROVE Step(M, x) \in R
      <3>1. PICK walk \in V : x = Shifted(m, walk)
        OBVIOUS
      <3>2. walk.parts # <<>>
        BY <2>1, <3>1 DEF Shifted
      <3> QED
        BY <1>5, <3>1, <3>2
    <2>2. Shifted(m, start) \in R /\ R \subseteq Walks(Name)
      BY <1>2, <1>3
    <2> HIDE DEF R
    <2>3. Closed(M, R)
      BY <2>1 DEF Closed
    <2> QED
      BY <2>2, <2>3, VisitedIsLeast DEF W
  <1>7. V \subseteq Q
    <2>1. ASSUME NEW walk \in Q, walk.parts # <<>> PROVE Step(links, walk) \in Q
      <3>1. Shifted(m, walk).parts # <<>>
        BY <2>1 DEF Shifted
      <3>2. Step(M, Shifted(m, walk)) \in W
        BY <1>4, <3>1 DEF Closed
      <3> QED
        BY <1>5, <2>1, <3>2
    <2>2. start \in Q /\ Q \subseteq Walks(Name)
      BY <1>2, <1>4
    <2> HIDE DEF Q
    <2>3. Closed(links, Q)
      BY <2>1 DEF Closed
    <2> QED
      BY <2>2, <2>3, VisitedIsLeast DEF V
  <1> QED
    BY <1>6, <1>7 DEF V, M, W

\* A path through a settled directory resolves as the walk does that starts there.
LEMMA FromSettled ==
    ASSUME NEW Name, NEW links, IsTree(Name, links), NEW start \in Walks(Name),
           Settled(links, start.at), NEW q \in Paths(Name)
    PROVE  Resolves(Name, links, start.at \o start.parts, q)
           <=> [at |-> q, parts |-> <<>>] \in Visited(Name, links, start)
  <1> DEFINE root == FromRoot(start.at \o start.parts)
             end == [at |-> q, parts |-> <<>>]
             V == Visited(Name, links, root)
             W == Visited(Name, links, start)
             n == Len(start.at)
             R == {walk \in Walks(Name) :
                      walk \in W \/ \E k \in 0 .. n : walk = Before(start, k)}
  <1>1. n \in Nat /\ root = Before(start, 0) /\ Before(start, n) = start
        /\ \A k \in 0 .. n : Before(start, k) \in Walks(Name)
    <2>1. n \in Nat
      BY DEF Walks, Paths
    <2> QED
      BY <2>1, BeforeEnds
  <1>2. root \in Walks(Name)
    BY <1>1
  <1> HIDE DEF root
  <1>3. root \in V /\ Closed(links, V) /\ V \subseteq Walks(Name)
    BY <1>2, VisitedIsClosed DEF Visited
  <1>4. start \in W /\ Closed(links, W) /\ W \subseteq Walks(Name)
    BY VisitedIsClosed DEF Visited
  <1> HIDE DEF V, W
  <1>5. start \in V
    BY <1>3, WayDown DEF root
  <1>6. W \subseteq V
    BY <1>3, <1>5, VisitedIsLeast DEF W
  <1>7. V \subseteq R
    <2>1. root \in R /\ R \subseteq Walks(Name)
      BY <1>1
    <2>2. ASSUME NEW walk \in R, walk.parts # <<>> PROVE Step(links, walk) \in R
      <3>1. CASE walk \in W
        BY <1>4, <2>2, <3>1 DEF Closed
      <3>2. CASE \E k \in 0 .. n : walk = Before(start, k)
        <4>1. PICK k \in 0 .. n : walk = Before(start, k)
          BY <3>2
        <4>2. CASE k = n
          <5>1. walk \in W
            BY <1>1, <1>4, <4>1, <4>2
          <5> QED
            BY <1>4, <2>2, <5>1 DEF Closed
        <4>3. CASE k \in 0 .. n - 1
          <5>1. Step(links, walk) = Before(start, k + 1)
            BY <4>1, <4>3, StraightOn
          <5>2. k + 1 \in 0 .. n
            BY <1>1, <4>3
          <5> QED
            BY <1>1, <5>1, <5>2
        <4> QED
          BY <1>1, <4>2, <4>3
      <3> QED
        BY <3>1, <3>2
    <2> HIDE DEF R
    <2>3. Closed(links, R)
      BY <2>2 DEF Closed
    <2> QED
      BY <2>1, <2>3, VisitedIsLeast DEF V
  <1>8. ASSUME end \in V PROVE end \in W
    <2>1. end.parts = <<>>
      OBVIOUS
    <2>2. end \in W \/ \E k \in 0 .. n : end = Before(start, k)
      BY <1>7, <1>8
    <2> HIDE DEF end
    <2>3. ASSUME NEW k \in 0 .. n, end = Before(start, k) PROVE end = start
      BY <2>1, <2>3, EndOfTheWay
    <2> QED
      BY <1>4, <2>2, <2>3
  <1> QED
    BY <1>6, <1>8 DEF Resolves, V, W, root

\* What assemble is for: below wherever the wrapper binds directories of the image, a path
\* of the closure leads to what it led to in the closure, and it never leads anywhere else;
\* if its way through the closure stays in the directories that are bound, and the links on
\* it led into the store or were relative ones that stay in the tree.
THEOREM ImageIsRelocatable ==
    ASSUME NEW Name, NEW closure, IsTree(Name, closure), NEW links, Assembled(links, closure),
           NEW m \in Paths(Name), NEW dirs, NEW path \in Paths(Name), NEW q \in Paths(Name),
           \A walk \in Visited(Name, closure, FromRoot(path)) :
              StaysInside(closure, walk) /\ StaysBound(dirs, walk)
    PROVE  Resolves(Name, Mounted(links, dirs, m), m \o path, q)
           <=> \E p \in Paths(Name) : q = m \o p /\ Resolves(Name, closure, path, p)
  <1> DEFINE start == FromRoot(path)
             V == Visited(Name, links, start)
             M == Mounted(links, dirs, m)
             end == [at |-> q, parts |-> <<>>]
  <1>1. start \in Walks(Name) /\ Settled(closure, start.at)
        /\ start.at = <<>> /\ start.parts = path
    BY DEF FromRoot, Walks, Paths, Settled
  <1>2. Shifted(m, start) \in Walks(Name) /\ Shifted(m, start).at = m
        /\ Shifted(m, start).parts = path
    <2>1. m \o <<>> = m
      BY DEF Paths
    <2>2. Shifted(m, start) = [at |-> m, parts |-> path]
      BY <1>1, <2>1 DEF Shifted
    <2> QED
      BY <2>2 DEF Walks
  <1> HIDE DEF start
  <1>3. \A walk \in V : StaysInside(closure, walk) /\ StaysBound(dirs, walk)
    BY <1>1, AssembledVisitsNoMore DEF start
  <1>4. Visited(Name, M, Shifted(m, start)) = {Shifted(m, walk) : walk \in V}
    BY <1>1, <1>3, ShiftedVisits
  <1>5. IsTree(Name, M) /\ Settled(M, m)
    BY AssembledIsTree, MountedIsTree
  <1>6. Resolves(Name, M, m \o path, q) <=> end \in Visited(Name, M, Shifted(m, start))
    <2> HIDE DEF M
    <2>1. Resolves(Name, M, Shifted(m, start).at \o Shifted(m, start).parts, q)
          <=> end \in Visited(Name, M, Shifted(m, start))
      BY <1>2, <1>5, FromSettled
    <2> QED
      BY <1>2, <2>1
  <1>7. ASSUME NEW walk \in V
        PROVE  walk.at \in Paths(Name) /\ walk = [at |-> walk.at, parts |-> walk.parts]
    BY DEF Visited, Walks
  <1>8. ASSUME NEW walk \in V, end = Shifted(m, walk)
        PROVE  \E p \in Paths(Name) : q = m \o p /\ Resolves(Name, closure, path, p)
    <2>1. q = m \o walk.at /\ walk.parts = <<>>
      BY <1>8 DEF Shifted
    <2>2. Resolves(Name, links, path, walk.at)
      BY <1>7, <1>8, <2>1 DEF Resolves, start
    <2> QED
      BY <1>7, <2>1, <2>2, AssemblyKeepsPaths
  <1>9. ASSUME NEW p \in Paths(Name), q = m \o p, Resolves(Name, closure, path, p)
        PROVE  end \in {Shifted(m, walk) : walk \in V}
    <2>1. Resolves(Name, links, path, p)
      BY <1>9, AssemblyKeepsPaths
    <2>2. [at |-> p, parts |-> <<>>] \in V
      BY <2>1 DEF Resolves, start
    <2>3. Shifted(m, [at |-> p, parts |-> <<>>]) = end
      BY <1>9 DEF Shifted
    <2> QED
      BY <2>2, <2>3
  <1> QED
    BY <1>4, <1>6, <1>8, <1>9
=============================================================================
