------------------------------ MODULE GuestImage ------------------------------
(***************************************************************************)
(* The symbolic links of the guest's root filesystem: how assemble rewrites *)
(* those that lead into the store, and how a path is walked, part by part.  *)
(*                                                                         *)
(* A path is the sequence of its parts, from the root.  links[p] is the     *)
(* target of the link at p: a path from the root if it is absolute, else a  *)
(* path from `up` levels above the link's directory.                       *)
(***************************************************************************)
EXTENDS Integers, Sequences

Paths(Name) == Seq(Name)

Targets(Name) == [absolute : BOOLEAN, up : Nat, path : Paths(Name)]

Parent(p) == SubSeq(p, 1, Len(p) - 1)

\* target.startswith("/nix/store/")
InStore(target) ==
    target.absolute /\ Len(target.path) > 2 /\ target.path[1] = "nix" /\ target.path[2] = "store"

\* How many parts two paths may be said to have in common.
Shared(p, q) == {c \in 0 .. Len(p) : c <= Len(q) /\ \A i \in 1 .. c : p[i] = q[i]}

\* os.path.relpath: up to the last directory the two have in common, and down.
IsRelPath(target, path, directory) ==
    \E c \in Shared(directory, path) :
        /\ \A d \in Shared(directory, path) : d <= c
        /\ target = [absolute |-> FALSE, up |-> Len(directory) - c,
                     path |-> SubSeq(path, c + 1, Len(path))]

\* links is what assemble makes of the links of the closure.
Assembled(links, closure) ==
    /\ DOMAIN links = DOMAIN closure
    /\ \A p \in DOMAIN closure :
          IF InStore(closure[p]) THEN IsRelPath(links[p], closure[p].path, Parent(p))
          ELSE links[p] = closure[p]

\* One step of a walk that is in the directory `at`, where no link is left, and has
\* `parts` before it.
Step(links, walk) ==
    LET next == Append(walk.at, Head(walk.parts))
        rest == Tail(walk.parts)
    IN IF next \notin DOMAIN links THEN [at |-> next, parts |-> rest]
       ELSE IF links[next].absolute THEN [at |-> <<>>, parts |-> links[next].path \o rest]
       ELSE [at |-> SubSeq(walk.at, 1, Len(walk.at) - links[next].up),
             parts |-> links[next].path \o rest]

\* The links that a container has below `mount`, where it has these top-level directories
\* of the image: nix and run in both views of the graphics provider, nix alone at the root
\* of the interpreter's view.
Mounted(links, subdirs, mount) ==
    [p \in {mount \o q : q \in {l \in DOMAIN links : l[1] \in subdirs}} |->
        links[SubSeq(p, Len(mount) + 1, Len(p))]]
=============================================================================
