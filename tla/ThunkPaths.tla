------------------------------ MODULE ThunkPaths ------------------------------
(***************************************************************************)
(* Which of the guest's library paths FEX replaces by a thunk: how the      *)
(* build extends an entry of upstream's database, and what the image check  *)
(* demands of the result.                                                  *)
(*                                                                         *)
(* A file name is the sequence of what stands between its dots, a           *)
(* directory the sequence of what stands between its slashes; an overlay   *)
(* is a set of [dir, name].  files[d] are the names in directory d.         *)
(***************************************************************************)
EXTENDS Integers, Sequences

\* name == stem or name.startswith(stem + "."); with the slash, a path below stem.
Extends(name, stem) ==
    Len(stem) <= Len(name) /\ \A i \in 1 .. Len(stem) : name[i] = stem[i]

\* name.endswith(".so")
IsFamily(name) == Len(name) > 1 /\ name[Len(name)] = "so"

Families(names) == {n \in names : IsFamily(n)}

OfFamily(name, names) == \E f \in Families(names) : Extends(name, f)

Prefix == <<"@PREFIX_LIB@">>

Lib32 == {<<"usr", "lib32">>, <<"lib32">>}

\* The names upstream lists.
Listed(overlay) == {e.name : e \in {x \in overlay : x.dir = Prefix}}

\* Those, and the versions of them that these packages ship.
Sonames(overlay, paths, files) ==
    Listed(overlay) \cup
        {n \in UNION {files[d] : d \in paths} : OfFamily(n, Listed(overlay))}

Extended(overlay, paths, files) ==
    overlay \cup {[dir |-> d, name |-> n] : d \in paths \cup Lib32 \cup {Prefix},
                                            n \in Sonames(overlay, paths, files)}

\* What the image check looks for: in each directory something is mapped, and with a
\* family all of it that is there.
Mapped(overlay, directory) == {e.name : e \in {x \in overlay : Extends(x.dir, directory)}}

Accepted(overlay, paths, files) ==
    \A d \in paths :
        /\ Mapped(overlay, d) # {}
        /\ \A n \in files[d] :
              OfFamily(n, Mapped(overlay, d)) => [dir |-> d, name |-> n] \in overlay
=============================================================================
