-------------------------------- MODULE Paths --------------------------------
(* utils::fs::path: a path is the sequence of its components; an absolute    *)
(* one starts with Root and a "." is kept only when it comes first.          *)
EXTENDS Naturals, FiniteSets, Sequences, SequencesExt

Root == "/"
Here == <<".">>

Substantial(components) == SelectSeq(components, LAMBDA c : c \notin {"", "."})

(* The constructor, given what lies between the slashes of its text.         *)
normalize(components) ==
  (IF Head(components) = "" THEN <<Root>> ELSE <<Head(components)>>)
  \o Substantial(Tail(components))

is_absolute(p) == p[1] = Root

branch_path(p) == IF Len(p) = 1 THEN IF is_absolute(p) THEN p ELSE Here ELSE Front(p)

leaf_name(p) == Last(p)

(* operator/(): only a relative path can be appended.                        *)
Join(p, rest) == p \o Substantial(rest)

(* branch_path() is followed until "." or "/", which are not compared.       *)
is_parent_of(p, q) == p = q \/ (IsPrefix(p, q) /\ p \notin {Here, <<Root>>})

ncomponents(p) == Len(p)
=============================================================================
