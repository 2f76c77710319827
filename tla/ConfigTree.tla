----------------------------- MODULE ConfigTree -----------------------------
(* utils::config::tree: a tree of typed values addressed by dotted keys.  A  *)
(* tree is the function from the keys of its nodes (sequences of names; the  *)
(* root is <<>>) to [type, value].  Inner nodes are static or dynamic: under *)
(* a dynamic one, setting a key creates it.                                  *)
EXTENDS Naturals, Sequences, FiniteSets, SequencesExt

CONSTANTS
  NotSet,    \* the value of inner nodes and of leaves nobody set
  Accepted,  \* Accepted[type]: the texts that a leaf of a native type parses
  Words,     \* Words[text]: the text of a set, split at blanks
  Users      \* Users[name]: the UID of a user, as a text

Inner == {"static", "dynamic"}
node(type) == [type |-> type, value |-> NotSet]
EmptyTree == [key \in {<<>>} |-> node("static")]

ValidKey(key) == key # <<>> /\ \A i \in DOMAIN key : key[i] # ""

Prefix(key, n) == SubSeq(key, 1, n)
Ancestors(key) == {Prefix(key, n) : n \in 0..(Len(key) - 1)}
Deepest(t, key) ==
  CHOOSE n \in 0..Len(key) :
    /\ Prefix(key, n) \in DOMAIN t
    /\ \A k \in (n + 1)..Len(key) : Prefix(key, k) \notin DOMAIN t

(* set_string() of native leaves, of sets and of users, who go by their name *)
(* or their UID: whether the text is accepted, and the value it stands for.  *)
native_accepts(type, text) == type \in DOMAIN Accepted => text \in Accepted[type]
set_words(text) == ToSet(Words[text]) \ {""}
find_user_by_name(name) == {u \in DOMAIN Users : u = name}
find_user_by_uid(uid) == {u \in DOMAIN Users : Users[u] = uid}
find_user(text) ==
  IF find_user_by_name(text) # {} THEN find_user_by_name(text) ELSE find_user_by_uid(text)

Accepts(type, text) == IF type = "user" THEN find_user(text) # {} ELSE native_accepts(type, text)
Parsed(type, text) ==
  CASE type = "strings_set" -> set_words(text)
    [] type = "user" -> CHOOSE u \in find_user(text) : TRUE
    [] OTHER -> text

(* A leaf may be addressed as its own type or as a base class of it.         *)
is_a(type, leaf) == type = leaf \/ (type = "positive_int" /\ leaf = "int")
-----------------------------------------------------------------------------
(* A tree with a new node, below inner nodes of a kind.                      *)
WithNode(t, key, type, inner) ==
  [k \in DOMAIN t \cup Ancestors(key) \cup {key} |->
     IF k = key THEN node(type) ELSE IF k \in DOMAIN t THEN t[k] ELSE node(inner)]

define(t, key, type) == WithNode(t, key, type, "static")
define_dynamic(t, key) == define(t, key, "dynamic")

(* lookup_ro(): a key that goes through a leaf is unknown too.               *)
lookup_ro(t, key) == key \in DOMAIN t

is_set(t, key) == lookup_ro(t, key) /\ t[key].value # NotSet

(* lookup(): of a leaf that is set and has the type; else NotSet is returned *)
(* for unknown_key_error.                                                    *)
lookup(t, key, type) == IF is_set(t, key) /\ is_a(t[key].type, type) THEN t[key].value ELSE NotSet

(* Defect: the inner nodes on the way are not created.                       *)
lookup_rwShallow(t, key, type) ==
  LET n == Deepest(t, key)
      at == t[Prefix(key, n)]
  IN CASE n = Len(key) -> [error |-> IF at.type \in Inner THEN "type" ELSE "", tree |-> t]
       [] n = Len(key) - 1 /\ at.type = "dynamic" ->
            [error |-> "", tree |-> [k \in DOMAIN t \cup {key} |-> IF k = key THEN node(type) ELSE t[k]]]
       [] OTHER -> [error |-> "unknown", tree |-> t]

(* The node to write to, which may have to be created under a dynamic one.   *)
lookup_rw(t, key, type) ==
  LET n == Deepest(t, key)
      at == t[Prefix(key, n)]
  IN CASE n = Len(key) -> [error |-> IF at.type \in Inner THEN "type" ELSE "", tree |-> t]
       [] n < Len(key) /\ at.type = "dynamic" ->
            [error |-> "", tree |-> WithNode(t, key, type, "dynamic")]
       [] OTHER -> [error |-> "unknown", tree |-> t]

(* A tree that is not strict ignores what is set under unknown keys.        *)
unknown(t, strict) == [error |-> IF strict THEN "unknown" ELSE "", tree |-> t]

(* set_string(): a node created for the purpose holds a string; it stays,    *)
(* without a value, if the text is refused.                                  *)
tree_set_string(t, strict, key, text) ==
  IF ~ValidKey(key) THEN [error |-> "key", tree |-> t]
  ELSE LET r == lookup_rw(t, key, "string")
       IN CASE r.error = "unknown" -> unknown(t, strict)
            [] r.error = "type" -> r
            [] OTHER ->
                 IF Accepts(r.tree[key].type, text)
                 THEN [error |-> "", tree |-> [r.tree EXCEPT ![key].value = Parsed(r.tree[key].type, text)]]
                 ELSE [error |-> "value", tree |-> r.tree]

(* set(): of a value that has the type already.                              *)
tree_set(t, strict, key, type, value) ==
  LET r == lookup_rw(t, key, type)
  IN IF ~ValidKey(key) THEN [error |-> "key", tree |-> t]
     ELSE IF r.error = "unknown" THEN unknown(t, strict)
     ELSE IF r.error = "type" \/ ~is_a(r.tree[key].type, type) THEN [error |-> "type", tree |-> r.tree]
     ELSE [error |-> "", tree |-> [r.tree EXCEPT ![key].value = value]]

(* set_lua() of each type of leaf, given a Lua value [kind, text]: the text  *)
(* it stores, or Refused; a set aborts on what is not a string.              *)
Refused == "<refused>"
Abort == "<abort>"
IsString(v) == v.kind \in {"string", "number"}
set_lua_node(type, v) ==
  LET kinds == CASE type = "bool" -> {"boolean"}
                 [] type \in {"int", "positive_int"} -> {"number"}
                 [] OTHER -> {"string", "number"}
  IN CASE type = "strings_set" /\ ~IsString(v) -> Abort
       [] v.kind \in kinds /\ Accepts(type, v.text) -> v.text
       [] OTHER -> Refused

set_lua(t, strict, key, v) ==
  IF ~ValidKey(key) THEN [error |-> "key", tree |-> t]
  ELSE LET r == lookup_rw(t, key, "string")
           stored == set_lua_node(r.tree[key].type, v)
       IN IF r.error = "unknown" THEN unknown(t, strict)
          ELSE IF r.error = "type" THEN r
          ELSE IF stored = Abort THEN [error |-> "abort", tree |-> r.tree]
          ELSE IF stored = Refused THEN [error |-> "value", tree |-> r.tree]
          ELSE   [error |-> "",
                  tree |-> [r.tree EXCEPT ![key].value = Parsed(r.tree[key].type, stored)]]

(* Every leaf that is set below an inner node.                               *)
inner_properties(t, key) ==
  [k \in {k \in DOMAIN t : IsPrefix(key, k) /\ t[k].value # NotSet} |-> t[k].value]

Stripped(props, n) ==
  [k \in {SubSeq(k, n + 1, Len(k)) : k \in DOMAIN props} |->
     props[CHOOSE p \in DOMAIN props : SubSeq(p, n + 1, Len(p)) = k]]

(* The properties below a key, which is stripped on request; a leaf has none *)
(* to export.                                                                *)
all_properties(t, key, strip_key) ==
  IF ~lookup_ro(t, key) THEN [error |-> "unknown", props |-> <<>>]
  ELSE IF t[key].type \notin Inner THEN [error |-> "value", props |-> <<>>]
  ELSE LET props == inner_properties(t, key)
       IN [error |-> "", props |-> IF strip_key THEN Stripped(props, Len(key)) ELSE props]
=============================================================================
