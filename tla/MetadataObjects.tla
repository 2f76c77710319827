--------------------------- MODULE MetadataObjects ---------------------------
(* The objects behind model::metadata and metadata_builder: a metadata holds *)
(* a reference to a tree of properties and a builder writes through one.     *)
(* Copies of a config::tree share their nodes, so build() leaves builder and *)
(* metadata with the same tree; only deep_copy() and combine() make new ones.*)
(* Nothing stops a setter after build(), which then writes what the metadata *)
(* reads: those who build (kyuafile.cpp, atf_list.cpp, read_transaction.cpp) *)
(* drop the builder.                                                         *)
EXTENDS Metadata

CONSTANTS
  Values,      \* what the callers set: [prop, value]
  Elements,    \* what the callers add to sets: [prop, value]
  MaxTrees,    \* bound: trees allocated
  MaxSetters   \* bound: calls of setters

VARIABLES
  heap,        \* the trees, as the functions of the properties that are set
  defaults,    \* the tree of get_defaults(), 0 until it is first called
  builders,    \* the builders: [tree, built]
  metas,       \* the metadata objects: their trees
  makers,      \* history: the builder each was built by, 0 for apply_overrides()
  setters      \* history: the builders whose setters were called

objects == <<heap, defaults, builders, metas, makers, setters>>

InitObjects ==
  heap = <<>> /\ defaults = 0 /\ builders = <<>> /\ metas = <<>> /\ makers = <<>> /\ setters = <<>>

Room == Len(heap) < MaxTrees
Open == {b \in DOMAIN builders : ~builders[b].built}
NewTree == Len(heap) + 1
builder(tree) == [tree |-> tree, built |-> FALSE]

NewBuilder ==
  /\ Room
  /\ heap' = Append(heap, Unset)
  /\ builders' = Append(builders, builder(NewTree))
  /\ UNCHANGED <<defaults, metas, makers, setters>>

(* Defect: the new builder writes to the tree of the metadata it starts from.*)
deep_copyShallow(tree) == <<heap, tree>>

(* The heap with a copy of the tree, and the copy.                           *)
deep_copy(tree) == <<Append(heap, heap[tree]), NewTree>>

NewBuilderFrom ==
  /\ Room
  /\ \E m \in DOMAIN metas :
       LET copy == deep_copy(metas[m])
       IN heap' = copy[1] /\ builders' = Append(builders, builder(copy[2]))
  /\ UNCHANGED <<defaults, metas, makers, setters>>

Setting(b) == Len(setters) < MaxSetters /\ setters' = Append(setters, b)

(* set_*() and set_string(): nothing changes if an exception leaves them.    *)
SetValue ==
  /\ \E b \in DOMAIN builders, v \in Values :
       LET md == set_string(heap[builders[b].tree], v.prop, v.value)
       IN /\ Setting(b)
          /\ heap' = IF md = BadMetadata THEN heap ELSE [heap EXCEPT ![builders[b].tree] = md]
  /\ UNCHANGED <<defaults, builders, metas, makers>>

(* add_*(): lookup() of the default returns a reference; set() copies it.    *)
Add ==
  /\ Room
  /\ \E b \in DOMAIN builders, e \in Elements :
       LET tree == builders[b].tree
           added == [heap EXCEPT ![tree] = add(heap[tree], e.prop, e.value)]
       IN /\ Setting(b)
          /\ IF defaults = 0 /\ e.prop \notin DOMAIN heap[tree]
             THEN heap' = Append(added, get_defaults) /\ defaults' = NewTree
             ELSE heap' = added /\ UNCHANGED defaults
  /\ UNCHANGED <<builders, metas, makers>>

(* The metadata takes the builder's own tree.                                *)
Build ==
  /\ \E b \in Open :
       /\ builders' = [builders EXCEPT ![b].built = TRUE]
       /\ metas' = Append(metas, builders[b].tree) /\ makers' = Append(makers, b)
  /\ UNCHANGED <<heap, defaults, setters>>

ApplyOverrides ==
  /\ Room
  /\ \E m, o \in DOMAIN metas :
       /\ heap' = Append(heap, apply_overrides(heap[metas[m]], heap[metas[o]]))
       /\ metas' = Append(metas, NewTree) /\ makers' = Append(makers, 0)
  /\ UNCHANGED <<defaults, builders, setters>>

NextObjects == NewBuilder \/ NewBuilderFrom \/ SetValue \/ Add \/ Build \/ ApplyOverrides

ObjectsSpec == InitObjects /\ [][NextObjects]_objects
-----------------------------------------------------------------------------
(* Only its own builder writes to a metadata object, if that is still used   *)
(* after build() (metadata.cpp:1148 says why it should not be): what is done *)
(* through the other builders and metadata (build(), metadata_builder(base), *)
(* apply_overrides() share or copy trees) changes neither it nor the         *)
(* defaults, and what apply_overrides() returned never changes.              *)
BuiltKeepsToItself ==
  [][ /\ \A m \in DOMAIN metas :
           heap'[metas'[m]] # heap[metas[m]] => makers[m] # 0 /\ setters' = Append(setters, makers[m])
      /\ defaults # 0 => heap'[defaults] = get_defaults ]_objects
=============================================================================
