------------------------------ MODULE Metadata ------------------------------
(* The metadata of a test case (model/metadata.cpp) as the function of the   *)
(* properties that are set; the others take the value of get_defaults().     *)
(* What a string is parsed into is left out: BadValue stands for every       *)
(* string that the type of its property refuses.                             *)
EXTENDS Paths, TLC

CONSTANTS
  CustomKeys,  \* the properties under "custom."
  BadValue,    \* a string no property accepts
  BadMetadata  \* the result of an exception while metadata is built

SetProperties ==
  {"allowed_architectures", "allowed_platforms", "required_configs", "required_files",
   "required_kmods", "required_programs"}
BytesProperties == {"required_disk_space", "required_memory"}
StringProperties == {"description", "execenv", "execenv_jail_params", "required_user"}
BoolProperties == {"has_cleanup", "is_exclusive"}

(* The schema: the static properties and whatever "custom" holds.            *)
init_tree ==
  SetProperties \cup BytesProperties \cup StringProperties \cup BoolProperties \cup {"timeout"}
Keys == init_tree \cup CustomKeys

DefaultTimeout == 300

get_defaults ==
  [p \in init_tree |->
     CASE p \in SetProperties -> {}
       [] p \in BytesProperties -> 0
       [] p \in StringProperties -> ""
       [] p \in BoolProperties -> FALSE
       [] p = "timeout" -> DefaultTimeout]

(* paths_set_node::validate(): a relative path has a single component.       *)
ValidPath(path) == is_absolute(path) \/ ncomponents(path) = 1

(* validate() of user_node and of paths_set_node.                            *)
validate_user(u) == u \in {"", "root", "unprivileged"}
validate_paths(s) == \A path \in s : ValidPath(path)

Valid(p, v) ==
  /\ v # BadValue
  /\ p = "required_user" => validate_user(v)
  /\ p \in {"required_files", "required_programs"} => validate_paths(v)

Unset == [p \in {} |-> BadValue]

(* metadata_builder::set_*() and set_string(): an unknown property or a      *)
(* value that its type refuses leaves as an exception.                       *)
set_string(md, p, v) ==
  IF md = BadMetadata \/ p \notin Keys \/ ~Valid(p, v) THEN BadMetadata ELSE (p :> v) @@ md

(* metadata_builder::add_*(): the first addition starts from the default.    *)
add(md, p, v) ==
  LET own == IF p \in DOMAIN md THEN md[p] ELSE get_defaults[p]
  IN (p :> (own \cup {v})) @@ md

(* config::tree::combine() on trees of this schema: the second one wins.     *)
leaf_combine(base, overrides, p) == IF p \in DOMAIN overrides THEN overrides[p] ELSE base[p]
combine(base, overrides) ==
  [p \in DOMAIN base \cup DOMAIN overrides |-> leaf_combine(base, overrides, p)]

(* Defect: the program's properties win over the test case's.                *)
apply_overridesSwapped(md, overrides) == combine(overrides, md)

apply_overrides(md, overrides) == combine(md, overrides)

(* Every getter: the property or, if it is not set, its default.             *)
get(md, p) == IF p \in DOMAIN md THEN md[p] ELSE get_defaults[p]

to_properties(md) == combine(get_defaults, md)
=============================================================================
