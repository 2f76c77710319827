-------------------------------- MODULE Config --------------------------------
(* How the configuration of a run comes about (cli/config.cpp): a file is    *)
(* chosen, its Lua script runs with every global variable redirected to the  *)
(* configuration tree (utils/config/lua_module.cpp), and then the "-v K=V"   *)
(* of the command line are applied.                                          *)
EXTENDS ConfigTree

CONSTANTS
  SyntaxCalls,   \* calls of syntax(): [version, format, nargs]
  Assignments,   \* assignments of a script: [key, value], a Lua value
  Reads,         \* keys a script reads
  Overrides,     \* "-v K=V": [key, text]
  Execenvs,      \* the execution environments that are supported
  MaxSteps,      \* bound: what a script does
  MaxOverrides   \* bound: "-v" options

VARIABLES
  phase,         \* choosing, script, overriding, done, failed or aborted
  env,           \* the "-c" option, the files that exist, and the command's needs
  tree,          \* the configuration
  syntax_called,
  lua,           \* what the global tables of the script hold
  early,         \* keys assigned before syntax(), which are not redirected
  assigned       \* history: assignments that were accepted, in order

vars == <<phase, env, tree, syntax_called, lua, early, assigned>>

Table == "<table>"
Nothing == [k \in {} |-> Table]
Onto(new, old) ==
  [k \in DOMAIN new \cup DOMAIN old |-> IF k \in DOMAIN new THEN new[k] ELSE old[k]]
NoOption == "default"

(* A file is absent, readable, unreadable, or cannot even be looked for.     *)
FileStates == {"absent", "ok", "unreadable", "hidden"}
Environments ==
  [option : {NoOption, "none", "file"}, home : BOOLEAN, user : FileStates,
   system : {"absent", "ok"}, given : {"ok", "unreadable"}, required : BOOLEAN]
-----------------------------------------------------------------------------
(* engine/config.cpp                                                         *)
init_config_tree ==
  LET architecture == define(EmptyTree, <<"architecture">>, "string")
      execenvs == define(architecture, <<"execenvs">>, "strings_set")
      parallelism == define(execenvs, <<"parallelism">>, "positive_int")
      platform == define(parallelism, <<"platform">>, "string")
      unprivileged_user == define(platform, <<"unprivileged_user">>, "user")
  IN define_dynamic(unprivileged_user, <<"test_suites">>)

Default ==
  [k \in {<<"architecture">>, <<"execenvs">>, <<"parallelism">>, <<"platform">>} |->
     CASE k = <<"architecture">> -> "x"
       [] k = <<"execenvs">> -> Execenvs
       [] k = <<"parallelism">> -> "1"
       [] k = <<"platform">> -> "y"]

set_defaults(t) ==
  LET set(u, k, type) == tree_set(u, FALSE, k, type, Default[k]).tree
      architecture == set(t, <<"architecture">>, "string")
      execenvs == set(architecture, <<"execenvs">>, "strings_set")
      parallelism == set(execenvs, <<"parallelism">>, "positive_int")
  IN set(parallelism, <<"platform">>, "string")

default_config == set_defaults(init_config_tree)

(* Keys are sequences of names, and texts no tables.  NotSet is told from    *)
(* everything that a leaf may hold.                                          *)
Texts == {a.value.text : a \in Assignments} \cup {o.text : o \in Overrides}
ASSUME KeysAssumption == {a.key : a \in Assignments} \cup {o.key : o \in Overrides} \subseteq Seq(STRING)
ASSUME TextsAssumption == Table \notin {a.value.text : a \in Assignments}
ASSUME NotSetAssumption ==
  /\ \A k \in DOMAIN Default : Default[k] # NotSet
  /\ \A text \in Texts : text # NotSet /\ set_words(text) # NotSet /\ NotSet \notin find_user(text)

(* load_config_file(): the file to load, or Defaults.                        *)
Defaults == "<defaults>"
Chosen ==
  CASE env.option = "none" -> Defaults
    [] env.option = "file" -> "given"
    [] env.option = NoOption /\ env.home /\ env.user \in {"ok", "unreadable"} -> "user"
    [] OTHER -> IF env.system = "ok" THEN "system" ELSE Defaults

Fail == phase' = (IF env.required THEN "failed" ELSE "done")
        /\ tree' = default_config /\ assigned' = <<>>

ChooseFile ==
  /\ phase = "choosing"
  /\ IF Chosen = Defaults
     THEN phase' = "overriding" /\ tree' = default_config /\ UNCHANGED assigned
     ELSE IF env[Chosen] = "unreadable" THEN Fail
     ELSE phase' = "script" /\ UNCHANGED <<tree, assigned>>
  /\ UNCHANGED <<env, syntax_called, lua, early>>
-----------------------------------------------------------------------------
(* utils/config/parser.cpp and lua_module.cpp                                *)
Steps == Cardinality(DOMAIN lua) + Len(assigned)
Running == phase = "script" /\ Steps < MaxSteps
ScriptError == Fail /\ UNCHANGED <<env, syntax_called, lua, early>>
Aborts ==
  phase' = "aborted" /\ UNCHANGED <<env, tree, syntax_called, lua, early, assigned>>

lua_syntax(call) ==
  IF call.version = 1 THEN call.nargs = 2 /\ call.format = "config" ELSE call.nargs = 1

setup(call) == call.version \in 1..2

CallSyntax ==
  /\ phase = "script"
  /\ \E call \in SyntaxCalls :
       IF lua_syntax(call) /\ ~syntax_called /\ setup(call)
       THEN /\ syntax_called' = TRUE /\ tree' = default_config
            /\ UNCHANGED <<phase, env, lua, early, assigned>>
       ELSE ScriptError

(* What indexing the tables down to a key meets on its way (redirect_index): *)
(* a table, or a value, which cannot be indexed further.                     *)
ValueAt(key) ==
  IF key \in DOMAIN lua THEN lua[key]
  ELSE IF is_set(tree, key) THEN tree[key].value ELSE Table

Above(key) == {Prefix(key, n) : n \in 1..(Len(key) - 1)}
Reachable(key) == \A p \in Above(key) : ValueAt(p) = Table
Pushes(keys) == {k \in keys \ DOMAIN lua : is_set(tree, k) /\ tree[k].type = "strings_set"}
(* Defect: a key that is set is published as a table too.                    *)
TablesAlways(keys) == [k \in keys \ DOMAIN lua |-> Table]

Tables(keys) == [k \in {k \in keys \ DOMAIN lua : ~is_set(tree, k)} |-> Table]
WithUnderscore(key) == \E i \in DOMAIN key : key[i] = "_x"

(* An existing global is assigned without asking the metatable.              *)
redirected(key) == syntax_called /\ ~(Len(key) = 1 /\ key \in early)

Given(a) == [k \in {a.key} |-> a.value.text]

(* get_tree_key() refuses names that begin with an underscore.               *)
Assign ==
  /\ Running
  /\ \E a \in Assignments :
       IF syntax_called /\ Pushes(Above(a.key)) # {} THEN Aborts
       ELSE IF ~Reachable(a.key) THEN ScriptError
       ELSE IF redirected(a.key)
       THEN LET r == set_lua(tree, FALSE, a.key, a.value)
            IN IF WithUnderscore(a.key) THEN ScriptError
               ELSE IF r.error = "abort" THEN Aborts
               ELSE IF r.error # "" THEN ScriptError
               ELSE   /\ tree' = r.tree
                      /\ lua' = Onto(Given(a), Onto(Tables(Above(a.key)), lua))
                      /\ assigned' = Append(assigned, [key |-> a.key, text |-> a.value.text])
                      /\ UNCHANGED <<phase, env, syntax_called, early>>
       ELSE IF Len(a.key) > 1 THEN ScriptError
       ELSE /\ early' = early \cup {a.key}
            /\ lua' = Onto(Given(a), lua)
            /\ UNCHANGED <<phase, env, tree, syntax_called, assigned>>

(* push_lua() of a set aborts; a key that is not set becomes a table.        *)
Read ==
  /\ Running /\ syntax_called
  /\ \E key \in Reads :
       IF Pushes(Above(key) \cup {key}) # {} THEN Aborts
       ELSE IF ~Reachable(key) \/ WithUnderscore(key) THEN ScriptError
       ELSE /\ lua' = Onto(Tables(Above(key) \cup {key}), lua)
            /\ UNCHANGED <<phase, env, tree, syntax_called, early, assigned>>

EndOfFile ==
  /\ phase = "script"
  /\ IF syntax_called
     THEN phase' = "overriding" /\ UNCHANGED <<env, tree, syntax_called, lua, early, assigned>>
     ELSE ScriptError
-----------------------------------------------------------------------------
(* load_required_config(): the overrides, in the order of the command line.  *)
Overridden == Cardinality({i \in DOMAIN assigned : "from" \in DOMAIN assigned[i]})

Override ==
  /\ phase = "overriding" /\ Overridden < MaxOverrides
  /\ \E o \in Overrides :
       LET r == tree_set_string(tree, FALSE, o.key, o.text)
       IN IF r.error = ""
          THEN /\ tree' = r.tree
               /\ assigned' = Append(assigned, [key |-> o.key, text |-> o.text, from |-> "-v"])
               /\ UNCHANGED phase
          ELSE Fail
  /\ UNCHANGED <<env, syntax_called, lua, early>>

(* scheduler::generate_config(): what the test programs of a suite are given.*)
UserNames == {<<"unprivileged-user">>, <<"unprivileged_user">>}
generate_config(suite) ==
  LET own == all_properties(tree, <<"test_suites", suite>>, TRUE)
      user == [k \in UserNames |-> lookup(tree, <<"unprivileged_user">>, "user")]
  IN IF own.error = "value" THEN own
     ELSE [error |-> "", props |-> IF is_set(tree, <<"unprivileged_user">>)
                                   THEN Onto(user, own.props) ELSE own.props]

Ready ==
  /\ phase = "overriding"
  /\ phase' = "done"
  /\ UNCHANGED <<env, tree, syntax_called, lua, early, assigned>>

Init ==
  /\ phase = "choosing"
  /\ env \in Environments
  /\ tree = EmptyTree /\ syntax_called = FALSE
  /\ lua = Nothing /\ early = {} /\ assigned = <<>>

Next ==
  \/ ChooseFile \/ CallSyntax \/ Assign \/ Read \/ EndOfFile \/ Override \/ Ready

Spec == Init /\ [][Next]_vars
-----------------------------------------------------------------------------
AssignedTo(k) == {i \in DOMAIN assigned : assigned[i].key = k}
LastText(k) == assigned[CHOOSE i \in AssignedTo(k) : \A j \in AssignedTo(k) : j <= i].text
LastWord(k) == IF AssignedTo(k) = {} THEN Default[k] ELSE Parsed(tree[k].type, LastText(k))
AssignedKeys == {assigned[i].key : i \in DOMAIN assigned}
Schema == DOMAIN init_config_tree

(* What the test programs of a suite get is what was said of the suite, and  *)
(* the unprivileged user in place of what the suite may say of it, unless    *)
(* the suite itself was given a value.                                       *)
SuitesInformed ==
  \A suite \in {k[2] : k \in {k \in AssignedKeys : Len(k) > 1 /\ k[1] = "test_suites"}} :
    LET given == generate_config(suite)
        below == {k \in AssignedKeys : Len(k) > 2 /\ Prefix(k, 2) = <<"test_suites", suite>> /\ is_set(tree, k)}
        users == IF is_set(tree, <<"unprivileged_user">>) THEN UserNames ELSE {}
    IN IF is_set(tree, <<"test_suites", suite>>) THEN given.error = "value"
       ELSE given = [error |-> "",
                     props |-> [name \in users \cup {SubSeq(k, 3, Len(k)) : k \in below} |->
                                  LastWord(IF name \in users THEN <<"unprivileged_user">>
                                           ELSE <<"test_suites", suite>> \o name)]]

(* The configuration of a run holds, for every variable, the last word of    *)
(* the user: the last "-v", else the last assignment of the file, else the   *)
(* built-in default.  What is assigned to a known variable is not lost,      *)
(* unless it lies below one that has a value of its own.  The number of      *)
(* slots is always there to be looked up, and the tests of each suite are    *)
(* told what was said of their suite.                                        *)
FinalIsLastWord ==
  phase = "done" =>
    /\ LET shown == all_properties(tree, <<>>, FALSE).props
           words == AssignedKeys \cup DOMAIN Default
       IN /\ DOMAIN shown = {k \in words : lookup_ro(tree, k) /\ tree[k].type \notin Inner}
          /\ \A k \in DOMAIN shown : shown[k] = LastWord(k)
    /\ \A k \in AssignedKeys :
         \/ is_set(tree, k)
         \/ k[1] # "test_suites" /\ k \notin Schema
         \/ \E p \in Above(k) : is_set(tree, p)
    /\ lookup(tree, <<"parallelism">>, "positive_int") = LastWord(<<"parallelism">>)
    /\ SuitesInformed

(* What a script reads back from a variable is what the configuration holds  *)
(* (redirect_newindex() and redirect_index() keep a copy in the Lua table).  *)
LuaAgrees ==
  phase = "script" =>
    \A k \in DOMAIN lua \ early :
      IF lua[k] = Table THEN ~is_set(tree, k)
      ELSE lookup_ro(tree, k) => tree[k].value = Parsed(tree[k].type, lua[k])

=============================================================================
