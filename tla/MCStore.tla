------------------------------- MODULE MCStore -------------------------------
(* The parts of the store, each on its own in some of the behaviours: a      *)
(* results file with its writer and its readers, the store directory, the    *)
(* migration of a historical database, and the interface to SQLite.          *)
EXTENDS Results, Layout, Migration, Sqlite

VARIABLE part

vars == <<part, results_vars, layout_vars, migration_vars, sqlite_vars>>

Init ==
  /\ part \in {"results", "layout", "migration", "sqlite"}
  /\ ResultsInit /\ LayoutInit /\ MigrationInit /\ SqliteInit
  /\ (part # "migration" => old = "v2")

Next ==
  \/ part = "results" /\ ResultsNext /\ UNCHANGED <<part, layout_vars, migration_vars, sqlite_vars>>
  \/ part = "layout" /\ LayoutNext /\ UNCHANGED <<part, results_vars, migration_vars, sqlite_vars>>
  \/ part = "migration" /\ MigrationNext /\ UNCHANGED <<part, results_vars, layout_vars, sqlite_vars>>
  \/ part = "sqlite" /\ SqliteNext /\ UNCHANGED <<part, results_vars, layout_vars, migration_vars>>

Spec == Init /\ [][Next]_vars

(* Two entries for one program, in two suites, and the same name below a     *)
(* directory.                                                                *)
Program(path, suite, md) ==
  [interface |-> "plain", path |-> path, root |-> <<"/", "w">>, suite |-> suite, md |-> md,
   cases |-> ("a" :> Unset) @@ ("b" :> ("description" :> "of b"))]
MCPrograms ==
  {Program(<<"p">>, "S", "timeout" :> 10), Program(<<"p">>, "T", Unset),
   Program(<<"d", "p">>, "S", "custom.x" :> "1")}
MCRank ==
  (<<"/", "w", "p">> :> 2) @@ (<<"/", "w", "d", "p">> :> 1) @@ (<<"a">> :> 1) @@ (<<"b">> :> 2)

MCEndings ==
  {[type |-> "passed", reason |-> "", out |-> "o", err |-> ""],
   [type |-> "failed", reason |-> "r", out |-> "", err |-> "e"]}
MCCommands ==
  {[kind |-> "console", types |-> {"failed"}, verbose |-> TRUE, args |-> <<>>],
   [kind |-> "console", types |-> {"failed", "passed"}, verbose |-> FALSE,
    args |-> <<[program |-> <<"p">>, case |-> NoColon], [program |-> <<"d">>, case |-> NoColon]>>],
   [kind |-> "console", types |-> {"failed"}, verbose |-> FALSE,
    args |-> <<[program |-> <<"p">>, case |-> "a"]>>],
   [kind |-> "console", types |-> {"failed"}, verbose |-> FALSE,
    args |-> <<[program |-> <<"p">>, case |-> "a"], [program |-> <<"p">>, case |-> NoColon]>>],
   [kind |-> "html", types |-> {"failed"}, verbose |-> FALSE, args |-> <<>>],
   [kind |-> "junit", types |-> Types, verbose |-> FALSE, args |-> <<>>]}
MCAtoms == [n \in {} |-> <<>>]
MCEnvironment == "HOME" :> "/h"

(* What a client writes into its buffer makes no difference to SQLite.       *)
MCSymmetry == Permutations(Words)

(* Two suites of one name, two of which one has a pattern that matches the   *)
(* other, one way round or the other as to which name comes later, and a     *)
(* suite that is nobody's rival.                                             *)
MCRoots ==
  {<<<<"a">>, <<"b">>>>, <<<<"a", "_", "b">>>>, <<<<"a">>>>,
   <<<<"b", ".", "c">>>>, <<<<"b", "x", "c">>>>, <<<<"b", "-", "c">>>>}
MCCode == ("-" :> 45) @@ ("." :> 46) @@ ("_" :> 95) @@ ("a" :> 97) @@ ("b" :> 98) @@ ("c" :> 99) @@ ("x" :> 120)

MCSqlOf == [s1 |-> {"insert"}, s2 |-> {"select_swapped", "select_twice"}]

MCActions == {"a1", "a2", "a3"}
MCNameOf == [a \in MCActions |-> IF a = "a3" THEN "f3" ELSE a]
=============================================================================
