----------------------------- MODULE MCLibraries -----------------------------
(* The libraries below the engine, each on its own in some of the behaviours:*)
(* the configuration, the metadata objects, trees of files, temporary files, *)
(* and the timers on a clock that is set.                                    *)
EXTENDS Config, MetadataObjects, Files, Clock

VARIABLE part

library_vars == <<part, vars, objects, files_vars, clock_vars>>

(* The files that the option does not look for are there.                    *)
Plain(e) ==
  /\ e.option # "file" => e.given = "ok"
  /\ e.option # NoOption => e.home /\ e.user = "ok" /\ e.system = "ok"

LibrariesInit ==
  /\ part \in {"config", "objects", "tree", "auto", "clock"}
  /\ Init /\ InitObjects /\ FilesInit /\ ClockInit
  /\ Plain(env) /\ (part # "config" => env = CHOOSE e \in Environments : Plain(e))
  /\ part # "tree" => initial = CHOOSE choice \in Trees : TRUE

LibrariesNext ==
  /\ UNCHANGED part
  /\ \/ part = "config" /\ Next /\ UNCHANGED <<objects, files_vars, clock_vars>>
     \/ part = "objects" /\ NextObjects /\ UNCHANGED <<vars, files_vars, clock_vars>>
     \/ part = "tree" /\ (TreeNext \/ Stray) /\ UNCHANGED <<vars, objects, clock_vars, initial>>
     \/ part = "auto" /\ (AutoNext \/ Stray) /\ UNCHANGED <<vars, objects, clock_vars, initial>>
     \/ part = "clock" /\ ClockNext /\ UNCHANGED <<vars, objects, files_vars>>

LibrariesSpec == LibrariesInit /\ [][LibrariesNext]_library_vars

(* Scripts that assign and read variables of every type, one unknown, and    *)
(* nested ones that may collide; up to two overrides.                        *)
S(text) == [kind |-> "string", text |-> text]
N(text) == [kind |-> "number", text |-> text]
MCSyntaxCalls ==
  {[version |-> 2, format |-> "", nargs |-> 1], [version |-> 1, format |-> "config", nargs |-> 2],
   [version |-> 3, format |-> "", nargs |-> 1]}
Assign2(k, v) == [key |-> k, value |-> v]
MCAssignments ==
  {Assign2(<<"architecture">>, S("a")), Assign2(<<"architecture">>, N("1")),
   Assign2(<<"parallelism">>, N("2")), Assign2(<<"parallelism">>, N("0")),
   Assign2(<<"execenvs">>, S("jail  host")), Assign2(<<"unprivileged_user">>, N("65534")), Assign2(<<"execenvs">>, [kind |-> "table", text |-> "t"]),
   Assign2(<<"unknown">>, S("u")), Assign2(<<"test_suites">>, S("s")),
   Assign2(<<"test_suites", "s">>, S("v")), Assign2(<<"test_suites", "s", "unprivileged_user">>, S("v")),
   Assign2(<<"test_suites", "_x">>, S("v"))}
MCReads == {<<"architecture">>, <<"execenvs">>, <<"unknown">>, <<"test_suites", "s">>}
MCOverrides ==
  {[key |-> <<"architecture">>, text |-> "o"], [key |-> <<"parallelism">>, text |-> "x"],
   [key |-> <<"test_suites", "s", "p">>, text |-> "o"], [key |-> <<"test_suites", "s">>, text |-> "o"],
   [key |-> <<"test_suites", "">>, text |-> "o"]}
MCAccepted == "positive_int" :> {"1", "2"}
MCWords ==
  [t \in {a.value.text : a \in MCAssignments} \cup {o.text : o \in MCOverrides} |->
     IF t = "jail  host" THEN <<"jail", "", "host">> ELSE <<t>>]
MCUsers == "nobody" :> "65534"

(* Values of each type, one that its type refuses, and a set to add to.      *)
MCValues ==
  {[prop |-> "description", value |-> "d"], [prop |-> "required_user", value |-> "nobody"]}
MCElements == {[prop |-> "allowed_platforms", value |-> "amd64"], [prop |-> "allowed_platforms", value |-> "i386"]}

(* A work directory with a directory and a link out of it, neither of which  *)
(* can be changed before chmod(2); a file in its place; and one in place of  *)
(* the directory within.                                                     *)
Closed == Node("dir", FALSE, <<>>)
MCTrees ==
  {(<<>> :> Dir) @@ (<<"tmp">> :> Dir) @@ (<<"keep">> :> Dir) @@ (<<"keep", "f">> :> File)
     @@ (<<"w">> :> Closed) @@ (<<"w", "d">> :> Closed) @@ (<<"w", "d", "f">> :> File)
     @@ (<<"w", "l">> :> Node("link", TRUE, <<"keep">>)),
   (<<>> :> Dir) @@ (<<"tmp">> :> Dir) @@ (<<"w">> :> File),
   (<<>> :> Dir) @@ (<<"tmp">> :> Dir) @@ (<<"w">> :> Dir) @@ (<<"w", "d">> :> File)}
MCMade == {<<"s", "t">>, <<"w", "d">>}
MCRemoved == {<<"w">>}
MCTemporary == <<"tmp", "kyua.XXXXXX">>

MCDelays == {delta(0, 2), delta(1, 1), delta(2, 0)}
MCClockSteps == {-2, 1, 4}
=============================================================================
