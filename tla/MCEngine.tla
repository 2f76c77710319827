------------------------------ MODULE MCEngine ------------------------------
(* What the engine does with test programs, in three parts that behaviours   *)
(* take one of: loading, filtering and checking them ("load"), judging what  *)
(* they write ("program"), and the children that become them ("child").      *)
EXTENDS Loading, TestInterfaces, Isolation

VARIABLE part

EngineInit ==
  /\ part \in {"load", "program", "child"}
  /\ Init /\ ProgramInit /\ IsolationInit
  /\ part # "program" => job = CHOOSE j \in Jobs : TRUE
  /\ part # "child" => def = (CHOOSE d \in Defs : TRUE) /\ is_root

EngineNext ==
  /\ UNCHANGED part
  /\ \/ part = "load" /\ Next /\ UNCHANGED <<program_vars, isolation_vars>>
     \/ part = "program" /\ ProgramNext /\ UNCHANGED <<vars, isolation_vars>>
     \/ part = "child" /\ IsolationNext /\ UNCHANGED <<vars, program_vars>>

EngineSpec == EngineInit /\ [][EngineNext]_<<part, vars, program_vars, isolation_vars>>

(* Loading: up to five calls, in files three deep, two programs, one of them *)
(* in a subdirectory, with requirements of their own and of their test cases.*)
MCTopFile == <<"Kyuafile">>
MCSyntaxCalls ==
  {[version |-> 2, format |-> "", nargs |-> 1], [version |-> 1, format |-> "kyuafile", nargs |-> 1]}
MCSuites == {"S", "T"}
MCIncludes == {<<"d", "Kyuafile">>}

Needs(p, v) == p :> v
MCDefinitions ==
  {[name |-> <<"p">>, suite |-> "", props |-> Needs("required_configs", {"v"})],
   [name |-> <<"q">>, suite |-> "T",
    props |-> Needs("required_user", "root") @@ Needs("custom.x", "1")],
   [name |-> <<"q">>, suite |-> "T", props |-> Needs("required_user", BadValue)]}
MCMissing == {"missing"}

MCLists ==
  {("a" :> Unset)
     @@ ("b" :> (Needs("required_user", "unprivileged") @@ Needs("allowed_architectures", {"x"})))
     @@ ("d" :> (Needs("required_files", {<<"f">>, <<"/", "f">>}) @@ Needs("required_user", ""))),
   ("a" :> (Needs("required_configs", {"unprivileged_user"}) @@ Needs("required_memory", 2)
              @@ Needs("required_kmods", {"k"}) @@ Needs("required_files", {<<"/", "f">>})))
     @@ ("c" :> (Needs("required_programs", {<<"ls">>}) @@ Needs("execenv", "jail")
                   @@ Needs("required_disk_space", 2)))}

MCFilters ==
  {[program |-> <<"p">>, case |-> ""], [program |-> <<"p">>, case |-> "a"],
   [program |-> <<"d">>, case |-> ""], [program |-> <<"d">>, case |-> "b"]}

Host ==
  [config |-> {<<"test_suites", "S", "v">>}, architecture |-> "x", platform |-> "x",
   execenvs |-> {"host"}, root |-> FALSE, files |-> {}, search_path |-> {<<"ls">>},
   memory |-> 1, disk |-> 1, kmods |-> {}]
MCHosts ==
  {Host,
   [Host EXCEPT !.config = {<<"unprivileged_user">>, <<"test_suites", "T", "v">>}, !.root = TRUE,
                !.architecture = "y", !.execenvs = {"host", "jail"}, !.memory = 0, !.disk = 2,
                !.files = {<<"/", "f">>}, !.kmods = {"k"}]}

(* Programs that write up to four lines of every kind the parsers tell apart.*)
AtfWords == {"passed", "failed", "broken", "skipped", "expected_death", "expected_failure",
             "expected_timeout", "unknown"}
Forms == {"none", "junk", "colon", "blank", "reason"}
MCAtfLines ==
  [word : AtfWords, form : Forms, arg : {NoArg}]
  \cup [word : AtfWithArg, form : Forms, arg : {NoArg}]
  \cup [word : AtfWithArg, form : {"arg", "argcolon", "open"}, arg : {BadArg, 0, 1, 6}]

MCGtestLines == {"disabled", "run", "ok", "failed", "skipped", "text"}

MCTapLines ==
  [kind : {"ok", "not ok", "todo", "bail", "text"}, first : {0}, second : {0}]
  \cup [kind : {"plan", "skipplan"}, first : {1}, second : {0, 2}]
  \cup {[kind |-> "plan", first |-> 2, second |-> 2]}

MCAtfListLines ==
  [kind : {"header", "blank", "badprop"}, name : {"-"}]
  \cup [kind : {"ident", "prop"}, name : {"a", "b"}]

MCGtestListLines ==
  [kind : {"suite"}, name : {"s", "t"}] \cup [kind : {"case"}, name : {"a", "b"}]
  \cup {[kind |-> "text", name |-> "-"]}

(* Two jails with the same name once it is cut, two with names of their own, *)
(* and tests that drop privileges, are skipped, or have a faked result.      *)
OnHost(path, iface) ==
  [path |-> path, case |-> <<"b">>, iface |-> iface, jail |-> FALSE, unprivileged |-> FALSE,
   cleanup |-> FALSE, fake |-> FALSE, unmet |-> FALSE]
Jailed(path, iface) == [OnHost(path, iface) EXCEPT !.jail = TRUE]
MCDefs ==
  LET with(d) == [d EXCEPT !.cleanup = TRUE]
      P == <<"/", "a">>
      Q == <<"/", "c">>
  IN {("t1" :> with(Jailed(P, "atf"))) @@ ("t2" :> Jailed(<<"/", "c", "a">>, "plain")),
      ("t1" :> with(Jailed(P, "atf"))) @@ ("t2" :> Jailed(Q, "plain")),
      ("t1" :> [with(OnHost(P, "atf")) EXCEPT !.unprivileged = TRUE]) @@ ("t2" :> Jailed(Q, "googletest")),
      ("t1" :> [Jailed(P, "atf") EXCEPT !.unmet = TRUE]) @@ ("t2" :> [OnHost(Q, "plain") EXCEPT !.fake = TRUE]),
      ("t1" :> [Jailed(P, "atf") EXCEPT !.unprivileged = TRUE]) @@
        ("t2" :> [with(OnHost(Q, "atf")) EXCEPT !.unmet = TRUE])}
MCUser == [uid |-> 9, gid |-> 9]
=============================================================================
