------------------------------- MODULE Loading -------------------------------
(* From a Kyuafile to the tests that run: engine/kyuafile.cpp executes the   *)
(* files, which include each other; engine/scanner.cpp walks the programs    *)
(* they define, lists them lazily and yields the test cases that the user's  *)
(* filters match (engine/filters.cpp); engine/requirements.cpp decides       *)
(* whether each of them can run on this host.                                *)
(*                                                                           *)
(* A Kyuafile is a Lua script: the model lets it make any sequence of calls  *)
(* and, because the base library is open to it, catch the failure of any of  *)
(* them with pcall().  The user's filters and the host, which loading does   *)
(* not look at, are chosen when they are first used.                         *)
EXTENDS Metadata, Filters

CONSTANTS
  TopFile,       \* the path of the file to load, relative to its directory
  SyntaxCalls,   \* calls of syntax(): [version, format, nargs]
  Suites,        \* names given to test_suite()
  Includes,      \* relative paths given to include()
  Definitions,   \* calls of *_test_program(): [name, suite, props]
  Missing,       \* names of test programs that do not exist
  Lists,         \* lists of test cases: functions from names to metadata
  Filters,       \* filters of the command line: [program, case]
  Hosts,         \* hosts with their configuration
  MaxSteps,      \* bound: calls made by all the files
  MaxFailures,   \* bound: calls that fail
  MaxDepth       \* bound: files being parsed at the same time

VARIABLES
  phase,         \* parsing, loaded, scanning, done or failed
  stack,         \* the parsers, the included ones last
  programs,      \* the test programs of the Kyuafile
  pending,       \* scanner: indices of the programs left
  first,         \* scanner: the cases left of the first pending program
  filters, used, \* the filters, and those that matched something
  host,
  yielded,       \* the test cases yielded, with what became of them
  log, failed    \* history: definitions made, and files that failed

parsing == <<stack, log, failed>>
scanning == <<pending, first, filters, used, host, yielded>>
vars == <<phase, programs, parsing, scanning>>

NoVersion == 0
NoSuite == "<none>"
NotAString == "<not a string>"
NoCases == <<"<none>">>
NoList == [n \in {} |-> Unset]
NoHost == [root |-> FALSE]

(* Nobody uses the name that stands for none.                                *)
ASSUME NamesAssumption ==
  NoSuite \notin Suites /\ \A list \in Lists : IsFiniteSet(DOMAIN list) /\ "<none>" \notin DOMAIN list

(* A filter has a relative path (test_filter::parse()).                      *)
ASSUME FiltersAssumption ==
  \A f \in Filters :
    f \in [program : Seq(STRING) \ {<<>>}, case : STRING] /\ ~is_absolute(f.program)

(* Files are looked up by absolute path, programs in the search path by name.*)
ASSUME HostsAssumption ==
  \A h \in Hosts :
    /\ h.memory \in Nat /\ h.disk \in Nat
    /\ \A file \in h.files : is_absolute(file)
    /\ \A name \in h.search_path : ~is_absolute(name)
-----------------------------------------------------------------------------
(* engine/kyuafile.cpp                                                       *)
relativize(dir, file) == IF dir = Here THEN file ELSE Join(dir, file)

(* Defect: an included file starts with the suite of its includer.           *)
parserInherits(file, id) ==
  [id |-> id, file |-> file, version |-> NoVersion, programs |-> <<>>,
   suite |-> IF stack = <<>> THEN NoSuite ELSE Last(stack).suite]

(* The parser of one file; ids tell them apart in the history.               *)
parser(file, id) ==
  [id |-> id, file |-> file, version |-> NoVersion, programs |-> <<>>, suite |-> NoSuite]

Top == Last(stack)
SetTop(p) == Append(Front(stack), p)
Chain == {stack[i].id : i \in DOMAIN stack}
Calls == Len(log)
Calling == phase = "parsing" /\ Calls < MaxSteps
Record(op, arg) == log' = Append(log, [op |-> op, frames |-> Chain, file |-> Top.file, arg |-> arg])

(* An exception reaches a pcall() of the k-th parser, which goes on; those   *)
(* above it are destroyed.  With k = 0 it leaves load() as a load_error.     *)
Throw(ks) ==
  \E k \in ks :
    /\ stack' = SubSeq(stack, 1, k)
    /\ failed' = failed \cup {stack[i].id : i \in (k + 1)..Len(stack)}
    /\ phase' = IF k = 0 THEN "failed" ELSE phase
    /\ UNCHANGED <<programs, scanning>>

Caught == 0..Len(stack)
CaughtByIncluder == 0..(Len(stack) - 1)

CallFails(arg) ==
  /\ Cardinality({i \in DOMAIN log : log[i].op = "failure"}) < MaxFailures
  /\ Record("failure", arg)
  /\ Throw(Caught)

lua_syntax(call) ==
  IF call.version = 1 THEN call.nargs = 2 /\ call.format = "kyuafile" ELSE call.nargs = 1

callback_syntax(call) == Top.version = NoVersion /\ call.version \in 1..2

CallSyntax ==
  /\ Calling
  /\ \E call \in SyntaxCalls :
       IF lua_syntax(call) /\ callback_syntax(call)
       THEN /\ Record("syntax", call)
            /\ stack' = SetTop([Top EXCEPT !.version = call.version])
            /\ UNCHANGED <<phase, programs, failed, scanning>>
       ELSE CallFails(call)

CallTestSuite ==
  /\ Calling
  /\ \E name \in Suites :
       IF Top.suite = NoSuite
       THEN /\ Record("test_suite", name)
            /\ stack' = SetTop([Top EXCEPT !.suite = name])
            /\ UNCHANGED <<phase, programs, failed, scanning>>
       ELSE CallFails(name)

(* An included file has a parser of its own.  One that cannot be read fails. *)
CallInclude ==
  /\ Calling
  /\ \E raw \in Includes :
       \/ /\ Len(stack) < MaxDepth
          /\ Record("include", raw)
          /\ stack' = Append(stack, parser(relativize(branch_path(Top.file), raw), Calls + 1))
          /\ UNCHANGED <<phase, programs, failed, scanning>>
       \/ CallFails(raw)

get_test_suite(override) == IF override = "" THEN Top.suite ELSE override

(* The properties of a program, converted to strings and parsed one by one.  *)
set_strings(props) ==
  FoldLeft(LAMBDA md, p : set_string(md, p, props[p]), Unset, SetToSeq(DOMAIN props))

(* Sizes are parsed into numbers of bytes, which are unsigned.               *)
Sized(md) == \A p \in BytesProperties \cap DOMAIN md : md[p] \in Nat
ASSUME SizesAssumption ==
  /\ \A def \in Definitions : set_strings(def.props) = BadMetadata \/ Sized(set_strings(def.props))
  /\ \A list \in Lists : \A name \in DOMAIN list : Sized(list[name])

(* lua_generic_test_program() and callback_test_program(): in any order.     *)
ValidDefinition(def) ==
  /\ def.name # NotAString
  /\ def.suite # NotAString
  /\ set_strings(def.props) # BadMetadata
  /\ ~is_absolute(def.name)
  /\ Len(def.name) = 1
  /\ leaf_name(def.name) \notin Missing
  /\ get_test_suite(def.suite) # NoSuite

test_program(def) ==
  [path |-> relativize(branch_path(Top.file), def.name),
   suite |-> get_test_suite(def.suite),
   md |-> set_strings(def.props),
   listed |-> FALSE, cases |-> NoList]

CallTestProgram ==
  /\ Calling
  /\ \E def \in Definitions :
       IF ValidDefinition(def)
       THEN /\ Record("test_program", def)
            /\ stack' = SetTop([Top EXCEPT !.programs = Append(@, test_program(def))])
            /\ UNCHANGED <<phase, programs, failed, scanning>>
       ELSE CallFails(def)

(* The script itself fails outside of any pcall().                           *)
ScriptFails ==
  /\ phase = "parsing"
  /\ Throw(CaughtByIncluder)
  /\ UNCHANGED log

callback_include(includer, subtps) == [includer EXCEPT !.programs = @ \o subtps]

(* parse(): the end of a file, which must have called syntax().              *)
EndOfFile ==
  /\ phase = "parsing"
  /\ UNCHANGED log
  /\ IF Top.version = NoVersion THEN Throw(CaughtByIncluder)
     ELSE /\ IF Len(stack) = 1
             THEN programs' = Top.programs /\ phase' = "loaded" /\ stack' = <<>>
             ELSE LET includer == stack[Len(stack) - 1]
                  IN /\ stack' = Append(SubSeq(stack, 1, Len(stack) - 2),
                                        callback_include(includer, Top.programs))
                     /\ UNCHANGED <<phase, programs>>
          /\ UNCHANGED <<failed, scanning>>
-----------------------------------------------------------------------------
(* filters_state::unused().                                                  *)
unused == filters \ used
-----------------------------------------------------------------------------
(* engine/requirements.cpp: the first requirement that the host does not     *)
(* meet, or "".  A required file given by a bare name fails an assertion.    *)
DefaultExecenv == "host"

check_required_configs(vars_, h, suite) ==
  \A v \in vars_ :
    IF v \in {"unprivileged-user", "unprivileged_user"}
    THEN <<"unprivileged_user">> \in h.config
    ELSE <<"test_suites", suite, v>> \in h.config

check_allowed_architectures(as, h) == as # {} => h.architecture \in as
check_allowed_platforms(ps, h) == ps # {} => h.platform \in ps
check_execenv(name, h) == (IF name = "" THEN DefaultExecenv ELSE name) \in h.execenvs

check_required_user(user, h) ==
  CASE user = "root" -> h.root
    [] user = "unprivileged" -> h.root => <<"unprivileged_user">> \in h.config
    [] OTHER -> TRUE

(* The absolute paths, which come first in the order of the set.             *)
check_required_files(paths, h) == {p \in paths : is_absolute(p)} \subseteq h.files

check_required_programs(paths, h) ==
  \A p \in paths : p \in (IF is_absolute(p) THEN h.files ELSE h.search_path)

(* A host that cannot tell its memory has 0.                                 *)
check_required_memory(bytes, h) == bytes > 0 /\ h.memory > 0 => h.memory >= bytes
check_required_disk_space(bytes, h) == bytes > 0 => h.disk >= bytes

(* os/freebsd: the checker that FreeBSD registers.                           *)
check_required_kmods(kmods, h) == kmods \subseteq h.kmods

check_reqs(md, h, suite) ==
  IF ~check_required_configs(get(md, "required_configs"), h, suite) THEN "configs"
  ELSE IF ~check_allowed_architectures(get(md, "allowed_architectures"), h) THEN "architecture"
  ELSE IF ~check_execenv(get(md, "execenv"), h) THEN "execenv"
  ELSE IF ~check_allowed_platforms(get(md, "allowed_platforms"), h) THEN "platform"
  ELSE IF ~check_required_user(get(md, "required_user"), h) THEN "user"
  ELSE IF ~check_required_files(get(md, "required_files"), h) THEN "files"
  ELSE IF \E p \in get(md, "required_files") : ~is_absolute(p) THEN "abort"
  ELSE IF ~check_required_programs(get(md, "required_programs"), h) THEN "programs"
  ELSE IF ~check_required_memory(get(md, "required_memory"), h) THEN "memory"
  ELSE IF ~check_required_disk_space(get(md, "required_disk_space"), h) THEN "disk"
  ELSE IF ~check_required_kmods(get(md, "required_kmods"), h) THEN "kmods"
  ELSE ""
-----------------------------------------------------------------------------
(* engine/scanner.cpp, driven by drivers::list_tests and run_tests.          *)
Scanning == phase = "scanning"
program == programs[Head(pending)]
NextProgram == pending' = Tail(pending) /\ first' = NoCases

get_metadata(p, name) == apply_overrides(p.md, p.cases[name])

(* cli::detail::list_test_case(): the properties "kyua list -v" prints.      *)
list_test_case(md) ==
  LET props == to_properties(md)
  IN [p \in {q \in DOMAIN props : q \notin DOMAIN get_defaults \/ props[q] # get_defaults[q]} |->
        props[p]]

(* cli::parse_filters() and the constructor of the scanner.                  *)
Scan ==
  /\ phase = "loaded"
  /\ phase' = "scanning"
  /\ \E fs \in SUBSET Filters : check_disjoint_filters(fs) /\ filters' = fs
  /\ host' \in Hosts
  /\ pending' = [i \in DOMAIN programs |-> i]
  /\ UNCHANGED <<programs, parsing, first, used, yielded>>

(* A program that no filter matches is not even listed.                      *)
SkipProgram ==
  /\ Scanning /\ pending # <<>> /\ first = NoCases
  /\ ~match_test_program(filters, program.path)
  /\ NextProgram
  /\ UNCHANGED <<phase, programs, parsing, filters, used, host, yielded>>

(* Lazily, by running it: lazy_test_program::test_cases().                   *)
ListProgram ==
  /\ Scanning /\ pending # <<>> /\ first = NoCases
  /\ match_test_program(filters, program.path)
  /\ \E list \in Lists :
       /\ programs' = [programs EXCEPT ![Head(pending)].listed = TRUE,
                                       ![Head(pending)].cases = list]
       /\ first' = SetToSeq(DOMAIN list)
  /\ UNCHANGED <<phase, parsing, pending, filters, used, host, yielded>>

DropProgram ==
  /\ Scanning /\ first = <<>>
  /\ NextProgram
  /\ UNCHANGED <<phase, programs, parsing, filters, used, host, yielded>>

SkipCase ==
  /\ Scanning /\ first \notin {NoCases, <<>>}
  /\ filters # {} /\ match_test_case(filters, program.path, Head(first)) = {}
  /\ first' = Tail(first)
  /\ UNCHANGED <<phase, programs, parsing, pending, filters, used, host, yielded>>

(* consume(), and what the driver makes of the test case.                    *)
Yield ==
  /\ Scanning /\ first \notin {NoCases, <<>>}
  /\ LET name == Head(first)
         found == match_test_case(filters, program.path, name)
         md == get_metadata(program, name)
     IN /\ filters = {} \/ found # {}
        /\ used' = used \cup found
        /\ yielded' = Append(yielded, [index |-> Head(pending), case |-> name,
                                       reason |-> check_reqs(md, host, program.suite),
                                       shown |-> list_test_case(md)])
        /\ first' = Tail(first)
  /\ UNCHANGED <<phase, programs, parsing, pending, filters, host>>

Done ==
  /\ Scanning /\ pending = <<>>
  /\ phase' = "done"
  /\ UNCHANGED <<programs, parsing, scanning>>
-----------------------------------------------------------------------------
Init ==
  /\ phase = "parsing" /\ programs = <<>>
  /\ stack = <<[id |-> 0, file |-> TopFile, version |-> NoVersion, programs |-> <<>>,
                suite |-> NoSuite]>>
  /\ pending = <<>> /\ first = NoCases
  /\ filters = {} /\ used = {} /\ host = NoHost /\ yielded = <<>>
  /\ log = <<>> /\ failed = {}

Next ==
  \/ CallSyntax \/ CallTestSuite \/ CallInclude \/ CallTestProgram \/ ScriptFails \/ EndOfFile
  \/ Scan \/ SkipProgram \/ ListProgram \/ DropProgram \/ SkipCase \/ Yield \/ Done

Spec == Init /\ [][Next]_vars
-----------------------------------------------------------------------------
Loaded == phase \in {"loaded", "scanning", "done"}

(* The definitions of the files that were read to the end.                   *)
Survivors ==
  {i \in DOMAIN log : log[i].op = "test_program" /\ log[i].frames \cap failed = {}}

(* The number of the program that a definition makes: they keep their order. *)
Place(i) == Cardinality({j \in Survivors : j <= i})

(* The suite that the same file had declared before its i-th call.           *)
Declared(i) ==
  {log[k].arg : k \in {j \in 1..(i - 1) : log[j].op = "test_suite" /\ log[j].frames = log[i].frames}}

SuiteOf(i) == IF log[i].arg.suite # "" THEN {log[i].arg.suite} ELSE Declared(i)

(* What load() returns is what the files defined, in order, each with its    *)
(* own properties, in the directory of its file and in the suite that the    *)
(* definition or its own file names: nothing leaks into or out of an         *)
(* included file, and one that failed leaves nothing behind                  *)
(* (callback_include(), get_test_suite(), parse()).                          *)
LoadedAsDefined ==
  Loaded =>
    /\ Len(programs) = Cardinality(Survivors)
    /\ \A i \in Survivors :
         LET p == programs[Place(i)]
         IN /\ p.suite \in SuiteOf(i)
            /\ p.path = relativize(branch_path(log[i].file), log[i].arg.name)
            /\ p.md = set_strings(log[i].arg.props)

(* The user's filters, read the way kyua(1) explains them.                   *)
Selects(f, path, case) ==
  \/ f.case = "" /\ IsPrefix(f.program, path) /\ f.program # Here
  \/ f.program = path /\ f.case \in {"", case}
Selected(fs, path, case) == fs = {} \/ \E f \in fs : Selects(f, path, case)

(* The test cases of a program that was listed, in order; and those selected *)
(* of all the programs, each as the numbers of its program and of itself.    *)
CasesOf(p) == SetToSeq(DOMAIN p.cases)
ToYield ==
  UNION {{<<n, m>> : m \in {m \in DOMAIN CasesOf(programs[n]) :
                             Selected(filters, programs[n].path, CasesOf(programs[n])[m])}} :
         n \in DOMAIN programs}
Turn(t) == Cardinality({u \in ToYield : u[1] < t[1] \/ (u[1] = t[1] /\ u[2] <= t[2])})

(* The scanner yields every selected test case of every program once, in     *)
(* order, and does not run a program to list it when no filter can match;    *)
(* "kyua list -v" prints enough to know all the properties of each; and the  *)
(* filters reported as unused are those that select no test at all: none is  *)
(* shadowed by another one that matched first, because overlapping filters   *)
(* are refused (check_disjoint_filters()).                                   *)
YieldedExactly ==
  phase = "done" =>
    /\ Len(yielded) = Cardinality(ToYield)
    /\ \A t \in ToYield :
         /\ yielded[Turn(t)].index = t[1]
         /\ yielded[Turn(t)].case = CasesOf(programs[t[1]])[t[2]]
    /\ \A n \in DOMAIN programs :
         programs[n].listed <=>
           \/ filters = {}
           \/ \E f \in filters : \/ f.program = programs[n].path
                                 \/ Selects(f, programs[n].path, "")
    /\ \A k \in DOMAIN yielded :
         combine(get_defaults, yielded[k].shown)
           = to_properties(get_metadata(programs[yielded[k].index], yielded[k].case))
    /\ unused = {f \in filters :
                   \A k \in DOMAIN yielded :
                     ~Selects(f, programs[yielded[k].index].path, yielded[k].case)}

(* What a test case requires, or else its program, of a host h.              *)
Meets(h, md, case, suite) ==
  LET of(prop, default) == IF prop \in DOMAIN case THEN case[prop]
                           ELSE IF prop \in DOMAIN md THEN md[prop] ELSE default
      needed(v) == IF v \in {"unprivileged-user", "unprivileged_user"}
                   THEN <<"unprivileged_user">> ELSE <<"test_suites", suite, v>>
      oneOf(values, x) == values = {} \/ x \in values
      user == of("required_user", "")
      execenv == of("execenv", "")
  IN /\ {needed(v) : v \in of("required_configs", {})} \subseteq h.config
     /\ oneOf(of("allowed_architectures", {}), h.architecture)
     /\ oneOf(of("allowed_platforms", {}), h.platform)
     /\ (IF execenv = "" THEN "host" ELSE execenv) \in h.execenvs
     /\ user = "root" => h.root
     /\ user = "unprivileged" /\ h.root => <<"unprivileged_user">> \in h.config
     /\ of("required_files", {}) \subseteq h.files
     /\ of("required_programs", {}) \subseteq h.files \cup h.search_path
     /\ of("required_memory", 0) <= h.memory \/ h.memory = 0
     /\ of("required_disk_space", 0) <= h.disk
     /\ of("required_kmods", {}) \subseteq h.kmods

(* A test runs exactly when the host meets all its requirements: those of    *)
(* the test case, else those of its program, in the suite that the Kyuafile  *)
(* gave to the program (check_reqs()).                                       *)
RunOnlyIfMet ==
  \A k \in DOMAIN yielded :
    LET y == yielded[k]
        p == programs[y.index]
        suite == CHOOSE s \in SuiteOf(CHOOSE i \in Survivors : Place(i) = y.index) : TRUE
    IN y.reason = "" <=> Meets(host, p.md, p.cases[y.case], suite)
=============================================================================
