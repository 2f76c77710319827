------------------------------- MODULE Frontend -------------------------------
(* The kyua(1) program: cli/main.cpp and the commands of cli/cmd_*.cpp, from *)
(* the words of the command line to the exit code.  What the drivers do is   *)
(* the subject of other modules; here they answer from the "world", which    *)
(* says what a run of the program finds.                                     *)
EXTENDS Cmdline

CONSTANTS
  CommandLines,  \* the words after the name of the program
  Worlds         \* what there is: see WorldType

VARIABLES
  words,         \* argv
  world,
  pc,            \* the step of safe_main() to take, "caught" or "exit"
  global,        \* the parsed_cmdline of the program
  command,       \* the parsed_cmdline of the command
  thrown,        \* the exception on its way to main(), "" if none
  did,           \* what was done so far
  exit_code

frontend_vars == <<words, world, pc, global, command, thrown, did, exit_code>>

Test == [program : Seq(STRING), case : STRING, good : BOOLEAN]
WorldType ==
  [logdir : BOOLEAN,         \* the directory of the log can be created
   config : BOOLEAN,         \* the configuration loads
   historical : BOOLEAN,     \* ~/.kyua/store.db exists
   results : {"missing", "current", "old"},   \* what find_results() leads to
   taken : BOOLEAN,          \* the results file to create has contents
   kyuafile : BOOLEAN,       \* the Kyuafile loads
   tests : SUBSET Test,
   interrupted : BOOLEAN,    \* a signal arrives during the run of the tests
   docs : SUBSET {"LICENSE", "AUTHORS", "CONTRIBUTORS"},
   variables : SUBSET Seq(STRING),            \* configuration variables
   sql : BOOLEAN,            \* the statement of db-exec is valid
   output : {"new", "exists", "unwritable"}]  \* what --output names

ASSUME WorldsAssumption == Worlds \subseteq WorldType

Killed == 128
-----------------------------------------------------------------------------
(* The options of the program and of its commands.                           *)
config_option == option("c", "config", "path", <<"~/.kyua/kyua.conf">>)
variable_option == option("v", "variable", "property", NoText)
loglevel_option == option(NoName, "loglevel", "string", <<"info">>)
logfile_option == option(NoName, "logfile", "path", <<"default.log">>)
GlobalOptions == <<config_option, variable_option, loglevel_option, logfile_option>>
LogLevels == {<<"debug">>, <<"info">>, <<"warning">>, <<"error">>}

build_root_option == option(NoName, "build-root", "path", NoText)
kyuafile_option == option("k", "kyuafile", "path", <<"Kyuafile">>)
results_filter_option ==
  option(NoName, "results-filter", "list", <<"skipped", ",", "xfail", ",", "broken", ",", "failed">>)
results_file_create_option == option("r", "results-file", "string", <<"NEW">>)
results_file_open_option == option("r", "results-file", "string", <<"LATEST">>)
bool_option(short, long) == option(short, long, "bool", NoText)
output_option(default) == option(NoName, "output", "path", default)

(* The constructors of the commands: options and number of arguments.        *)
cmd(min, max, options) == [min |-> min, max |-> max, options |-> options]
AnyNumber == -1

cmd_about == cmd(0, 1, <<>>)
cmd_config == cmd(0, AnyNumber, <<>>)
cmd_db_exec == cmd(1, AnyNumber, <<results_file_open_option, bool_option(NoName, "no-headers")>>)
cmd_db_migrate == cmd(0, 0, <<results_file_open_option>>)
cmd_help == cmd(0, 1, <<>>)
cmd_debug ==
  cmd(1, 1, <<build_root_option, kyuafile_option, bool_option("p", "pause-before-cleanup-upon-fail"),
              bool_option(NoName, "pause-before-cleanup"),
              option(NoName, "stdout", "path", <<"/dev/stdout">>),
              option(NoName, "stderr", "path", <<"/dev/stderr">>)>>)
cmd_list == cmd(0, AnyNumber, <<build_root_option, kyuafile_option, bool_option("v", "verbose")>>)
cmd_test ==
  cmd(0, AnyNumber, <<build_root_option, kyuafile_option, results_file_create_option>>)
cmd_report ==
  cmd(0, AnyNumber, <<results_file_open_option, bool_option(NoName, "verbose"),
                      output_option(<<"/dev/stdout">>), results_filter_option>>)
cmd_report_html ==
  cmd(0, 0, <<results_file_open_option, bool_option(NoName, "force"), output_option(<<"html">>),
              results_filter_option>>)
cmd_report_junit ==
  cmd(0, 0, <<results_file_open_option, output_option(<<"/dev/stdout">>)>>)

commands ==
  [about |-> cmd_about, config |-> cmd_config, debug |-> cmd_debug, help |-> cmd_help,
   list |-> cmd_list, report |-> cmd_report, test |-> cmd_test]
  @@ ("db-exec" :> cmd_db_exec @@ "db-migrate" :> cmd_db_migrate
      @@ "report-html" :> cmd_report_html @@ "report-junit" :> cmd_report_junit)

cmdname == global.arguments[1][1]
CommandWords == SubSeq(words, Len(words) - Len(global.arguments) + 2, Len(words))
Value(long) ==
  get_option(command, CHOOSE o \in Range(commands[cmdname].options) : o.long = long)
Args == command.arguments
-----------------------------------------------------------------------------
FrontendInit ==
  /\ words \in CommandLines /\ world \in Worlds
  /\ pc = "parse" /\ global = Start(<<>>) /\ command = Start(<<>>)
  /\ thrown = "" /\ exit_code = Killed
  /\ did = [steps |-> {}, tests |-> {}, unused |-> {}, shown |-> {}]

Goto(step) == pc' = step /\ UNCHANGED <<thrown, exit_code>>
Throw(e) == pc' = "caught" /\ thrown' = e /\ UNCHANGED exit_code
Return(code) == pc' = "exit" /\ exit_code' = code /\ UNCHANGED thrown
Did(steps) == did' = [did EXCEPT !.steps = @ \cup steps]

ParseGlobal ==
  /\ pc = "parse"
  /\ global' = parse(words, GlobalOptions)
  /\ IF global'.error # "" THEN Throw("usage_error") ELSE Goto("log")
  /\ UNCHANGED <<words, world, command, did>>

(* mkdir_p() of the log's directory, the crash handlers and set_persistency()*)
OpenLog ==
  /\ pc = "log"
  /\ CASE ~world.logdir -> Throw("runtime_error") /\ UNCHANGED did
       [] world.logdir /\ get_option(global, loglevel_option) \notin LogLevels ->
            Throw("usage_error") /\ Did({"logdir"})
       [] OTHER -> Did({"logdir", "logfile"})
                   /\ IF global.arguments = <<>> THEN Throw("usage_error") ELSE Goto("config")
  /\ UNCHANGED <<words, world, global, command>>

(* cli::load_config(): only "help" does without.                             *)
LoadConfig ==
  /\ pc = "config"
  /\ IF ~world.config /\ global.arguments[1] # <<"help">>
     THEN Throw("runtime_error") ELSE Goto("find")
  /\ UNCHANGED <<words, world, global, command, did>>

(* commands_map::find(), register_scheduler_interfaces().                    *)
FindCommand ==
  /\ pc = "find"
  /\ IF cmdname \in DOMAIN commands THEN Goto("command") ELSE Throw("usage_error")
  /\ UNCHANGED <<words, world, global, command, did>>

(* command_proto::parse_cmdline()                                            *)
ParseCommand ==
  /\ pc = "command"
  /\ LET c == commands[cmdname]
         parsed == parse(CommandWords, c.options)
         argc == Len(parsed.arguments)
     IN /\ command' = parsed
        /\ IF parsed.error # "" \/ argc < c.min \/ (c.max # AnyNumber /\ argc > c.max)
           THEN Throw("usage_error") ELSE Goto("run")
  /\ UNCHANGED <<words, world, global, did>>
-----------------------------------------------------------------------------
(* cli/common.cpp                                                            *)
HistoricalDb == <<"store.db">>

(* results_file_create() and results_file_open(): what to look for, or       *)
(* NoText if the value is not a path.                                        *)
results_file(default) ==
  LET given == Value("results-file")
  IN CASE given = default -> IF world.historical THEN HistoricalDb ELSE given
       [] given # default /\ given = <<>> -> NoText
       [] OTHER -> given

Types == {"broken", "failed", "passed", "skipped", "xfail"}

(* get_result_types(): the types to report, all if none is given; {} if any  *)
(* is unknown.                                                               *)
get_result_types ==
  LET names == {IF Len(w) = 1 THEN w[1] ELSE "" : w \in Range(Value("results-filter"))}
  IN CASE names = {} -> Types
       [] names # {} /\ names \subseteq Types -> names
       [] OTHER -> {}

(* The program and the test case around the first colon of an argument.      *)
FilterArg(text) ==
  LET colons == Find(text, ":")
  IN IF colons = {} THEN [program |-> text, case |-> NoColon]
     ELSE [program |-> SubSeq(text, 1, Min(colons) - 1),
           case |-> IF Min(colons) = Len(text) THEN "" ELSE text[Min(colons) + 1]]

UserFilters == parse_filters([i \in DOMAIN Args |-> FilterArg(Args[i])])

(* What a driver finds for some filters, and the ones that nothing matches.  *)
Matched(fs) ==
  {t \in world.tests : fs = {} \/ match_test_case(fs, t.program, t.case) # {}}
Unmatched(fs) ==
  fs \ UNION {match_test_case(fs, t.program, t.case) : t \in world.tests}

(* Defect: filters that match nothing are reported but make no difference.   *)
report_unused_filtersMild(unused) == FALSE

report_unused_filters(unused) == unused # {}
-----------------------------------------------------------------------------
Run(name) == pc = "run" /\ cmdname = name /\ UNCHANGED <<words, world, global, command>>
Fails(e) == Throw(e) /\ UNCHANGED did

(* cat_file() of each document; the missing ones are errors, not failures.   *)
AboutTopics ==
  (<<>> :> {"LICENSE", "AUTHORS", "CONTRIBUTORS"})
  @@ (<<<<"authors">>>> :> {"AUTHORS", "CONTRIBUTORS"})
  @@ (<<<<"license">>>> :> {"LICENSE"}) @@ (<<<<"version">>>> :> {})

About ==
  /\ Run("about")
  /\ IF Args \notin DOMAIN AboutTopics THEN Fails("usage_error")
     ELSE /\ did' = [did EXCEPT !.shown = AboutTopics[Args] \cap world.docs]
          /\ Return(IF AboutTopics[Args] \subseteq world.docs THEN 0 ELSE 1)

(* print_all() or print_some().                                              *)
Config ==
  /\ Run("config")
  /\ LET wanted == IF Args = <<>> THEN world.variables ELSE Range(Args)
     IN /\ did' = [did EXCEPT !.shown = wanted \cap world.variables]
        /\ Return(IF wanted \subseteq world.variables THEN 0 ELSE 1)

(* general_help() or subcommand_help().                                      *)
Help ==
  /\ Run("help")
  /\ IF Args # <<>> /\ Args[1][1] \notin DOMAIN commands
     THEN Fails("usage_error") ELSE Return(0) /\ Did({"helped"})

(* find_results() of what results_file_open() returns.                       *)
Found == IF world.historical /\ Value("results-file") = <<"LATEST">> THEN "old" ELSE world.results
OpenName == results_file(<<"LATEST">>)

(* The errors of the store and of SQLite are the command's own failures.     *)
DbExec ==
  /\ Run("db-exec")
  /\ CASE OpenName = NoText -> Fails("usage_error")
       [] OpenName # NoText /\ Found = "missing" -> Return(1) /\ UNCHANGED did
       [] OTHER -> IF world.sql THEN Return(0) /\ Did({"executed"}) ELSE Return(1) /\ UNCHANGED did

DbMigrate ==
  /\ Run("db-migrate")
  /\ CASE OpenName = NoText -> Fails("usage_error")
       [] OpenName # NoText /\ Found = "old" -> Return(0) /\ Did({"migrated"})
       [] OTHER -> Return(1) /\ UNCHANGED did

(* The single test case that the argument must name.                         *)
Debug ==
  /\ Run("debug")
  /\ LET f == parse_filter(FilterArg(Args[1]))
         found == Matched({f})
     IN CASE Find(Args[1], ":") = {} -> Fails("usage_error")
          [] Find(Args[1], ":") # {} /\ (f = BadFilter \/ ~world.kyuafile) -> Fails("runtime_error")
          [] Find(Args[1], ":") # {} /\ f # BadFilter /\ world.kyuafile ->
               IF Cardinality(found) # 1 THEN Fails("runtime_error")
               ELSE /\ did' = [did EXCEPT !.steps = @ \cup {"tests"}, !.tests = found]
                    /\ IF world.interrupted THEN Throw("interrupted_error")
                       ELSE Return(IF \A t \in found : t.good THEN 0 ELSE 1)

List ==
  /\ Run("list")
  /\ IF UserFilters = BadFilters \/ ~world.kyuafile THEN Fails("runtime_error")
     ELSE /\ did' = [did EXCEPT !.shown = Matched(UserFilters), !.unused = Unmatched(UserFilters)]
          /\ Return(IF report_unused_filters(Unmatched(UserFilters)) THEN 1 ELSE 0)

test_exit_code(good_count, bad_count) == IF bad_count = 0 THEN 0 ELSE 1

(* The store directory is made for an automatic name only; a database with   *)
(* contents, the historical one included, is not written to.                 *)
RunTests ==
  /\ Run("test")
  /\ LET name == results_file(<<"NEW">>)
         made == IF name = <<"NEW">> THEN {"storedir"} ELSE {}
         taken == name = HistoricalDb \/ (name # <<"NEW">> /\ world.taken)
         found == Matched(UserFilters)
     IN CASE name = NoText -> Fails("usage_error")
          [] name # NoText /\ (UserFilters = BadFilters \/ ~world.kyuafile \/ taken) ->
               Throw("runtime_error") /\ Did(made)
          [] OTHER ->
               /\ did' = [did EXCEPT !.steps = @ \cup made \cup {"results", "tests"}, !.tests = found,
                                     !.unused = Unmatched(UserFilters)]
               /\ IF world.interrupted THEN Throw("interrupted_error")
                  ELSE Return(IF report_unused_filters(Unmatched(UserFilters)) THEN 1
                              ELSE test_exit_code(Cardinality({t \in found : t.good}),
                                                  Cardinality({t \in found : ~t.good})))

(* utils::open_ostream(): a file is emptied.                                 *)
Emptied == IF Value("output") = <<"/dev/stdout">> THEN {} ELSE {"emptied"}
CanOpen == Value("output") = <<"/dev/stdout">> \/ world.output # "unwritable"

(* read_backend::open_ro(), which only reads the current schema.             *)
Unreadable == IF Found = "old" THEN "old_schema_error" ELSE "runtime_error"

(* The output is opened before anything else is looked at.                   *)
Report ==
  /\ Run("report")
  /\ CASE ~CanOpen -> Fails("runtime_error")
       [] CanOpen /\ OpenName = NoText -> Throw("usage_error") /\ Did(Emptied)
       [] CanOpen /\ OpenName # NoText /\ (Found = "missing" \/ get_result_types = {}
                                           \/ UserFilters = BadFilters) ->
            Throw("runtime_error") /\ Did(Emptied)
       [] CanOpen /\ OpenName # NoText /\ Found = "old" /\ get_result_types # {}
            /\ UserFilters # BadFilters -> Throw(Unreadable) /\ Did(Emptied)
       [] OTHER ->
            /\ did' = [did EXCEPT !.steps = @ \cup Emptied \cup {"reported"},
                                  !.unused = Unmatched(UserFilters)]
            /\ Return(IF report_unused_filters(Unmatched(UserFilters)) THEN 1 ELSE 0)

(* create_top_directory(): --force wipes what is there.                      *)
ReportHtml ==
  /\ Run("report-html")
  /\ LET force == has_option(command, "force")
         wiped == IF force /\ world.output = "exists" THEN {"wiped"} ELSE {}
     IN CASE get_result_types = {} -> Fails("runtime_error")
          [] get_result_types # {} /\ OpenName = NoText -> Fails("usage_error")
          [] get_result_types # {} /\ OpenName # NoText /\ Found = "missing" -> Fails("runtime_error")
          [] get_result_types # {} /\ OpenName # NoText /\ Found # "missing" ->
               CASE world.output = "unwritable" \/ (world.output = "exists" /\ ~force) ->
                      Fails("runtime_error")
                 [] OTHER -> IF Found = "old" THEN Throw(Unreadable) /\ Did(wiped \cup {"directory"})
                             ELSE Return(0) /\ Did(wiped \cup {"directory", "reported"})

ReportJunit ==
  /\ Run("report-junit")
  /\ CASE OpenName = NoText -> Fails("usage_error")
       [] OpenName # NoText /\ (Found = "missing" \/ ~CanOpen) -> Fails("runtime_error")
       [] OpenName # NoText /\ Found = "old" /\ CanOpen -> Throw(Unreadable) /\ Did(Emptied)
       [] OTHER -> Return(0) /\ Did(Emptied \cup {"reported"})

(* The handlers of main().  The signal is delivered again, to its default.   *)
Catch ==
  /\ pc = "caught"
  /\ pc' = "exit"
  /\ exit_code' = CASE thrown = "interrupted_error" -> Killed
                    [] thrown = "usage_error" -> 3
                    [] OTHER -> 2
  /\ UNCHANGED <<words, world, global, command, thrown, did>>

FrontendNext ==
  \/ ParseGlobal \/ OpenLog \/ LoadConfig \/ FindCommand \/ ParseCommand
  \/ About \/ Config \/ Help \/ DbExec \/ DbMigrate \/ Debug \/ List \/ RunTests
  \/ Report \/ ReportHtml \/ ReportJunit \/ Catch
-----------------------------------------------------------------------------
(* What the user of a command expects of its success.                        *)
Achieved ==
  CASE cmdname \in {"test", "debug"} ->
         "tests" \in did.steps /\ ~world.interrupted /\ did.unused = {} /\ \A t \in did.tests : t.good
    [] cmdname = "list" -> world.kyuafile /\ did.shown = Matched(UserFilters) /\ did.unused = {}
    [] cmdname \in {"report", "report-html", "report-junit"} ->
         "reported" \in did.steps /\ did.unused = {}
    [] cmdname = "config" -> Args = <<>> \/ Range(Args) \subseteq did.shown
    [] cmdname = "about" -> AboutTopics[Args] = did.shown
    [] cmdname = "db-exec" -> "executed" \in did.steps
    [] cmdname = "db-migrate" -> "migrated" \in did.steps
    [] cmdname = "help" -> "helped" \in did.steps

(* The exit code can be trusted: 0 if and only if the command did all that   *)
(* was asked (every test good, every filter of use, the report written),     *)
(* whatever went wrong before, and 3 for the command line only, when nothing *)
(* was run, migrated, wiped or recorded; "help" works with a configuration   *)
(* that does not load (cli::main(), safe_main(), run_subcommand()).          *)
ExitIsTruthful ==
  pc = "exit" =>
    /\ exit_code = 0 => thrown = "" /\ Achieved
    /\ exit_code = 1 => ~Achieved
    /\ exit_code = 3 => did.tests = {} /\ did.steps \subseteq {"logdir", "logfile", "emptied"}
    /\ "wiped" \in did.steps => world.results # "missing" \/ world.historical
    /\ world.logdir /\ words \in {<<w>> : w \in Range(words)} /\ words[1].text = <<"help">>
         => exit_code = 0

(* The command that runs sees its own options, and the program its own: each *)
(* with the last value that the words before the operands give it, else its  *)
(* default, wherever the command's name stands and whatever letters both     *)
(* share; and the operands as they were given (cmdline::parse(),             *)
(* parsed_cmdline::get_option()).                                            *)
UsesWhatWasGiven ==
  thrown = "" /\ pc \in {"run", "exit"} =>
    /\ get_multi_option(global, variable_option)
         = [i \in DOMAIN Given(words, GlobalOptions, variable_option) |->
              property(Given(words, GlobalOptions, variable_option)[i])]
    /\ \A o \in Range(commands[cmdname].options) :
         LET given == Given(CommandWords, commands[cmdname].options, o)
         IN IF needs_arg(o)
            THEN has_option(command, o.long) =>
                   Value(o.long) = convert(o, Last(<<o.default>> \o given))
            ELSE has_option(command, o.long) <=> given # <<>>
    /\ Args = Operands(CommandWords, commands[cmdname].options)
=============================================================================
