--------------------------- MODULE TestInterfaces ---------------------------
(* How engine/ turns what a test program wrote and how it ended into a       *)
(* verdict (compute_result) or into a list of test cases (parse_list), for   *)
(* the four interfaces: plain, tap, atf and googletest.                      *)
(*                                                                           *)
(* The program writes its output line by line and may be killed at any       *)
(* point, in the middle of a line too.  A line is a record that keeps what   *)
(* the parsers tell apart; an empty file stands for a missing one as well    *)
(* (both end in the same verdict).                                           *)
EXTENDS Integers, Sequences, FiniteSets, SequencesExt

CONSTANTS
  AtfLines,       \* lines of a results file: [word, form, arg]
  GtestLines,     \* kinds of line of a googletest program
  TapLines,       \* lines of a tap program: [kind, first, second]
  AtfListLines,   \* lines of "program -l": [kind, name]
  GtestListLines, \* lines of "program --gtest_list_tests": [kind, name]
  ExitCodes, Signals,
  MaxLines,       \* bound: lines written by one program
  MaxResultLines  \* bound: lines of an ATF results file

VARIABLES
  job,      \* [iface, mode]: which interface, running a test or listing
  out,      \* the lines written so far
  cut,      \* the last line lacks its newline
  stderr,   \* something was written to stderr
  status,   \* how the program ended, or Running
  verdict,  \* the outcome, or Pending
  names     \* the test cases listed

program_vars == <<job, out, cut, stderr, status, verdict, names>>

Running == [how |-> "running"]
TimedOut == [how |-> "timeout"]
Exited(c) == [how |-> "exited", code |-> c]
Signaled(s) == [how |-> "signaled", sig |-> s]
Pending == "pending"

ExitSuccess == 0
ExitFailure == 1
ExitedWith(st, c) == st.how = "exited" /\ st.code = c

(* Verdicts.  "escape" is an exception that no caller of the parsers         *)
(* expects; "abort" is an assertion of a debug build.  Listing ends with     *)
(* "listed" or "error".                                                      *)
GoodTypes == {"expected_failure", "passed", "skipped"}
good(v) == v \in GoodTypes
-----------------------------------------------------------------------------
(* engine/atf_result.cpp                                                     *)
AtfWithReason ==
  {"broken", "expected_death", "expected_failure", "expected_timeout", "failed", "skipped"}
AtfWithArg == {"expected_exit", "expected_signal"}
NoArg == -1
BadArg == -2

(* What follows the word: "none", "junk" (no ':' or '('), "colon" (just      *)
(* ":"), "blank" (": "), "reason" (": text"), "arg" ("(n): text"), "argcolon"*)
(* ("(n):"), "open" ("(n" with no "):").  In the last three n may not be a   *)
(* number: BadArg.                                                           *)
ASSUME AtfLinesAssumption ==
  \A l \in AtfLines :
    /\ l.form \in {"none", "junk", "colon", "blank", "reason", "arg", "argcolon", "open"}
    /\ IF l.form \in {"arg", "argcolon", "open"} THEN l.arg \in Int \ {NoArg} ELSE l.arg = NoArg

atf(type, arg) == [type |-> type, arg |-> arg]
FormatError == [type |-> "format_error", arg |-> NoArg]
OutOfRange == [type |-> "out_of_range", arg |-> NoArg]

(* Defect: a lone line without newline counts as a line.                     *)
read_linesUnterminated == Len(out)

(* Lines seen by the parser: a lone line without newline counts as none.     *)
read_lines == IF Len(out) = 1 /\ cut THEN 0 ELSE Len(out)

parse_without_reason(l) ==
  IF l.form = "none" THEN atf(l.word, NoArg) ELSE FormatError

parse_with_reason(l) ==
  IF l.form = "reason" THEN atf(l.word, NoArg) ELSE FormatError

(* The search for "):" is tested with the wrong variable, so "open" is       *)
(* accepted when n is a number.                                              *)
parse_with_reason_and_arg(l) ==
  IF l.form \in {"none", "junk"} THEN FormatError
  ELSE IF l.form \in {"arg", "argcolon", "open"} /\ l.arg = BadArg THEN FormatError
  ELSE IF l.form \in {"colon", "argcolon"} THEN OutOfRange
  ELSE atf(l.word, IF l.form \in {"arg", "open"} THEN l.arg ELSE NoArg)

parse_atf ==
  IF read_lines # 1 THEN FormatError
  ELSE LET l == out[1] IN
       CASE l.word \in AtfWithReason -> parse_with_reason(l)
         [] l.word \in AtfWithArg -> parse_with_reason_and_arg(l)
         [] l.word = "passed" -> parse_without_reason(l)
         [] OTHER -> FormatError

(* Defect: the end of the program is not compared with its claim.            *)
apply_atfTrusting(r, st) == r

(* atf_result::apply(): does the end of the program match its claim?         *)
apply_atf(r, st) ==
  LET broken == atf("broken", NoArg)
      unless(ok) == IF ok THEN r ELSE broken
      argMatches(n) == IF r.arg \in {NoArg, n} THEN r ELSE atf("failed", NoArg)
  IN IF st.how = "timeout" THEN unless(r.type = "expected_timeout")
     ELSE CASE r.type \in {"broken", "expected_death"} -> r
            [] r.type = "expected_exit" ->
                 IF st.how = "exited" THEN argMatches(st.code) ELSE broken
            [] r.type = "expected_signal" ->
                 IF st.how = "signaled" THEN argMatches(st.sig) ELSE broken
            [] r.type = "expected_timeout" -> broken
            [] r.type = "failed" -> unless(ExitedWith(st, ExitFailure))
            [] r.type \in {"expected_failure", "passed", "skipped"} ->
                 unless(ExitedWith(st, ExitSuccess))

externalize_atf(r) ==
  CASE r.type \in {"expected_death", "expected_exit", "expected_failure",
                   "expected_signal", "expected_timeout"} -> "expected_failure"
    [] OTHER -> r.type

(* Only format_error and runtime_error are caught; a timeout leaves "Unknown *)
(* result", which is broken, for apply().                                    *)
calculate_atf_result(st) ==
  LET loaded == parse_atf
      result == IF loaded = FormatError THEN atf("broken", NoArg) ELSE loaded
  IN IF loaded = OutOfRange THEN "escape" ELSE externalize_atf(apply_atf(result, st))
-----------------------------------------------------------------------------
(* engine/googletest_result.cpp: a line is "disabled", "run", "ok",          *)
(* "failed", "skipped" or "text".                                            *)
Scan0 == [status |-> "", context |-> FALSE, capture |-> FALSE, valid |-> FALSE, done |-> FALSE]

ScanLine(s, l) ==
  IF s.done THEN s
  ELSE CASE l = "disabled" ->
              [s EXCEPT !.status = "disabled", !.context = TRUE, !.valid = TRUE, !.done = TRUE]
         [] l = "run" -> [s EXCEPT !.capture = TRUE, !.context = FALSE]
         [] l = "ok" -> [s EXCEPT !.status = "successful", !.context = FALSE,
                                  !.capture = FALSE, !.valid = TRUE]
         [] l \in {"failed", "skipped"} ->
              [s EXCEPT !.status = l, !.capture = FALSE, !.valid = TRUE]
         [] OTHER -> [s EXCEPT !.context = @ \/ s.capture]

(* What the lines leave, one after the other.                                *)
scan(lines) ==
  LET after[n \in 0..Len(lines)] ==
        IF n = 0 THEN Scan0 ELSE ScanLine(after[n - 1], lines[n])
  IN after[Len(lines)]

(* With no context parse_without_reason() expects "skipped" or "successful"; *)
(* "skipped" always gets a context, "failed" may lack one.                   *)
parse_gtest ==
  LET s == scan(out)
  IN IF ~s.valid THEN "broken"
     ELSE IF s.status = "failed" /\ ~s.context THEN "abort"
     ELSE s.status

apply_gtest(r, st) ==
  CASE r \in {"broken", "abort"} -> r
    [] r = "failed" -> IF ExitedWith(st, ExitFailure) THEN r ELSE "broken"
    [] OTHER -> IF ExitedWith(st, ExitSuccess) THEN r ELSE "broken"

externalize_gtest(r) ==
  CASE r = "disabled" -> "skipped"
    [] r = "successful" -> "passed"
    [] OTHER -> r

calculate_googletest_result(st) == externalize_gtest(apply_gtest(parse_gtest, st))
-----------------------------------------------------------------------------
(* engine/tap_parser.cpp: a line is a plan (with or without SKIP), a result  *)
(* ("ok", "not ok", "todo" for an excused "not ok"), "bail" or "text".       *)
AllSkipped == <<1, 0>>
NoPlan == <<0, -1>>
ASSUME TapLinesAssumption ==
  \A l \in TapLines : l.kind \in {"plan", "skipplan"} => l.first \in Nat /\ l.second \in Nat

Tap0 == [plan |-> NoPlan, ok |-> 0, notok |-> 0, bailed |-> FALSE, error |-> FALSE]

try_parse_plan(s, l) ==
  LET plan == <<l.first, l.second>>
      bad == \/ s.plan # NoPlan
             \/ l.kind = "skipplan" /\ plan # AllSkipped
             \/ l.kind = "plan" /\ l.first > l.second
  IN IF bad THEN [s EXCEPT !.error = TRUE] ELSE [s EXCEPT !.plan = plan]

try_parse_result(s, l) ==
  CASE l.kind \in {"ok", "todo"} -> [s EXCEPT !.ok = @ + 1]
    [] l.kind = "not ok" -> [s EXCEPT !.notok = @ + 1]
    [] l.kind = "bail" -> [s EXCEPT !.bailed = TRUE]

TapLine(s, l) ==
  IF s.bailed \/ s.error THEN s
  ELSE CASE l.kind \in {"ok", "not ok", "todo", "bail"} -> try_parse_result(s, l)
         [] l.kind \in {"plan", "skipplan"} -> try_parse_plan(s, l)
         [] OTHER -> s

tally(lines) ==
  LET after[n \in 0..Len(lines)] ==
        IF n = 0 THEN Tap0 ELSE TapLine(after[n - 1], lines[n])
  IN after[Len(lines)]

(* The summary, or a load_error.                                             *)
parse_tap_output ==
  LET s == tally(out)
      expected == s.plan[2] - s.plan[1] + 1
      mismatch == s.plan # AllSkipped /\ expected # s.ok + s.notok
  IN [s EXCEPT !.error = @ \/ (~s.bailed /\ (s.plan = NoPlan \/ mismatch))]

tap_to_result(s, st) ==
  IF s.bailed THEN "failed"
  ELSE IF s.plan = AllSkipped THEN "skipped"
  ELSE IF s.notok > 0 THEN "failed"
  ELSE IF st.code = ExitSuccess THEN "passed" ELSE "broken"

compute_tap(st) ==
  IF st.how # "exited" THEN "broken"
  ELSE LET s == parse_tap_output IN IF s.error THEN "broken" ELSE tap_to_result(s, st)

(* engine/plain.cpp                                                          *)
compute_plain(st) ==
  IF st.how # "exited" THEN "broken"
  ELSE IF st.code = ExitSuccess THEN "passed" ELSE "failed"

compute_gtest(st) ==
  IF st.how = "timeout" THEN "broken" ELSE calculate_googletest_result(st)

compute_result(iface, st) ==
  CASE iface = "plain" -> compute_plain(st)
    [] iface = "tap" -> compute_tap(st)
    [] iface = "atf" -> calculate_atf_result(st)
    [] iface = "googletest" -> compute_gtest(st)
-----------------------------------------------------------------------------
(* Listing.  A list is [ok, names]; an error of any kind is Unlisted.          *)
Unlisted == [ok |-> FALSE, names |-> {}]
List(ns) == IF ns = {} THEN Unlisted ELSE [ok |-> TRUE, names |-> ns]

(* getline().good() is false for a last line without newline: it is dropped. *)
Complete == IF cut THEN Front(out) ELSE out

(* exec_list() of a program that cannot be executed ends with one of these.  *)
ExecFailures == {90, 91, 92}
Clean(st) == ExitedWith(st, ExitSuccess)

(* engine/atf_list.cpp: "ident" starts a test case, "prop" and "badprop" are *)
(* its properties, "blank" ends it; parse_atf_metadata() refuses "badprop"   *)
(* (an unknown name or an invalid value) and a property is given once.       *)
AtfList0 == [names |-> {}, cur |-> "none", props |-> {}, error |-> FALSE]

(* An "ident" among the properties is a property of that name: unknown.      *)
parse_properties(s, l) ==
  CASE l.kind = "blank" -> [s EXCEPT !.cur = "none"]
    [] l.kind = "prop" /\ l.name \notin s.props -> [s EXCEPT !.props = @ \cup {l.name}]
    [] OTHER -> [s EXCEPT !.error = TRUE]

AtfListLine(s, l) ==
  IF s.error THEN s
  ELSE IF s.cur # "none" THEN parse_properties(s, l)
  ELSE IF l.kind = "ident"
       THEN [s EXCEPT !.names = @ \cup {l.name}, !.cur = l.name, !.props = {}]
       ELSE [s EXCEPT !.error = TRUE]

(* What the lines after the two of the header leave.                         *)
atf_list(lines) ==
  LET after[n \in 0..Len(lines)] ==
        IF n <= 2 THEN AtfList0 ELSE AtfListLine(after[n - 1], lines[n])
  IN after[Len(lines)]

parse_atf_list ==
  LET header == Len(Complete) >= 2 /\ Complete[1].kind = "header" /\ Complete[2].kind = "blank"
      s == atf_list(Complete)
  IN IF header /\ ~s.error THEN List(s.names) ELSE Unlisted

(* engine/googletest_list.cpp: a "case" belongs to the last "suite" seen.    *)
GtestList0 == [names |-> {}, suite |-> "none", error |-> FALSE]

GtestListLine(s, l) ==
  IF s.error THEN s
  ELSE CASE l.kind = "case" /\ s.suite = "none" -> [s EXCEPT !.error = TRUE]
         [] l.kind = "case" /\ s.suite # "none" ->
              [s EXCEPT !.names = @ \cup {<<s.suite, l.name>>}]
         [] l.kind = "suite" -> [s EXCEPT !.suite = l.name]
         [] OTHER -> s

gtest_list(lines) ==
  LET after[n \in 0..Len(lines)] ==
        IF n = 0 THEN GtestList0 ELSE GtestListLine(after[n - 1], lines[n])
  IN after[Len(lines)]

parse_googletest_list ==
  LET s == gtest_list(Complete)
  IN IF s.error THEN Unlisted ELSE List(s.names)

(* Defect: how the listing program ended is not looked at.                   *)
parse_list_atfAnyStatus(st) == IF stderr THEN Unlisted ELSE parse_atf_list

(* parse_list() of the interfaces; plain and tap programs always list "main".*)
parse_list_atf(st) ==
  IF Clean(st) /\ ~stderr THEN parse_atf_list ELSE Unlisted

parse_list_googletest(st) ==
  IF Clean(st) THEN parse_googletest_list ELSE Unlisted

parse_list(iface, st) ==
  CASE iface = "atf" -> parse_list_atf(st)
    [] iface = "googletest" -> parse_list_googletest(st)
    [] OTHER -> List({"main"})
-----------------------------------------------------------------------------
Jobs == [iface : {"plain", "tap", "atf", "googletest"}, mode : {"test", "list"}]

Lines(j) ==
  CASE j = [iface |-> "atf", mode |-> "test"] -> AtfLines
    [] j = [iface |-> "googletest", mode |-> "test"] -> GtestLines
    [] j = [iface |-> "tap", mode |-> "test"] -> TapLines
    [] j = [iface |-> "atf", mode |-> "list"] -> AtfListLines
    [] j = [iface |-> "googletest", mode |-> "list"] -> GtestListLines
    [] OTHER -> {}

ProgramInit ==
  /\ job \in Jobs
  /\ out = <<>> /\ cut = FALSE /\ stderr = FALSE
  /\ status = Running
  /\ verdict = Pending /\ names = {}

(* The program writes a line, whole or up to where it will be killed.        *)
Write ==
  /\ status = Running /\ ~cut
  /\ Len(out) < IF job = [iface |-> "atf", mode |-> "test"] THEN MaxResultLines ELSE MaxLines
  /\ \E l \in Lines(job) : out' = Append(out, l)
  /\ cut' \in BOOLEAN
  /\ UNCHANGED <<job, stderr, status, verdict, names>>

(* exec_list() of plain and tap does not run the program: it exits.          *)
Statuses ==
  IF job.mode = "list" /\ job.iface \in {"plain", "tap"} THEN {Exited(ExitSuccess)}
  ELSE {Exited(c) : c \in ExitCodes} \cup {Signaled(s) : s \in Signals} \cup {TimedOut}

(* A program that cannot be executed has written nothing; a listing one may  *)
(* have complained on stderr.                                                *)
End ==
  /\ status = Running
  /\ status' \in {st \in Statuses :
       job.mode = "list" /\ st.how = "exited" /\ st.code \in ExecFailures => out = <<>>}
  /\ stderr' \in {e \in BOOLEAN : e => job.mode = "list"}
  /\ UNCHANGED <<job, out, cut, verdict, names>>

ComputeResult ==
  /\ status # Running /\ verdict = Pending /\ job.mode = "test"
  /\ verdict' = compute_result(job.iface, status)
  /\ UNCHANGED <<job, out, cut, stderr, status, names>>

ParseList ==
  /\ status # Running /\ verdict = Pending /\ job.mode = "list"
  /\ LET list == parse_list(job.iface, status)
     IN verdict' = (IF list.ok THEN "listed" ELSE "error") /\ names' = list.names
  /\ UNCHANGED <<job, out, cut, stderr, status>>

ProgramNext == Write \/ End \/ ComputeResult \/ ParseList

ProgramSpec == ProgramInit /\ [][ProgramNext]_program_vars
-----------------------------------------------------------------------------
Tested == verdict # Pending /\ job.mode = "test"
Listed == verdict = "listed" /\ job.mode = "list"
Has(kind) == \E i \in DOMAIN out : out[i].kind = kind
Count(kinds) == Cardinality({i \in DOMAIN out : out[i].kind \in kinds})

(* What each interface requires of a program before its test counts as good, *)
(* stated on the whole output and not in the parser's order.                 *)
AtfEarned ==
  /\ Len(out) = 1 /\ ~cut
  /\ LET l == out[1]
         claim == \/ l.form = "reason"
                  \/ l.form \in {"arg", "open", "blank"} /\ l.word \in AtfWithArg /\ l.arg # BadArg
         agrees(n) == l.form \in {"arg", "open"} => l.arg = n
     IN \/ l.word = "passed" /\ l.form = "none" /\ Clean(status)
        \/ l.word \in {"skipped", "expected_failure"} /\ claim /\ Clean(status)
        \/ l.word = "expected_death" /\ claim /\ status # TimedOut
        \/ l.word = "expected_timeout" /\ claim /\ status = TimedOut
        \/ l.word = "expected_exit" /\ claim /\ status.how = "exited" /\ agrees(status.code)
        \/ l.word = "expected_signal" /\ claim /\ status.how = "signaled" /\ agrees(status.sig)

GtestEarned ==
  LET marks == {i \in DOMAIN out : out[i] \in {"ok", "failed", "skipped", "disabled"}}
  IN /\ Clean(status)
     /\ marks # {}
     /\ \/ \E i \in marks : out[i] = "disabled"
        \/ \E i \in marks : out[i] # "failed" /\ \A j \in marks : j <= i

TapEarned ==
  LET results == Count({"ok", "not ok", "todo"})
      plans == {i \in DOMAIN out : out[i].kind \in {"plan", "skipplan"}}
  IN /\ status.how = "exited"
     /\ ~Has("bail") /\ Cardinality(plans) = 1
     /\ LET p == out[CHOOSE i \in plans : TRUE]
        IN \/ p.kind = "skipplan" /\ p.first = 1 /\ p.second = 0
           \/ /\ p.kind = "plan" /\ p.first <= p.second
              /\ results = p.second - p.first + 1
              /\ ~Has("not ok")
              /\ Clean(status)

(* A test is reported as good exactly when its program earned it: whatever   *)
(* the order of its lines and wherever it was killed, its whole output and   *)
(* its end agree on a good result (compute_result() of the interfaces).      *)
GoodIsEarned ==
  Tested => (good(verdict) <=>
    CASE job.iface = "plain" -> Clean(status)
      [] job.iface = "atf" -> AtfEarned
      [] job.iface = "googletest" -> GtestEarned
      [] job.iface = "tap" -> TapEarned)

(* A program that died of a signal or timed out has not failed, it is broken *)
(* (or was expected to die): "failed" is a legitimate result and these are   *)
(* not.  The exception is an ATF test that dies of another signal than the   *)
(* one it announced.                                                         *)
DeathIsBroken ==
  Tested /\ status.how # "exited" /\ verdict \notin {"escape", "abort"} =>
    \/ verdict = "broken"
    \/ job.iface = "atf" /\ verdict = "expected_failure"
    \/ job.iface = "atf" /\ status.how = "signaled" /\ out[1].word = "expected_signal"

(* A list that is accepted names exactly the test cases announced on the     *)
(* complete lines of a program that exited cleanly; it is never empty.       *)
ListIsComplete ==
  Listed /\ job.iface \in {"atf", "googletest"} =>
    LET suite(i) == {k \in 1..i : Complete[k].kind = "suite"}
        named(i) == IF job.iface = "atf" THEN Complete[i].name
                    ELSE <<Complete[CHOOSE k \in suite(i) : \A m \in suite(i) : m <= k].name,
                           Complete[i].name>>
    IN /\ Clean(status)
       /\ names # {}
       /\ names =
            {named(i) : i \in {k \in DOMAIN Complete :
               Complete[k].kind = IF job.iface = "atf" THEN "ident" ELSE "case"}}
=============================================================================
