------------------------------- MODULE Reports -------------------------------
(* What the hooks of drivers/scan_results.cpp make of the results of a file: *)
(* the console (cli/cmd_report.cpp), HTML (cli/cmd_report_html.cpp) and      *)
(* JUnit (drivers/report_junit.cpp) reports, without their wording.          *)
EXTENDS Paths, TLC

CONSTANTS
  Atoms        \* the pieces of a name between its underscores, if several

Types == {"broken", "expected_failure", "failed", "passed", "skipped"}
NoTime == 0

NoContext == [cwd |-> <<>>, env |-> <<>>]

NewReport ==
  [context |-> NoContext, start |-> NoTime, end |-> NoTime, runtime |-> 0, count |-> [t \in Types |-> 0],
   listed |-> [t \in Types |-> <<>>], details |-> <<>>, pages |-> <<>>, nodes |-> <<>>]

format_test_case_id(e) == [program |-> e.program.path, case |-> e.case]

Pieces(name) == IF name \in DOMAIN Atoms THEN Atoms[name] ELSE <<name>>

(* Slashes and the colon become underscores.                                 *)
test_case_filename(id) ==
  FlattenSeq([i \in DOMAIN id.program |-> Pieces(id.program[i])]) \o Pieces(id.case)

(* The first start, the last end and the sum of the durations.               *)
AddTimes(r, e) ==
  [r EXCEPT !.start = IF @ = NoTime \/ e.start < @ THEN e.start ELSE @,
            !.end = IF @ = NoTime \/ e.end > @ THEN e.end ELSE @,
            !.runtime = @ + (e.end - e.start)]

(* The console only shows the context in detail.                             *)
got_context(kind, r, context, verbose) ==
  IF kind = "console" /\ ~verbose THEN r ELSE [r EXCEPT !.context = context]

AddCount(r, e) == [r EXCEPT !.count[e.result.type] = @ + 1]
AddListed(r, e) == [r EXCEPT !.listed[e.result.type] = Append(@, format_test_case_id(e))]

(* Details are for the types that the user asked for; the rest is for all.   *)
console_got_result(r, e, types, verbose) ==
  LET r1 == AddListed(AddCount(AddTimes(r, e), e), e)
  IN IF verbose /\ e.result.type \in types
     THEN [r1 EXCEPT !.details = Append(@, format_test_case_id(e))] ELSE r1

(* end(): the results of the types asked for, then the totals.               *)
console_end(r, types) ==
  [r EXCEPT !.listed = [t \in Types |-> IF t \in types THEN @[t] ELSE <<>>]]

(* Defect: results of the types left out are not counted either.             *)
html_got_resultSkip(r, e, types) ==
  IF e.result.type \notin types THEN r
  ELSE LET id == format_test_case_id(e)
       IN [AddTimes(AddListed(AddCount(r, e), e), e) EXCEPT !.pages = (test_case_filename(id) :> id) @@ @]

(* The types left out only count; the others get a page of their own, unless *)
(* another test case has the same file name.                                 *)
html_got_result(r, e, types) ==
  LET id == format_test_case_id(e)
      counted == AddCount(r, e)
  IN IF e.result.type \notin types THEN counted
     ELSE [AddTimes(AddListed(counted, e), e) EXCEPT !.pages = (test_case_filename(id) :> id) @@ @]

junit_node(type) ==
  CASE type = "failed" -> "failure"
    [] type \in {"expected_failure", "passed"} -> "none"
    [] type = "skipped" -> "skipped"
    [] OTHER -> "error"

(* An empty stdout has no node; an empty stderr is said to be so.            *)
junit_got_result(r, e) ==
  [r EXCEPT !.nodes = Append(@,
     [id |-> format_test_case_id(e), status |-> junit_node(e.result.type),
      reason |-> IF e.result.type = "passed" THEN "" ELSE e.result.reason,
      out |-> e.out, err |-> IF e.err = "" THEN "<EMPTY>" ELSE e.err,
      time |-> e.end - e.start])]

got_result(kind, r, e, types, verbose) ==
  CASE kind = "console" -> console_got_result(r, e, types, verbose)
    [] kind = "html" -> html_got_result(r, e, types)
    [] kind = "junit" -> junit_got_result(r, e)

end_report(kind, r, types) == IF kind = "console" THEN console_end(r, types) ELSE r
=============================================================================
