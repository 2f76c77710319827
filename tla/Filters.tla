------------------------------- MODULE Filters -------------------------------
(* engine/filters.cpp: the filters that the user gives in the command line.  *)
(* A filter [program, case] without a test case has case = "".               *)
EXTENDS Paths

NoColon == "<none>"
BadFilter == [program |-> <<>>, case |-> ""]
BadFilters == {BadFilter}

(* test_filter::parse(), given what lies before and after the first colon of *)
(* the argument; an argument without one has case = NoColon.                 *)
parse_filter(arg) ==
  IF arg.program = <<>> \/ arg.case = "" THEN BadFilter
  ELSE IF is_absolute(normalize(arg.program)) THEN BadFilter
  ELSE   [program |-> normalize(arg.program),
                 case |-> IF arg.case = NoColon THEN "" ELSE arg.case]

matches_test_program(f, path) ==
  f.program = path \/ (f.case = "" /\ is_parent_of(f.program, path))

matches_test_case(f, path, case) ==
  matches_test_program(f, path) /\ f.case \in {"", case}

contains(f, g) == f = g \/ (f.case = "" /\ is_parent_of(f.program, g.program))

(* Defect: only equal filters count as overlapping.                          *)
check_disjoint_filtersEqual(fs) == \A f, g \in fs : f # g => ~(f = g)

check_disjoint_filters(fs) == \A f, g \in fs : f # g => ~contains(f, g)

(* cli::parse_filters(): the set of the filters, or an error.                *)
parse_filters(args) ==
  LET parsed == {parse_filter(args[i]) : i \in DOMAIN args}
      repeated == Cardinality(parsed) < Len(args)
  IN IF BadFilter \in parsed \/ repeated \/ ~check_disjoint_filters(parsed)
     THEN BadFilters ELSE parsed

match_test_program(fs, path) == fs = {} \/ \E f \in fs : matches_test_program(f, path)

(* operator<() between filters that match the same test case: the programs   *)
(* of both begin its path, and no test case sorts before any.                *)
Precedes(f, g) ==
  Len(f.program) < Len(g.program) \/ (f.program = g.program /\ f.case = "")

(* The set with the first filter that matches, or the empty set.             *)
match_test_case(fs, path, case) ==
  LET matching == {f \in fs : matches_test_case(f, path, case)}
  IN {f \in matching : \A g \in matching : f = g \/ Precedes(f, g)}
=============================================================================
