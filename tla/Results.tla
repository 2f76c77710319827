------------------------------- MODULE Results -------------------------------
(* A results file: the tables of store/schema_v3.sql, the writer of "kyua    *)
(* test" (store/write_backend.cpp, write_transaction.cpp) and the reader of  *)
(* the reports (read_backend.cpp, read_transaction.cpp), as two processes    *)
(* that may have the file open at the same time.                             *)
(*                                                                           *)
(* SQLite is external: a transaction is invisible until it commits and is    *)
(* lost if its process dies; a reader keeps its lock from its first query to *)
(* its end, and a commit meanwhile fails as no busy timeout is set.          *)
EXTENDS Metadata, Filters, Reports

CONSTANTS
  Programs,    \* test programs: [interface, path, root, suite, md, cases]
  Endings,     \* how tests end: [type, reason, out, err]; an empty file is ""
  Environment, \* the variables of the context
  Commands,    \* reports: [kind, types, verbose, args]
  Rank,        \* the place of absolute paths and test cases in the sort order
  MaxResults,  \* bound: results put
  MaxRuns      \* bound: times that the writer or the reader is started

VARIABLES
  file,        \* the tables that are committed
  writer,      \* the open transaction: [open, db, ids]
  reader,      \* the report: [phase, command, filters, used, db, rows, cache]
  seen, report,\* the results given to the hooks, and what they made of them
  log,         \* history: the results put in the open or committed transaction
  runs

results_vars == <<file, writer, reader, seen, report, log, runs>>

CurrentVersion == 3
Null == "<null>"
Cwd == <<Root, "w">>
NotFound == 0

(* An empty file: without tables every query fails.                          *)
NoTables == [versions |-> {}, contexts |-> <<>>]

(* The tables, rows of AUTOINCREMENT ones in their order.                    *)
Schema ==
  [versions |-> {CurrentVersion}, contexts |-> <<>>, env_vars |-> <<>>, metadatas |-> {},
   programs |-> <<>>, cases |-> <<>>, results |-> {}, files |-> <<>>, case_files |-> {}]

empty_database(db) == db = NoTables

(* The highest version, or an integrity_error.                               *)
fetch_latest(db) ==
  IF db.versions = {} THEN NotFound
  ELSE CHOOSE v \in db.versions : \A w \in db.versions : w <= v
-----------------------------------------------------------------------------
(* store/dbtypes.cpp and the binding of what may be empty.                   *)
bind_test_result_type(type) == type
bind_optional_string(str) == IF str = "" THEN Null ELSE str

column_test_result_type(text) ==
  IF text \in {"passed", "broken", "expected_failure", "failed", "skipped"}
  THEN text ELSE "invalid"

(* MAX(ROWID): no row is ever deleted, so it is their number.                *)
last_rowid(rows) == Cardinality(rows)

(* The tables with the metadata in full, and its identifier.                 *)
put_metadata(db, md) ==
  LET id == last_rowid(db.metadatas)
      props == to_properties(md)
      rows == {[id |-> id, prop |-> p, value |-> props[p]] : p \in DOMAIN props}
  IN <<[db EXCEPT !.metadatas = @ \cup rows], id>>

put_env_vars(db, env) == [db EXCEPT !.env_vars = env @@ @]

put_context(db, cwd, env) == put_env_vars([db EXCEPT !.contexts = Append(@, cwd)], env)

absolute_path(p) == Join(p.root, p.path)

put_test_program(db, p) ==
  LET put == put_metadata(db, p.md)
      row == [path |-> p.path, root |-> p.root, absolute_path |-> absolute_path(p),
              suite |-> p.suite, interface |-> p.interface, metadata_id |-> put[2]]
  IN [put[1] EXCEPT !.programs = Append(@, row)]

(* get_raw_metadata() is what is stored.                                     *)
put_test_case(db, p, name, program_id) ==
  LET put == put_metadata(db, p.cases[name])
      row == [program_id |-> program_id, name |-> name, metadata_id |-> put[2]]
  IN [put[1] EXCEPT !.cases = Append(@, row)]

put_result(db, case_id, verdict, start, end) ==
  [db EXCEPT !.results = @ \cup
     {[case_id |-> case_id, type |-> bind_test_result_type(verdict.type),
       reason |-> bind_optional_string(verdict.reason), start |-> start, end |-> end]}]

(* The tables with the file and its identifier; an empty file is not stored. *)
put_file(db, contents) ==
  IF contents = "" THEN <<db, NotFound>>
  ELSE <<[db EXCEPT !.files = Append(@, contents)], Len(db.files) + 1>>

put_test_case_file(db, case_id, name, contents) ==
  LET put == put_file(db, contents)
  IN IF put[2] = NotFound THEN db
     ELSE [put[1] EXCEPT !.case_files =
             @ \cup {[case_id |-> case_id, name |-> name, file_id |-> put[2]]}]
-----------------------------------------------------------------------------
get_metadata_row(db, id) ==
  LET rows == {r \in db.metadatas : r.id = id}
  IN [p \in {r.prop : r \in rows} |-> (CHOOSE r \in rows : r.prop = p).value]

get_test_cases(db, program_id) ==
  LET ids == {i \in DOMAIN db.cases : db.cases[i].program_id = program_id}
      RowOf(n) == CHOOSE i \in ids : db.cases[i].name = n
  IN [n \in {db.cases[i].name : i \in ids} |->
        get_metadata_row(db, db.cases[RowOf(n)].metadata_id)]

get_test_program(db, id) ==
  LET row == db.programs[id]
  IN [interface |-> row.interface, path |-> row.path, root |-> row.root, suite |-> row.suite,
      md |-> get_metadata_row(db, row.metadata_id), cases |-> get_test_cases(db, id)]

get_env_vars(db) == db.env_vars
get_context(db) == [cwd |-> Head(db.contexts), env |-> get_env_vars(db)]

get_file(db, file_id) == db.files[file_id]

(* What is not stored was empty.                                             *)
get_test_case_file(db, case_id, name) ==
  LET found == {f \in db.case_files : f.case_id = case_id /\ f.name = name}
  IN IF found = {} THEN "" ELSE get_file(db, (CHOOSE f \in found : TRUE).file_id)

integrity_error == [type |-> "invalid", reason |-> ""]

(* A passed result has no reason and the others must have one.               *)
parse_result(row) ==
  LET type == column_test_result_type(row.type)
  IN CASE type = "passed" /\ row.reason = Null -> [type |-> type, reason |-> ""]
       [] type \notin {"passed", "invalid"} /\ row.reason # Null -> [type |-> type, reason |-> row.reason]
       [] OTHER -> integrity_error

(* ORDER BY absolute_path, name.                                             *)
SortKey(db, r) ==
  LET case == db.cases[r.case_id]
  IN <<Rank[db.programs[case.program_id].absolute_path], Rank[<<case.name>>]>>

get_results(db) ==
  SetToSortSeq(db.results,
    LAMBDA r, s : LET a == SortKey(db, r) b == SortKey(db, s)
                  IN a[1] < b[1] \/ (a[1] = b[1] /\ (a[2] < b[2] \/ (a[2] = b[2] /\ r.case_id < s.case_id))))
-----------------------------------------------------------------------------
Closed == [open |-> FALSE, db |-> NoTables, ids |-> <<>>]
NoCache == [id |-> 0, program |-> Null]
Idle ==
  [phase |-> "idle", command |-> Null, filters |-> {}, used |-> {}, db |-> NoTables,
   rows |-> <<>>, cache |-> NoCache, exit |-> Null]

ResultsInit ==
  /\ file = NoTables /\ writer = Closed /\ reader = Idle
  /\ seen = <<>> /\ report = NewReport /\ log = {} /\ runs = 0

open_rw(db) == empty_database(db)

(* open_rw() makes the tables in a transaction of its own; run_tests then    *)
(* starts the one of the results with the context.                           *)
OpenWriter ==
  /\ runs < MaxRuns /\ ~writer.open /\ open_rw(file)
  /\ file' = Schema
  /\ writer' = [open |-> TRUE, db |-> put_context(Schema, Cwd, Environment), ids |-> <<>>]
  /\ log' = {}
  /\ runs' = runs + 1
  /\ UNCHANGED <<reader, seen, report>>

(* A test case of a program, which is stored with its first one.             *)
PutTest ==
  /\ writer.open /\ Cardinality(log) < MaxResults
  /\ \E p \in Programs, ending \in Endings :
     \E name \in DOMAIN p.cases :
       LET start == Cardinality(log) + 1
           known == p \in DOMAIN writer.ids
           db1 == IF known THEN writer.db ELSE put_test_program(writer.db, p)
           ids == IF known THEN writer.ids ELSE (p :> Len(db1.programs)) @@ writer.ids
           db2 == put_test_case(db1, p, name, ids[p])
           id == Len(db2.cases)
           verdict == [type |-> ending.type, reason |-> ending.reason]
           db3 == put_result(db2, id, verdict, start, 2 * start)
           db4 == put_test_case_file(db3, id, "__STDOUT__", ending.out)
       IN /\ \A e \in log : ~(e.program = p /\ e.case = name)
          /\ writer' = [writer EXCEPT !.ids = ids,
                                      !.db = put_test_case_file(db4, id, "__STDERR__", ending.err)]
          /\ log' = log \cup {[program |-> p, case |-> name, result |-> verdict,
                               start |-> start, end |-> 2 * start, out |-> ending.out, err |-> ending.err]}
  /\ UNCHANGED <<file, reader, seen, report, runs>>

Locked == reader.phase = "scanning"

(* write_transaction::commit().                                              *)
Commit ==
  /\ writer.open /\ ~Locked
  /\ file' = writer.db
  /\ writer' = Closed
  /\ UNCHANGED <<reader, seen, report, log, runs>>

(* The transaction is rolled back: by its destructor, after an exception, or *)
(* by SQLite, when the process died.  A commit that meets a reader ends here.*)
Rollback ==
  /\ writer.open
  /\ writer' = Closed
  /\ log' = {}
  /\ UNCHANGED <<file, reader, seen, report, runs>>

Fail(phase) == reader' = [reader EXCEPT !.phase = phase, !.exit = "failure"]

(* The arguments of the report and read_backend::open_ro().                  *)
OpenReader ==
  /\ runs < MaxRuns /\ reader.phase = "idle"
  /\ \E c \in Commands :
       LET filters == parse_filters(c.args)
       IN IF filters = BadFilters \/ fetch_latest(file) # CurrentVersion
          THEN Fail("failed")
          ELSE reader' = [Idle EXCEPT !.phase = "open", !.command = c, !.filters = filters]
  /\ seen' = <<>> /\ report' = NewReport
  /\ runs' = runs + 1
  /\ UNCHANGED <<file, writer, log>>

(* get_context() takes the lock; an unfinished run has left no context.      *)
GetContext ==
  /\ reader.phase = "open"
  /\ IF file.contexts = <<>> THEN Fail("failed")
     ELSE reader' = [reader EXCEPT !.phase = "scanning", !.db = file, !.rows = get_results(file)]
  /\ report' = IF file.contexts = <<>> THEN report
               ELSE got_context(reader.command.kind, report, get_context(file), reader.command.verbose)
  /\ UNCHANGED <<file, writer, seen, log, runs>>

(* Defect: the cache is used for whatever program comes next.                *)
test_programStale(id) ==
  IF reader.cache.id # 0 THEN reader.cache.program ELSE get_test_program(reader.db, id)

(* results_iterator::test_program() keeps the last program it loaded.        *)
test_program(id) ==
  IF reader.cache.id = id THEN reader.cache.program ELSE get_test_program(reader.db, id)

(* One turn of the loop of scan_results::drive().                            *)
ScanRow ==
  /\ reader.phase = "scanning" /\ reader.rows # <<>>
  /\ LET row == Head(reader.rows)
         case == reader.db.cases[row.case_id]
         p == test_program(case.program_id)
         found == match_test_case(reader.filters, p.path, case.name)
         e == [program |-> p, case |-> case.name, result |-> parse_result(row),
               start |-> row.start, end |-> row.end,
               out |-> get_test_case_file(reader.db, row.case_id, "__STDOUT__"),
               err |-> get_test_case_file(reader.db, row.case_id, "__STDERR__")]
         next == [reader EXCEPT !.rows = Tail(@), !.used = @ \cup found,
                                !.cache = [id |-> case.program_id, program |-> p]]
     IN IF match_test_program(reader.filters, p.path) /\ (reader.filters = {} \/ found # {})
        THEN IF e.result = integrity_error THEN Fail("failed") /\ UNCHANGED <<seen, report>>
             ELSE /\ reader' = next
                  /\ seen' = Append(seen, e)
                  /\ report' = got_result(reader.command.kind, report, e, reader.command.types,
                                          reader.command.verbose)
        ELSE reader' = next /\ UNCHANGED <<seen, report>>
  /\ UNCHANGED <<file, writer, log, runs>>

(* report_unused_filters() decides the exit code.                            *)
EndScan ==
  /\ reader.phase = "scanning" /\ reader.rows = <<>>
  /\ report' = end_report(reader.command.kind, report, reader.command.types)
  /\ reader' = [reader EXCEPT !.phase = "done",
                   !.exit = IF reader.filters \subseteq reader.used THEN "success" ELSE "failure"]
  /\ UNCHANGED <<file, writer, seen, log, runs>>

CloseReader ==
  /\ reader.phase \in {"done", "failed"}
  /\ reader' = Idle
  /\ UNCHANGED <<file, writer, seen, report, log, runs>>

ResultsNext ==
  \/ OpenWriter \/ PutTest \/ Commit \/ Rollback
  \/ OpenReader \/ GetContext \/ ScanRow \/ EndScan \/ CloseReader
-----------------------------------------------------------------------------
Done == reader.phase = "done"

Selects(fs, e) == fs = {} \/ \E f \in fs : matches_test_case(f, e.program.path, e.case)
Selected == {e \in log : Selects(reader.filters, e)}

(* What a stored test reads as: its metadata is fully specified.             *)
Stored(e) ==
  [program |-> [e.program EXCEPT !.md = to_properties(@), !.cases = <<>>], case |-> e.case,
   raw |-> to_properties(e.program.cases[e.case]), result |-> e.result,
   start |-> e.start, end |-> e.end, out |-> e.out, err |-> e.err]
Read(e) ==
  [program |-> [e.program EXCEPT !.cases = <<>>], case |-> e.case,
   raw |-> e.program.cases[e.case], result |-> e.result,
   start |-> e.start, end |-> e.end, out |-> e.out, err |-> e.err]

(* A report reads every selected result of the run that wrote the file, each *)
(* once and with its own program, metadata and output, or none at all.       *)
ReadsBack ==
  Done => /\ \A i \in DOMAIN seen : seen[i].case \in DOMAIN seen[i].program.cases
          /\ {Read(seen[i]) : i \in DOMAIN seen} = {Stored(e) : e \in Selected}
          /\ Len(seen) = Cardinality(Selected)

SumOf(es) == FoldSet(LAMBDA e, s : s + (e.end - e.start), 0, es)
OfType(es, types) == {e \in es : e.result.type \in types}
Ids(es) == {format_test_case_id(e) : e \in es}

(* The totals of the console and HTML reports count every selected result    *)
(* whatever types are listed, times cover the results each report covers,    *)
(* every listed result has a page (perhaps shared) or an entry, and a JUnit  *)
(* report has as many failures and errors as there are bad results.          *)
ReportExact ==
  Done =>
    LET kind == reader.command.kind
        types == reader.command.types
        timed == IF kind = "html" THEN OfType(Selected, types) ELSE Selected
        bad == OfType(Selected, {"failed", "broken"})
    IN /\ reader.exit = "success" <=>
            \A f \in reader.filters : \E e \in log : matches_test_case(f, e.program.path, e.case)
       /\ kind = "junit" =>
            Cardinality({i \in DOMAIN report.nodes :
                           report.nodes[i].status \in {"failure", "error"}}) = Cardinality(bad)
       /\ kind # "junit" =>
            /\ \A t \in Types : report.count[t] = Cardinality(OfType(Selected, {t}))
            /\ report.runtime = SumOf(timed)
            /\ timed # {} => /\ \A e \in timed : report.start <= e.start /\ report.end >= e.end
                             /\ \E e \in timed : report.start = e.start
            /\ \A t \in Types : ToSet(report.listed[t]) =
                  IF t \in types THEN Ids(OfType(Selected, {t})) ELSE {}
       /\ report.context = IF kind = "console" /\ ~reader.command.verbose THEN NoContext
                           ELSE [cwd |-> Cwd, env |-> Environment]
       /\ kind = "html" =>
            DOMAIN report.pages = {test_case_filename(id) : id \in Ids(timed)}
=============================================================================
