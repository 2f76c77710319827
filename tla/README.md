# Formal models of Kyua

TLA+ modules, model-checking configurations and machine-checked proofs about
Kyua, the test runner of FreeBSD.  The models are translated from the C++
sources under `src/`; `PROJECT.json` maps every definition to the lines it
stands for.

## 1. The system

Kyua reads Kyuafiles, enumerates test cases, runs them as isolated subprocesses
(several at a time), chains cleanup routines after them, and stores the results
in a SQLite file from which reports are made.  It is a single-threaded program,
but not a sequential one: signal handlers (SIGALRM for deadlines, SIGHUP, SIGINT
and SIGTERM for interrupts) run between any two of its steps, its children end
whenever they like, the kernel gives their process identifiers to others, and
other processes work on the same directories and results files.

### Inventory

| Component | State | Operations | Talks to |
|---|---|---|---|
| timers (`utils/signals/timer.cpp`) | `globals`: buckets of active timers, the activation of the one interval timer, old disposition of SIGALRM | constructor, `unprogram()`, SIGALRM handler | kernel clock, interrupts (masking) |
| interrupts (`utils/signals/interrupts.cpp`) | `fired_signal`, `pids_to_kill`, nesting count, old mask | handler, `check_interrupt()`, inhibiter sections, add and remove a PID | children and waiting |
| children and waiting (`utils/process/child.cpp`, `operations.cpp`) | none of their own | `fork_files()`, `wait()`, `wait_any()`, `terminate_group()` | interrupts, kernel |
| executor (`utils/process/executor.cpp`) | `all_exec_handles`, `stale_exec_handles`, a reference count per control directory, the directories on disk, a deadline per subprocess | spawn, spawn followup, wait, reap, exit-handle cleanup, cleanup of everything | timers, children, file system |
| scheduler (`engine/scheduler.cpp`) | `all_exec_data` with the two "needs cleanup" flags, the exit handle and the result so far of each test | spawn, `wait_any()`, `list_tests()`, result handles, orderly cleanup, destructor | executor, test interfaces, stack traces |
| children of a test (`utils/process/isolation.cpp`, `engine/execenv`, `os/freebsd`) | credentials, session, directory, environment; jails in the kernel | isolate, check requirements, make, enter and remove a jail, exec | scheduler (exit code, skipped cookie) |
| driver run_tests (`drivers/run_tests.cpp`) | slots in flight by PID, exclusive tests put off, cache of program rows | `drive()` | scheduler, scanner, store |
| Kyuafiles, requirements (`engine/kyuafile.cpp`, `requirements.cpp`) | the stack of files being loaded, current test suite, programs so far | `syntax()`, `test_suite()`, `include()`, definitions; `check_reqs()` | Lua, config, scheduler |
| scanner, filters (`engine/scanner.cpp`, `filters.cpp`) | queues of programs and test cases, used filters | yield, done, unused filters | kyuafile, scheduler (listing) |
| test interfaces (`engine/atf*.cpp`, `plain.cpp`, `tap*.cpp`, `googletest*.cpp`) | position in the output | run in the child, parse lists, compute a result from exit status and output | scheduler |
| configuration (`cli/config.cpp`, `engine/config.cpp`, `utils/config`) | tree of typed values, the Lua globals | load a script, overrides, look up | Lua, requirements |
| metadata (`model/metadata.cpp`) | trees of properties shared by builders and metadata, default tree | set, add, build, apply overrides | kyuafile, interfaces, store |
| store (`store/*.cpp`) | tables of a results file, the store directory, an old database and its backup | put and read rows, commit, find the latest file, migrate | drivers, SQLite |
| SQLite layer (`utils/sqlite`) | connection, transactions, statements with bindings and cached columns | open, copy, close, begin, commit, roll back, bind, step, read | store |
| reports (`drivers/scan_results.cpp`, `report_junit.cpp`, `cli/cmd_report*.cpp`) | counters, lists of results by type, pages | begin, got context, got result, end | store |
| front end (`cli`, `utils/cmdline`) | parsed command line, exit code | parse, dispatch, run a command, print | everything above |
| text (`utils/text`), file system (`utils/fs`), dates (`utils/datetime.cpp`) | parser of templates; none; none | refill, table, instantiate; `mkdir_p()`, `rm_r()`, cleaners; arithmetic | everything above |

Hard to test, and what the models are for: the interleaving of signal handlers
with masked sections; timers that share one interval timer; PIDs that are reused
while a handle refers to them; failures of `fork(2)` and of the removal of
directories half-way; the chain body - cleanup - execution environment, broken at
any point by an interrupt; results that come back in any order and are matched by
PID; programs that die while they write; files that are read while they are
written, disks that fill up, and migrations that crash.  The list, with lines, is
under `hazards` in `PROJECT.json`.

What makes each part correct:

* timers: a callback runs at most once and never early; an expired timer fires or
  is cancelled.
* interrupts and children: a child is registered for killing in the same instant
  it is created, as far as any handler can tell; an interrupt wakes every wait.
* executor: the reference count of a directory is exact and the directory lives
  as long as its owners; every subprocess is found under its PID; waits return;
  nothing is left at the end.
* scheduler: a good verdict means every routine the test owed succeeded; an
  abrupt end still attempts the pending cleanups; a started test is reported.
* driver: parallelism and exclusivity are respected; what is committed is
  complete and every row has the result of its own test; the run ends.
* loading: the programs are those the files define, each in its own suite and
  directory; exactly the tests that the filters match are yielded; a test runs
  only where its requirements are met.
* interfaces: a good verdict was earned by a program that ended as it said it
  would; a violent end is broken; a list that parses is complete.
* children: a test program runs fully isolated, where it should, or not at all;
  no jail is forgotten.
* configuration and metadata: the last assignment wins, in Lua and in the tree;
  metadata that was built changes only through its own builder, which the callers
  drop.
* store: what was committed is read back, and nothing else; reports count and show
  each result once; data survives a migration; the latest file of a suite is its own
  unless another suite has its name or one that its pattern matches.
* front end: success means that all that was asked for was done; text fits the
  screen; templates expand as they are structured.

## 2. Modules

| Module | Models | Kind |
|---|---|---|
| `Timers`, `Timers_proofs` | `timer.cpp` | component, proofs |
| `Clock`, `Datetime` | `timer.cpp` and the deadlines on a clock that is stepped; `datetime.cpp` | component, algorithms |
| `ProcessTable` | what interrupts, fork and wait promise together, and the life of a PID | abstract specification, extended by the next two |
| `Interrupts`, `Interrupts_proofs` | the steps of `interrupts.cpp`, `child.cpp`, `operations.cpp` | component that implements `ProcessTable`, proofs |
| `Executor`, `Executor_proofs` | `executor.cpp`, `executor.ipp`, `deadline_killer.cpp`, on top of `ProcessTable` | component, proofs |
| `TestRun` | what the scheduler promises to its clients | abstract specification |
| `Scheduler`, `Scheduler_proofs` | `scheduler.cpp` and the throwing part of `stacktrace.cpp` | component that implements `TestRun`, proofs |
| `RunTests`, `RunTests_proofs` | `run_tests.cpp` with its transaction, above the promise of the scheduler | component, proofs |
| `Loading` | `kyuafile.cpp`, `scanner.cpp`, `list_tests.cpp`, `requirements.cpp` | component |
| `Paths`, `Filters` | `fs/path.cpp`, `engine/filters.cpp` | algorithms |
| `Metadata`, `MetadataObjects` | `model/metadata.cpp`: values, and the objects that share trees | algorithms, component |
| `TestInterfaces` | results and lists of the four interfaces | component |
| `Isolation` | the children between `fork(2)` and `execv(2)`, and jails | component |
| `Engine_proofs` | | proofs about `Isolation`, `TestInterfaces`, `Loading` and the modules below it |
| `ConfigTree`, `Config` | `utils/config`, `cli/config.cpp`, `engine/config.cpp` | algorithms, component |
| `Files` | `mkdir_p()`, `rm_r()`, auto cleaners | component |
| `Libraries_proofs` | | proofs about `Clock`, `MetadataObjects`, `Files` and `Config` |
| `Results`, `Reports` | the tables of a results file with writer and reader; the console, HTML and JUnit reports | component, algorithms |
| `Layout`, `Migration` | `layout.cpp`, `migrate.cpp` | components |
| `Sqlite` | `utils/sqlite` | component |
| `Store_proofs` | | proofs about `Sqlite` and `Migration` |
| `Cmdline`, `Frontend` | `utils/cmdline`, `cli/main.cpp` and the commands | algorithms, component |
| `Screen` | `cmdline/ui.cpp`, `text/operations.cpp`, `text/table.cpp` | algorithms in one action per call |
| `Templates`, `TemplateMeaning` | `text/templates.cpp`, and what a template means | component, reference definition |
| `MC*` | instances for TLC | |

Definitions that begin with a comment "Defect:" are mutated forms of the
definition after them.  They are used by no specification; `PROJECT.json` pairs
each with the property that must fail when it takes the place of the original.

`MCEngine`, `MCLibraries`, `MCStore` and `MCFrontend` put several components in
one run: a variable `part`, chosen in the initial state, says which of them takes
the steps.  The components of a run share no state there; each is checked against
all its own behaviours.

### Timers, Clock

`active` is the content of the buckets of `_all_timers`, `activation` is
`_timer_activation`, `itimer` what is left of `ITIMER_REAL`.  The constructor and
`unprogram()` run with SIGALRM blocked, but the clock runs on, so each is split
where the clock may advance (`CtorEnter`, then `NewGlobalState` or `ProgramNew`,
then `Unmask`; `UnprogramEnter`, `UnprogramOne` or `UnprogramLast`,
`UnprogramLate`, `Unmask`).  The handler (`Fire`) is one action: nothing of the
program runs during it.  Integer time is an abstraction of microseconds.
`MinLatency` says how far past the activation the handler's clock is; see
section 6 for the case 0.  The original interval timer is taken to be disarmed.
`Clock` has the same calls as single steps, on a time of day that may be set and
an interval timer that counts real time; deltas are seconds and microseconds, in
a second of `PerSecond` units.  A call of a timer begins with the signal unblocked,
so none begins while one is pending.

### ProcessTable and Interrupts

`proc` gives each PID its owner: free, a child (running or dead and not waited
for), or a process of somebody else.  `ProcessTable` has fork with registration
as one step; `Interrupts` has the steps of the code (check, block, `fork(2)`,
register, unblock; wait, block, unregister, unblock), each interruptible by
`RaiseSignal` and `SignalHandler`.  The refinement mapping hides the child
between `fork(2)` and `add_pid_to_kill()`: it appears when it is registered.
`stray` remembers that a kill hit a process that was not a child.

### Executor

Each `exec_handle` has a PID, a control directory and a phase.  A followup shares
the directory and the counter of its base.  `Reap`, `ExitCleanup` (explicit or
from the destructor, which tries again), the loops of `executor_handle::cleanup`
and `DeadlineFires` are actions of their own.  The client is arbitrary within the
interface, and once it tears down it only finishes what it has started.  The
kernel may reuse any PID that was waited for.  `lost` records the subprocesses
whose map entry was erased by the late cleanup of an older handle with the same
PID; the properties say what still holds in that case.

### TestRun and Scheduler

`Scheduler` keeps the set of children (three routines per test, the two the
destructor runs, one listing per program), the map `all_exec_data`, the
executor's handles as a set (which is what its own cleanup kills), the flags and
the verdict so far.  Every `check_interrupt()` is the point where an interrupt
becomes an exception; between two of them an interrupt only kills children and
sets the flag.  `wait_any()` is split at each wait, check and fork; the destructor
runs collect, spawn, wait per pending test with its catch blocks.
`TestRun` says: routines are accounted for in order, a failure turns a good
verdict into a broken one and nothing turns a bad one good, the verdict is
delivered once, and nothing after the unwinding has begun.

### RunTests

`drive()` step by step: fill the slots from the scanner (in any order), put off
exclusive tests, put rows, spawn, wait, find the row by PID, store and announce
the result, and at the end run the exclusive tests and commit.  Interrupts and
errors of the store roll the transaction back.  The parallelism is chosen in the
initial state.

### Loading, Filters, Paths, Metadata

A Kyuafile is any sequence of calls into `kyuafile.cpp`; `include()` pushes a
file, and a failure unwinds to a `pcall()` in any file or to the top.  Then the
scanner takes the programs one by one, asks for their list when a filter could
match them, and yields test cases; each yielded one is put through the checks of
`check_reqs()` in their order.  Filters and host are chosen when first used.
Paths are sequences of components, and `relativize()` and `is_parent_of()` work
on them as in `path.cpp`.  The references of the properties are written apart from
the code: `Survivors` and `Place` (the definitions in files that were read to the
end, and the place of each), `ToYield` and `Turn` (the test cases that the filters
select, and the turn of each), `Meets` (what a host must have).

### TestInterfaces

A program writes lines of a kind its parser tells apart and ends, is killed by
its deadline or by a signal at any point, in the middle of a line too.  The
results of `parse_list()` and `compute_result()` are operators over what it
wrote: each parser is a recursive function of the number of lines it has read.
`Unlisted` and the history of what the program meant to write are the reference
for the properties.

### Isolation

The three children of a test take one system call per step; each may fail, and a
deadline may end a child between any two.  `proc` has the attributes of a process
that these calls change: user, groups, directory, environment, jail, the files of
its output, the signals that are not at their defaults and the limits on core
files.  `jail -c` is a process of its own that goes on when the child that started
it is killed.

### Config, MetadataObjects, Files

A script assigns and reads Lua globals through the two redirections of
`lua_module.cpp`, on the tree of `ConfigTree`, and the overrides follow.  Leaves
hold what their text stands for: the words of a set, the user with a name or a
UID.  At the end `generate_config()` picks what the tests of each suite are given.
A tree is the function from the keys of its nodes to the nodes.
`MetadataObjects` has the heap of property trees and who refers to each.  Any
builder may be written to at any time, before or after its `build()`, since only
`build()` itself checks that it was not called; `makers` remembers which builder a
metadata came from and `setters` which builders were written to.  `Files`
takes a system call per step in two processes next to strays that create and
remove files; the tree it starts from is kept in `initial`, and what was at the
path of a call when it began and when it returned in `was` and `left`, so that
properties can speak of what was there before.

### Results, Reports, Layout, Migration, Sqlite

`Results` keeps the committed tables and those of the open transaction; the
writer puts rows with the encodings of `dbtypes.cpp` and the reader decodes them,
orders them as its queries do, and hands them to the hooks in `Reports`.  A reader
holds its lock to the end of its query.  `Migration` follows `migrate_schema()`
with faults at each statement and a user who tries again.  `Sqlite` lets any
client call any method of the C++ interface at any time; broken preconditions end
the behaviour.

### Frontend, Cmdline, Screen, Templates

`Frontend` goes from words to the exit code: options of the program, the command,
its options, the configuration, `run()`, and the handlers of `main()` for each
class of exception.  What the drivers answer is a `world`.  `Screen` computes what
is printed by each call of the ui.  `Templates` reads a template once, line by
line, with the stacks of the parser; `TemplateMeaning` expands the tree of the
same template recursively.

## 3. Runs

Passing:

| Run | Instance | Shows |
|---|---|---|
| `timers` | 3 timers, delays 1, 2, 4, deadlines up to 4, clock to 6 | `FiredOnce` and `NeverEarly` (an assertion of the code and the promise of a deadline), `FiresEventually` |
| `interrupts` | 3 PIDs, 2 signals, 2 foreign processes, nesting 2 | `AtomicRegistration`, `InterruptUnblocksWait`, the refinement `ImplementsProcessTable`, and `SignalHandled` |
| `executor` | 3 subprocesses or followups, 2 directories, 2 PIDs, 1 interrupt, 1 fork failure, 2 rm failures | `Accounted` (exact reference counts, directories outlive their owners, subprocesses found under their PIDs, a clean end) and `WaitsEnd` |
| `scheduler` | a test with both cleanups and one with a cleanup routine, 2 interrupts, 1 exception or fork failure | `GoodMeansClean`, `EndsOrderly` (each interruption costs at most one cleanup, only bodies taken over by `reap()` survive, nothing is done twice), `StartedIsReported`, `StopsAfterInterrupt` |
| `scheduler_impl` | a test with both cleanups and one with a known result, a program to list, core dumps | the refinement `ImplementsTestRun` |
| `run_tests` | 4 tests of 2 programs, one exclusive, one with a cleanup, 1 or 2 slots, 2 PIDs, 1 interrupt | `CommittedComplete`, `SlotsRespected`, `Terminates` |
| `engine` | load: 5 calls in files 3 deep, 3 definitions, up to 2 of 4 filters, 2 hosts; program: 4 lines of output of every kind; child: 5 pairs of tests, 2 faults | `LoadedAsDefined`, `YieldedExactly`, `RunOnlyIfMet`; `GoodIsEarned`, `DeathIsBroken`, `ListIsComplete`; `RunsIsolated`, `NoJailForgotten` |
| `libraries` | config: 4 steps, 2 overrides; objects: 4 trees, 3 setters, before and after `build()`; files: 2 processes, 2 strays, 3 trees, one with a file where a directory is to be made; clock: 2 timers, 1 step of the clock | `FinalIsLastWord`, `LuaAgrees`; `BuiltKeepsToItself`; `KeepsItsWord`; `TimelyUnlessStepped` |
| `store` | results: 3 programs with 2 tests each, 6 reports; layout: 3 files of 6 suites, two of one name and two pairs of which one's pattern matches the other's name; migration: 3 actions, one of them empty, from 2 versions, 3 faults; sqlite: 2 statements, 1 place for transactions, 2 rows | `ReadsBack`, `ReportExact`; `LatestIsOwn`; `LostOnlyInHalf`; `Durable`, `ReadAsBound` |
| `frontend` | some 3000 command lines in 10 worlds; texts of up to 6 characters; templates of up to 5 lines | `ExitIsTruthful`, `UsesWhatWasGiven`; `FitsTheScreen`; `ExpandsAsStructured` |

What the properties of the last four say:

* `LoadedAsDefined`: loading returns what the files defined, in order, each
  program in the suite that its definition or its own file names; an included file
  leaks nothing, and one that failed leaves nothing behind.  `YieldedExactly`: the
  scanner yields every selected test case once, does not run a program to list it
  when no filter can match, and reports as unused exactly the filters that select
  nothing; `kyua list -v` shows all properties.  `RunOnlyIfMet`: a test runs
  exactly when the host meets all its requirements, its own or its program's (a
  required file that is relative ends the run, unless an absolute one is missing).
* `GoodIsEarned`: a test is good exactly when its whole output and its end agree
  on it, wherever it was killed.  `DeathIsBroken`: a signal or a timeout is broken
  or was expected, except that an ATF test may die of another signal than the one
  it announced.  `ListIsComplete`: an accepted list names the test cases on the
  complete lines of a program that exited cleanly, and is never empty.
* `RunsIsolated`: a program runs as the right user, in a directory of its own, with
  a clean environment, signals and limits reset, its output in the files of its
  test, and its requirements met; and in its jail if it asked for one, which stays
  while it runs, unless two tests' jails have the same name.  The requirements are
  checked by the body's child alone: after one that failed or timed out before it
  came to that, the cleanup routine runs although they may not be met.
  (GoogleTest programs are never put in a jail.)  `NoJailForgotten`: a jail that is
  left behind never hides behind good results.
* `FinalIsLastWord`: every variable holds the last `-v`, else the last assignment
  of the file, else the default; nothing that was said is lost but what has no
  place or lies below a value; and the tests of a suite are given what was said
  of their suite, with the global `unprivileged_user` in place of the suite's own.
  `LuaAgrees`: a script reads back what the
  configuration holds.  `BuiltKeepsToItself`: metadata changes only through the
  builder that built it, never through other builders, metadata or the defaults.
  `KeepsItsWord`: when `rm_r()` returns the directory is gone, and when `mkdir_p()`
  does there is a directory, or else a file or link that was there when it was
  called or that someone else put there; left alone they fail only because a file is in the way, a directory cannot
  be written, or there was no directory to remove; everything outside the removed
  directories is as it was; and temporary files do not outlive their owners.  `TimelyUnlessStepped`: no timer is
  early by more than the clock was put forward; while the clock is not set whoever
  waits has an alarm running; and the times of a report are what the tests took.
* `ReadsBack`: a report reads every selected result of the run once, with its own
  program, metadata and output, or none at all.  `ReportExact`: totals count every
  selected result, each listed one has a page or an entry, and JUnit counts every
  bad one.  `LatestIsOwn`: the latest results of a suite are its own and no newer
  ones exist; if there are files of suites that share its name or whose names its
  pattern matches, the newest of a name is found, and a file of another name only
  if that comes later than the suite's own.  `LostOnlyInHalf`: the results of an action are in full somewhere
  (database, its file, or a backup) whatever dies, unless a second command ran on
  a database that the first left between two versions and replaced the only good
  backup.  `Durable`: the database holds exactly the rows whose `INSERT` or whose
  commit returned.  `ReadAsBound`: a cell read by name is the value bound for it.
* `ExitIsTruthful`: 0 if and only if the command did all that was asked, 3 for the
  command line only, with nothing done; `help` works with a bad configuration.
  `UsesWhatWasGiven`: program and command see their own options, with the last
  value given, and the operands as they were.  `FitsTheScreen`: no word is lost,
  repeated or cut, and a line exceeds the screen only when it is one word.
  `ExpandsAsStructured`: the parser writes what the structure of the template calls
  for or reports a syntax error; only with conditionals within conditionals may
  its assertion on levels fail.

The type invariants of `Executor`, `Scheduler` and `RunTests` are conjuncts of
`Accounted`, `EndsOrderly` and `SlotsRespected`; those of `Timers`, `Interrupts`
and `RunTests` are proved.  Deadlock checking is off where the modelled program ends
(a run, an executor or a scheduler that is done, a clock at its bound);
`interrupts` never stops and keeps it on.

Violated, where a comment or a documented precondition says something else than
the code does:

| Run | Property | What happens |
|---|---|---|
| `timers_null` | `GlobalsWhileProgrammed` | two timers fire before either is unprogrammed; unprogramming the first destroys the state that unprogramming the second dereferences |
| `store_full` | `DataSurvives` | on a full disk the backup is truncated without an error, no results file can be filled, and the database is deleted |

The quoted lines are under `findings` in `PROJECT.json`.

### Why the bounds are enough

* Three timers are the fewest in which one fires, one is cancelled and one stays
  to be rearmed; delays 1, 2 and 4 make coinciding, adjacent and distant ones,
  and a clock two ticks past the last deadline lets the handler be late.
* Three PIDs let a child be forked while another has been waited for and a third
  belongs to a stranger.  The second signal is the one that arrives after the
  first was raised.
* Two PIDs for three subprocesses force the reuse that the stale handles are
  about; two rm failures are what it takes to abandon a handle.
* Two tests suffice for the scheduler because tests interact only through the
  maps and the order of the waits; two interrupts so that one starts the
  unwinding and the other hits the destructor.
* Four tests in at most two slots: with one slot the loop can run dry before the
  exclusive test, with two the results overtake one another.
* Five calls in three levels: a suite, an include, a definition in the included
  file that fails and is caught, and one after it.  Two filters are the fewest in
  which one shadows the other.
* Four lines are one more than the longest output that a parser tells from its
  prefixes (a TAP plan, two results, a bail out).
* Two faults let the second hit the recovery from the first (jails); three let two
  attempts at a migration fail and the third succeed.
* Of the six suites of the layout two have one name (`/a/b`, `/a_b`), one has a
  pattern that matches two others (`/b.c`, of which `/bxc` comes later and `/b-c`
  earlier in the order of the characters), and one is nobody's rival; three files
  let two rivals' files stand on either side of a suite's own.
* Three setters are one before `build()`, one after it, and one through another
  builder; a tree of files with a file where `mkdir_p()` is to make a directory.
* Of a configuration's files only those vary that its option looks for (`Plain`).
* Two statements are an insert and a select that overlap, inside a transaction and
  outside; the two contents of the buffer are symmetric (`MCSymmetry`).  That more
  transaction objects change nothing is part of the proof.
* The five pairs of tests: two jails with one name; two with names of their own; a
  host test that drops privileges next to a GoogleTest program that asks for a jail;
  requirements that are not met next to a faked list; a jail without privileges next
  to requirements that are not met where there is a cleanup routine.
* `execenvs` is set to two words with two blanks between them, and
  `unprivileged_user` to a UID, so that the value differs from the text.

Bounds are constants named `Max...`, and `Horizon`, `Limit`, `CoreLimit`, `Wide`
and `PerSecond`, which scale down numbers of the code.  The proofs of section 4 hold
for every value of those that their modules have.

### Fairness

* `Timers`: a masked call that has begun goes on, the clock advances, and the
  kernel delivers an unblocked signal.  Nothing obliges the program to create or
  cancel timers.
* `Interrupts`: a call goes on; a section is straight-line code, so it ends even
  if others open inside it (strong fairness of the outermost end); the kernel
  delivers an unblocked signal.  A child need never end.
* `Executor`: waits and the final cleanup go on when they can, and a deadline
  comes as long as its handle is in the map, which is what `Timers` establishes.
  No fairness for the subprocesses: tests may hang.
* `Scheduler`: the program goes on, and a child ends or is killed by its deadline
  unless `reap()` has unprogrammed that.
* `RunTests`: `drive()` goes on, and the scheduler's deadlines end every test.

The other components have safety properties only and no fairness.

## 4. Proofs

The proofs hold for any set of timers, PIDs, tests, programs, statements and
transactions, any scripts, files, lines of output and command-line filters, any
delays and any bounds.  The assumptions are the named `ASSUME`s
of `Timers`, `Datetime`, `Clock`, `ProcessTable`, `Interrupts`, `Executor`,
`Scheduler`, `RunTests`, `Isolation`, `Loading`, `TestInterfaces`, `Files`, `Config`
and `Sqlite`: delays, a second and the number of
slots are positive, the clock is set by whole microseconds, bounds are natural
numbers, `NoTimer`, `NoPid`, `NoChild` and `NoTest` are no members of their sets,
the tests of `RunTests` are finitely many, tests with a known result have no
cleanups, names are sequences of characters, and a pointer is told from the contents
of a buffer.  Lists of test cases are finite, filters are what `parse_filters()`
lets through, sizes are natural numbers, and hosts know absolute paths of files and
names of programs; a line of an ATF or TAP program has the fields of its kind; the
trees of `Files` have a directory above each node, a node is a directory, a file or
a link, and the paths of the calls are
below a root that exists; keys of the configuration are sequences of names, and the
marks for a table and for a value that is not set are told from values.  The inductive invariants were checked with TLC on small instances before
they were proved.

`Timers_proofs`: `TypesCorrect`, `CallbackOnce`, `CallbackNotEarly` and
`BucketAssertion`, from the inductive invariant `IInv`.  `FiredOnce` is not
inductive: that the handler does not fire a timer twice needs that the timers in
the buckets have not fired (`ActiveUnfired`), and that `unprogram()` does not
needs what is known inside it.  The assertion on buckets needs `TakenAreOlder`: a
timer the handler has taken out is strictly older than all that remain.  The
handler establishes this by taking all that are due; a new timer preserves it
because its deadline is after the clock its constructor sampled, which is not
before the deadline of any timer that fired (`CtorInv`).  The earliest of a
nonempty set of activations exists by well-foundedness of the naturals.

`Interrupts_proofs`: `TypesCorrect`, `RegistrationAtomic`, `SectionsBlock`,
`WaitUnblocked`, `StrayKillsBounded` and `Refinement`.  The invariant says which
sections are open in each call (`SectionInv`), and that the registered PIDs are
the children and the PID between wait and unregistration, except the child
between fork and registration (`RegistryInv`).  An interrupt can be handled only
outside sections, so it never meets that exception; and when it comes in a wait,
all children are registered, so none is left to block on.  The refinement goes
action by action: most are invisible, registering is the abstract fork, and the
others are visible as they are, because nothing is hidden outside `register`.

`Executor_proofs`: `ExecutorAccounts`.  Counting needs to know what a handle owns:
every subprocess has a PID and a directory that was created (`Numbered`), and the
map leads from a PID to a subprocess with that PID that is not released (`Mapped`).
A new entry can only displace that of a PID that was waited for, because what was
not is still registered and the kernel does not give its PID again (`Registered`);
the handle it displaces is one that the client holds, which is how an entry comes
to be `lost`.  `CleanEnd` needs that no directory is forgotten on the way: each on
disk has an owner, and every owner is in the map or among the stale handles, the
two lists that the cleanup goes through (`Remembered`); the call in progress
accounts for the moments between (`Calling`).

`Scheduler_proofs`: `GoodIsClean`, `InterruptStops` and `SchedulerEndsOrderly`.  `GoodMeansClean` speaks of
the end of a chain of routines and is not inductive.  The invariant `IInv` adds
what each step of the chain must know: what the call in progress is about
(`CurInv`), that a child waited for has ended (`WaitedInv`), what the result so
far says of the routines (`ResultInv`), and the flags (`FlagsInv`): until the
scheduler is destroyed, every cleanup of a test that passed so far is still
flagged or was seen to succeed, and the environment is not cleaned while the
cleanup routine is still flagged.  `ReportInv` then holds at the report.  Most
steps leave results and flags alone and are covered by one lemma (`SteadyStep`);
the three that account a routine to its test share another (`AccountStep`); the
fork, the wait and the report have their own.  `InterruptStops` is for runs
without listings, as `list_tests()` swallows interrupts (section 6): the invariant
`Raised` says that an interrupt stays raised until the destructor runs.

`EndsOrderly` counts: the cleanups left out cost an interruption each.  Its
invariant `EInv` counts earlier, in the routines that are given up for good
(`GivenUp`): those that are neither flagged, so that the destructor will collect
them, nor collected and not yet started.  With the interrupt that is yet to be
raised and the one that began the unwinding they never outnumber the interrupts and
failures so far (`Afforded`).  A step gives up at most one routine, and only by an
exception that is one of those.  For this a flag must be up until its routine is
started or processed (`Marked`), and be down once the destructor has collected it
(`Emptied`).  `NotTwice` says when the destructor must not start a routine, and
`Kept` that whatever runs is in the executor's list, which is what the final
cleanup kills.  Sets of routines are compared one element at a time (`FS_*`
theorems), so the set of tests need not be finite.

`SchedulerRefines`, in the same module, is the refinement of `TestRun`.  Most steps are hidden: they account for
no routine and at most close the abstract run (`Hidden`).  `RInv` adds to `IInv` that
a cleanup that was started is in the map until its exit is processed (`Followed`),
that only what a test asks for is started (`Asked`), and that all it owes is
flagged, under way or done, in order (`Chained`): so it is delivered once, when
nothing more is owed (`DeliveredOnce`).

`RunTests_proofs`: `CommitsComplete` and `KeepsToSlots`.  `CommittedComplete` speaks
of the commit only.  Its invariant follows a test from the scanner to its row: it
is in exactly one of the scanner, `exclusive_tests`, the call that puts it, and the
rows (`Queues`); its phase says what is known of its row and result (`Progress`);
`in_flight` has, under the PID of each test in hand, the row of that test, and
nothing else (`Flight`); and the rows of tests that are over have their results
(`Rows`).  So a result finds its row by PID whatever the order of completion.  A PID
that is used again is one that `in_flight` has given up, or the assertion fails,
the run is dead, and nothing is committed.  The slots are counted in the PIDs of
`in_flight` (`Slots`); the tests at work are mapped to them one to one
(`ActiveInFlight`), which bounds their number.

`Store_proofs`: `RowsDurable`, `CellsReadAsBound`, `MigrationKeeps`.  `Durable` is not inductive: an `INSERT` goes to
the disk at once when SQLite has no transaction, and must not when the program has
one.  So the two must agree (`Owned`, `Known`) except while an exception unwinds,
when no statement runs, or after `close()`, when no statement exists (`Opened`);
what is outside a transaction is on the disk (`Settled`), and there is at most one
transaction (`Single`), whatever the number of transaction objects.

`ReadAsBound` speaks of the last cell that was read.  Its invariant `Readable` says
what makes every cell right: a binding is the value, or a pointer to a buffer that
still has it (`Faithful`: the client may reuse the buffer of a text at any time, that
of a blob only without the binding); a row in the table is the one that was meant
(`Row`); a statement that stands on a row has one to stand on (`Sound`), as
rollbacks, which remove rows, end queries; and a cache, once filled, names the
columns of its statement, each once (`Named`).

`LostOnlyInHalf` holds by the backup: from the first statement of a step to the end
of the command the backup of that run is whole (`Stepping`, `Chunking`), and on half
a migration it still is until somebody starts the command again (`Halfway`).
`MigrationKeeps` assumes that `"full"` is not among the faults: a full disk truncates
the backup without an error, and `store_full` shows the loss (`DataSurvives`).

`Libraries_proofs`, the clock: `TimesAreKept`.  Times are compared by their microseconds, and
`Microseconds` says that the conversion to seconds and back loses none.  A timer is
set for its birth and delay on a clock that was put forward by at most `forward`
since (`Early`).  While the clock is not set, the system timer runs for the first of
the timers, or none is left, or a signal is pending whose handler will look after the
activation (`Watched`).  How far the reported total is off is bounded by what the
clock had been set by when the running test began; a test that seems to end before it
starts costs a microsecond, and only if the clock was stepped during it (`Counted`).
The attempt at this proof showed that the model let a timer be created while the
signal was pending and unblocked, which the kernel does not: with three timers one of
them lost its alarm.

`Engine_proofs`, the children: `IsolationHolds` and `JailsAreRemembered`, from `IsoInv`.
`RunsIsolated` speaks of a child that runs; the invariant says at every step what
has been done (`Prepared`), who can have come that far (`Allowed`), and that nobody
is in a jail before the hook, and in one that exists after it (`Inside`).  The
removal of a jail kills whoever is inside, so nobody runs in a jail that is gone; as
names are not empty it kills no child that is still on its way.  Clashes come out of
`Shapes`: a jail goes under the name of the test that made it.  `NoJailForgotten`
speaks of the end; before it a jail, and a `jail -c` at work, belong to a test that
is still to go through the removal or is not good any more (`Accountable`).  A test
that made a jail met its requirements, so it has no cookie and is never taken for
skipped, which is the only way around the removal; a removal that succeeds takes
the jail with the test's own name; one that does not spoils the result; and a
`jail -c` can outlive only a body that did not succeed.  The attempt at this proof
showed that the requirements were claimed of too many: see `RunsIsolated` in
section 3.

`Engine_proofs`, the interfaces: `ResultsAreEarned`, `DeathIsNoFailure` and
`ListsAreComplete`.  A parser is a recursive function over the lines.  That such a
function exists, and that what one more line keeps holds of all lines, follows
from the least number of lines for which it fails: a claim about one definition,
so no induction theorem with an operator for a parameter is needed.  What each
parser has found after n lines is said in terms of the lines themselves
(`ScanMeans`, `TallyMeans`, `AtfListMeans`, `GtestListMeans`), and a verdict or list
is nothing but what the parser makes of what was written (`JudgedInv`).

`Engine_proofs`, loading and scanning: `LoadingIsExact`, `OnlyWhatIsMetRuns` and
`YieldsExactly`.  While the files are read, each program of each parser on the
stack is traced to the call that made it, in increasing order (`Traced`), and the
suite of a parser is what its own file declared (`SuitesOK`); so the n-th program
loaded is that of the n-th surviving definition (`Numbered`).  `check_reqs()` stops
at the first thing a host does not meet; `ChecksMeet` shows that it finds none
exactly when the host meets them all.  For the scanner: no program is listed before
its turn (`UndoneInv`); the tests yielded are, one to one and in order, those
selected that the scanner went past (`TurnsInv`), whose number is then counted
(`Counted`).  The filters that the user gives are disjoint, so at most one selects a
test (`OneSelects`) and none is shadowed by another that matched first; and what
`kyua list -v` leaves out are defaults (`ShownIsEnough`).

`Libraries_proofs`, the metadata: `MetadataKeepsToItself` and `MetadataIsConstant`.
A builder shares its tree with no other builder, not with the defaults, and with no
metadata but the one it built (`Exclusive`), since new builders start from a new
tree or a copy, and `build()` is called once (`MakersDone`).  So a setter changes
the metadata of its own builder at most, and that it may: nothing in the code copies
the tree or refuses the call.  That metadata is constant needs what `build()` does
not enforce, that the callers write to no builder after its `build()`: the second
theorem has this as its hypothesis (`DropsBuilder`).  It is true of `kyuafile.cpp`,
`atf_list.cpp` and `read_transaction.cpp`, where builders are local variables.

`Libraries_proofs`, the files: `FilesKeepTheirWord`.  The invariant has the tree
(`Rooted`: a node has a directory above it), what has not been touched (`Outside`),
what the history says (`Records`), and the call in progress (`CallInv`): its frames
are a path up the tree (`Climbing`) or down (`Descending`), and as long as nobody
else changes the tree they say what is in it (`ClimbsInPeace`, `DescendsInPeace`):
what was made or found on the way up is still there, and what was removed on the way
down is not.  `mkdir_p()` is proved to leave a directory except where its `EEXIST`
branch accepts a file or a link: for a call that was left alone `ClimbsInPeace` says
that what it finds at its path was there from the start.

`Libraries_proofs`, the configuration: `LastWordCounts` and `ScriptsReadTheTruth`.
The tree has the nodes of the schema and below `test_suites` only what was said
(`Shaped`); a leaf holds the last word on its key (`Holds`); every word said is in
its leaf, had no place, or lies below a value (`Heard`).  One lemma says what a call
of `set_lua()` or `set_string()` does to the tree (`Took`); a lookup ends at the
deepest node of its key, which exists because the root does.  What a script reads is
what the tree holds because a table is published only for a key that has no value,
and an assignment through a value fails (`LuaSays`).

Only model-checked:

* the liveness properties (`FiresEventually`, `SignalHandled`, `WaitsEnd`,
  `StartedIsReported`, `Terminates`), which need fairness and `ENABLED`, out of the
  prover's reach;
* `ExpandsAsStructured`, which compares with a `RECURSIVE` definition
  (`TemplateMeaning`) that no module with a theorem may use;
* `ReadsBack`, `ReportExact`, `ExitIsTruthful`, `UsesWhatWasGiven` and
  `FitsTheScreen`, whose definitions use operators of the community modules with an
  operator for a parameter (folds, sorting) and `:>`, `@@`, which the prover
  cannot expand;
* `LatestIsOwn`.

## 5. Not modelled

* Installing and uninstalling signal handlers (`programmer.cpp`), done once at each
  end of the run.
* The streams over pipes: output that is captured is modelled as lines.
* Lua, SQLite, `getopt_long(3)`, `jail(8)`, `gdb` and the test programs: they are
  external and modelled by how the code uses them.  A Kyuafile or a configuration
  script is any sequence of calls; a Kyuafile that includes itself is left out, as
  the code recurses without a bound.
* The pause of a debugged test, the choice of the core file in `stacktrace.cpp`,
  `mount(8)`, directory listings.
* Formatting, regular expressions, logging and unit conversions: wrappers and
  conversions without state.

`PROJECT.json` lists every component with its status and the reason.

## 6. Other observations

Behaviours that the models have as assumptions or as stated exceptions of
properties.

Signals, processes, time:

* With `MinLatency = 0` the handler may sample a clock equal to the activation.
  `reprogram_system_timer()` then sees neither an earlier activation nor a clock
  past the old one and does not rearm: later timers stay without an alarm until
  another timer is created or cancelled.  `FiresEventually` is checked with a
  latency of at least one tick (a microsecond).
* If the clock is put back before the alarm, the handler finds nothing to run and
  does not rearm: the deadline never comes.  If it is put forward exactly to the
  next activation, the delay becomes zero, which disarms the timer
  (`timer.cpp:170`, `:228`).  `TimelyUnlessStepped` says what holds otherwise.
* If the interval timer expires while `unprogram()` of the last timer has the
  signal blocked, the default disposition is back when it is delivered and the
  process dies (`crashed = "sigalrm"`).
* Between the return of wait and the unregistration of the PID an interrupt can
  kill a stranger's process (`StrayKillWindow` says: only there).
* An exit handle held while its PID is reused erases the new entry (`lost`).
* A failed `fork(2)` leaves its control directory, so the final `rmdir` of the root
  fails (`executor.cpp:789`; the comment at `:625` expects it "to always succeed").
* `scheduler.cpp:966`: `reap()` neither kills nor waits, so the destructor runs a
  cleanup routine next to a live body, against the comment at `executor.cpp:914`.
* A cleanup routine interrupted while it runs is invoked again by the destructor,
  as `needs_cleanup` is reset only when its exit is processed
  (`RoutinesNotRepeated` says what is not repeated).
* `list_tests()` catches `interrupted_error` as a `runtime_error`
  (`scheduler.cpp:1255`): the interrupt is swallowed.  The child it leaves behind
  is returned by a later `wait_any()`, which does not know it (`pc = "crashed"`).
* `dump_stacktrace()` may throw an interrupt (`scheduler.cpp:1344`) although "This
  function should not throw" (`stacktrace.cpp:285`).
* A test spawned while another runs its cleanup routine can get the PID of that
  test's body, and an assertion then ends the run (`ClashOnlyByReuse`).
* The result that `safe_cleanup()` folds is never used (`run_tests.cpp:208`).
* GoogleTest programs are never run in a jail, although `kyuafile.5` says that
  `execenv="jail"` creates one; the later `jail -r` then fails.  Two tests whose
  names map to the same jail name disturb each other, and `jail -c` may finish
  after the removal.

Loading, configuration, interfaces:

* `force_absolute_paths()` cuts the root of a relative path that starts with `./`
  (`scheduler.cpp:357`).  A filter `sub/prog` does not match a program that was
  included through `./sub`; `include()` of an absolute path fails a precondition.
* A required file that is relative and has one component fails the assertion at
  `requirements.cpp:187`.
* Metadata of test cases is stored in full, so defaults of the case override the
  program's when it is read back (`write_transaction.cpp:124`).
  `set_string()` lets `config::invalid_key_value` through (`metadata.cpp:1115`).
* A setter of a `metadata_builder` after `build()` changes the metadata that was
  built: only a second `build()` is refused (`metadata.cpp:1158`).  No caller does it.
* Globals assigned before `syntax()` in `kyua.conf` shadow later assignments, and
  values set below a leaf are ignored.  `execenvs` with a value that is no string
  aborts (`nodes.ipp:393`).  A user configuration that cannot be opened is an
  error, and not followed by the system's one as the comment in `cli/config.cpp`
  says.
* `expected_exit:` with nothing after the colon throws `std::out_of_range`, which
  nobody catches (`atf_result.cpp:208`; the comment at `:278` says broken), and a
  GoogleTest `[  FAILED  ]` without context fails an assertion
  (`googletest_result.cpp:94`).

Store and reports:

* Migration: the statements of version 2 run outside a transaction; a second
  attempt after a crash among them replaces the only good backup.  A half-written
  results file is taken for complete by the next attempt, failures of single
  actions are swallowed, and the exit code is 0.
* A report that is running holds a lock, and the commit of `kyua test` then fails
  without a retry: its results are rolled back.
* `test_suite_for_path()` is not injective, and the name of a suite is used in an
  extended regular expression as it is (`layout.cpp:72`): `LATEST` in `/b.c` may be
  a file of `/bxc`, where `results-file-flag-read.mdoc:38` promises one of the suite
  in the current directory; `LatestIsOwn` names the exception, and the run reaches it.  The model has "." for all special characters;
  a path with one of the others (`+`, `*`, `?`, brackets) may not match its own
  files, or not be a regular expression at all.  Test cases `a/b:c` and `a_b:c` share an HTML page
  (`cmd_report_html.cpp:102` says "unique").  `kyua report --output` truncates the
  file before it looks for the results.

Front end and text:

* An unknown command is found after the configuration was loaded (exit code 2
  when that fails), and bad filters exit with 2.  With an old `store.db` present
  `kyua test` with the default results file always fails.
* Two columns make `out_table()` fail a precondition and fewer underflow.
* Conditionals inside conditionals may leave `_exit_if_level` stale and fail an
  assertion (`templates.cpp:408`), and nested loops over one iterator end the outer
  one.
* `mkdir_p()` fails when another process creates the same directory at the same
  time, and returns quietly when a file has the name (`operations.cpp:504`),
  although `:494` says that it throws if any `mkdir(2)` fails; `KeepsItsWord` names the
  exception.  `rm_r()` of a link to a
  directory empties that directory and then fails on the link.

## 7. Plan

Done: all of section 2, the runs of section 3 and the theorems of section 4.

Left, by importance:

1. Proofs: `ReadsBack`, and `ExitIsTruthful` and `UsesWhatWasGiven`, once the parser
   of the command line is written as a recursive function like those of
   `TestInterfaces`.
2. Composition: `Loading` in place of the arbitrary enumeration in `RunTests`, and
   `Sqlite` under `Results`.
3. A file that includes itself, and the choice of core files.
