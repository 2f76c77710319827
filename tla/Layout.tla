------------------------------- MODULE Layout -------------------------------
(* store/layout.cpp: the names of the results files and how they are found.  *)
(* A name in a path is the sequence of its characters, none of them special  *)
(* to extended regular expressions but "."; a results file in the store      *)
(* directory is [suite, when].                                               *)
EXTENDS Naturals, FiniteSets, FiniteSetsExt, Sequences, SequencesExt

CONSTANTS
  Roots,        \* directories of test suites: sequences of names
  Code,         \* the codes of the characters
  MaxTime       \* bound: results files created

VARIABLES
  store,        \* the files in the store directory
  clock,        \* the time, in the resolution of the names
  created,      \* history: the root that each file was created for
  asked, found  \* the last lookup: its id, and the file or an error

layout_vars == <<store, clock, created, asked, found>>

NoFile == [suite |-> <<>>, when |-> 0]

(* Slashes become underscores and the first one goes.                        *)
test_suite_for_path(root) ==
  FlattenSeq([i \in DOMAIN root |-> IF i = 1 THEN root[i] ELSE <<"_">> \o root[i]])

new_id(root, when) == [suite |-> test_suite_for_path(root), when |-> when]

(* The suite is put in a regular expression as it is: a dot matches anything.*)
preg_match(suite, f) ==
  Len(f.suite) = Len(suite) /\ \A i \in DOMAIN suite : suite[i] \in {".", f.suite[i]}

(* Defect: the directory is taken to list the newest first.                  *)
find_latestFirst(suite) ==
  LET matching == {f \in store : preg_match(suite, f)}
  IN IF matching = {} THEN NoFile
     ELSE CHOOSE f \in matching : \A g \in matching : f.when <= g.when

(* Names compare character by character.  Those of one suite differ first in *)
(* their times, which are in UTC and of fixed width.                         *)
Above(f, g) ==
  LET differ == {i \in DOMAIN f.suite : f.suite[i] # g.suite[i]}
  IN IF differ = {} THEN f.when > g.when
     ELSE Code[f.suite[Min(differ)]] > Code[g.suite[Min(differ)]]

(* The greatest of the names that match, all of one length.                  *)
find_latest(suite) ==
  LET matching == {f \in store : preg_match(suite, f)}
  IN IF matching = {} THEN NoFile
     ELSE CHOOSE f \in matching : \A g \in matching \ {f} : Above(f, g)

LayoutInit ==
  store = {} /\ clock = 0 /\ created = <<>> /\ asked = <<>> /\ found = NoFile

(* new_db("NEW", root): the name; whoever asked for it then makes the file.  *)
NewDb ==
  /\ clock < MaxTime
  /\ clock' = clock + 1
  /\ \E root \in Roots :
       /\ store' = store \cup {new_id(root, clock')}
       /\ created' = Append(created, root)
  /\ UNCHANGED <<asked, found>>

(* find_results("LATEST") from the root of a test suite.                     *)
FindLatest ==
  \E root \in Roots :
    /\ asked' = root
    /\ found' = find_latest(test_suite_for_path(root))
    /\ UNCHANGED <<store, clock, created>>

(* find_results() of a whole id, or of the part of it that names the suite.  *)
FindId ==
  \E f \in store :
    /\ asked' = created[f.when]
    /\ found' \in {f, find_latest(f.suite)}
    /\ UNCHANGED <<store, clock, created>>

(* The user removes an old file.                                             *)
RemoveFile ==
  /\ \E f \in store : store' = store \ {f}
  /\ found' = NoFile
  /\ UNCHANGED <<clock, created, asked>>

LayoutNext == NewDb \/ FindLatest \/ FindId \/ RemoveFile
-----------------------------------------------------------------------------
Newest(fs) == CHOOSE f \in fs : \A g \in fs : g.when <= f.when

(* The files created for the asked root, and those of other roots that its   *)
(* suite takes for its own: "/a/b" and "/a_b" share a name, and "/b.c" has a *)
(* pattern that the name of "/bxc" matches.                                  *)
Own(root) == {f \in store : created[f.when] = root}
Rivals(root) ==
  LET suite == test_suite_for_path(root)
  IN {f \in store \ Own(root) :
        /\ Len(f.suite) = Len(suite)
        /\ \A i \in DOMAIN suite : suite[i] = f.suite[i] \/ suite[i] = "."}

(* However the runs of several suites are interleaved, LATEST is the newest  *)
(* file of the suite that was asked for (layout.cpp:146), or none if it has  *)
(* none; unless there are files of its rivals, when it is the newest of      *)
(* those, or of its own, that have its name.  A rival's name takes the place *)
(* of the suite's own only if it comes later in the order of the characters. *)
LatestIsOwn ==
  [][FindLatest =>
       LET own == Own(asked')
           all == own \cup Rivals(asked')
           suite == test_suite_for_path(asked')
       IN /\ all = own => found' = IF own = {} THEN NoFile ELSE Newest(own)
          /\ all # {} =>
               found' \in all /\ \A f \in all : f.suite = found'.suite => f.when <= found'.when
          /\ own # {} /\ found'.suite # suite =>
               \E i \in DOMAIN suite : suite[i] = "." /\ Code[found'.suite[i]] > Code["."]
     ]_layout_vars
=============================================================================
