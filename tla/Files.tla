-------------------------------- MODULE Files --------------------------------
(* utils/fs: the recursive mkdir_p() and rm_r(), one system call at a time,  *)
(* and the temporary directories and files that remove themselves, in        *)
(* processes that work on one tree: two instances of the program, and what   *)
(* is left of a test in its work directory.  System calls are external.      *)
EXTENDS Integers, Sequences, FiniteSets

CONSTANTS
  Procs,       \* processes that call mkdir_p() or rm_r()
  Trees,       \* initial trees: path -> node
  Made, Removed, \* the directories that are made, and removed
  Temporary,   \* the name that mkdtemp(3) and mkstemp(3) find unused
  Names,       \* what stray processes create
  MaxStrays    \* bound: changes by stray processes

VARIABLES
  nodes,       \* the nodes that exist, by their path
  proc,        \* what each process is doing: [op, arg, stack, result, quiet, was, left]
  auto,        \* an auto_directory or auto_file: [kind, owners, cleaned, quiet]
  strays,
  initial      \* history: the tree at first

files_vars == <<nodes, proc, auto, strays, initial>>

(* A node; a directory may lack the permissions to search and change it, and *)
(* a link leads to another path.                                             *)
Node(kind, ok, to) == [kind |-> kind, ok |-> ok, to |-> to]
Dir == Node("dir", TRUE, <<>>)
File == Node("file", TRUE, <<>>)

(* History: what is at a path of a tree, before and after a call.            *)
Kind(path, tree) == IF path \in DOMAIN tree THEN tree[path].kind ELSE "nothing"

Parent(path) == SubSeq(path, 1, Len(path) - 1)
exists(path) == path \in DOMAIN nodes
Below(path, dir) == Len(path) > Len(dir) /\ SubSeq(path, 1, Len(dir)) = dir
Within(path, dir) == path = dir \/ Below(path, dir)
Children(dir) == {p \in DOMAIN nodes : p # <<>> /\ Parent(p) = dir}
With(path, node) == [p \in DOMAIN nodes \cup {path} |-> IF p = path THEN node ELSE nodes[p]]
Without(path) == [p \in DOMAIN nodes \ {path} |-> nodes[p]]

(* Defect: stat(2) instead of lstat(2) follows links.                        *)
is_directoryFollowing(path) ==
  nodes[path].kind = "dir" \/ (nodes[path].kind = "link" /\ nodes[path].to \in DOMAIN nodes)

(* lstat(2) does not follow links.                                           *)
is_directory(path) == nodes[path].kind = "dir"

(* The directory that the system opens for a path.                           *)
Opened(path) == IF nodes[path].kind = "link" THEN nodes[path].to ELSE path

Writable(path) == nodes[Parent(path)].ok

(* What mkdir(2), rmdir(2) and unlink(2) say.                                *)
mkdir(path) ==
  IF exists(path) THEN "EEXIST"
  ELSE IF ~exists(Parent(path)) THEN "ENOENT"
  ELSE IF nodes[Parent(path)].kind # "dir" THEN "ENOTDIR"
  ELSE IF ~Writable(path) THEN "EACCES"
  ELSE "ok"

rmdir(path) ==
  IF ~exists(path) THEN "ENOENT"
  ELSE IF nodes[path].kind # "dir" THEN "ENOTDIR"
  ELSE IF ~Writable(path) THEN "EACCES"
  ELSE IF Children(path) # {} THEN "ENOTEMPTY"
  ELSE "ok"

unlink(path) ==
  IF ~exists(path) THEN "ENOENT"
  ELSE IF nodes[path].kind = "dir" THEN "EISDIR"
  ELSE IF ~Writable(path) THEN "EACCES"
  ELSE "ok"

(* The trees that there can be at first.  The name of a temporary is not in  *)
(* use, and what is removed is not a link and not the root.                  *)
TreeOK(tree) ==
  /\ tree = [path \in DOMAIN tree |-> tree[path]]
  /\ DOMAIN tree \subseteq Seq(STRING) /\ <<>> \in DOMAIN tree
  /\ \A path \in DOMAIN tree :
       /\ tree[path] = Node(tree[path].kind, tree[path].ok, tree[path].to)
       /\ tree[path].kind \in {"dir", "file", "link"}
       /\ path # <<>> => Parent(path) \in DOMAIN tree /\ tree[Parent(path)].kind = "dir"
ASSUME TreesAssumption ==
  \A tree \in Trees :
    /\ TreeOK(tree)
    /\ \A path \in DOMAIN tree : ~Within(path, Temporary)
    /\ \A dir \in Removed \cap DOMAIN tree : tree[dir].kind # "link"
ASSUME PathsAssumption ==
  Made \cup Removed \cup {Temporary} \subseteq Seq(STRING) \ {<<>>} /\ Names \subseteq STRING
-----------------------------------------------------------------------------
Resting ==
  [op |-> "idle", arg |-> <<>>, stack |-> <<>>, result |-> "none", quiet |-> TRUE,
   was |-> "nothing", left |-> "nothing"]
NoAuto == [kind |-> "none", owners |-> 0, cleaned |-> FALSE, quiet |-> TRUE]

FilesInit ==
  /\ initial \in Trees /\ nodes = initial
  /\ proc = [p \in Procs |-> Resting]
  /\ auto = NoAuto
  /\ strays = 0

Top(p) == proc[p].stack[Len(proc[p].stack)]
Pop(p) == SubSeq(proc[p].stack, 1, Len(proc[p].stack) - 1)
Working(p, op) == proc[p].op = op /\ proc[p].result = "none"
SetTop(p, frame) == Append(Pop(p), frame)

(* The other processes learn that someone changed the tree.                  *)
Disturb(procs, who) ==
  [q \in Procs |-> IF q \in who THEN procs[q] ELSE [procs[q] EXCEPT !.quiet = FALSE]]
DisturbAuto == auto' = [auto EXCEPT !.quiet = FALSE]

(* The call of p goes on with a new stack, and ends with its last frame,     *)
(* which leaves the tree as it is then.                                      *)
Continue(p, stack, tree) ==
  IF stack = <<>>
  THEN [proc EXCEPT ![p].stack = stack, ![p].result = "ok", ![p].left = Kind(proc[p].arg, tree)]
  ELSE [proc EXCEPT ![p].stack = stack]

(* An exception leaves every frame.                                          *)
Throw(p, errno) ==
  /\ proc' = [proc EXCEPT ![p].stack = <<>>, ![p].result = errno]
  /\ UNCHANGED <<nodes, auto, strays>>
-----------------------------------------------------------------------------
MkdirPCall(p, dir) ==
  /\ proc[p].op = "idle"
  /\ proc' = [proc EXCEPT ![p] = [Resting EXCEPT !.op = "mkdir_p", !.arg = dir,
                                                 !.stack = <<[dir |-> dir, again |-> FALSE]>>,
                                                 !.was = Kind(dir, nodes)]]
  /\ UNCHANGED <<nodes, auto, strays>>

(* Defect: once the parents are made, the directory itself is forgotten.     *)
MakeParentsOnly(p) == SetTop(p, [dir |-> Parent(Top(p).dir), again |-> FALSE])

(* The parents first, and then once more.                                    *)
MakeParents(p) ==
  Append(SetTop(p, [dir |-> Top(p).dir, again |-> TRUE]),
         [dir |-> Parent(Top(p).dir), again |-> FALSE])

(* One attempt.  Whatever is there already will do, a directory or not, but  *)
(* not when the attempt is the one made once the parents exist.              *)
MkdirP(p) ==
  /\ Working(p, "mkdir_p")
  /\ LET dir == Top(p).dir
         errno == mkdir(dir)
     IN CASE errno = "ok" ->
             /\ nodes' = With(dir, Dir)
             /\ proc' = Disturb(Continue(p, Pop(p), nodes'), {p})
             /\ DisturbAuto /\ UNCHANGED strays
          [] errno = "ENOENT" /\ ~Top(p).again ->
             /\ proc' = [proc EXCEPT ![p].stack = MakeParents(p)]
             /\ UNCHANGED <<nodes, auto, strays>>
          [] errno = "EEXIST" /\ ~Top(p).again ->
             /\ proc' = Continue(p, Pop(p), nodes)
             /\ UNCHANGED <<nodes, auto, strays>>
          [] OTHER -> Throw(p, errno)
-----------------------------------------------------------------------------
(* An iterator: the entries when the directory was opened, those it has      *)
(* returned, and the one being worked on.                                    *)
Frame(dir, entries) == [dir |-> dir, todo |-> entries, seen |-> {}, entry |-> <<>>, isdir |-> FALSE]

(* chmod(dir, 0700) and opendir(dir).                                        *)
Enter(p, stack, dir) ==
  IF ~exists(dir) \/ ~exists(Opened(dir)) THEN Throw(p, "ENOENT")
  ELSE /\ nodes' = [nodes EXCEPT ![Opened(dir)].ok = TRUE]
       /\ proc' = [proc EXCEPT ![p].stack = Append(stack, Frame(Opened(dir), Children(Opened(dir))))]
       /\ UNCHANGED <<auto, strays>>

RmRCall(p, dir) ==
  /\ proc[p].op = "idle"
  /\ IF exists(dir) THEN
       /\ nodes' = [nodes EXCEPT ![dir].ok = TRUE]
       /\ proc' = [proc EXCEPT ![p] = [Resting EXCEPT !.op = "rm_r", !.arg = dir,
                                                      !.stack = <<Frame(dir, Children(dir))>>,
                                                      !.was = Kind(dir, nodes)]]
       /\ UNCHANGED <<auto, strays>>
     ELSE /\ proc' = [proc EXCEPT ![p] = [Resting EXCEPT !.op = "rm_r", !.arg = dir,
                                                         !.result = "ENOENT"]]
          /\ UNCHANGED <<nodes, auto, strays>>

(* The next entry is looked at.  What was added since the directory was      *)
(* opened may or may not be returned.                                        *)
RmREntry(p) ==
  /\ Working(p, "rm_r") /\ Top(p).entry = <<>>
  /\ \E entry \in (Top(p).todo \cup Children(Top(p).dir)) \ Top(p).seen :
       IF ~exists(entry) THEN Throw(p, "ENOENT")
       ELSE /\ proc' = [proc EXCEPT ![p].stack =
                          SetTop(p, [Top(p) EXCEPT !.entry = entry, !.seen = @ \cup {entry},
                                                   !.isdir = is_directory(entry)])]
            /\ UNCHANGED <<nodes, auto, strays>>

RmRDescend(p) ==
  /\ Working(p, "rm_r") /\ Top(p).entry # <<>> /\ Top(p).isdir
  /\ Enter(p, SetTop(p, [Top(p) EXCEPT !.entry = <<>>]), Top(p).entry)

RmRUnlink(p) ==
  /\ Working(p, "rm_r") /\ Top(p).entry # <<>> /\ ~Top(p).isdir
  /\ LET errno == unlink(Top(p).entry)
     IN IF errno # "ok" THEN Throw(p, errno)
        ELSE /\ nodes' = Without(Top(p).entry)
             /\ proc' = Disturb([proc EXCEPT ![p].stack = SetTop(p, [Top(p) EXCEPT !.entry = <<>>])], {p})
             /\ DisturbAuto /\ UNCHANGED strays

(* The end of the directory: it should be empty by now.                      *)
RmREnd(p) ==
  /\ Working(p, "rm_r") /\ Top(p).entry = <<>> /\ Top(p).todo \subseteq Top(p).seen
  /\ LET errno == rmdir(Top(p).dir)
     IN IF errno # "ok" THEN Throw(p, errno)
        ELSE /\ nodes' = Without(Top(p).dir)
             /\ proc' = Disturb(Continue(p, Pop(p), nodes'), {p})
             /\ DisturbAuto /\ UNCHANGED strays
-----------------------------------------------------------------------------
(* mkdtemp(3) and mkstemp(3) choose a name that is not in use.               *)
mkdtemp_public == With(Temporary, Dir)
mkstemp == With(Temporary, File)

(* Both hold the signals back until the object owns the directory or file.   *)
AutoCreate(kind, created) ==
  /\ auto.kind = "none" /\ mkdir(Temporary) = "ok"
  /\ auto' = [NoAuto EXCEPT !.kind = kind, !.owners = 1]
  /\ nodes' = created
  /\ proc' = Disturb(proc, {})
  /\ UNCHANGED strays

AutoDirectory == AutoCreate("dir", mkdtemp_public)
AutoFile == AutoCreate("file", mkstemp)

AutoCopy ==
  /\ auto.owners = 1
  /\ auto' = [auto EXCEPT !.owners = 2]
  /\ UNCHANGED <<nodes, proc, strays>>

(* cleanup() and remove(): marked as done before it is tried, so that it is  *)
(* tried once.                                                               *)
AutoRemove(owners) ==
  LET errno == IF auto.kind = "dir" THEN rmdir(Temporary) ELSE unlink(Temporary)
  IN /\ auto' = [auto EXCEPT !.cleaned = TRUE, !.owners = owners]
     /\ IF ~auto.cleaned /\ errno = "ok"
        THEN nodes' = Without(Temporary) /\ proc' = Disturb(proc, {})
        ELSE UNCHANGED <<nodes, proc>>
     /\ UNCHANGED strays

AutoCleanup == auto.owners > 0 /\ AutoRemove(auto.owners)

(* The last owner removes it, and an error is only logged.                   *)
AutoDestroy ==
  /\ auto.owners > 0
  /\ IF auto.owners = 1 THEN AutoRemove(0)
     ELSE auto' = [auto EXCEPT !.owners = @ - 1] /\ UNCHANGED <<nodes, proc, strays>>
-----------------------------------------------------------------------------
(* A process that survived its test creates and removes files anywhere below *)
(* the directories in use.                                                   *)
Stray ==
  /\ strays < MaxStrays
  /\ strays' = strays + 1
  /\ \E dir \in DOMAIN nodes :
     /\ nodes[dir].kind = "dir" /\ \E top \in Removed \cup {Temporary} : Within(dir, top)
     /\ \/ \E name \in Names, node \in {Dir, File} :
             /\ ~exists(Append(dir, name))
             /\ nodes' = With(Append(dir, name), node)
        \/ \E file \in Children(dir) : unlink(file) = "ok" /\ nodes' = Without(file)
  /\ proc' = Disturb(proc, {}) /\ DisturbAuto

TreeNext ==
  \E p \in Procs :
    \/ \E dir \in Made : MkdirPCall(p, dir)
    \/ MkdirP(p)
    \/ \E dir \in Removed : RmRCall(p, dir)
    \/ RmREntry(p) \/ RmRDescend(p) \/ RmRUnlink(p) \/ RmREnd(p)

AutoNext == AutoDirectory \/ AutoFile \/ AutoCopy \/ AutoCleanup \/ AutoDestroy

FilesNext == (TreeNext \/ AutoNext \/ Stray) /\ UNCHANGED initial

FilesSpec == FilesInit /\ [][FilesNext]_files_vars
-----------------------------------------------------------------------------
(* What a call that returned promised: of rm_r(), that nothing is left; of   *)
(* mkdir_p(), that a directory is.  The exception (operations.cpp:504 takes  *)
(* any EEXIST for success): a file or a link that had the name when it was   *)
(* called, or that someone else put there in the meantime.                   *)
Promised(p) ==
  IF proc[p].op = "rm_r" THEN proc[p].left = "nothing"
  ELSE \/ proc[p].left = "dir"
       \/ proc[p].left \in {"file", "link"} /\ (proc[p].was = proc[p].left \/ ~proc[p].quiet)

(* mkdir_p() and rm_r() keep their word: when one returns, what it promised  *)
(* is there or gone.  Unless someone else changed the tree in the meantime,  *)
(* one fails only because a file is in the way or the directory above may    *)
(* not be changed, and rm_r() also because there was no directory; nothing   *)
(* within the directory stops rm_r(), whatever the permissions.  rm_r()      *)
(* touches nothing outside of the directory, wherever the links within it    *)
(* lead; and a temporary directory or file does not outlive its owners       *)
(* unless someone wrote into it.                                             *)
KeepsItsWord ==
  /\ \A p \in Procs :
       /\ proc[p].result = "ok" => Promised(p)
       /\ proc[p].result \notin {"none", "ok"} /\ proc[p].quiet =>
            \/ proc[p].result \in {"ENOTDIR", "EACCES"}
            \/ proc[p].op = "rm_r" /\ proc[p].result = "ENOENT" /\ ~exists(proc[p].arg)
       /\ proc[p].op = "rm_r" /\ proc[p].result # "none" /\ proc[p].quiet =>
            Children(proc[p].arg) = {}
  /\ \A path \in DOMAIN initial :
       \/ exists(path) /\ nodes[path] = initial[path]
       \/ \E dir \in Removed : Within(path, dir)
  /\ auto.kind # "none" /\ auto.owners = 0 /\ auto.quiet => ~exists(Temporary)
=============================================================================
