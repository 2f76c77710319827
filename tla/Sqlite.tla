------------------------------- MODULE Sqlite -------------------------------
(* The C++ face of SQLite, utils/sqlite: a database object and its copies,   *)
(* transactions that roll back when they are destroyed, and statements that  *)
(* are bound, stepped and read.  Any client calls any method at any time; a  *)
(* broken precondition aborts the program.                                   *)
(*                                                                           *)
(* SQLite itself is external, as of 3.7.11: one connection to a table of two *)
(* columns, in autocommit mode outside a transaction.  Another process may   *)
(* hold a shared lock, and the disk may be full.                             *)
EXTENDS Integers, Sequences, FiniteSets

CONSTANTS
  Statements, Transactions, \* places for objects of these classes
  SqlOf,       \* the statements that the client prepares in each place
  Number,      \* the integer that is inserted
  Words,       \* contents of the client's buffer
  IntRange,    \* the number of values of an int
  MaxRows      \* bound: rows inserted

VARIABLES
  raw,         \* the connection: [state, readonly, active, disk, work]
  objects,     \* database objects that share it
  trans,       \* the status of each transaction object, or "none"
  stmt,        \* the prepared statements, or NoStatement
  buffer,      \* memory of the client, bound as a text or a blob
  shared_lock, \* another process is reading the database
  unwinding,   \* a statement threw: the stack unwinds up to the transaction
  result,      \* of the last call: [outcome, cell], and what was meant by the cell
  kept, view   \* history: the rows that must last, and those that are visible

sqlite_vars ==
  <<raw, objects, trans, stmt, buffer, shared_lock, unwinding, result, kept, view>>
-----------------------------------------------------------------------------
Columns(sql) ==
  CASE sql = "select" -> <<"k", "v">>
    [] sql = "select_swapped" -> <<"v", "k">>
    [] sql = "select_twice" -> <<"k", "k">>
    [] OTHER -> <<>>

(* INSERT INTO t (k, v) VALUES (Number, :v).                                 *)
Parameters(sql) == IF sql = "insert" THEN <<"v">> ELSE <<>>

NullCell == [type |-> "null", val |-> 0]
(* A blob is bound with SQLITE_STATIC: SQLite keeps a pointer to the buffer. *)
Pointer == "<pointer>"
(* The pointer is told from any contents of the buffer.                      *)
ASSUME PointerAssumption == Pointer \notin Words
NoStatement == [sql |-> "none"]
Unbound == [v |-> NullCell]
EmptyCache == <<>>

NoResult == [outcome |-> "ok", cell |-> NullCell, meant |-> NullCell]

NewStatement(sql) ==
  [sql |-> sql, bound |-> Unbound, meant |-> Unbound, at |-> 0, state |-> "ready", cache |-> EmptyCache]

Live(s) == stmt[s] # NoStatement
OpenTransaction == \E t \in Transactions : trans[t] = "open"
-----------------------------------------------------------------------------
SqliteInit ==
  /\ raw = [state |-> "none", readonly |-> FALSE, active |-> FALSE, disk |-> <<>>, work |-> <<>>]
  /\ objects = 0
  /\ trans = [t \in Transactions |-> "none"]
  /\ stmt = [s \in Statements |-> NoStatement]
  /\ buffer \in Words /\ shared_lock = FALSE /\ unwinding = FALSE
  /\ result = NoResult
  /\ kept = <<>> /\ view = <<>>

Returns == result' = NoResult

(* A broken precondition.                                                    *)
Aborts ==
  /\ result' = [result EXCEPT !.outcome = "abort"]
  /\ UNCHANGED <<raw, objects, trans, stmt, buffer, shared_lock, unwinding, kept, view>>

(* An exception leaves everything as it was.                                 *)
Throws == UNCHANGED sqlite_vars

(* database::open() of a file that may not exist, and temporary().           *)
Open ==
  /\ raw.state = "none"
  /\ \E mode \in {"readonly", "readwrite", "create"}, exists \in BOOLEAN :
       \/ ~exists /\ mode # "create" /\ Throws
       \/ /\ exists \/ mode = "create"
          /\ raw' = [raw EXCEPT !.state = "open", !.readonly = (mode = "readonly")]
          /\ objects' = 1 /\ Returns
          /\ UNCHANGED <<trans, stmt, buffer, shared_lock, unwinding, kept, view>>

Copy ==
  /\ objects \in 1 .. 1
  /\ objects' = objects + 1 /\ Returns
  /\ UNCHANGED <<raw, trans, stmt, buffer, shared_lock, unwinding, kept, view>>

(* sqlite3_close() is busy while a statement lives, and rolls back.          *)
CloseRaw(n) ==
  IF raw.state # "open" \/ \E s \in Statements : Live(s) THEN Aborts
  ELSE /\ raw' = [raw EXCEPT !.state = "closed", !.active = FALSE, !.work = raw.disk]
       /\ view' = kept
       /\ objects' = n /\ Returns
       /\ UNCHANGED <<trans, stmt, buffer, shared_lock, unwinding, kept>>

Close == objects > 0 /\ CloseRaw(objects)

(* ~impl() runs once, with the last of the objects.                          *)
DestroyDatabase ==
  /\ objects > 0
  /\ IF objects = 1 /\ raw.state = "open" THEN CloseRaw(0)
     ELSE /\ objects' = objects - 1 /\ Returns
          /\ UNCHANGED <<raw, trans, stmt, buffer, shared_lock, unwinding, kept, view>>
-----------------------------------------------------------------------------
(* exec() of the three commands: whether SQLite does it.                     *)
CanBegin == raw.state = "open" /\ ~raw.active
CanCommit == raw.state = "open" /\ raw.active /\ (shared_lock => raw.work = raw.disk)
CanRollback == raw.state = "open" /\ raw.active

begin_transaction ==
  /\ objects > 0 /\ ~unwinding
  /\ IF ~CanBegin THEN Throws
     ELSE /\ \E t \in Transactions : trans[t] = "none" /\ trans' = [trans EXCEPT ![t] = "open"]
          /\ raw' = [raw EXCEPT !.active = TRUE]
          /\ Returns
          /\ UNCHANGED <<objects, stmt, buffer, shared_lock, unwinding, kept, view>>

(* The status only changes once SQLite has committed.                        *)
commit(t) ==
  /\ trans[t] # "none" /\ ~unwinding
  /\ CASE trans[t] # "open" -> Aborts
       [] trans[t] = "open" /\ ~CanCommit -> Throws
       [] OTHER ->
          /\ raw' = [raw EXCEPT !.active = FALSE, !.disk = raw.work]
          /\ trans' = [trans EXCEPT ![t] = "committed"]
          /\ kept' = view /\ Returns
          /\ UNCHANGED <<objects, stmt, buffer, shared_lock, unwinding, view>>

(* A query that was under way ends with SQLITE_ABORT_ROLLBACK.               *)
RollbackRaw ==
  /\ raw' = [raw EXCEPT !.active = FALSE, !.work = raw.disk]
  /\ stmt' = [s \in Statements |->
                IF Live(s) /\ stmt[s].state = "row" THEN [stmt[s] EXCEPT !.state = "aborted"]
                ELSE stmt[s]]
  /\ view' = kept

rollback(t) ==
  /\ trans[t] # "none" /\ ~unwinding
  /\ CASE trans[t] # "open" -> Aborts
       [] trans[t] = "open" /\ ~CanRollback -> Throws
       [] OTHER ->
          /\ RollbackRaw
          /\ trans' = [trans EXCEPT ![t] = "rolled_back"]
          /\ Returns
          /\ UNCHANGED <<objects, buffer, shared_lock, unwinding, kept>>

(* Defect: the destructor forgets to roll back a transaction still open.     *)
DestroyTransactionQuietly(t) ==
  /\ trans[t] # "none"
  /\ trans' = [trans EXCEPT ![t] = "none"]
  /\ unwinding' = (unwinding /\ \E u \in Transactions : trans'[u] = "open")
  /\ Returns /\ view' = kept
  /\ UNCHANGED <<raw, objects, stmt, buffer, shared_lock, kept>>

(* The destructor rolls back an open transaction and swallows the error.     *)
DestroyTransaction(t) ==
  /\ trans[t] # "none"
  /\ trans' = [trans EXCEPT ![t] = "none"]
  /\ unwinding' = (unwinding /\ \E u \in Transactions : trans'[u] = "open")
  /\ Returns
  /\ IF trans[t] = "open" /\ CanRollback THEN RollbackRaw
     ELSE UNCHANGED <<raw, stmt, view>>
  /\ UNCHANGED <<objects, buffer, shared_lock, kept>>
-----------------------------------------------------------------------------
create_statement ==
  /\ objects > 0 /\ ~unwinding
  /\ \E s \in Statements : \E sql \in SqlOf[s] :
     /\ ~Live(s)
     /\ IF raw.state # "open" THEN Throws
        ELSE /\ stmt' = [stmt EXCEPT ![s] = NewStatement(sql)]
             /\ Returns
             /\ UNCHANGED <<raw, objects, trans, buffer, shared_lock, unwinding, kept, view>>

Finalize(s) ==
  /\ Live(s)
  /\ stmt' = [stmt EXCEPT ![s] = NoStatement]
  /\ Returns
  /\ UNCHANGED <<raw, objects, trans, buffer, shared_lock, unwinding, kept, view>>

bind_parameter_index(s, name) ==
  IF \E i \in DOMAIN Parameters(stmt[s].sql) : Parameters(stmt[s].sql)[i] = name
  THEN CHOOSE i \in DOMAIN Parameters(stmt[s].sql) : Parameters(stmt[s].sql)[i] = name
  ELSE 0

Cells == {[type |-> t, val |-> buffer] : t \in {"text", "blob"}}

(* Defect: the text is not copied either.                                    *)
BindingOfStatic(cell) == IF cell.type \in {"text", "blob"} THEN [cell EXCEPT !.val = Pointer] ELSE cell

(* What SQLite keeps of a value: a text is copied, SQLITE_TRANSIENT.         *)
BindingOf(cell) == IF cell.type = "blob" THEN [cell EXCEPT !.val = Pointer] ELSE cell

(* Binding a statement that has begun and was not reset is a misuse.         *)
Bind(s, name, cell) ==
  /\ Live(s) /\ ~unwinding
  /\ CASE bind_parameter_index(s, name) = 0 -> Aborts
       [] bind_parameter_index(s, name) # 0 /\ stmt[s].state # "ready" -> Throws
       [] OTHER ->
          /\ stmt' = [stmt EXCEPT ![s].bound[name] = BindingOf(cell), ![s].meant[name] = cell]
          /\ Returns
          /\ UNCHANGED <<raw, objects, trans, buffer, shared_lock, unwinding, kept, view>>

clear_bindings(s) ==
  /\ Live(s) /\ ~unwinding
  /\ stmt' = [stmt EXCEPT ![s].bound = Unbound, ![s].meant = Unbound]
  /\ Returns
  /\ UNCHANGED <<raw, objects, trans, buffer, shared_lock, unwinding, kept, view>>

(* The client reuses its buffer: "must remain valid during the execution of  *)
(* the statement" is said of a blob, and a text need not "remain live".      *)
ReuseBuffer ==
  /\ raw.state = "open"
  /\ \A s \in Statements :
       Live(s) => stmt[s].meant.v.type # "blob"
  /\ buffer' \in Words \ {buffer}
  /\ Returns
  /\ UNCHANGED <<raw, objects, trans, stmt, shared_lock, unwinding, kept, view>>

Reset(s) ==
  /\ Live(s)
  /\ stmt' = [stmt EXCEPT ![s].at = 0, ![s].state = "ready"]
  /\ Returns
  /\ UNCHANGED <<raw, objects, trans, buffer, shared_lock, unwinding, kept, view>>
-----------------------------------------------------------------------------
CellOf(binding) ==
  IF binding.type \in {"text", "blob"} /\ binding.val = Pointer
  THEN [binding EXCEPT !.val = buffer] ELSE binding

(* The row as it is stored, and as the client meant it.                      *)
RowOf(st) ==
  LET k == [type |-> "integer", val |-> Number]
  IN [cells |-> [k |-> k, v |-> CellOf(st.bound.v)], meant |-> [k |-> k, v |-> st.meant.v]]

(* step() of an INSERT.  Once done, the next step runs it again.             *)
StepInsert(s) ==
  /\ Live(s) /\ ~unwinding /\ stmt[s].sql = "insert" /\ Len(view) < MaxRows
  /\ IF raw.readonly \/ (~raw.active /\ shared_lock) THEN Throws
     ELSE LET row == RowOf(stmt[s])
              work == Append(raw.work, row)
          IN /\ raw' = [raw EXCEPT !.work = work, !.disk = IF raw.active THEN @ ELSE work]
             /\ view' = Append(view, row)
             /\ kept' = IF OpenTransaction THEN kept ELSE Append(view, row)
             /\ stmt' = [stmt EXCEPT ![s].state = "done"]
             /\ Returns
             /\ UNCHANGED <<objects, trans, buffer, shared_lock, unwinding>>

(* The disk is full: SQLite rolls the whole transaction back by itself.      *)
StepInsertFull(s) ==
  /\ Live(s) /\ ~unwinding /\ stmt[s].sql = "insert" /\ ~raw.readonly
  /\ RollbackRaw
  /\ unwinding' = OpenTransaction /\ Returns
  /\ UNCHANGED <<objects, trans, buffer, shared_lock, kept>>

(* step() of a query, and step_without_results(), which must find no row.    *)
StepSelect(s, without_results) ==
  /\ Live(s) /\ ~unwinding /\ stmt[s].sql # "insert"
  /\ LET at == IF stmt[s].state = "done" THEN 1 ELSE stmt[s].at + 1
         state == IF stmt[s].state = "aborted" THEN "ready"
                  ELSE IF at <= Len(raw.work) THEN "row"
                  ELSE "done"
     IN /\ stmt' = [stmt EXCEPT ![s].at = IF state = "row" THEN at ELSE 0, ![s].state = state]
        /\ result' = [NoResult EXCEPT !.outcome =
                        IF state = "row" /\ without_results THEN "abort" ELSE "ok"]
  /\ UNCHANGED <<raw, objects, trans, buffer, shared_lock, unwinding, kept, view>>
-----------------------------------------------------------------------------
column_count(s) == Len(Columns(stmt[s].sql))
column_name(s, index) == Columns(stmt[s].sql)[index]

(* Without a row every column is null.                                       *)
CellAt(s, index) ==
  IF stmt[s].state # "row" THEN NullCell ELSE raw.work[stmt[s].at].cells[column_name(s, index)]

c_type_to_cxx(type) == type
column_type(s, index) == c_type_to_cxx(CellAt(s, index).type)

Repeated(s) == \E i, j \in 1 .. column_count(s) : i < j /\ column_name(s, i) = column_name(s, j)

(* Filled on its first use, from the names of the columns.                   *)
column_cache(s) ==
  IF stmt[s].cache # EmptyCache THEN stmt[s].cache
  ELSE [i \in 1 .. column_count(s) |-> column_name(s, i)]

(* 0 is an invalid_column_error.                                             *)
column_id(s, name) ==
  LET cache == column_cache(s)
      found == {i \in DOMAIN cache : cache[i] = name}
  IN IF found = {} THEN 0 ELSE CHOOSE i \in found : TRUE

Getters == {"blob", "double", "int", "int64", "text", "bytes"}

TypesFor(getter) ==
  CASE getter = "double" -> {"float"}
    [] getter \in {"int", "int64"} -> {"integer"}
    [] getter = "bytes" -> {"blob", "text"}
    [] OTHER -> {getter}

(* What the getters without checks return; an int loses the higher bits, and *)
(* words are all of one byte.                                                *)
Column(cell, getter) ==
  CASE getter = "int" -> [cell EXCEPT !.val = @ % IntRange]
    [] getter = "bytes" -> [type |-> "integer", val |-> 1]
    [] OTHER -> cell

(* The safe getters: the column is looked up and its type checked first.     *)
SafeColumn(s, name, getter) ==
  /\ Live(s) /\ ~unwinding
  /\ LET id == column_id(s, name)
     IN CASE stmt[s].cache = EmptyCache /\ Repeated(s) -> Aborts
          [] ~Repeated(s) /\ id = 0 -> Throws
          [] ~Repeated(s) /\ id # 0 /\ column_type(s, id) \notin TypesFor(getter) ->
             /\ stmt' = [stmt EXCEPT ![s].cache = column_cache(s)]
             /\ Returns
             /\ UNCHANGED <<raw, objects, trans, buffer, shared_lock, unwinding, kept, view>>
          [] OTHER ->
             /\ stmt' = [stmt EXCEPT ![s].cache = column_cache(s)]
             /\ result' = [outcome |-> "ok", cell |-> Column(CellAt(s, id), getter),
                           meant |-> Column(view[stmt[s].at].meant[name], getter)]
             /\ UNCHANGED <<raw, objects, trans, buffer, shared_lock, unwinding, kept, view>>

Other ==
  /\ raw.state = "open"
  /\ shared_lock' = ~shared_lock
  /\ Returns
  /\ UNCHANGED <<raw, objects, trans, stmt, buffer, unwinding, kept, view>>

SqliteNext ==
  /\ result.outcome # "abort"
  /\ \/ Open \/ Copy \/ Close \/ DestroyDatabase \/ begin_transaction \/ create_statement
     \/ ReuseBuffer \/ Other
     \/ \E t \in Transactions : commit(t) \/ rollback(t) \/ DestroyTransaction(t)
     \/ \E s \in Statements :
          \/ Finalize(s) \/ clear_bindings(s) \/ Reset(s)
          \/ \E name \in {"v", "w"}, cell \in Cells : Bind(s, name, cell)
          \/ StepInsert(s) \/ StepInsertFull(s)
          \/ \E without_results \in BOOLEAN : StepSelect(s, without_results)
          \/ \E name \in {"k", "v", "w"}, getter \in Getters : SafeColumn(s, name, getter)

SqliteSpec == SqliteInit /\ [][SqliteNext]_sqlite_vars
-----------------------------------------------------------------------------
(* Exactly the rows whose INSERT, or whose commit(), returned normally are   *)
(* in the database: a transaction that was destroyed, whose commit failed or *)
(* whose statement threw leaves nothing behind, nor stays open to swallow    *)
(* the rows of later statements.                                             *)
Durable == raw.disk = kept /\ raw.work = view

(* A cell read by the name of its column, with a check of its type, is the   *)
(* value that was bound for it, whatever the client did to its buffer since. *)
ReadAsBound == result.cell = result.meant
=============================================================================
