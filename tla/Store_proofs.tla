----------------------------- MODULE Store_proofs -----------------------------
(* The interface to SQLite: for any number of statements and transactions,   *)
(* any rows and any order of calls, the database holds exactly the rows that *)
(* must last, and what is read from it is what was bound.  The migration of  *)
(* a historical database: what it may lose, for any actions and faults.      *)
(*                                                                           *)
(* Durable is not inductive.  An INSERT goes to the disk at once when SQLite *)
(* has no transaction, and must not when the program has one: so the two     *)
(* must agree on that except while an exception unwinds, when no statement   *)
(* runs, or after the database was closed, when no statement exists.         *)
EXTENDS Sqlite, Migration, TLAPS

Raw ==
  raw = [state |-> raw.state, readonly |-> raw.readonly, active |-> raw.active,
         disk |-> raw.disk, work |-> raw.work]

(* What is not in a transaction is on the disk.                              *)
Settled == ~raw.active => raw.work = raw.disk

(* A transaction of SQLite is one of the program's, on an open database.     *)
Owned == raw.active => OpenTransaction /\ raw.state = "open" /\ ~unwinding

(* One of the program's is one of SQLite's, except while an exception unwinds*)
(* or once the database was closed.                                          *)
Known == OpenTransaction /\ ~unwinding /\ raw.state = "open" => raw.active

Single ==
  \A t, u \in Transactions : trans[t] = "open" /\ trans[u] = "open" => t = u

Opened == \A s \in Statements : Live(s) => raw.state = "open"

(* Transactions begin once the database is open.                             *)
Fresh == raw.state = "none" => ~OpenTransaction

Inv ==
  /\ Raw /\ raw.active \in BOOLEAN /\ unwinding \in BOOLEAN
  /\ DOMAIN trans = Transactions
  /\ Durable /\ Settled /\ Owned /\ Known /\ Single /\ Opened /\ Fresh

LEMMA InitInv == SqliteInit => Inv
<1> SUFFICES ASSUME SqliteInit PROVE Inv
  OBVIOUS
<1>1. Raw /\ raw.active = FALSE /\ raw.disk = <<>> /\ raw.work = <<>>
  BY DEF SqliteInit, Raw
<1>2. ~OpenTransaction
  BY DEF SqliteInit, OpenTransaction
<1>3. DOMAIN trans = Transactions /\ unwinding = FALSE
  BY DEF SqliteInit
<1>4. Durable /\ Settled /\ Owned /\ Known
  BY <1>1, <1>2 DEF SqliteInit, Durable, Settled, Owned, Known
<1>5. Single
  BY DEF SqliteInit, Single
<1>6. Opened /\ Fresh
  BY <1>2 DEF SqliteInit, Opened, Live, Fresh
<1> QED
  BY <1>1, <1>3, <1>4, <1>5, <1>6 DEF Inv

(* Most calls touch neither the rows nor the transactions; one that touches  *)
(* statements needs an open database.                                        *)
LEMMA QuietStep ==
  ASSUME Inv, UNCHANGED <<raw, trans, unwinding, kept, view>>,
         UNCHANGED stmt \/ raw.state = "open"
  PROVE  Inv'
<1>1. Raw' /\ (raw.active \in BOOLEAN)' /\ (unwinding \in BOOLEAN)' /\ (DOMAIN trans = Transactions)'
  BY DEF Inv, Raw
<1>2. Durable' /\ Settled'
  BY DEF Inv, Durable, Settled
<1>3. Owned' /\ Known' /\ Fresh'
  BY DEF Inv, Owned, Known, Fresh, OpenTransaction
<1>4. Single'
  BY DEF Inv, Single
<1>5. Opened'
  BY DEF Inv, Opened, Live
<1> QED
  BY <1>1, <1>2, <1>3, <1>4, <1>5 DEF Inv

LEMMA AbortsKeeps == ASSUME Inv, Aborts PROVE Inv'
  BY QuietStep DEF Aborts

LEMMA ThrowsKeeps == ASSUME Inv, Throws PROVE Inv'
  BY QuietStep DEF Throws, sqlite_vars

(* What a rollback leaves, by whoever ordered it.                            *)
LEMMA RollbackRawFacts ==
  ASSUME Inv, RollbackRaw, kept' = kept
  PROVE  /\ Raw' /\ raw'.active = FALSE /\ raw'.state = raw.state
         /\ Durable' /\ Settled' /\ Owned'
  BY DEF Inv, RollbackRaw, Raw, Durable, Settled, Owned

LEMMA OpenKeeps == ASSUME Inv, Open PROVE Inv'
<1>1. CASE Throws
  BY <1>1, ThrowsKeeps
<1>2. CASE ~Throws
  <2> PICK mode \in {"readonly", "readwrite", "create"} :
        raw' = [raw EXCEPT !.state = "open", !.readonly = (mode = "readonly")]
    BY <1>2 DEF Open
  <2>1. raw.state = "none" /\ UNCHANGED <<trans, stmt, unwinding, kept, view>>
    BY <1>2 DEF Open
  <2>2. ~OpenTransaction /\ raw.active = FALSE
    BY <2>1 DEF Inv, Owned, Fresh
  <2>3. Raw' /\ raw'.state = "open" /\ raw'.active = FALSE /\ raw'.disk = raw.disk /\ raw'.work = raw.work
    BY <2>2 DEF Inv, Raw
  <2>4. ~OpenTransaction'
    BY <2>1, <2>2 DEF OpenTransaction
  <2>5. Durable' /\ Settled' /\ Owned' /\ Known' /\ Fresh'
    BY <2>1, <2>3, <2>4 DEF Inv, Durable, Settled, Owned, Known, Fresh
  <2>6. Single' /\ Opened'
    BY <2>1, <2>3 DEF Inv, Single, Opened
  <2> QED
    BY <2>1, <2>3, <2>5, <2>6 DEF Inv
<1> QED
  BY <1>1, <1>2

(* sqlite3_close() refuses to run while a statement lives.                   *)
LEMMA CloseRawKeeps == ASSUME Inv, NEW n, CloseRaw(n) PROVE Inv'
<1>1. CASE Aborts
  BY <1>1, AbortsKeeps
<1>2. CASE ~Aborts
  <2>1. /\ raw' = [raw EXCEPT !.state = "closed", !.active = FALSE, !.work = raw.disk]
        /\ view' = kept /\ UNCHANGED <<trans, stmt, unwinding, kept>>
        /\ ~\E s \in Statements : Live(s)
    BY <1>2 DEF CloseRaw
  <2>2. Raw' /\ raw'.state = "closed" /\ raw'.active = FALSE /\ raw'.disk = raw.disk /\ raw'.work = raw.disk
    BY <2>1 DEF Inv, Raw
  <2>3. Durable' /\ Settled' /\ Owned' /\ Known' /\ Fresh'
    BY <2>1, <2>2 DEF Inv, Durable, Settled, Owned, Known, Fresh
  <2>4. Single' /\ Opened'
    BY <2>1 DEF Inv, Single, Opened, Live
  <2> QED
    BY <2>1, <2>2, <2>3, <2>4 DEF Inv
<1> QED
  BY <1>1, <1>2

LEMMA BeginKeeps == ASSUME Inv, begin_transaction PROVE Inv'
<1>1. CASE ~CanBegin
  BY <1>1, ThrowsKeeps DEF begin_transaction
<1>2. CASE CanBegin
  <2> PICK t \in Transactions : trans' = [trans EXCEPT ![t] = "open"]
    BY <1>2 DEF begin_transaction
  <2>1. /\ raw' = [raw EXCEPT !.active = TRUE] /\ unwinding = FALSE
        /\ UNCHANGED <<stmt, unwinding, kept, view>> /\ raw.state = "open" /\ raw.active = FALSE
    BY <1>2 DEF begin_transaction, CanBegin, Inv
  <2>2. ~OpenTransaction
    BY <2>1 DEF Inv, Known
  <2>3. \A u \in Transactions : trans'[u] = "open" <=> u = t
    BY <2>2 DEF Inv, OpenTransaction
  <2>4. Single' /\ OpenTransaction' /\ (DOMAIN trans = Transactions)'
    BY <2>3 DEF Inv, Single, OpenTransaction
  <2>5. Raw' /\ raw'.active = TRUE /\ raw'.state = "open" /\ raw'.disk = raw.disk /\ raw'.work = raw.work
    BY <2>1 DEF Inv, Raw
  <2>6. Durable' /\ Settled' /\ Owned' /\ Known' /\ Fresh' /\ Opened'
    BY <2>1, <2>4, <2>5 DEF Inv, Durable, Settled, Owned, Known, Fresh, Opened
  <2> QED
    BY <2>1, <2>4, <2>5, <2>6 DEF Inv
<1> QED
  BY <1>1, <1>2

(* With one transaction at most, none is open once an open one is closed.    *)
LEMMA NoneLeft ==
  ASSUME Inv, NEW t \in Transactions, trans[t] = "open", NEW status, status # "open",
         trans' = [trans EXCEPT ![t] = status]
  PROVE  ~OpenTransaction' /\ Single' /\ (DOMAIN trans = Transactions)'
  BY DEF Inv, Single, OpenTransaction

LEMMA CommitKeeps == ASSUME Inv, NEW t \in Transactions, commit(t) PROVE Inv'
<1>1. CASE trans[t] # "open"
  BY <1>1, AbortsKeeps DEF commit
<1>2. CASE trans[t] = "open" /\ ~CanCommit
  BY <1>2, ThrowsKeeps DEF commit
<1>3. CASE trans[t] = "open" /\ CanCommit
  <2>1. /\ raw' = [raw EXCEPT !.active = FALSE, !.disk = raw.work]
        /\ trans' = [trans EXCEPT ![t] = "committed"]
        /\ kept' = view /\ UNCHANGED <<stmt, unwinding, view>>
    BY <1>3 DEF commit
  <2>2. ~OpenTransaction' /\ Single' /\ (DOMAIN trans = Transactions)'
    BY <1>3, <2>1, NoneLeft
  <2>3. Raw' /\ raw'.active = FALSE /\ raw'.state = raw.state /\ raw'.disk = raw.work /\ raw'.work = raw.work
    BY <2>1 DEF Inv, Raw
  <2>4. Durable' /\ Settled' /\ Owned' /\ Known' /\ Fresh'
    BY <2>1, <2>2, <2>3 DEF Inv, Durable, Settled, Owned, Known, Fresh
  <2>5. Opened'
    BY <2>1, <2>3 DEF Inv, Opened, Live
  <2> QED
    BY <2>1, <2>2, <2>3, <2>4, <2>5 DEF Inv
<1> QED
  BY <1>1, <1>2, <1>3

LEMMA RollbackKeeps == ASSUME Inv, NEW t \in Transactions, rollback(t) PROVE Inv'
<1>1. CASE trans[t] # "open"
  BY <1>1, AbortsKeeps DEF rollback
<1>2. CASE trans[t] = "open" /\ ~CanRollback
  BY <1>2, ThrowsKeeps DEF rollback
<1>3. CASE trans[t] = "open" /\ CanRollback
  <2>1. RollbackRaw /\ trans' = [trans EXCEPT ![t] = "rolled_back"] /\ UNCHANGED <<unwinding, kept>>
    BY <1>3 DEF rollback
  <2>2. ~OpenTransaction' /\ Single' /\ (DOMAIN trans = Transactions)'
    BY <1>3, <2>1, NoneLeft
  <2>3. Raw' /\ raw'.active = FALSE /\ raw'.state = "open" /\ Durable' /\ Settled' /\ Owned'
    BY <1>3, <2>1, RollbackRawFacts DEF CanRollback
  <2>4. Known' /\ Fresh' /\ Opened'
    BY <2>2, <2>3 DEF Known, Fresh, Opened
  <2> QED
    BY <2>1, <2>2, <2>3, <2>4 DEF Inv
<1> QED
  BY <1>1, <1>2, <1>3

(* The destructor: rolls back, cannot because SQLite already did, or had     *)
(* nothing to roll back.                                                     *)
LEMMA DestroyKeeps == ASSUME Inv, NEW t \in Transactions, DestroyTransaction(t) PROVE Inv'
<1>1. /\ trans' = [trans EXCEPT ![t] = "none"] /\ kept' = kept
      /\ unwinding' = (unwinding /\ OpenTransaction')
  BY DEF DestroyTransaction, OpenTransaction
<1>2. (unwinding \in BOOLEAN)' /\ (DOMAIN trans = Transactions)'
  BY <1>1 DEF Inv
<1>3. CASE trans[t] = "open" /\ CanRollback
  <2>1. RollbackRaw
    BY <1>3 DEF DestroyTransaction
  <2>2. ~OpenTransaction' /\ Single'
    BY <1>1, <1>3, NoneLeft
  <2>3. Raw' /\ raw'.active = FALSE /\ raw'.state = "open" /\ Durable' /\ Settled' /\ Owned'
    BY <1>1, <1>3, <2>1, RollbackRawFacts DEF CanRollback
  <2>4. Known' /\ Fresh' /\ Opened'
    BY <2>2, <2>3 DEF Known, Fresh, Opened
  <2> QED
    BY <1>2, <2>2, <2>3, <2>4 DEF Inv
<1>4. CASE ~(trans[t] = "open" /\ CanRollback)
  <2>1. UNCHANGED <<raw, stmt, view>>
    BY <1>4 DEF DestroyTransaction
  <2>2. Raw' /\ (raw.active \in BOOLEAN)' /\ Durable' /\ Settled' /\ Opened'
    BY <1>1, <2>1 DEF Inv, Raw, Durable, Settled, Opened, Live
  <2>3. CASE trans[t] = "open"
    <3>1. ~OpenTransaction' /\ Single'
      BY <1>1, <2>3, NoneLeft
    <3>2. raw.active = FALSE
      BY <1>4, <2>3 DEF Inv, Owned, CanRollback
    <3>3. Owned' /\ Known' /\ Fresh'
      BY <2>1, <3>1, <3>2 DEF Owned, Known, Fresh
    <3> QED
      BY <1>2, <2>2, <3>1, <3>3 DEF Inv
  <2>4. CASE trans[t] # "open"
    <3>1. \A u \in Transactions : trans'[u] = "open" <=> trans[u] = "open"
      BY <1>1, <2>4 DEF Inv
    <3>2. (OpenTransaction' <=> OpenTransaction) /\ Single'
      BY <3>1 DEF Inv, OpenTransaction, Single
    <3>3. Owned' /\ Known' /\ Fresh'
      BY <1>1, <2>1, <3>2 DEF Inv, Owned, Known, Fresh
    <3> QED
      BY <1>2, <2>2, <3>2, <3>3 DEF Inv
  <2> QED
    BY <2>3, <2>4
<1> QED
  BY <1>3, <1>4

(* SQLite and the program agree on whether the row is in a transaction.      *)
LEMMA InsertKeeps == ASSUME Inv, NEW s \in Statements, StepInsert(s) PROVE Inv'
<1>1. raw.state = "open" /\ unwinding = FALSE
  BY DEF StepInsert, Inv, Opened
<1>2. CASE raw.readonly \/ (~raw.active /\ shared_lock)
  BY <1>2, ThrowsKeeps DEF StepInsert
<1>3. CASE ~(raw.readonly \/ (~raw.active /\ shared_lock))
  <2> DEFINE row == RowOf(stmt[s])
             work == Append(raw.work, row)
  <2>1. /\ raw' = [raw EXCEPT !.work = work, !.disk = IF raw.active THEN @ ELSE work]
        /\ view' = Append(view, row)
        /\ kept' = IF OpenTransaction THEN kept ELSE Append(view, row)
        /\ UNCHANGED <<trans, unwinding>>
    BY <1>3 DEF StepInsert
  <2> HIDE DEF row
  <2>2. raw.active <=> OpenTransaction
    BY <1>1 DEF Inv, Owned, Known
  <2>3. Raw' /\ raw'.active = raw.active /\ raw'.state = "open" /\ raw'.work = work
        /\ raw'.disk = IF raw.active THEN raw.disk ELSE work
    BY <1>1, <2>1 DEF Inv, Raw
  <2>4. Durable' /\ Settled'
    BY <2>1, <2>2, <2>3 DEF Inv, Durable, Settled
  <2>5. Owned' /\ Known' /\ Fresh' /\ Single'
    BY <2>1, <2>3, <1>1 DEF Inv, Owned, Known, Fresh, Single, OpenTransaction
  <2>6. Opened'
    BY <2>3 DEF Opened
  <2> QED
    BY <2>1, <2>3, <2>4, <2>5, <2>6 DEF Inv
<1> QED
  BY <1>2, <1>3

(* SQLite rolls back by itself, and the program unwinds to its transaction.  *)
LEMMA InsertFullKeeps == ASSUME Inv, NEW s \in Statements, StepInsertFull(s) PROVE Inv'
<1>1. raw.state = "open" /\ RollbackRaw /\ unwinding' = OpenTransaction /\ UNCHANGED <<trans, kept>>
  BY DEF StepInsertFull, Inv, Opened
<1>2. Raw' /\ raw'.active = FALSE /\ raw'.state = "open" /\ Durable' /\ Settled' /\ Owned'
  BY <1>1, RollbackRawFacts
<1>3. (OpenTransaction' <=> OpenTransaction) /\ Single' /\ (DOMAIN trans = Transactions)'
  BY <1>1 DEF Inv, OpenTransaction, Single
<1>4. Known' /\ Fresh' /\ Opened'
  BY <1>1, <1>2, <1>3 DEF Known, Fresh, Opened
<1>5. (unwinding \in BOOLEAN)'
  BY <1>1 DEF OpenTransaction
<1> QED
  BY <1>2, <1>3, <1>4, <1>5 DEF Inv

(* The calls of a statement that leave the rows alone.                       *)
LEMMA StatementKeeps ==
  ASSUME Inv, NEW s \in Statements,
         \/ Finalize(s) \/ clear_bindings(s) \/ Reset(s)
         \/ \E name \in {"v", "w"}, cell \in Cells : Bind(s, name, cell)
         \/ \E without_results \in BOOLEAN : StepSelect(s, without_results)
         \/ \E name \in {"k", "v", "w"}, getter \in Getters : SafeColumn(s, name, getter)
  PROVE  Inv'
<1>1. Live(s)
  BY DEF Finalize, clear_bindings, Reset, Bind, StepSelect, SafeColumn
<1>2. raw.state = "open"
  BY <1>1 DEF Inv, Opened
<1>3. UNCHANGED <<raw, trans, unwinding, kept, view>>
  BY DEF Finalize, clear_bindings, Reset, Bind, StepSelect, SafeColumn, Aborts, Throws, sqlite_vars
<1> QED
  BY <1>2, <1>3, QuietStep

LEMMA NextInv == ASSUME Inv, [SqliteNext]_sqlite_vars PROVE Inv'
<1>1. CASE UNCHANGED sqlite_vars
  BY <1>1, QuietStep DEF sqlite_vars
<1>2. CASE Open
  BY <1>2, OpenKeeps
<1>3. CASE Copy
  BY <1>3, QuietStep DEF Copy
<1>4. CASE Close
  BY <1>4, CloseRawKeeps DEF Close
<1>5. CASE DestroyDatabase
  BY <1>5, CloseRawKeeps, QuietStep DEF DestroyDatabase
<1>6. CASE begin_transaction
  BY <1>6, BeginKeeps
<1>7. CASE create_statement
  <2>1. CASE Throws
    BY <2>1, ThrowsKeeps
  <2>2. CASE ~Throws
    BY <1>7, <2>2, QuietStep DEF create_statement
  <2> QED
    BY <2>1, <2>2
<1>8. CASE ReuseBuffer \/ Other
  BY <1>8, QuietStep DEF ReuseBuffer, Other
<1>9. CASE \E t \in Transactions : commit(t) \/ rollback(t) \/ DestroyTransaction(t)
  BY <1>9, CommitKeeps, RollbackKeeps, DestroyKeeps
<1>10. CASE \E s \in Statements : StepInsert(s) \/ StepInsertFull(s)
  BY <1>10, InsertKeeps, InsertFullKeeps
<1>11. ASSUME NEW s \in Statements,
              \/ Finalize(s) \/ clear_bindings(s) \/ Reset(s)
              \/ \E name \in {"v", "w"}, cell \in Cells : Bind(s, name, cell)
              \/ \E without_results \in BOOLEAN : StepSelect(s, without_results)
              \/ \E name \in {"k", "v", "w"}, getter \in Getters : SafeColumn(s, name, getter)
       PROVE  Inv'
  BY <1>11, StatementKeeps
<1> QED
  BY <1>1, <1>2, <1>3, <1>4, <1>5, <1>6, <1>7, <1>8, <1>9, <1>10, <1>11 DEF SqliteNext

(* Whatever calls a client makes of the database, its transactions and its   *)
(* statements, in any order, with failed commits, full disks and exceptions: *)
(* exactly the rows whose INSERT or whose commit() returned normally last    *)
(* (transaction::commit(), ~transaction(), statement::step()).               *)
THEOREM RowsDurable == SqliteSpec => []Durable
<1>1. Inv => Durable
  BY DEF Inv
<1> QED
  BY InitInv, NextInv, <1>1, PTL DEF SqliteSpec
-----------------------------------------------------------------------------
(* That a cell is read as it was bound rests on what the program remembers   *)
(* of each statement.  A binding is the value itself, or a pointer to a      *)
(* buffer that still holds it; a statement on a row has a row to be on,      *)
(* since whatever removes rows ends it; and the names in its cache, once     *)
(* filled, are those of its columns, each of them once.                      *)

Value == [type : {"null", "text", "blob", "integer"}, val : Words \cup {0, Number}]

(* A row that is stored is the row that was meant.                           *)
Row == {r \in [cells : [k : Value, v : Value], meant : [k : Value, v : Value]] : r.cells = r.meant}

(* A text is kept by its contents, a blob by a pointer to the contents w.    *)
Faithful(bound, meant, w) ==
  \/ bound = meant /\ meant = NullCell
  \/ bound = meant /\ meant \in [type : {"text"}, val : Words]
  \/ bound = [type |-> "blob", val |-> Pointer] /\ meant = [type |-> "blob", val |-> w]

Named(cache, names) ==
  /\ DOMAIN cache = 1 .. Len(names)
  /\ \A i \in 1 .. Len(names) : cache[i] = names[i]
  /\ \A i, j \in 1 .. Len(names) : i < j => names[i] # names[j]

(* A statement over n rows, with w in the client's buffer.                   *)
Sound(r, n, w) ==
  /\ r = [sql |-> r.sql, bound |-> [v |-> r.bound.v], meant |-> [v |-> r.meant.v],
          at |-> r.at, state |-> r.state, cache |-> r.cache]
  /\ Faithful(r.bound.v, r.meant.v, w)
  /\ r.at \in Nat /\ (r.state = "row" => r.at \in 1 .. n)
  /\ r.cache # EmptyCache => Named(r.cache, Columns(r.sql))

StatementsSound ==
  /\ stmt = [s \in Statements |-> stmt[s]]
  /\ \A s \in Statements : Live(s) => Sound(stmt[s], Len(raw.work), buffer)

Rows == buffer \in Words /\ view \in Seq(Row) /\ kept \in Seq(Row)

Answer ==
  /\ result = [outcome |-> result.outcome, cell |-> result.cell, meant |-> result.meant]
  /\ ReadAsBound

Readable == Rows /\ StatementsSound /\ Answer

LEMMA AnswerKeeps ==
  ASSUME Answer, Returns \/ UNCHANGED result \/ (\E o : result' = [result EXCEPT !.outcome = o])
  PROVE  Answer'
<1>1. CASE Returns
  BY <1>1 DEF Answer, ReadAsBound, Returns, NoResult
<1>2. CASE UNCHANGED result
  BY <1>2 DEF Answer, ReadAsBound
<1>3. ASSUME NEW o, result' = [result EXCEPT !.outcome = o] PROVE Answer'
  BY <1>3 DEF Answer, ReadAsBound
<1> QED
  BY <1>1, <1>2, <1>3

LEMMA InitReadable == ASSUME SqliteInit PROVE Readable
<1>1. Rows
  BY DEF SqliteInit, Rows
<1>2. StatementsSound
  BY DEF SqliteInit, StatementsSound, Live
<1>3. Answer
  BY DEF SqliteInit, Answer, ReadAsBound, NoResult
<1> QED
  BY <1>1, <1>2, <1>3 DEF Readable

(* Calls that touch neither the rows, the statements nor the buffer.         *)
LEMMA UnmovedReadable ==
  ASSUME Readable, UNCHANGED <<stmt, buffer, kept, view>>, raw'.work = raw.work, Answer'
  PROVE  Readable'
<1>1. Rows'
  BY DEF Readable, Rows
<1>2. StatementsSound'
  BY DEF Readable, StatementsSound, Live
<1> QED
  BY <1>1, <1>2 DEF Readable

LEMMA AbortsReadable == ASSUME Readable, Aborts PROVE Readable'
<1>1. Answer'
  BY AnswerKeeps DEF Aborts, Readable
<1> QED
  BY <1>1, UnmovedReadable DEF Aborts

LEMMA ThrowsReadable == ASSUME Readable, Throws PROVE Readable'
<1>1. Answer' /\ UNCHANGED <<raw, stmt, buffer, kept, view>>
  BY AnswerKeeps DEF Throws, Readable, sqlite_vars
<1> QED
  BY <1>1, UnmovedReadable

(* A call of one statement leaves the others as they are.                    *)
LEMMA OneStatement ==
  ASSUME Readable, NEW s \in Statements, NEW r, stmt' = [stmt EXCEPT ![s] = r],
         r = NoStatement \/ Sound(r, Len(raw.work), buffer),
         UNCHANGED <<buffer, kept, view>>, raw'.work = raw.work, Answer'
  PROVE  Readable'
<1>1. Rows'
  BY DEF Readable, Rows
<1>2. stmt' = [u \in Statements |-> stmt'[u]] /\ stmt'[s] = r
      /\ \A u \in Statements : u # s => stmt'[u] = stmt[u]
  BY DEF Readable, StatementsSound
<1>3. ASSUME NEW u \in Statements, Live(u)' PROVE Sound(stmt[u], Len(raw.work), buffer)'
  BY <1>2, <1>3 DEF Readable, StatementsSound, Live, Sound
<1>4. StatementsSound'
  BY <1>2, <1>3 DEF StatementsSound
<1> QED
  BY <1>1, <1>4 DEF Readable

(* A rollback removes rows, and ends the queries that were on one.           *)
LEMMA RollbackReadable ==
  ASSUME Inv, Readable, RollbackRaw, UNCHANGED <<buffer, kept>>, Answer'
  PROVE  Readable'
<1>1. Rows'
  BY DEF Readable, Rows, RollbackRaw
<1>2. stmt' = [u \in Statements |-> stmt'[u]]
  BY DEF RollbackRaw
<1>3. ASSUME NEW u \in Statements, Live(u)' PROVE Sound(stmt[u], Len(raw.work), buffer)'
  <2>1. CASE Live(u) /\ stmt[u].state = "row"
    <3>1. stmt'[u] = [stmt[u] EXCEPT !.state = "aborted"] /\ Sound(stmt[u], Len(raw.work), buffer)
      BY <2>1 DEF RollbackRaw, Readable, StatementsSound
    <3> QED
      BY <3>1 DEF Sound
  <2>2. CASE ~(Live(u) /\ stmt[u].state = "row")
    <3>1. stmt'[u] = stmt[u]
      BY <2>2 DEF RollbackRaw
    <3>2. Live(u) /\ stmt[u].state # "row"
      BY <1>3, <2>2, <3>1 DEF Live
    <3>3. Sound(stmt[u], Len(raw.work), buffer)
      BY <3>2 DEF Readable, StatementsSound
    <3> QED
      BY <3>1, <3>2, <3>3 DEF Sound
  <2> QED
    BY <2>1, <2>2
<1>4. StatementsSound'
  BY <1>2, <1>3 DEF StatementsSound
<1> QED
  BY <1>1, <1>4 DEF Readable

(* sqlite3_close() rolls back too, with no statement alive.                  *)
LEMMA CloseRawReadable == ASSUME Readable, NEW n, CloseRaw(n) PROVE Readable'
<1>1. CASE Aborts
  BY <1>1, AbortsReadable
<1>2. CASE ~Aborts
  <2>1. /\ view' = kept /\ UNCHANGED <<stmt, buffer, kept>> /\ Returns
        /\ ~\E s \in Statements : Live(s)
    BY <1>2 DEF CloseRaw
  <2>2. Answer'
    BY <2>1, AnswerKeeps DEF Readable
  <2>3. Rows' /\ StatementsSound'
    BY <2>1 DEF Readable, Rows, StatementsSound, Live
  <2> QED
    BY <2>2, <2>3 DEF Readable
<1> QED
  BY <1>1, <1>2

LEMMA DatabaseReadable ==
  ASSUME Inv, Readable, Open \/ Copy \/ Close \/ DestroyDatabase \/ begin_transaction \/ Other
  PROVE  Readable'
<1>1. CASE Throws \/ Aborts
  BY <1>1, ThrowsReadable, AbortsReadable
<1>2. CASE \E n : CloseRaw(n)
  BY <1>2, CloseRawReadable
<1>3. CASE ~(Throws \/ Aborts) /\ ~\E n : CloseRaw(n)
  <2>1. UNCHANGED <<stmt, buffer, kept, view>> /\ Returns
    BY <1>3 DEF Open, Copy, Close, DestroyDatabase, begin_transaction, Other
  <2>2. raw'.work = raw.work
    <3>1. CASE Open
      BY <1>3, <3>1 DEF Open, Inv, Raw
    <3>2. CASE begin_transaction
      BY <1>3, <3>2 DEF begin_transaction, Inv, Raw
    <3>3. CASE Copy \/ Close \/ DestroyDatabase \/ Other
      BY <1>3, <3>3 DEF Copy, Close, DestroyDatabase, Other
    <3> QED
      BY <3>1, <3>2, <3>3
  <2>3. Answer'
    BY <2>1, AnswerKeeps DEF Readable
  <2> QED
    BY <2>1, <2>2, <2>3, UnmovedReadable
<1> QED
  BY <1>1, <1>2, <1>3

LEMMA TransactionReadable ==
  ASSUME Inv, Readable, NEW t \in Transactions, commit(t) \/ rollback(t) \/ DestroyTransaction(t)
  PROVE  Readable'
<1>1. CASE Throws \/ Aborts
  BY <1>1, ThrowsReadable, AbortsReadable
<1>2. CASE ~(Throws \/ Aborts)
  <2>1. Returns /\ buffer' = buffer
    BY <1>2 DEF commit, rollback, DestroyTransaction
  <2>2. Answer'
    BY <2>1, AnswerKeeps DEF Readable
  <2>3. CASE RollbackRaw /\ kept' = kept
    BY <2>1, <2>2, <2>3, RollbackReadable
  <2>4. CASE commit(t)
    <3>1. /\ raw' = [raw EXCEPT !.active = FALSE, !.disk = raw.work]
          /\ kept' = view /\ UNCHANGED <<stmt, view>>
      BY <1>2, <2>4 DEF commit
    <3>2. raw'.work = raw.work
      BY <3>1 DEF Inv, Raw
    <3>3. Rows' /\ StatementsSound'
      BY <2>1, <3>1, <3>2 DEF Readable, Rows, StatementsSound, Live
    <3> QED
      BY <2>2, <3>3 DEF Readable
  <2>5. CASE UNCHANGED <<raw, stmt, view, kept>>
    BY <2>1, <2>2, <2>5, UnmovedReadable
  <2> QED
    BY <1>2, <2>3, <2>4, <2>5 DEF rollback, DestroyTransaction
<1> QED
  BY <1>1, <1>2

(* A sound statement is put together from its fields, and so is what EXCEPT  *)
(* makes of it.                                                              *)
LEMMA SoundParts ==
  ASSUME NEW sql, NEW b, NEW m, NEW at \in Nat, NEW state, NEW cache, NEW n, NEW w,
         Faithful(b, m, w), state = "row" => at \in 1 .. n,
         cache # EmptyCache => Named(cache, Columns(sql))
  PROVE  Sound([sql |-> sql, bound |-> [v |-> b], meant |-> [v |-> m],
                at |-> at, state |-> state, cache |-> cache], n, w)
  BY DEF Sound

LEMMA BindingParts ==
  ASSUME NEW r, NEW n, NEW w, Sound(r, n, w), NEW b, NEW m
  PROVE  [r EXCEPT !.bound = [v |-> b], !.meant = [v |-> m]] =
           [sql |-> r.sql, bound |-> [v |-> b], meant |-> [v |-> m],
            at |-> r.at, state |-> r.state, cache |-> r.cache]
<1>1. PICK sql, rb, rm, ra, rs, rc :
        r = [sql |-> sql, bound |-> [v |-> rb], meant |-> [v |-> rm],
             at |-> ra, state |-> rs, cache |-> rc]
  BY DEF Sound
<1>2. /\ r.sql = sql /\ r.bound = [v |-> rb] /\ r.meant = [v |-> rm]
      /\ r.at = ra /\ r.state = rs /\ r.cache = rc
  BY <1>1
<1>3. [r EXCEPT !.bound = [v |-> b], !.meant = [v |-> m]] =
        [sql |-> sql, bound |-> [v |-> b], meant |-> [v |-> m], at |-> ra, state |-> rs, cache |-> rc]
  <2> DEFINE q == [r EXCEPT !.bound = [v |-> b]]
  <2>1. q = [sql |-> sql, bound |-> [v |-> b], meant |-> [v |-> rm],
             at |-> ra, state |-> rs, cache |-> rc]
    BY <1>1
  <2>2. [r EXCEPT !.bound = [v |-> b], !.meant = [v |-> m]] = [q EXCEPT !.meant = [v |-> m]]
    OBVIOUS
  <2> HIDE DEF q
  <2> QED
    BY <2>1, <2>2
<1> QED
  BY <1>2, <1>3

LEMMA BoundParts ==
  ASSUME NEW r, NEW n, NEW w, Sound(r, n, w), NEW b, NEW m
  PROVE  [r EXCEPT !.bound["v"] = b, !.meant["v"] = m] =
           [sql |-> r.sql, bound |-> [v |-> b], meant |-> [v |-> m],
            at |-> r.at, state |-> r.state, cache |-> r.cache]
<1>1. PICK sql, rb, rm, ra, rs, rc :
        r = [sql |-> sql, bound |-> [v |-> rb], meant |-> [v |-> rm],
             at |-> ra, state |-> rs, cache |-> rc]
  BY DEF Sound
<1>2. /\ r.sql = sql /\ r.bound = [v |-> rb] /\ r.meant = [v |-> rm]
      /\ r.at = ra /\ r.state = rs /\ r.cache = rc
  BY <1>1
<1>3. [r EXCEPT !.bound["v"] = b, !.meant["v"] = m] =
        [r EXCEPT !.bound = [v |-> b], !.meant = [v |-> m]]
  <2>1. [r.bound EXCEPT !["v"] = b] = [v |-> b] /\ [r.meant EXCEPT !["v"] = m] = [v |-> m]
    <3>1. ASSUME NEW a, NEW c PROVE [[v |-> a] EXCEPT !["v"] = c] = [v |-> c]
      <4>1. [v |-> a] = [p \in {"v"} |-> a] /\ [v |-> c] = [p \in {"v"} |-> c]
        OBVIOUS
      <4>2. [[p \in {"v"} |-> a] EXCEPT !["v"] = c] = [p \in {"v"} |-> c]
        OBVIOUS
      <4> QED
        BY <4>1, <4>2
    <3> QED
      BY <1>2, <3>1
  <2>2. [r EXCEPT !.bound["v"] = b, !.meant["v"] = m] =
          [r EXCEPT !.bound = [r.bound EXCEPT !["v"] = b], !.meant = [r.meant EXCEPT !["v"] = m]]
    OBVIOUS
  <2> QED
    BY <2>1, <2>2
<1> QED
  BY <1>3, BindingParts

LEMMA PlaceParts ==
  ASSUME NEW r, NEW n, NEW w, Sound(r, n, w), NEW at, NEW state
  PROVE  [r EXCEPT !.at = at, !.state = state] =
           [sql |-> r.sql, bound |-> [v |-> r.bound.v], meant |-> [v |-> r.meant.v],
            at |-> at, state |-> state, cache |-> r.cache]
<1>1. PICK sql, rb, rm, ra, rs, rc :
        r = [sql |-> sql, bound |-> [v |-> rb], meant |-> [v |-> rm],
             at |-> ra, state |-> rs, cache |-> rc]
  BY DEF Sound
<1>2. /\ r.sql = sql /\ r.bound = [v |-> rb] /\ r.meant = [v |-> rm]
      /\ r.at = ra /\ r.state = rs /\ r.cache = rc
  BY <1>1
<1>3. [r EXCEPT !.at = at, !.state = state] =
        [sql |-> sql, bound |-> [v |-> rb], meant |-> [v |-> rm], at |-> at, state |-> state, cache |-> rc]
  <2> DEFINE q == [r EXCEPT !.at = at]
  <2>1. q = [sql |-> sql, bound |-> [v |-> rb], meant |-> [v |-> rm],
             at |-> at, state |-> rs, cache |-> rc]
    BY <1>1
  <2>2. [r EXCEPT !.at = at, !.state = state] = [q EXCEPT !.state = state]
    OBVIOUS
  <2> HIDE DEF q
  <2> QED
    BY <2>1, <2>2
<1> QED
  BY <1>2, <1>3

(* The client waits with its buffer while a blob is bound from it.           *)
LEMMA BufferReadable == ASSUME Readable, ReuseBuffer PROVE Readable'
<1>1. UNCHANGED <<raw, stmt, kept, view>> /\ buffer' \in Words /\ Returns
  BY DEF ReuseBuffer
<1>2. Rows' /\ Answer'
  BY <1>1, AnswerKeeps DEF Readable, Rows
<1>3. ASSUME NEW u \in Statements, Live(u) PROVE Sound(stmt[u], Len(raw.work), buffer')
  <2>1. Sound(stmt[u], Len(raw.work), buffer) /\ stmt[u].meant.v.type # "blob"
    BY <1>3 DEF Readable, StatementsSound, ReuseBuffer
  <2>2. Faithful(stmt[u].bound.v, stmt[u].meant.v, buffer')
    BY <2>1 DEF Sound, Faithful
  <2> QED
    BY <2>1, <2>2 DEF Sound
<1>4. StatementsSound'
  BY <1>1, <1>3 DEF Readable, StatementsSound, Live
<1> QED
  BY <1>2, <1>4 DEF Readable

LEMMA CreateReadable == ASSUME Readable, create_statement PROVE Readable'
<1>1. CASE Throws
  BY <1>1, ThrowsReadable
<1>2. CASE ~Throws
  <2>1. PICK s \in Statements : \E sql \in SqlOf[s] : stmt' = [stmt EXCEPT ![s] = NewStatement(sql)]
    BY <1>2 DEF create_statement
  <2>2. PICK sql : stmt' = [stmt EXCEPT ![s] = NewStatement(sql)]
    BY <2>1
  <2>3. UNCHANGED <<raw, buffer, kept, view>> /\ Returns
    BY <1>2 DEF create_statement
  <2>4. Sound(NewStatement(sql), Len(raw.work), buffer)
    BY DEF Sound, NewStatement, Faithful, Unbound
  <2>5. Answer'
    BY <2>3, AnswerKeeps DEF Readable
  <2> QED
    BY <2>2, <2>3, <2>4, <2>5, OneStatement
<1> QED
  BY <1>1, <1>2

(* Calls that change one field or two of a statement.                        *)
LEMMA FieldsReadable ==
  ASSUME Readable, NEW s \in Statements, Finalize(s) \/ clear_bindings(s) \/ Reset(s)
  PROVE  Readable'
<1>1. UNCHANGED <<raw, buffer, kept, view>> /\ Returns /\ Live(s)
  BY DEF Finalize, clear_bindings, Reset
<1>2. Answer' /\ Sound(stmt[s], Len(raw.work), buffer) /\ DOMAIN stmt = Statements
  BY <1>1, AnswerKeeps DEF Readable, StatementsSound
<1>3. CASE Finalize(s)
  BY <1>1, <1>2, <1>3, OneStatement DEF Finalize
<1>4. CASE clear_bindings(s)
  <2> DEFINE r == [stmt[s] EXCEPT !.bound = Unbound, !.meant = Unbound]
  <2>1. stmt' = [stmt EXCEPT ![s] = r]
    BY <1>2, <1>4 DEF clear_bindings
  <2>2. r = [sql |-> stmt[s].sql, bound |-> [v |-> NullCell], meant |-> [v |-> NullCell],
             at |-> stmt[s].at, state |-> stmt[s].state, cache |-> stmt[s].cache]
    BY <1>2, BindingParts DEF Unbound
  <2>3. Faithful(NullCell, NullCell, buffer)
    BY DEF Faithful
  <2>4. /\ stmt[s].at \in Nat /\ (stmt[s].state = "row" => stmt[s].at \in 1 .. Len(raw.work))
        /\ stmt[s].cache # EmptyCache => Named(stmt[s].cache, Columns(stmt[s].sql))
    BY <1>2 DEF Sound
  <2> HIDE DEF r
  <2>5. Sound(r, Len(raw.work), buffer)
    BY <2>2, <2>3, <2>4, SoundParts
  <2> QED
    BY <1>1, <1>2, <2>1, <2>5, OneStatement
<1>5. CASE Reset(s)
  <2> DEFINE r == [stmt[s] EXCEPT !.at = 0, !.state = "ready"]
  <2>1. stmt' = [stmt EXCEPT ![s] = r]
    BY <1>2, <1>5 DEF Reset
  <2>2. r = [sql |-> stmt[s].sql, bound |-> [v |-> stmt[s].bound.v], meant |-> [v |-> stmt[s].meant.v],
             at |-> 0, state |-> "ready", cache |-> stmt[s].cache]
    BY <1>2, PlaceParts
  <2>3. Sound(r, Len(raw.work), buffer)
    BY <1>2, <2>2, SoundParts DEF Sound
  <2> QED
    BY <1>1, <1>2, <2>1, <2>3, OneStatement
<1> QED
  BY <1>3, <1>4, <1>5

(* What is bound is faithful to what was meant, as the buffer is now.        *)
LEMMA BindReadable ==
  ASSUME Readable, NEW s \in Statements, NEW name \in {"v", "w"}, NEW cell \in Cells,
         Bind(s, name, cell)
  PROVE  Readable'
<1>1. CASE Throws \/ Aborts
  BY <1>1, ThrowsReadable, AbortsReadable
<1>2. CASE ~(Throws \/ Aborts)
  <2>1. /\ stmt' = [stmt EXCEPT ![s].bound[name] = BindingOf(cell), ![s].meant[name] = cell]
        /\ UNCHANGED <<raw, buffer, kept, view>> /\ Returns /\ Live(s)
        /\ bind_parameter_index(s, name) # 0
    BY <1>2 DEF Bind
  <2>2. name = "v"
    BY <2>1 DEF bind_parameter_index, Parameters
  <2>3. Answer' /\ Sound(stmt[s], Len(raw.work), buffer) /\ DOMAIN stmt = Statements
    BY <2>1, AnswerKeeps DEF Readable, StatementsSound
  <2> DEFINE r == [stmt[s] EXCEPT !.bound["v"] = BindingOf(cell), !.meant["v"] = cell]
  <2>4. stmt' = [stmt EXCEPT ![s] = r]
    BY <2>1, <2>2, <2>3
  <2>5. buffer \in Words
    BY DEF Readable, Rows
  <2>6. Faithful(BindingOf(cell), cell, buffer)
    BY <2>5 DEF Cells, BindingOf, Faithful
  <2>7. r = [sql |-> stmt[s].sql, bound |-> [v |-> BindingOf(cell)], meant |-> [v |-> cell],
             at |-> stmt[s].at, state |-> stmt[s].state, cache |-> stmt[s].cache]
    BY <2>3, BoundParts
  <2>8. Sound(r, Len(raw.work), buffer)
    BY <2>3, <2>6, <2>7 DEF Sound
  <2> QED
    BY <2>1, <2>3, <2>4, <2>8, OneStatement
<1> QED
  BY <1>1, <1>2

LEMMA SelectReadable ==
  ASSUME Inv, Readable, NEW s \in Statements, NEW without_results, StepSelect(s, without_results)
  PROVE  Readable'
<1> DEFINE at == IF stmt[s].state = "done" THEN 1 ELSE stmt[s].at + 1
           state == IF stmt[s].state = "aborted" THEN "ready"
                    ELSE IF at <= Len(raw.work) THEN "row"
                    ELSE "done"
           r == [stmt[s] EXCEPT !.at = IF state = "row" THEN at ELSE 0, !.state = state]
<1>1. /\ stmt' = [stmt EXCEPT ![s].at = IF state = "row" THEN at ELSE 0, ![s].state = state]
      /\ \E o : result' = [NoResult EXCEPT !.outcome = o]
      /\ Live(s) /\ UNCHANGED <<raw, buffer, kept, view>>
  BY DEF StepSelect
<1>2. Sound(stmt[s], Len(raw.work), buffer) /\ DOMAIN stmt = Statements /\ Len(raw.work) \in Nat
  BY <1>1 DEF Readable, StatementsSound, Inv, Durable, Rows
<1>3. at \in Nat /\ at >= 1
  BY <1>2 DEF Sound
<1> HIDE DEF at
<1>4. state = "row" => at <= Len(raw.work)
  OBVIOUS
<1> HIDE DEF state
<1>5. stmt' = [stmt EXCEPT ![s] = r]
  BY <1>1, <1>2
<1>6. Sound(r, Len(raw.work), buffer)
  <2> DEFINE at2 == IF state = "row" THEN at ELSE 0
  <2>1. at2 \in Nat /\ (state = "row" => at2 \in 1 .. Len(raw.work))
    BY <1>2, <1>3, <1>4
  <2> HIDE DEF at2
  <2>2. [stmt[s] EXCEPT !.at = at2, !.state = state] =
          [sql |-> stmt[s].sql, bound |-> [v |-> stmt[s].bound.v], meant |-> [v |-> stmt[s].meant.v],
           at |-> at2, state |-> state, cache |-> stmt[s].cache]
    BY <1>2, PlaceParts
  <2>3. Sound([stmt[s] EXCEPT !.at = at2, !.state = state], Len(raw.work), buffer)
    BY <1>2, <2>1, <2>2, SoundParts DEF Sound
  <2> QED
    BY <2>3 DEF at2
<1>7. Answer'
  BY <1>1 DEF Answer, ReadAsBound, NoResult
<1> QED
  BY <1>1, <1>5, <1>6, <1>7, OneStatement

(* The row that goes to the table is the row that was meant.                 *)
LEMMA InsertReadable == ASSUME Inv, Readable, NEW s \in Statements, StepInsert(s) PROVE Readable'
<1>1. CASE Throws
  BY <1>1, ThrowsReadable
<1>2. CASE ~Throws
  <2> DEFINE row == RowOf(stmt[s])
             work == Append(raw.work, row)
             r == [stmt[s] EXCEPT !.state = "done"]
  <2>1. /\ raw' = [raw EXCEPT !.work = work, !.disk = IF raw.active THEN @ ELSE work]
        /\ view' = Append(view, row)
        /\ kept' = IF OpenTransaction THEN kept ELSE Append(view, row)
        /\ stmt' = [stmt EXCEPT ![s].state = "done"]
        /\ UNCHANGED buffer /\ Returns /\ Live(s)
    BY <1>2 DEF StepInsert
  <2>2. Sound(stmt[s], Len(raw.work), buffer) /\ DOMAIN stmt = Statements /\ buffer \in Words
    BY <2>1 DEF Readable, StatementsSound, Rows
  <2>3. CellOf(stmt[s].bound.v) = stmt[s].meant.v /\ stmt[s].meant.v \in Value
    BY <2>2, PointerAssumption DEF Sound, Faithful, CellOf, Value, NullCell
  <2>4. row \in Row
    BY <2>3 DEF RowOf, Row, Value
  <2> HIDE DEF row
  <2>5. Answer'
    BY <2>1, AnswerKeeps DEF Readable
  <2>6. Rows' /\ Len(raw.work) \in Nat /\ raw'.work = work /\ Len(work) = Len(raw.work) + 1
    BY <2>1, <2>4 DEF Readable, Rows, Inv, Raw, Durable
  <2>7. ASSUME NEW u \in Statements, Live(u)' PROVE Sound(stmt[u], Len(raw.work), buffer)'
    <3>1. CASE u = s
      <4>1. stmt'[u] = r
        BY <2>1, <2>2, <3>1
      <4> QED
        BY <2>1, <2>2, <4>1 DEF Sound
    <3>2. CASE u # s
      <4>1. stmt'[u] = stmt[u]
        BY <2>1, <2>2, <3>2
      <4>2. Sound(stmt[u], Len(raw.work), buffer)
        BY <2>7, <4>1 DEF Readable, StatementsSound, Live
      <4> QED
        BY <2>1, <2>6, <4>1, <4>2 DEF Sound
    <3> QED
      BY <3>1, <3>2
  <2>8. StatementsSound'
    BY <2>1, <2>2, <2>7 DEF StatementsSound
  <2> QED
    BY <2>5, <2>6, <2>8 DEF Readable
<1> QED
  BY <1>1, <1>2

(* The cache, filled now or before, finds the column of that name: the cell  *)
(* is one of the row the statement is on, which holds what was meant.        *)
LEMMA ColumnReadable ==
  ASSUME Inv, Readable, NEW s \in Statements, NEW name, NEW getter \in Getters,
         SafeColumn(s, name, getter)
  PROVE  Readable'
<1> DEFINE id == column_id(s, name)
           names == Columns(stmt[s].sql)
           cache == column_cache(s)
           r == [stmt[s] EXCEPT !.cache = cache]
<1>1. Live(s) /\ Sound(stmt[s], Len(raw.work), buffer) /\ DOMAIN stmt = Statements
  BY DEF SafeColumn, Readable, StatementsSound
<1>2. CASE stmt[s].cache = EmptyCache /\ Repeated(s)
  BY <1>2, AbortsReadable DEF SafeColumn
<1>3. CASE ~Repeated(s) /\ id = 0
  BY <1>3, ThrowsReadable DEF SafeColumn
<1>4. CASE ~(stmt[s].cache = EmptyCache /\ Repeated(s)) /\ ~(~Repeated(s) /\ id = 0)
  <2>1. Len(names) \in Nat
    BY DEF Columns
  <2>2. Named(cache, names)
    <3>1. CASE stmt[s].cache # EmptyCache
      BY <1>1, <3>1 DEF Sound, column_cache
    <3>2. CASE stmt[s].cache = EmptyCache
      <4>1. cache = [i \in 1 .. Len(names) |-> names[i]] /\ ~Repeated(s)
        BY <1>4, <3>2 DEF column_cache, column_count, column_name
      <4> QED
        BY <4>1 DEF Named, Repeated, column_count, column_name
    <3> QED
      BY <3>1, <3>2
  <2>3. ~Repeated(s)
    BY <2>2 DEF Named, Repeated, column_count, column_name
  <2>4. id # 0
    BY <1>4, <2>3
  <2>5. id \in 1 .. Len(names) /\ column_name(s, id) = name
    BY <2>2, <2>4 DEF Named, column_id, column_name
  <2>6. stmt' = [stmt EXCEPT ![s] = r] /\ UNCHANGED <<raw, buffer, kept, view>>
    BY <1>1, <1>4, <2>3, <2>4 DEF SafeColumn
  <2>7. Sound(r, Len(raw.work), buffer)
    <3> HIDE DEF cache, names
    <3>1. r = [sql |-> stmt[s].sql, bound |-> [v |-> stmt[s].bound.v], meant |-> [v |-> stmt[s].meant.v],
               at |-> stmt[s].at, state |-> stmt[s].state, cache |-> cache]
      BY <1>1 DEF Sound
    <3>2. /\ stmt[s].at \in Nat /\ (stmt[s].state = "row" => stmt[s].at \in 1 .. Len(raw.work))
          /\ Faithful(stmt[s].bound.v, stmt[s].meant.v, buffer)
      BY <1>1 DEF Sound
    <3> HIDE DEF r
    <3> QED
      BY <2>2, <3>1, <3>2, SoundParts DEF names
  <2>8. Answer'
    <3>1. CASE column_type(s, id) \notin TypesFor(getter)
      <4>1. Returns
        BY <1>4, <2>3, <2>4, <3>1 DEF SafeColumn
      <4> QED
        BY <4>1, AnswerKeeps DEF Readable
    <3>2. CASE column_type(s, id) \in TypesFor(getter)
      <4>1. result' = [outcome |-> "ok", cell |-> Column(CellAt(s, id), getter),
                       meant |-> Column(view[stmt[s].at].meant[name], getter)]
        BY <1>4, <2>3, <2>4, <3>2 DEF SafeColumn
      <4>2. "null" \notin TypesFor(getter)
        BY DEF TypesFor, Getters
      <4>3. stmt[s].state = "row"
        BY <3>2, <4>2 DEF column_type, c_type_to_cxx, CellAt, NullCell
      <4>4. stmt[s].at \in 1 .. Len(view) /\ view \in Seq(Row) /\ raw.work = view
        BY <1>1, <4>3 DEF Sound, Inv, Durable, Readable, Rows
      <4>5. view[stmt[s].at].cells = view[stmt[s].at].meant
        BY <4>4 DEF Row
      <4>6. CellAt(s, id) = view[stmt[s].at].meant[name]
        BY <2>5, <4>3, <4>4, <4>5 DEF CellAt
      <4> QED
        BY <4>1, <4>6 DEF Answer, ReadAsBound
    <3> QED
      BY <3>1, <3>2
  <2> QED
    BY <2>6, <2>7, <2>8, OneStatement
<1> QED
  BY <1>2, <1>3, <1>4

LEMMA NextReadable == ASSUME Inv, Readable, [SqliteNext]_sqlite_vars PROVE Readable'
<1>1. CASE UNCHANGED sqlite_vars
  BY <1>1, ThrowsReadable DEF Throws
<1>2. CASE Open \/ Copy \/ Close \/ DestroyDatabase \/ begin_transaction \/ Other
  BY <1>2, DatabaseReadable
<1>3. CASE create_statement
  BY <1>3, CreateReadable
<1>4. CASE ReuseBuffer
  BY <1>4, BufferReadable
<1>5. CASE \E t \in Transactions : commit(t) \/ rollback(t) \/ DestroyTransaction(t)
  BY <1>5, TransactionReadable
<1>6. ASSUME NEW s \in Statements, Finalize(s) \/ clear_bindings(s) \/ Reset(s) PROVE Readable'
  BY <1>6, FieldsReadable
<1>7. ASSUME NEW s \in Statements, NEW name \in {"v", "w"}, NEW cell \in Cells, Bind(s, name, cell)
      PROVE  Readable'
  BY <1>7, BindReadable
<1>8. ASSUME NEW s \in Statements, StepInsert(s) PROVE Readable'
  BY <1>8, InsertReadable
<1>9. ASSUME NEW s \in Statements, StepInsertFull(s) PROVE Readable'
  <2>1. RollbackRaw /\ UNCHANGED <<buffer, kept>> /\ Answer'
    BY <1>9, AnswerKeeps DEF StepInsertFull, Readable
  <2> QED
    BY <2>1, RollbackReadable
<1>10. ASSUME NEW s \in Statements, NEW without_results \in BOOLEAN, StepSelect(s, without_results)
       PROVE  Readable'
  BY <1>10, SelectReadable
<1>11. ASSUME NEW s \in Statements, NEW name \in {"k", "v", "w"}, NEW getter \in Getters,
              SafeColumn(s, name, getter)
       PROVE  Readable'
  BY <1>11, ColumnReadable
<1> QED
  BY <1>1, <1>2, <1>3, <1>4, <1>5, <1>6, <1>7, <1>8, <1>9, <1>10, <1>11 DEF SqliteNext

(* Whatever a client binds, inserts, rolls back and reads, through any       *)
(* number of statements that advance at their own pace: a cell read by the   *)
(* name of its column, with a check of its type, is the value that was bound *)
(* for it, even when the buffer it was bound from was used again since       *)
(* (statement::bind(), statement::step(), statement::safe_column_text()).    *)
THEOREM CellsReadAsBound == SqliteSpec => []ReadAsBound
<1> DEFINE Both == Inv /\ Readable
<1>1. SqliteInit => Both
  BY InitInv, InitReadable
<1>2. Both /\ [SqliteNext]_sqlite_vars => Both'
  BY NextInv, NextReadable
<1>3. Both => ReadAsBound
  BY DEF Readable, Answer
<1> QED
  BY <1>1, <1>2, <1>3, PTL DEF SqliteSpec
-----------------------------------------------------------------------------
(* The migration.  What it does to the database is covered by a backup that  *)
(* was whole when it was made: so from the first statement of a step until   *)
(* the command ends the backup of this run is whole, and it still is while   *)
(* nobody has started the command again on half a migration.                 *)

Copied == \E v \in 1 .. 2 : backup[v] \in Whole

(* The version that was found is that of the database until a step runs.     *)
Found ==
  pc \in {"backup", "copy"} => old # "absent" /\ from = IF old = "v2" THEN 2 ELSE 1

(* A step from version 1 runs on what was copied.                            *)
Stepping ==
  /\ pc = "step" => from = 1 /\ backup[1] = old /\ old \in {"v1", "half"}
  /\ pc = "steps" => old = "half" /\ Copied

(* The old database is read, and at last unlinked, with its backup at hand.  *)
Chunking == pc \in {"chunk", "next", "create", "fill", "filling"} => Copied

(* Between two commands, and in one that is about to find it out.            *)
Halfway ==
  old = "half" =>
    /\ attempts >= 1
    /\ pc \in {"backup", "copy", "step"} => attempts > 1
    /\ attempts > 1 \/ Copied

MigInv ==
  /\ DOMAIN backup = 1 .. 2 /\ attempts \in Nat /\ (pc # "idle" => attempts >= 1)
  /\ old \in {"absent", "v1", "half", "v2"}
  /\ (old = "absent" => Copied)
  /\ Found /\ Stepping /\ Chunking /\ Halfway

LEMMA MigInit == ASSUME MigrationInit PROVE MigInv
  BY DEF MigrationInit, MigInv, Found, Stepping, Chunking, Halfway, Copied

(* A command that leaves the database and its backups alone, and goes on.    *)
LEMMA ExtractKeeps ==
  ASSUME MigInv, UNCHANGED <<old, from, backup, attempts>>,
         pc \in {"chunk", "next", "create", "fill", "filling"},
         pc' \in {"idle", "next", "create", "fill", "filling"}
  PROVE  MigInv'
<1>1. Copied /\ Copied'
  BY DEF MigInv, Chunking, Copied
<1> QED
  BY <1>1 DEF MigInv, Found, Stepping, Chunking, Halfway

LEMMA BackupKeeps ==
  ASSUME "full" \notin Faults, MigInv, OpenBackup \/ CopyBackup
  PROVE  MigInv'
<1>1. old # "absent" /\ from = (IF old = "v2" THEN 2 ELSE 1) /\ from \in 1 .. 2
      /\ UNCHANGED <<old, from, attempts>> /\ attempts >= 1 /\ attempts \in Nat
      /\ DOMAIN backup = 1 .. 2 /\ old \in {"v1", "half", "v2"}
  BY DEF MigInv, Found, OpenBackup, CopyBackup
<1>2. old = "half" => attempts > 1
  BY DEF MigInv, Halfway, OpenBackup, CopyBackup
<1>3. CASE OpenBackup
  <2>1. pc' = "copy" /\ DOMAIN backup' = 1 .. 2
    BY <1>1, <1>3 DEF OpenBackup
  <2> QED
    BY <1>1, <1>2, <2>1 DEF MigInv, Found, Stepping, Chunking, Halfway
<1>4. CASE CopyBackup
  <2>1. backup' = [backup EXCEPT ![from] = old] /\ pc' = IF from = 1 THEN "step" ELSE "chunk"
    BY <1>4 DEF CopyBackup, Fault, backup_database
  <2>2. DOMAIN backup' = 1 .. 2 /\ backup'[from] = old
    BY <1>1, <2>1
  <2>3. old = "v2" => Copied'
    BY <1>1, <2>2 DEF Copied, Whole
  <2> QED
    BY <1>1, <1>2, <2>1, <2>2, <2>3 DEF MigInv, Found, Stepping, Chunking, Halfway
<1> QED
  BY <1>3, <1>4

LEMMA StepKeeps == ASSUME MigInv, MigrateStep \/ MigrateRest PROVE MigInv'
<1>1. UNCHANGED <<from, backup, attempts>> /\ attempts >= 1 /\ attempts \in Nat /\ (Copied' <=> Copied)
  BY DEF MigInv, MigrateStep, MigrateRest, Copied
<1>2. CASE MigrateStep
  <2>1. backup[1] = old /\ DOMAIN backup = 1 .. 2 /\ (old = "half" => attempts > 1)
    BY <1>2 DEF MigInv, Stepping, Halfway, MigrateStep
  <2>2. old = "v1" => Copied
    BY <2>1 DEF Copied, Whole
  <2> QED
    BY <1>1, <1>2, <2>1, <2>2 DEF MigrateStep, Leave, MigInv, Found, Stepping, Chunking, Halfway
<1>3. CASE MigrateRest
  <2>1. old = "half" /\ Copied
    BY <1>3 DEF MigInv, Stepping, MigrateRest
  <2> QED
    BY <1>1, <1>3, <2>1 DEF MigrateRest, Leave, MigInv, Found, Stepping, Chunking, Halfway
<1> QED
  BY <1>2, <1>3

LEMMA MigNext ==
  ASSUME "full" \notin Faults, MigInv, [MigrationNext]_migration_vars PROVE MigInv'
<1>1. CASE UNCHANGED migration_vars
  BY <1>1 DEF migration_vars, MigInv, Found, Stepping, Chunking, Halfway, Copied
<1>2. CASE Start
  BY <1>2 DEF Start, MigInv, Found, Stepping, Chunking, Halfway, Copied
<1>3. CASE OpenBackup \/ CopyBackup
  BY <1>3, BackupKeeps
<1>4. CASE MigrateStep \/ MigrateRest
  BY <1>4, StepKeeps
<1>5. CASE Chunk \/ NextAction \/ CreateFile \/ FillFile \/ FillRest
  BY <1>5, ExtractKeeps DEF Chunk, NextAction, CreateFile, FillFile, FillRest, DropFile, Leave
<1>6. CASE UnlinkOld
  <2>1. Copied /\ Copied'
    BY <1>6 DEF MigInv, Chunking, Copied, UnlinkOld
  <2> QED
    BY <1>6, <2>1 DEF UnlinkOld, Leave, MigInv, Found, Stepping, Chunking, Halfway
<1>7. CASE Crash
  BY <1>7 DEF Crash, Leave, MigInv, Found, Stepping, Chunking, Halfway, Copied
<1> QED
  BY <1>1, <1>2, <1>3, <1>4, <1>5, <1>6, <1>7 DEF MigrationNext

(* Whatever kills or fails the migration, however often and wherever, unless *)
(* the disk is full: the results of every action are in the database, in     *)
(* their file or in a backup, unless a second command ran on a database that *)
(* the first left between two versions (migrate_schema(),                    *)
(* chunk_database()).  A full disk takes them without that: see DataSurvives.*)
THEOREM MigrationKeeps ==
  ASSUME "full" \notin Faults PROVE MigrationSpec => []LostOnlyInHalf
<1>1. MigrationInit => MigInv
  BY MigInit
<1>2. MigInv /\ [MigrationNext]_migration_vars => MigInv'
  BY MigNext
<1>3. MigInv => LostOnlyInHalf
  BY DEF MigInv, Halfway, LostOnlyInHalf, Recoverable, Copied, Whole
<1> QED
  BY <1>1, <1>2, <1>3, PTL DEF MigrationSpec
=============================================================================
