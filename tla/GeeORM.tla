------------------------------- MODULE GeeORM -------------------------------
(***************************************************************************)
(* The geeorm engine and one session (src/geeorm): NewEngine, the         *)
(* session's model cache, clause chain and statements with their hooks,   *)
(* and Engine.Transaction with its deferred recover / rollback / commit.  *)
(*                                                                         *)
(* A table is a function from primary keys to values, or NoTable.  SQL    *)
(* text is abstracted to what it does to the rows: a WHERE clause is the  *)
(* set of keys it matches.  One caller drives the engine: either plain    *)
(* statements on a session (each one autocommits) or one Transaction      *)
(* whose function f runs statements on the transaction's session.         *)
(***************************************************************************)
EXTENDS Naturals, FiniteSets

CONSTANTS
    Models,     \* the struct types the caller maps to tables
    Keys,       \* primary key values
    Vals,       \* values of the other column
    Hooked,     \* <<model, hook>>: the model defines that hook method
    Driver,     \* the driver name passed to NewEngine
    MaxOps,     \* bound on the statements and chain calls the caller makes
    Structs,    \* the fields of each model's struct in this build
    OldStructs, \* the fields of the struct in the build that created its table
    NoModel, NoTable, Absent, NoWhere   \* model values

\* schema.Parse: every field of the struct becomes a column except the
\* anonymous (embedded) and the unexported ones.
Parse(st) ==
    {st[i].name : i \in {j \in DOMAIN st : ~st[j].anonymous /\ st[j].exported}}

FieldNames(m) == Parse(Structs[m])

Columns == UNION {Parse(Structs[m]) \cup Parse(OldStructs[m]) : m \in Models}

\* A table: its rows (primary key to value) and its columns.
Table   == [rows : [Keys -> Vals \cup {Absent}], cols : SUBSET Columns]
Store   == [Models -> {NoTable} \cup Table]

\* The tables the program finds: missing, or created by CreateTable of this
\* build's struct or of the older one.
Created(m) ==
    {NoTable} \cup [rows : [Keys -> Vals \cup {Absent}],
                    cols : {FieldNames(m), Parse(OldStructs[m])}]
Results == {"none", "ok", "err", "panic"}

VARIABLES
    pc,         \* where the caller is
    dialects,   \* dialectsMap: the drivers a dialect was registered for
    engine,     \* "none", "nil" (NewEngine returned nil, nil) or "open"
    db,         \* the committed database
    tx,         \* s.tx: "none", "open" or "done" (committed or rolled back)
    view,       \* what the open transaction sees: db plus its own writes
    refTable,   \* s.refTable: the last model parsed, or NoModel
    where,      \* s.clause[WHERE]: the keys it matches, or NoWhere
    limit,      \* s.clause[LIMIT] is set
    fRet,       \* how f ended: "none", "nil", "err" or "panic"
    result,     \* what Transaction (or the plain caller) ended with
    ops,        \* statements and chain calls made so far
    mig         \* the model Migrate was called with, or NoModel

vars == <<pc, dialects, engine, db, tx, view, refTable, where, limit, fRet, result, ops, mig>>

Init ==
    /\ pc \in {"plain", "txn", "migrate"}   \* the caller's program
    /\ mig \in IF pc = "migrate" THEN Models ELSE {NoModel}
    \* RegisterDialect calls made before NewEngine: none in this repository
    \* (it has no dialect implementation), or the program registers its own.
    /\ dialects \in {{}, {Driver}}
    /\ engine = "none"
    /\ db \in {d \in [Models -> UNION {Created(m) : m \in Models}] :
                 \A m \in Models : d[m] \in Created(m)}
    /\ tx = "none"
    /\ view = db
    /\ refTable = NoModel
    /\ where = NoWhere
    /\ limit = FALSE
    /\ fRet = "none"
    /\ result = "none"
    /\ ops = 0

-----------------------------------------------------------------------------
(* Engine                                                                  *)

\* NewEngine: sql.Open or db.Ping fail with an error; a driver with no
\* registered dialect logs and returns with e and err both nil.
NewEngine ==
    /\ UNCHANGED dialects
    /\ engine = "none"
    /\ \/ /\ result' = "err" /\ pc' = "returned"
          /\ UNCHANGED engine
       \/ /\ engine' = IF Driver \in dialects THEN "open" ELSE "nil"
          /\ UNCHANGED <<pc, result>>
    /\ UNCHANGED <<db, tx, view, refTable, where, limit, fRet, ops, mig>>

\* The caller checks err and goes on with the engine when it is nil:
\* engine.NewSession() on a nil *Engine dereferences it and panics.
NilEngineUsed ==
    /\ UNCHANGED dialects
    /\ engine = "nil" /\ pc \in {"plain", "txn", "migrate"}
    /\ pc' = "panicked" /\ result' = "panic"
    /\ UNCHANGED <<engine, db, tx, view, refTable, where, limit, fRet, ops, mig>>

-----------------------------------------------------------------------------
(* Session primitives                                                      *)

\* s.DB(): the transaction once s.tx is set, the database otherwise.
Tables == IF tx = "open" THEN view ELSE db

\* Writing through s.DB().
SetTables(t) ==
    IF tx = "open" THEN view' = t /\ UNCHANGED db
                   ELSE db' = t /\ UNCHANGED view

\* The keys of table m that clause WHERE selects (all rows without one).
Matching(m) ==
    {k \in Keys : Tables[m].rows[k] # Absent /\ (where = NoWhere \/ k \in where)}

\* Exec, QueryRow and QueryRows end with s.Clear().
Clear == where' = NoWhere /\ limit' = FALSE

\* CallMethod(method, value) on a session whose model is ref, calling m's
\* hook (value's type, or ref's model when value is nil).  It reads
\* s.RefTable().Model first, whatever value is: RefTable() returns nil
\* when no model is set and .Model dereferences it.  A hook that returns
\* an error is re-raised as a panic.  TRUE: the call panics.
CallMethod(ref, m, hook) ==
    IF ref = NoModel THEN {TRUE}
    ELSE IF <<m, hook>> \in Hooked THEN BOOLEAN ELSE {FALSE}

\* A statement's panic: inside f (or Migrate's function) it unwinds to
\* Transaction's deferred function; on a plain session it ends the caller.
Panic ==
    IF pc # "plain" THEN pc' = "defer" /\ fRet' = "panic" /\ UNCHANGED result
    ELSE pc' = "panicked" /\ result' = "panic" /\ UNCHANGED fRet

\* The caller may make one more session call.
CanCall == pc \in {"plain", "f"} /\ engine = "open" /\ ops < MaxOps

\* A session call that returns normally (with or without an error).
Returns == UNCHANGED <<pc, result, fRet>>

Call(A) == CanCall /\ A /\ ops' = ops + 1 /\ UNCHANGED <<dialects, engine, tx, mig>>

-----------------------------------------------------------------------------
(* Session calls                                                           *)

\* Model: parse the value's schema unless it is the cached model's type.
Model(m) ==
    /\ refTable' = m
    /\ UNCHANGED <<db, view, where, limit>> /\ Returns

\* Where and Limit only set their clause.
Where(w) ==
    /\ where' = w
    /\ UNCHANGED <<db, view, refTable, limit>> /\ Returns

Limit ==
    /\ limit' = TRUE
    /\ UNCHANGED <<db, view, refTable, where>> /\ Returns

\* A statement on the session's model: RefTable() is nil without one and
\* the method dereferences it before any SQL is built.
NilTable ==
    /\ refTable = NoModel /\ Panic
    /\ UNCHANGED <<db, view, refTable, where, limit>>

\* CreateTable: CREATE TABLE fails when the table exists.
CreateTable ==
    \/ NilTable
    \/ /\ refTable # NoModel /\ Clear /\ Returns /\ UNCHANGED refTable
       /\ IF Tables[refTable] = NoTable
          THEN SetTables([Tables EXCEPT ![refTable] =
                   [rows |-> [k \in Keys |-> Absent], cols |-> FieldNames(refTable)]])
          ELSE UNCHANGED <<db, view>>

\* DropTable: DROP TABLE IF EXISTS.
DropTable ==
    \/ NilTable
    \/ /\ refTable # NoModel /\ Clear /\ Returns /\ UNCHANGED refTable
       /\ SetTables([Tables EXCEPT ![refTable] = NoTable])

\* HasTable and Count read through QueryRow, which clears the clauses.
HasTable ==
    \/ NilTable
    \/ /\ refTable # NoModel /\ Clear /\ Returns
       /\ UNCHANGED <<db, view, refTable>>

Count ==
    \/ NilTable
    \/ /\ refTable # NoModel /\ Clear /\ Returns
       /\ UNCHANGED <<db, view, refTable>>

\* A statement naming the struct's fields fails on a table that lacks one.
HasColumns(m) == Tables[m] # NoTable /\ FieldNames(m) \subseteq Tables[m].cols

\* The INSERT succeeds: the table has the columns and the primary key is free.
Insertable(m, k) == HasColumns(m) /\ Tables[m].rows[k] = Absent

\* Mutant: RecordValues takes the fields in the wrong order, storing the
\* primary key in the value column.
InsertSwapped(m, k, v) ==
    \E before \in CallMethod(refTable, m, "BeforeInsert") :
       \/ /\ before /\ Panic
          /\ UNCHANGED <<db, view, refTable, where, limit>>
       \/ /\ ~before /\ refTable' = m /\ Clear
          /\ \/ /\ ~Insertable(m, k)
                /\ UNCHANGED <<db, view>> /\ Returns
             \/ /\ Insertable(m, k)
                /\ SetTables([Tables EXCEPT ![m].rows[k] = k])
                /\ \E after \in CallMethod(m, m, "AfterInsert") :
                      IF after THEN Panic ELSE Returns

\* Insert(value): BeforeInsert on the value (panicking on a session with
\* no model yet), Model(value), INSERT VALUES, then AfterInsert on the
\* refTable's model once the row is written.
Insert(m, k, v) ==
    \E before \in CallMethod(refTable, m, "BeforeInsert") :
       \/ /\ before /\ Panic
          /\ UNCHANGED <<db, view, refTable, where, limit>>
       \/ /\ ~before /\ refTable' = m /\ Clear
          /\ \/ /\ ~Insertable(m, k)
                /\ UNCHANGED <<db, view>> /\ Returns
             \/ /\ Insertable(m, k)
                /\ SetTables([Tables EXCEPT ![m].rows[k] = v])
                /\ \E after \in CallMethod(m, m, "AfterInsert") :
                      IF after THEN Panic ELSE Returns

\* Find(&[]m): BeforeQuery is looked up before Model(m) runs, on the model
\* of the session's previous call; then SELECT ... WHERE ... LIMIT, and
\* AfterQuery on every row read.
Find(m) ==
    \E before \in CallMethod(refTable, refTable, "BeforeQuery") :
       \/ /\ before /\ Panic
          /\ UNCHANGED <<db, view, refTable, where, limit>>
       \/ /\ ~before /\ refTable' = m /\ Clear /\ UNCHANGED <<db, view>>
          /\ IF ~HasColumns(m) \/ Matching(m) = {} THEN Returns
             ELSE \E after \in CallMethod(m, m, "AfterQuery") :
                     IF after THEN Panic ELSE Returns

\* Update(v) and Delete: the Before hook and the table name come from the
\* session's model; the statement takes the rows WHERE selects.
Update(v) ==
    \/ NilTable
    \/ \E before \in CallMethod(refTable, refTable, "BeforeUpdate") :
         /\ refTable # NoModel /\ UNCHANGED refTable
         /\ \/ /\ before /\ Panic /\ UNCHANGED <<db, view, where, limit>>
            \/ /\ ~before /\ Clear
               /\ IF Tables[refTable] = NoTable
                  THEN UNCHANGED <<db, view>> /\ Returns
                  ELSE /\ SetTables([Tables EXCEPT ![refTable].rows =
                             [k \in Keys |-> IF k \in Matching(refTable) THEN v
                                             ELSE @[k]]])
                       /\ \E after \in CallMethod(refTable, refTable, "AfterUpdate") :
                             IF after THEN Panic ELSE Returns

Delete ==
    \/ NilTable
    \/ \E before \in CallMethod(refTable, refTable, "BeforeDelete") :
         /\ refTable # NoModel /\ UNCHANGED refTable
         /\ \/ /\ before /\ Panic /\ UNCHANGED <<db, view, where, limit>>
            \/ /\ ~before /\ Clear
               /\ IF Tables[refTable] = NoTable
                  THEN UNCHANGED <<db, view>> /\ Returns
                  ELSE /\ SetTables([Tables EXCEPT ![refTable].rows =
                             [k \in Keys |-> IF k \in Matching(refTable) THEN Absent
                                             ELSE @[k]]])
                       /\ \E after \in CallMethod(refTable, refTable, "AfterDelete") :
                             IF after THEN Panic ELSE Returns


-----------------------------------------------------------------------------
(* Plain caller and Engine.Transaction                                     *)

\* The plain caller stops making calls.
PlainDone ==
    /\ UNCHANGED dialects
    /\ pc = "plain" /\ engine = "open"
    /\ pc' = "returned" /\ result' = "ok"
    /\ UNCHANGED <<engine, db, tx, view, refTable, where, limit, fRet, ops, mig>>

\* Transaction: NewSession, then s.Begin(); a failed Begin returns before
\* the deferred function is registered.
TxBegin ==
    /\ UNCHANGED dialects
    /\ pc \in {"txn", "migrate"} /\ engine = "open"
    /\ \/ /\ pc' = "returned" /\ result' = "err"
          /\ UNCHANGED <<tx, view>>
       \/ /\ tx' = "open" /\ view' = db /\ pc' = IF pc = "txn" THEN "f" ELSE "mf"
          /\ UNCHANGED result
    /\ UNCHANGED <<engine, db, refTable, where, limit, fRet, ops, mig>>

\* f returns nil or an error of its own choosing.
FReturn ==
    /\ UNCHANGED dialects
    /\ pc = "f"
    /\ pc' = "defer" /\ fRet' \in {"nil", "err"}
    /\ UNCHANGED <<engine, db, tx, view, refTable, where, limit, result, ops, mig>>

-----------------------------------------------------------------------------
(* Engine.Migrate(value): Transaction with a function of its own.  Its    *)
(* statements run on the transaction's fresh session (no clauses set); a  *)
(* statement on an existing table can still fail in the driver.          *)

\* difference(a, b): the elements of a that are not in b.
difference(a, b) == {x \in a : x \notin b}

\* s.Model(value).HasTable(): a query error reads as "no table".  Without
\* a table, f returns CreateTable's error: none when the table is missing,
\* "table exists" when HasTable's query failed.
MigHasTable ==
    /\ UNCHANGED dialects
    /\ pc = "mf" /\ refTable' = mig /\ pc' = "defer"
    /\ \/ /\ Tables[mig] = NoTable /\ fRet' = "nil"
          /\ SetTables([Tables EXCEPT ![mig] =
                   [rows |-> [k \in Keys |-> Absent], cols |-> FieldNames(mig)]])
       \/ /\ Tables[mig] # NoTable /\ fRet' = "err" /\ UNCHANGED <<db, view>>
    /\ UNCHANGED <<engine, tx, where, limit, result, ops, mig>>

\* The table exists: go on to compare its columns.
MigTableFound ==
    /\ UNCHANGED dialects
    /\ pc = "mf" /\ Tables[mig] # NoTable
    /\ refTable' = mig /\ pc' = "malter"
    /\ UNCHANGED <<engine, db, tx, view, where, limit, fRet, result, ops, mig>>

\* Mutant: the rebuild is skipped when no column was added (len(addCols)
\* tested where len(delCols) is meant).
MigAddColumnsWrongCheck ==
    /\ UNCHANGED dialects
    /\ pc = "malter"
    /\ LET addCols == difference(FieldNames(mig), Tables[mig].cols)
       IN \/ /\ Panic /\ UNCHANGED <<db, view>>
          \/ /\ \E added \in SUBSET addCols \ {addCols} :
                   SetTables([Tables EXCEPT ![mig].cols = @ \cup added])
             /\ pc' = "defer" /\ fRet' = "err" /\ UNCHANGED result
          \/ /\ SetTables([Tables EXCEPT ![mig].cols = @ \cup addCols])
             /\ UNCHANGED result
             /\ IF addCols = {} THEN pc' = "defer" /\ fRet' = "nil"
                ELSE pc' = "mrebuild" /\ UNCHANGED fRet
    /\ UNCHANGED <<engine, tx, refTable, where, limit, ops, mig>>

\* SELECT * ... LIMIT 1 through QueryRows with its error dropped: a failed
\* query leaves rows nil and rows.Columns() dereferences it.  Otherwise
\* addCols and delCols are the two differences of the struct's fields and
\* the table's columns, ALTER TABLE ADD COLUMN runs for each added column
\* and f returns the first error; with nothing to delete f returns nil.
MigAddColumns ==
    /\ UNCHANGED dialects
    /\ pc = "malter"
    /\ LET addCols == difference(FieldNames(mig), Tables[mig].cols)
           delCols == difference(Tables[mig].cols, FieldNames(mig))
       IN \/ /\ Panic /\ UNCHANGED <<db, view>>
          \/ /\ \E added \in SUBSET addCols \ {addCols} :
                   SetTables([Tables EXCEPT ![mig].cols = @ \cup added])
             /\ pc' = "defer" /\ fRet' = "err" /\ UNCHANGED result
          \/ /\ SetTables([Tables EXCEPT ![mig].cols = @ \cup addCols])
             /\ UNCHANGED result
             /\ IF delCols = {} THEN pc' = "defer" /\ fRet' = "nil"
                ELSE pc' = "mrebuild" /\ UNCHANGED fRet
    /\ UNCHANGED <<engine, tx, refTable, where, limit, ops, mig>>

\* CREATE TABLE tmp AS SELECT <struct's fields> FROM t; DROP TABLE t;
\* ALTER TABLE tmp RENAME TO t, in one Exec whose error f returns: the
\* rebuilt table has the struct's columns and every row of the old one.
MigRebuild ==
    /\ UNCHANGED dialects
    /\ pc = "mrebuild" /\ pc' = "defer"
    /\ \/ /\ SetTables([Tables EXCEPT ![mig].cols = FieldNames(mig)])
          /\ fRet' = "nil"
       \/ /\ UNCHANGED <<db, view>> /\ fRet' = "err"
    /\ UNCHANGED <<engine, tx, refTable, where, limit, result, ops, mig>>

\* s.Rollback() and s.Commit(): tx.Rollback / tx.Commit end the
\* transaction whatever they return; a failed COMMIT rolls back.
Rollback == tx' = "done" /\ UNCHANGED db
Commit ==
    /\ tx' = "done"
    /\ \/ db' = view /\ result' = "ok"
       \/ UNCHANGED db /\ result' = "err"

\* Mutant: the deferred function re-panics without rolling back.
TxDeferNoRollbackOnPanic ==
    /\ UNCHANGED dialects
    /\ pc = "defer"
    /\ \/ /\ fRet = "panic" /\ UNCHANGED <<tx, db>>
          /\ pc' = "panicked" /\ result' = "panic"
       \/ /\ fRet = "err" /\ Rollback
          /\ pc' = "returned" /\ result' = "err"
       \/ /\ fRet = "nil" /\ Commit /\ pc' = "returned"
    /\ UNCHANGED <<engine, view, refTable, where, limit, fRet, ops, mig>>

\* Mutant: the error of s.Commit() is dropped.
TxDeferCommitErrDropped ==
    /\ UNCHANGED dialects
    /\ pc = "defer"
    /\ \/ /\ fRet = "panic" /\ Rollback
          /\ pc' = "panicked" /\ result' = "panic"
       \/ /\ fRet = "err" /\ Rollback
          /\ pc' = "returned" /\ result' = "err"
       \/ /\ fRet = "nil" /\ tx' = "done" /\ (db' = view \/ UNCHANGED db)
          /\ result' = "ok" /\ pc' = "returned"
    /\ UNCHANGED <<engine, view, refTable, where, limit, fRet, ops, mig>>

\* The deferred function: recover() and roll back, then re-panic; roll
\* back when f returned an error; otherwise err = s.Commit().
TxDefer ==
    /\ UNCHANGED dialects
    /\ pc = "defer"
    /\ \/ /\ fRet = "panic" /\ Rollback
          /\ pc' = "panicked" /\ result' = "panic"
       \/ /\ fRet = "err" /\ Rollback
          /\ pc' = "returned" /\ result' = "err"
       \/ /\ fRet = "nil" /\ Commit /\ pc' = "returned"
    /\ UNCHANGED <<engine, view, refTable, where, limit, fRet, ops, mig>>

Next ==
    \/ NewEngine \/ NilEngineUsed \/ PlainDone
    \/ \E m \in Models : Call(Model(m))
    \/ \E w \in SUBSET Keys : Call(Where(w))
    \/ Call(Limit)
    \/ Call(CreateTable) \/ Call(DropTable) \/ Call(HasTable) \/ Call(Count)
    \/ \E m \in Models, k \in Keys, v \in Vals : Call(Insert(m, k, v))
    \/ \E m \in Models : Call(Find(m))
    \/ \E v \in Vals : Call(Update(v))
    \/ Call(Delete)
    \/ TxBegin \/ FReturn \/ TxDefer
    \/ MigHasTable \/ MigTableFound \/ MigAddColumns \/ MigRebuild

Spec == Init /\ [][Next]_vars

-----------------------------------------------------------------------------
(* Properties                                                              *)

TypeOK ==
    /\ pc \in {"plain", "txn", "migrate", "f", "mf", "malter", "mrebuild",
              "defer", "returned", "panicked"}
    /\ dialects \subseteq {Driver}
    /\ engine \in {"none", "nil", "open"}
    /\ db \in Store /\ view \in Store
    /\ tx \in {"none", "open", "done"}
    /\ refTable \in Models \cup {NoModel}
    /\ where \in (SUBSET Keys) \cup {NoWhere}
    /\ limit \in BOOLEAN
    /\ fRet \in {"none", "nil", "err", "panic"}
    /\ result \in Results
    /\ ops \in 0..MaxOps
    /\ mig \in Models \cup {NoModel}

\* Transaction is all or nothing: no statement of f reaches the database
\* while f runs; when Transaction returns nil the database holds every
\* write f made through the session, and when it returns an error or
\* re-panics (a hook's error, a nil model) the database is as it was at
\* Begin, whichever of f's statements had already run.
TransactionAtomic ==
    [][/\ pc = "f" => db' = db
       /\ pc = "defer" => IF result' = "ok" THEN db' = view ELSE db' = db]_vars

\* Migrate(value) returning nil leaves value's table with exactly the
\* columns schema.Parse gives for the struct in this build (ADD COLUMN for
\* the new fields, the CREATE TABLE AS SELECT rebuild for the dropped ones)
\* and with every row the table had before Migrate.
MigrateSyncsTable ==
    [][pc = "defer" /\ mig # NoModel /\ result' = "ok" =>
          /\ db'[mig] # NoTable
          /\ db'[mig].cols = FieldNames(mig)
          /\ db[mig] # NoTable => db'[mig].rows = db[mig].rows]_vars

\* Once Transaction has returned or panicked its transaction is over:
\* no sql.Tx is left holding a connection, on the panic path included.
TxEndsWithTransaction ==
    pc \in {"returned", "panicked"} => tx # "open"
====
