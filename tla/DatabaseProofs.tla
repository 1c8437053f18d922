--------------------------- MODULE DatabaseProofs ---------------------------
(***************************************************************************)
(* What holds of a database client of either class, whatever the keys, the *)
(* calls and the texts are, those included that alter their statement or   *)
(* carry others, and whether or not the engine may fail.                   *)
(***************************************************************************)
EXTENDS Database, TLAPS

(***************************************************************************)
(* Statements and tables: a statement leaves a table if it found one.      *)
(***************************************************************************)
Verbs      == {"create", "drop", "select", "insert", "delete", "modify"}
Settings   == {f \in UNION {[C -> Keys \cup Vals] : C \in SUBSET Columns} :
                 /\ "key" \in DOMAIN f => f["key"] \in Keys
                 /\ "val" \in DOMAIN f => f["val"] \in Vals}
WellFormed(s) == s.verb \in Verbs /\ s.set \in Settings

LEMMA ChosenIsSetting ==
  ASSUME NEW o \in Objects, NEW flag \in Flags
  PROVE  Chosen(o, flag) \in Settings
  <1> DEFINE C == {d \in Columns : flag \in o[d].uses}
  <1>1. PICK k \in Keys, v \in Vals, u \in SUBSET Flags, w \in SUBSET Flags :
          o = [key |-> [value |-> k, uses |-> u], val |-> [value |-> v, uses |-> w]]
    BY DEF Objects
  <1>2. o["key"].value = k /\ o["val"].value = v BY <1>1
  <1>3. Chosen(o, flag) = [c \in C |-> o[c].value] BY DEF Chosen
  <1>4. \A c \in C : o[c].value \in Keys \cup Vals BY <1>2 DEF Columns
  <1>5. Chosen(o, flag) \in [C -> Keys \cup Vals] BY <1>3, <1>4
  <1>6. C \in SUBSET Columns OBVIOUS
  <1> QED BY <1>2, <1>3, <1>5, <1>6 DEF Settings

LEMMA NothingIsSetting == Nothing \in Settings
  <1>1. Nothing \in [{} -> Keys \cup Vals] BY DEF Nothing
  <1> QED BY <1>1 DEF Settings, Nothing

LEMMA StatementsWellFormed ==
  \A s \in SqliteStatements \cup MysqlStatements : WellFormed(s)
  <1> SUFFICES ASSUME NEW s \in SqliteStatements \cup MysqlStatements PROVE WellFormed(s)
    OBVIOUS
  <1> USE ChosenIsSetting, NothingIsSetting DEF WellFormed, Verbs, Flags
  <1>0. ASSUME NEW verb \in Verbs, NEW set \in Settings, NEW where, NEW parses, NEW literals
        PROVE  WellFormed(Statement(verb, set, where, parses, literals))
    BY <1>0 DEF Statement
  <1>1. CASE s \in {Plain("create"), Plain("drop"), Plain("select")}
    BY <1>1 DEF Plain
  <1>2. ASSUME NEW o \in Objects, s \in {SqliteInsert(o), MysqlInsert(o)} PROVE WellFormed(s)
    <2>1. Chosen(o, "INSERT") \in Settings OBVIOUS
    <2> HIDE DEF WellFormed
    <2>2. \A parses, literals : WellFormed(Statement("insert", Chosen(o, "INSERT"), Nothing, parses, literals))
      BY <1>0, <2>1
    <2>3. \E parses, literals : s = Statement("insert", Chosen(o, "INSERT"), Nothing, parses, literals)
      BY <1>2, Zenon DEF SqliteInsert, MysqlInsert
    <2> QED BY <2>2, <2>3
  <1>3. ASSUME NEW o \in Objects, s \in {SqliteDelete(o), MysqlDelete(o)} PROVE WellFormed(s)
    <2> HIDE DEF WellFormed
    <2>1. \A where, parses, literals : WellFormed(Statement("delete", Nothing, where, parses, literals))
      BY <1>0
    <2>2. \E where, parses, literals : s = Statement("delete", Nothing, where, parses, literals)
      BY <1>3, Zenon DEF SqliteDelete, MysqlDelete
    <2> QED BY <2>1, <2>2
  <1>4. ASSUME NEW o \in Objects, s \in {SqliteModify(o), MysqlModify(o)} PROVE WellFormed(s)
    BY <1>0, <1>4 DEF SqliteModify, MysqlModify
  <1> QED BY <1>1, <1>2, <1>3, <1>4
          DEF SqliteStatements, MysqlStatements, SqliteCreate, SqliteDrop, SqliteQuery,
              MysqlCreate, MysqlDrop, MysqlQuery

LEMMA PutIsTable ==
  ASSUME NEW K \in SUBSET Keys, NEW t \in [K -> Vals \cup {Null}],
         NEW k \in Keys, NEW v \in Vals \cup {Null}
  PROVE  Put(t, k, v) \in Tables
  <1>1. Put(t, k, v) \in [K \cup {k} -> Vals \cup {Null}] BY DEF Put
  <1>2. K \cup {k} \in SUBSET Keys OBVIOUS
  <1> QED BY <1>1, <1>2 DEF Tables

LEMMA OutcomesAreTables ==
  ASSUME NEW s, WellFormed(s), NEW table \in Tables
  PROVE  Outcomes(s, table) \subseteq Tables
  <1>1. CASE table = NoTable
    <2>1. Nothing \in [{} -> Vals \cup {Null}] BY DEF Nothing
    <2>2. Nothing \in Tables BY <2>1 DEF Tables
    <2> QED BY <1>1, <2>2 DEF Outcomes
  <1>2. CASE table # NoTable
    <2>1. PICK K \in SUBSET Keys : table \in [K -> Vals \cup {Null}]
      BY <1>2 DEF Tables
    <2>2. Inserted(table, s.set) \subseteq Tables
      <3> DEFINE v == IF "val" \in DOMAIN s.set THEN s.set["val"] ELSE Null
                 N == IF "key" \in DOMAIN s.set THEN {s.set["key"]} ELSE Keys
      <3>1. v \in Vals \cup {Null} /\ N \subseteq Keys BY DEF WellFormed, Settings
      <3>2. \A k \in N : Put(table, k, v) \in Tables BY <2>1, <3>1, PutIsTable
      <3>3. Inserted(table, s.set) = {Put(table, k, v) : k \in N \ DOMAIN table}
        BY DEF Inserted
      <3> HIDE DEF v, N
      <3> QED BY <3>2, <3>3
    <2>3. Deleted(table, s.where) \subseteq Tables
      <3> DEFINE L == DOMAIN table \ Matching(table, s.where)
      <3>1. L \in SUBSET Keys BY <2>1
      <3>2. Keep(table, L) \in [L -> Vals \cup {Null}] BY <2>1 DEF Keep
      <3> QED BY <3>1, <3>2 DEF Deleted, Tables
    <2>4. Modified(table, s.set, s.where) \subseteq Tables
      <3> DEFINE M == Matching(table, s.where)
                 T == [k \in DOMAIN table |->
                         IF k \in M /\ "val" \in DOMAIN s.set THEN s.set["val"] ELSE table[k]]
                 L == DOMAIN T \ M
      <3>1. T \in [K -> Vals \cup {Null}] BY <2>1 DEF WellFormed, Settings
      <3>2. M \subseteq K BY <2>1 DEF Matching
      <3>3. Keep(T, L) \in [L -> Vals \cup {Null}] /\ L \in SUBSET Keys
        BY <2>1, <3>1 DEF Keep
      <3>4. Modified(table, s.set, s.where) =
              IF "key" \notin DOMAIN s.set \/ M = {} THEN {T}
              ELSE {Put(Keep(T, L), s.set["key"], T[k]) :
                      k \in {l \in M : M = {l} /\ s.set["key"] \notin DOMAIN table \ {l}}}
        BY DEF Modified
      <3>5. ASSUME "key" \in DOMAIN s.set, NEW k \in M
            PROVE  Put(Keep(T, L), s.set["key"], T[k]) \in Tables
        <4>1. s.set["key"] \in Keys BY <3>5 DEF WellFormed, Settings
        <4>2. T[k] \in Vals \cup {Null} BY <3>1, <3>2
        <4> HIDE DEF M, T, L
        <4> QED BY <3>3, <4>1, <4>2, PutIsTable
      <3>6. T \in Tables BY <3>1 DEF Tables
      <3> HIDE DEF M, T, L
      <3> QED BY <3>4, <3>5, <3>6
    <2>5. table \in Tables /\ NoTable \in Tables BY DEF Tables
    <2> QED BY <1>2, <2>2, <2>3, <2>4, <2>5 DEF Outcomes, WellFormed, Verbs
  <1> QED BY <1>1, <1>2

-----------------------------------------------------------------------------
(***************************************************************************)
(* The inductive invariant.  While the process lives the connection agrees *)
(* with what is stored outside a transaction; the engine has one open      *)
(* whenever the program believes that it has, though not the other way     *)
(* round: after a call that failed the engine may have ended it.           *)
(***************************************************************************)
InSync ==
  fault = "none" =>
    /\ ~tx => view = stored
    /\ begun = "yes" => tx
    /\ tx => begun # "no"
    /\ tx \/ unread => handle # "null"
    /\ unread => class = "mysql"

DbInv == TypeOK /\ InSync

LEMMA DbInit == Init => DbInv
  BY DEF Init, DbInv, TypeOK, InSync, Tables

LEMMA BegunIs ==
  ASSUME begun \in {"no", "yes", "torn"}, NEW op, NEW r \in {0, -1, -2, -3}
  PROVE  /\ op = "start" /\ r = 0 => BegunAfter(op, r) = "yes"
         /\ op \in {"commit", "rollback", "close"} /\ r = 0 => BegunAfter(op, r) = "no"
         /\ BegunAfter(op, r) \in {"no", "yes", "torn"}
         /\ op = "script" => BegunAfter(op, r) = "torn"
         /\ op # "script" /\ (op \notin {"start", "commit", "rollback", "close"} \/ r < 0) =>
              BegunAfter(op, r) =
                IF begun = "yes" /\ (r < 0 \/ op \in {"create", "drop"}) THEN "torn" ELSE begun
  BY DEF BegunAfter

USE DEF linkVars, dataVars, Returns, Refuses

LEMMA SqliteKeepsType ==
  ASSUME DbInv, fault = "none", class = "sqlite", SqliteStep
  PROVE  TypeOK'
  <1> USE BegunIs DEF DbInv, TypeOK
  <1>1. ASSUME NEW h \in BOOLEAN, SqliteConnect(h) PROVE TypeOK'
    BY <1>1 DEF SqliteConnect, SqliteIsOpen, OpenFailed
  <1>2. ASSUME NEW s \in SqliteStatements, SqliteExec(s) \/ SqliteExecResult(s) PROVE TypeOK'
    <2>1. Outcomes(s, view) \subseteq Tables /\ s.verb \in Verbs
      BY StatementsWellFormed, OutcomesAreTables DEF WellFormed
    <2> USE <2>1 DEF SqliteExec, SqliteCall, StatementFails, TxRollsBack, Applies, ScriptRuns, Verbs
    <2>2. CASE SqliteExec(s)
      <3>1. unread' \in BOOLEAN /\ tx' \in BOOLEAN BY <2>2
      <3>2. CASE s.form # "script" BY <2>2, <3>1, <3>2
      <3>3. CASE s.form = "script" BY <2>2, <3>1, <3>3
      <3> QED BY <3>2, <3>3
    <2>3. CASE fault' = "printf"
      BY <1>2, <2>3 DEF SqliteExecResult, Ends, Dies
    <2> QED BY <1>2, <2>2, <2>3 DEF SqliteExecResult, Ends, Dies
  <1>3. CASE SqliteStartTransaction
    <2> USE <1>3 DEF SqliteStartTransaction, SqliteCall, StatementFails, TxRollsBack, TxBegins
    <2>1. unread' \in BOOLEAN /\ tx' \in BOOLEAN OBVIOUS
    <2> QED BY <2>1
  <1>4. CASE SqliteCommitTransaction
    <2> USE <1>4 DEF SqliteCommitTransaction, SqliteCall, StatementFails, TxRollsBack, TxCommits
    <2>1. unread' \in BOOLEAN /\ tx' \in BOOLEAN OBVIOUS
    <2> QED BY <2>1
  <1>5. CASE SqliteRollbackTransaction
    <2> USE <1>5 DEF SqliteRollbackTransaction, SqliteCall, StatementFails, TxRollsBack
    <2>1. unread' \in BOOLEAN /\ tx' \in BOOLEAN OBVIOUS
    <2> QED BY <2>1
  <1>6. CASE SqliteClose
    <2>1. unread' \in BOOLEAN /\ tx' \in BOOLEAN BY <1>6 DEF SqliteClose, Closes
    <2> QED BY <1>6, <2>1 DEF SqliteClose, Closes
  <1> QED BY <1>1, <1>2, <1>3, <1>4, <1>5, <1>6 DEF SqliteStep

LEMMA SqliteKeepsSync ==
  ASSUME DbInv, fault = "none", class = "sqlite", SqliteStep
  PROVE  InSync'
  <1> USE BegunIs DEF DbInv, InSync, TypeOK
  <1>1. ASSUME NEW h \in BOOLEAN, SqliteConnect(h) PROVE InSync'
    BY <1>1 DEF SqliteConnect, SqliteIsOpen, OpenFailed
  <1>2. ASSUME NEW s \in SqliteStatements, SqliteExec(s) \/ SqliteExecResult(s) PROVE InSync'
    <2>1. s.verb \in Verbs BY StatementsWellFormed DEF WellFormed
    <2>2. CASE fault' # "none" BY <2>2
    <2>3. CASE SqliteExec(s)
      <3> USE <2>3 DEF SqliteExec, SqliteCall
      <3>1. CASE s.form # "script"
        BY <2>1, <3>1 DEF StatementFails, TxRollsBack, Applies, Verbs
      <3>2. CASE s.form = "script" BY <3>2 DEF StatementFails, TxRollsBack, ScriptRuns
      <3> QED BY <3>1, <3>2
    <2> QED BY <1>2, <2>2, <2>3 DEF SqliteExecResult, Ends, Dies
  <1>3. CASE SqliteStartTransaction
    BY <1>3 DEF SqliteStartTransaction, SqliteCall, StatementFails, TxRollsBack, TxBegins
  <1>4. CASE SqliteCommitTransaction
    BY <1>4 DEF SqliteCommitTransaction, SqliteCall, StatementFails, TxRollsBack, TxCommits
  <1>5. CASE SqliteRollbackTransaction
    BY <1>5 DEF SqliteRollbackTransaction, SqliteCall, StatementFails, TxRollsBack
  <1>6. CASE SqliteClose BY <1>6 DEF SqliteClose, Closes
  <1> QED BY <1>1, <1>2, <1>3, <1>4, <1>5, <1>6 DEF SqliteStep

-----------------------------------------------------------------------------
(* CMysqlClient. *)

LEMMA MysqlKeepsType ==
  ASSUME DbInv, fault = "none", class = "mysql", MysqlStep
  PROVE  TypeOK'
  <1> USE BegunIs DEF DbInv, TypeOK, MysqlCall, Lost, Errs, Ends, Dies
  <1>1. ASSUME NEW h \in BOOLEAN, MysqlConnect(h) PROVE TypeOK'
    <2>1. unread' \in BOOLEAN /\ tx' \in BOOLEAN BY <1>1 DEF MysqlConnect
    <2> QED BY <1>1, <2>1 DEF MysqlConnect
  <1>2. ASSUME NEW s \in MysqlStatements, MysqlExec(s) \/ MysqlExecResult(s) PROVE TypeOK'
    <2>1. Outcomes(s, view) \subseteq Tables /\ s.verb \in Verbs
      BY StatementsWellFormed, OutcomesAreTables DEF WellFormed
    <2>2. LastsOf(s) \subseteq Tables BY <2>1 DEF LastsOf
    <2>3. EndsTx(s) \in BOOLEAN BY DEF EndsTx
    <2> USE <2>1, <2>2, <2>3 DEF Verbs
    <2>4. CASE MysqlExec(s)
      <3>1. unread' \in BOOLEAN /\ tx' \in BOOLEAN
        BY <2>4 DEF MysqlExec, Fails, Succeeds
      <3> QED BY <2>4, <3>1 DEF MysqlExec, Fails, Succeeds
    <2>5. CASE MysqlExecResult(s)
      <3>1. unread' \in BOOLEAN /\ tx' \in BOOLEAN
        BY <2>5 DEF MysqlExecResult, Fails, Succeeds
      <3> QED BY <2>5, <3>1 DEF MysqlExecResult, Fails, Succeeds
    <2> QED BY <1>2, <2>4, <2>5
  <1>3. CASE MysqlStartTransaction
    <2>1. unread' \in BOOLEAN /\ tx' \in BOOLEAN BY <1>3 DEF MysqlStartTransaction
    <2> QED BY <1>3, <2>1 DEF MysqlStartTransaction
  <1>4. CASE MysqlCommitTransaction
    <2>1. unread' \in BOOLEAN /\ tx' \in BOOLEAN BY <1>4 DEF MysqlCommitTransaction
    <2> QED BY <1>4, <2>1 DEF MysqlCommitTransaction
  <1>5. CASE MysqlRollbackTransaction
    <2>1. unread' \in BOOLEAN /\ tx' \in BOOLEAN BY <1>5 DEF MysqlRollbackTransaction
    <2> QED BY <1>5, <2>1 DEF MysqlRollbackTransaction
  <1>6. CASE MysqlClose
    <2>1. unread' \in BOOLEAN /\ tx' \in BOOLEAN BY <1>6 DEF MysqlClose, Closes
    <2> QED BY <1>6, <2>1 DEF MysqlClose, Closes
  <1> QED BY <1>1, <1>2, <1>3, <1>4, <1>5, <1>6 DEF MysqlStep

LEMMA MysqlKeepsSync ==
  ASSUME DbInv, fault = "none", class = "mysql", MysqlStep
  PROVE  InSync'
  <1> USE BegunIs DEF DbInv, InSync, TypeOK, MysqlCall, Lost, Errs, Ends, Dies
  <1>1. ASSUME NEW h \in BOOLEAN, MysqlConnect(h) PROVE InSync'
    BY <1>1 DEF MysqlConnect
  <1>2. ASSUME NEW s \in MysqlStatements, MysqlExec(s) \/ MysqlExecResult(s) PROVE InSync'
    <2>1. s.verb \in Verbs BY StatementsWellFormed DEF WellFormed
    <2>2. EndsTx(s) => s.verb \in {"create", "drop"} BY DEF EndsTx
    <2>3. EndsTx(s) \in BOOLEAN BY DEF EndsTx
    <2> USE <2>1, <2>2, <2>3 DEF Verbs
    <2>4. CASE MysqlExec(s) BY <2>4 DEF MysqlExec, Fails, Succeeds
    <2>5. CASE MysqlExecResult(s) BY <2>5 DEF MysqlExecResult, Fails, Succeeds
    <2> QED BY <1>2, <2>4, <2>5
  <1>3. CASE MysqlStartTransaction BY <1>3 DEF MysqlStartTransaction
  <1>4. CASE MysqlCommitTransaction BY <1>4 DEF MysqlCommitTransaction
  <1>5. CASE MysqlRollbackTransaction BY <1>5 DEF MysqlRollbackTransaction
  <1>6. CASE MysqlClose BY <1>6 DEF MysqlClose, Closes
  <1> QED BY <1>1, <1>2, <1>3, <1>4, <1>5, <1>6 DEF MysqlStep

-----------------------------------------------------------------------------
(***************************************************************************)
(* The inductive invariant of both classes (Sqlite3Client.cpp,             *)
(* MysqlClient.cpp).                                                       *)
(***************************************************************************)
THEOREM DbInvHolds == Spec => []DbInv
  <1>1. DbInv /\ [Next]_vars => DbInv'
    <2> SUFFICES ASSUME DbInv, [Next]_vars PROVE DbInv'
      OBVIOUS
    <2>1. CASE UNCHANGED vars
      <3>1. TypeOK' BY <2>1 DEF DbInv, TypeOK, vars
      <3>2. InSync' BY <2>1 DEF DbInv, InSync, vars
      <3> QED BY <3>1, <3>2 DEF DbInv
    <2>2. CASE Next
      BY <2>2, SqliteKeepsType, SqliteKeepsSync, MysqlKeepsType, MysqlKeepsSync
         DEF Next, DbInv
    <2> QED BY <2>1, <2>2
  <1> QED BY <1>1, DbInit, PTL DEF Spec

(***************************************************************************)
(* Type correctness: in particular every statement the table classes       *)
(* generate, and every script a text carries, leaves a table.              *)
(***************************************************************************)
THEOREM DbTypeCorrect == Spec => []TypeOK
  <1>1. DbInv => TypeOK BY DEF DbInv
  <1> QED BY <1>1, DbInvHolds, PTL

(***************************************************************************)
(* A program that has ended its transaction, and has run no script since,  *)
(* has none open at the engine and sees what is stored                     *)
(* (Sqlite3Client.cpp:60-82, MysqlClient.cpp:69-89).                       *)
(***************************************************************************)
THEOREM AckedIsStoredHolds == Spec => []AckedIsStored
  <1>1. DbInv => AckedIsStored BY DEF DbInv, InSync, AckedIsStored
  <1> QED BY <1>1, DbInvHolds, PTL

(***************************************************************************)
(* A transaction whose calls all succeed becomes visible by its commit     *)
(* only, or, with MySQL, by a second BEGIN, CREATE or DROP, or, with       *)
(* SQLite, by the statements a text carries (Sqlite3Client.cpp:21, 48-82,  *)
(* MysqlClient.cpp:58-89).                                                 *)
(***************************************************************************)
THEOREM AllOrNothingHolds == Spec => AllOrNothing
  <1> DEFINE Shows == \/ call' = "commit"
                      \/ class = "sqlite" /\ call' = "script"
                      \/ class = "mysql" /\ call' \in {"start", "create", "drop"}
  <1>1. ASSUME DbInv, Next, begun = "yes", stored' # stored PROVE Shows
    <2>1. fault = "none" /\ tx BY <1>1 DEF Next, DbInv, InSync
    <2>2. CASE class = "sqlite" /\ SqliteStep
      <3> USE <2>1, <2>2, <1>1 DEF SqliteCall, StatementFails, TxRollsBack
      <3>1. CASE \E h \in BOOLEAN : SqliteConnect(h) BY <3>1 DEF SqliteConnect
      <3>2. ASSUME NEW s \in SqliteStatements, SqliteExec(s) \/ SqliteExecResult(s) PROVE Shows
        BY <3>2 DEF SqliteExec, SqliteExecResult, Applies, Ends, Dies
      <3>3. CASE SqliteStartTransaction BY <3>3 DEF SqliteStartTransaction, TxBegins
      <3>4. CASE SqliteCommitTransaction BY <3>4 DEF SqliteCommitTransaction
      <3>5. CASE SqliteRollbackTransaction BY <3>5 DEF SqliteRollbackTransaction
      <3>6. CASE SqliteClose BY <3>6 DEF SqliteClose, Closes
      <3> QED BY <3>1, <3>2, <3>3, <3>4, <3>5, <3>6 DEF SqliteStep
    <2>3. CASE class = "mysql" /\ MysqlStep
      <3> USE <2>1, <2>3, <1>1 DEF MysqlCall, Lost, Errs, Ends, Dies
      <3>1. ASSUME NEW s \in MysqlStatements, MysqlExec(s) \/ MysqlExecResult(s) PROVE Shows
        <4>1. EndsTx(s) => s.verb \in {"create", "drop"} BY DEF EndsTx
        <4>2. ~EndsTx(s) => LastsOf(s) = {} BY DEF LastsOf
        <4> QED BY <3>1, <4>1, <4>2 DEF MysqlExec, MysqlExecResult, Fails, Succeeds
      <3>2. CASE \E h \in BOOLEAN : MysqlConnect(h) BY <3>2 DEF MysqlConnect
      <3>3. CASE MysqlStartTransaction BY <3>3 DEF MysqlStartTransaction
      <3>4. CASE MysqlCommitTransaction BY <3>4 DEF MysqlCommitTransaction
      <3>5. CASE MysqlRollbackTransaction BY <3>5 DEF MysqlRollbackTransaction
      <3>6. CASE MysqlClose BY <3>6 DEF MysqlClose, Closes
      <3> QED BY <3>1, <3>2, <3>3, <3>4, <3>5, <3>6 DEF MysqlStep
    <2> QED BY <1>1, <2>2, <2>3 DEF Next
  <1>2. DbInv /\ [Next]_vars => [begun = "yes" /\ stored' # stored => Shows]_vars
    BY <1>1
  <1> QED BY <1>2, DbInvHolds, PTL DEF Spec, AllOrNothing

(***************************************************************************)
(* A client with a lost connection, a failed open or an unread result      *)
(* refuses every call until it is closed (Sqlite3Client.cpp:9-13,          *)
(* MysqlClient.cpp:24-33).                                                 *)
(***************************************************************************)
THEOREM WedgedUntilClosedHolds == Spec => WedgedUntilClosed
  <1> DEFINE Refused == Wedged' /\ ret' < 0 /\ stored' = stored
  <1>1. ASSUME DbInv, Next, Wedged, fault' = "none", call' # "close" PROVE Refused
    <2>1. fault = "none" BY <1>1 DEF Next
    <2>2. CASE class = "sqlite" /\ SqliteStep
      <3>1. handle = "sick" BY <2>1, <2>2, <1>1 DEF Wedged, DbInv, InSync
      <3> QED BY <2>2, <3>1, <1>1
         DEF SqliteStep, SqliteConnect, SqliteIsOpen, SqliteExec, SqliteExecResult, SqliteCall, Ends, Dies,
             SqliteStartTransaction, SqliteCommitTransaction, SqliteRollbackTransaction,
             SqliteClose, Wedged
    <2>3. CASE class = "mysql" /\ MysqlStep
      <3>1. handle # "null" BY <2>1, <1>1 DEF Wedged, DbInv, InSync
      <3> USE <2>1, <2>3, <3>1, <1>1 DEF Wedged, DbInv, TypeOK, MysqlCall, Errs, Ends, Dies
      <3>2. CASE \E h \in BOOLEAN : MysqlConnect(h) BY <3>2 DEF MysqlConnect
      <3>3. CASE \E s \in MysqlStatements : MysqlExec(s) \/ MysqlExecResult(s)
        BY <3>3 DEF MysqlExec, MysqlExecResult
      <3>4. CASE MysqlStartTransaction BY <3>4 DEF MysqlStartTransaction
      <3>5. CASE MysqlCommitTransaction BY <3>5 DEF MysqlCommitTransaction
      <3>6. CASE MysqlRollbackTransaction BY <3>6 DEF MysqlRollbackTransaction
      <3>7. CASE MysqlClose BY <3>7 DEF MysqlClose
      <3> QED BY <3>2, <3>3, <3>4, <3>5, <3>6, <3>7 DEF MysqlStep
    <2> QED BY <1>1, <2>2, <2>3 DEF Next
  <1>2. DbInv /\ [Next]_vars =>
          [Wedged /\ fault' = "none" /\ call' # "close" => Refused]_vars
    BY <1>1
  <1> QED BY <1>2, DbInvHolds, PTL DEF Spec, WedgedUntilClosed
=============================================================================
