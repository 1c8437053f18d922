------------------------------ MODULE Database ------------------------------
(***************************************************************************)
(* The two classes behind CDatabaseClient (DataBaseHelper.h): one object   *)
(* of CSqlite3Client or CMysqlClient, the connection it holds, and the     *)
(* database behind it.  The program calls the object in any order.         *)
(*                                                                         *)
(* A statement that fails at MySQL is reported with its error number       *)
(* printed as a string (MysqlClient.cpp:15-84), one with a result at       *)
(* SQLite with an object (Sqlite3Client.cpp:39), which is undefined: the   *)
(* process dies or goes on.                                                *)
(*                                                                         *)
(* A definition marked "mutant" is a plausible mistake in the definition   *)
(* that follows it; no specification uses one.                             *)
(***************************************************************************)
EXTENDS Sql

CONSTANTS Classes,  \* the classes an object may be of
          MayFail   \* may the engine fail, or its connection be lost?

ASSUME ClassesAssumption == Classes \subseteq {"sqlite", "mysql"}
ASSUME MayFailAssumption == MayFail \in BOOLEAN

VARIABLES
  class,   \* the class of the object
  handle,  \* m_db or m_bInit: "null", "open", or "sick": open, every call fails
  unread,  \* MySQL: a result is waiting on the connection
  tx,      \* is a transaction open at the engine?
  stored,  \* the table as everybody sees it
  view,    \* the table as this connection sees it
  begun,   \* has the program begun a transaction and not ended it? "no",
           \* "yes", or "torn": it has, and a call has failed or a table has
           \* changed since; or a script has run
  call,    \* the last call, "script" if what it sent was one
  ret,     \* what it returned
  fault    \* "none", or what ended the process

linkVars == <<handle, unread, tx>>
dataVars == <<stored, view>>
vars == <<class, linkVars, dataVars, begun, call, ret, fault>>

Init ==
  /\ class \in Classes
  /\ handle = "null" /\ unread = FALSE /\ tx = FALSE
  /\ stored = NoTable /\ view = NoTable
  /\ begun = "no" /\ call = "none" /\ ret = 0 /\ fault = "none"

BegunAfter(op, r) ==
  CASE op = "start" /\ r = 0 -> "yes"
    [] op \in {"commit", "rollback", "close"} /\ r = 0 -> "no"
    [] op = "script" -> "torn"
    [] begun = "yes" /\ (r < 0 \/ op \in {"create", "drop"}) -> "torn"
    [] OTHER -> begun

Returns(op, r) ==
  call' = op /\ ret' = r /\ begun' = BegunAfter(op, r) /\ UNCHANGED <<class, fault>>
Refuses(op, r) == Returns(op, r) /\ UNCHANGED <<linkVars, dataVars>>

(* The process ends in a call; the engine undoes what it had not committed. *)
Ends(op, what) ==
  fault' = what /\ call' = op /\ UNCHANGED <<class, linkVars, view, begun, ret>>
Dies(op, what) == Ends(op, what) /\ UNCHANGED stored

-----------------------------------------------------------------------------
(***************************************************************************)
(* What SQLite does to the connection (sqlite3.c): a statement outside a   *)
(* transaction is a transaction of its own; one that fails is undone       *)
(* alone, except that some errors (the disk is full, memory is out, a file *)
(* cannot be written) undo the transaction and end it; a COMMIT may fail   *)
(* either way.                                                             *)
(***************************************************************************)
Applies(t)     == view' = t /\ stored' = IF tx THEN stored ELSE t
TxBegins       == ~tx /\ tx' = TRUE /\ UNCHANGED dataVars
TxCommits      == tx /\ tx' = FALSE /\ stored' = view /\ UNCHANGED view
TxRollsBack    == tx /\ tx' = FALSE /\ view' = stored /\ UNCHANGED stored
StatementFails == UNCHANGED <<tx, dataVars>> \/ TxRollsBack

(* The statements that a text carries may begin, commit and undo as well.  *)
ScriptRuns ==
  /\ view' \in Tables /\ stored' \in Tables /\ tx' \in BOOLEAN
  /\ ~tx' => view' = stored'

-----------------------------------------------------------------------------
(* CSqlite3Client. *)

(* A failed open leaves a handle that is good for nothing but Close, or,   *)
(* out of memory, none.                                                    *)
OpenAnyway    == FALSE              \* mutant: m_db is not looked at
SqliteIsOpen  == handle # "null"
OpenFailedRaw == 14                 \* mutant: SQLite's code is returned
OpenFailed    == -3

SqliteConnect(hasHost) ==
  \/ ~hasHost /\ Refuses("connect", -1)
  \/ hasHost /\ SqliteIsOpen /\ Refuses("connect", -2)
  \/ /\ hasHost /\ ~SqliteIsOpen
     /\ \/ handle' = "open" /\ Returns("connect", 0)
        \/ MayFail /\ handle' \in {"sick", "null"} /\ Returns("connect", OpenFailed)
     /\ UNCHANGED <<unread, tx, dataVars>>

(* sqlite3_exec. *)
SqliteCall(op, Good) ==
  \/ handle = "null" /\ Refuses(op, -1)
  \/ handle = "sick" /\ Refuses(op, -2)
  \/ /\ handle = "open" /\ MayFail /\ StatementFails
     /\ Returns(op, -2) /\ UNCHANGED <<handle, unread>>
  \/ handle = "open" /\ Good

(* Exec without a result. *)
SqliteExec(s) ==
  \/ /\ s.form # "script"
     /\ SqliteCall(s.verb,
          \/ Fallible(s, view) /\ Refuses(s.verb, -2)
          \/ /\ \E t \in Outcomes(s, view) : Applies(t)
             /\ Returns(s.verb, 0) /\ UNCHANGED linkVars)
  \/ /\ s.form = "script"
     /\ SqliteCall("script",
          ScriptRuns /\ (\E r \in {0, -2} : Returns("script", r)) /\ UNCHANGED <<handle, unread>>)

(* Exec with a result; an error is reported with the statement's object    *)
(* printed as a string.                                                    *)
SqliteExecResult(s) ==
  \/ SqliteExec(s)
  \/ /\ s.form # "script"
     /\ handle = "sick" \/ (handle = "open" /\ (MayFail \/ Fallible(s, view)))
     /\ Dies(s.verb, "printf")
  \/ /\ s.form = "script" /\ handle # "null"
     /\ Ends("script", "printf")
     /\ IF handle = "sick" THEN UNCHANGED stored ELSE stored' \in Tables

(* mutant: BEGIN is never sent *)
SqliteStartSilently == SqliteCall("start", Refuses("start", 0))

SqliteStartTransaction ==
  SqliteCall("start",
    \/ tx /\ Refuses("start", -2)
    \/ TxBegins /\ Returns("start", 0) /\ UNCHANGED <<handle, unread>>)

(* mutant: the result of COMMIT is not looked at *)
SqliteCommitUnchecked ==
  \/ handle = "null" /\ Refuses("commit", -1)
  \/ handle = "sick" /\ Refuses("commit", -2)
  \/ /\ handle = "open" /\ Returns("commit", 0)
     /\ TxCommits \/ UNCHANGED <<tx, dataVars>>
     /\ UNCHANGED <<handle, unread>>

SqliteCommitTransaction ==
  SqliteCall("commit",
    \/ ~tx /\ Refuses("commit", -2)
    \/ TxCommits /\ Returns("commit", 0) /\ UNCHANGED <<handle, unread>>)

SqliteRollbackTransaction ==
  SqliteCall("rollback",
    \/ ~tx /\ Refuses("rollback", -2)
    \/ TxRollsBack /\ Returns("rollback", 0) /\ UNCHANGED <<handle, unread>>)

(* What closes ends the transaction with nothing done. *)
Closes ==
  /\ handle' = "null" /\ unread' = FALSE /\ tx' = FALSE
  /\ view' = stored /\ UNCHANGED stored

SqliteClose ==
  \/ handle = "null" /\ Refuses("close", -1)
  \/ handle # "null" /\ Closes /\ Returns("close", 0)

SqliteStep ==
  \/ \E hasHost \in BOOLEAN : SqliteConnect(hasHost)
  \/ \E s \in SqliteStatements : SqliteExec(s) \/ SqliteExecResult(s)
  \/ SqliteStartTransaction \/ SqliteCommitTransaction \/ SqliteRollbackTransaction
  \/ SqliteClose

-----------------------------------------------------------------------------
(* CMysqlClient. *)

(* An error is printed with %s. *)
Errs(op, r) == Refuses(op, r) \/ Dies(op, "printf")

(* An argument that is missing throws out of at. *)
MysqlConnect(hasArgs) ==
  \/ handle # "null" /\ Refuses("connect", -1)
  \/ handle = "null" /\ MayFail /\ Refuses("connect", -2)
  \/ handle = "null" /\ ~hasArgs /\ Dies("connect", "out_of_range")
  \/ handle = "null" /\ hasArgs /\ MayFail /\ Errs("connect", -3)
  \/ /\ handle = "null" /\ hasArgs
     /\ handle' = "open" /\ Returns("connect", 0)
     /\ UNCHANGED <<unread, tx, dataVars>>

(* The connection is lost before or after the server has done its work,    *)
(* which leaves one of tables; the server rolls back what is open.         *)
Lost(op, tables) ==
  /\ stored' \in tables
  /\ \/ Ends(op, "printf")
     \/ /\ handle' = "sick" /\ tx' = FALSE /\ view' = stored'
        /\ Returns(op, -2) /\ UNCHANGED unread

(* mysql_real_query; nothing is accepted while a result waits.  Lasting    *)
(* is what the call may leave stored when it is not answered.              *)
MysqlCall(op, Lasting, Good) ==
  \/ handle = "null" /\ Refuses(op, -1)
  \/ (handle = "sick" \/ (handle = "open" /\ unread)) /\ Errs(op, -2)
  \/ handle = "open" /\ ~unread /\ (Good \/ (MayFail /\ Lost(op, {stored} \cup Lasting)))

(* CREATE and DROP end the transaction first, whether or not they succeed. *)
EndsTx(s) == s.form = "exact" /\ s.verb \in {"create", "drop"}

LastsOf(s) ==
  IF EndsTx(s) THEN {view} \cup Outcomes(s, view)
  ELSE IF tx THEN {} ELSE Outcomes(s, view)

Fails(s) ==
  /\ Fallible(s, view)
  /\ stored' = IF EndsTx(s) THEN view ELSE stored
  /\ \/ Ends(s.verb, "printf")
     \/ /\ tx' = (tx /\ ~EndsTx(s)) /\ Returns(s.verb, -2)
        /\ UNCHANGED <<handle, unread, view>>

Succeeds(s) ==
  /\ view' \in Outcomes(s, view)
  /\ tx' = (tx /\ ~EndsTx(s))
  /\ stored' = IF tx' THEN stored ELSE view'
  /\ Returns(s.verb, 0) /\ UNCHANGED handle

(* Exec without a result: nobody fetches what a SELECT returns. *)
MysqlExec(s) ==
  MysqlCall(s.verb, LastsOf(s),
    Fails(s) \/ (Succeeds(s) /\ unread' = (s.verb = "select")))

(* Exec with a result: the rows of a SELECT are fetched; for any other     *)
(* statement, and when the connection is lost meanwhile, there is no       *)
(* result and its fields are counted all the same.                         *)
MysqlExecResult(s) ==
  MysqlCall(s.verb, LastsOf(s),
    \/ Fails(s)
    \/ s.verb = "select" /\ Succeeds(s) /\ UNCHANGED unread
    \/ s.verb = "select" /\ Outcomes(s, view) # {} /\ MayFail /\ Dies(s.verb, "null")
    \/ /\ s.verb # "select" /\ Ends(s.verb, "null")
       /\ \E t \in Outcomes(s, view) : stored' = IF tx /\ ~EndsTx(s) THEN stored ELSE t)

(* BEGIN commits a transaction that is open. *)
MysqlStartTransaction ==
  MysqlCall("start", {view},
    /\ stored' = view /\ tx' = TRUE
    /\ Returns("start", 0) /\ UNCHANGED <<handle, unread, view>>)

MysqlCommitTransaction ==
  MysqlCall("commit", {view},
    /\ stored' = view /\ tx' = FALSE
    /\ Returns("commit", 0) /\ UNCHANGED <<handle, unread, view>>)

MysqlRollbackTransaction ==
  MysqlCall("rollback", {},
    /\ view' = stored /\ tx' = FALSE
    /\ Returns("rollback", 0) /\ UNCHANGED <<handle, unread, stored>>)

MysqlClose ==
  \/ handle = "null" /\ Refuses("close", 0)
  \/ handle # "null" /\ Closes /\ Returns("close", 0)

MysqlStep ==
  \/ \E hasArgs \in BOOLEAN : MysqlConnect(hasArgs)
  \/ \E s \in MysqlStatements : MysqlExec(s) \/ MysqlExecResult(s)
  \/ MysqlStartTransaction \/ MysqlCommitTransaction \/ MysqlRollbackTransaction
  \/ MysqlClose

-----------------------------------------------------------------------------
Next ==
  /\ fault = "none"
  /\ \/ class = "sqlite" /\ SqliteStep
     \/ class = "mysql" /\ MysqlStep

Spec == Init /\ [][Next]_vars

-----------------------------------------------------------------------------
(***************************************************************************)
(* Type correctness.                                                       *)
(***************************************************************************)
TypeOK ==
  /\ class \in Classes
  /\ handle \in {"null", "open", "sick"}
  /\ unread \in BOOLEAN /\ tx \in BOOLEAN /\ begun \in {"no", "yes", "torn"}
  /\ stored \in Tables /\ view \in Tables
  /\ call \in {"none", "connect", "close", "start", "commit", "rollback",
               "create", "drop", "select", "insert", "delete", "modify", "script"}
  /\ ret \in {0, -1, -2, -3}
  /\ fault \in {"none", "printf", "out_of_range", "null"}

(***************************************************************************)
(* What a program does in a transaction no call of which has failed        *)
(* becomes visible to others by its commit only                            *)
(* (Sqlite3Client.cpp:48-82), except that MySQL commits it when the        *)
(* program begins again or creates or drops a table                        *)
(* (MysqlClient.cpp:58-89), and that SQLite runs the statements a text     *)
(* carries (Sqlite3Client.cpp:21, 449).  MySQL runs none: there a text     *)
(* that alters its statement cannot end the transaction.                   *)
(***************************************************************************)
AllOrNothing ==
  [][begun = "yes" /\ stored' # stored =>
       \/ call' = "commit"
       \/ class = "sqlite" /\ call' = "script"
       \/ class = "mysql" /\ call' \in {"start", "create", "drop"}]_vars

(***************************************************************************)
(* A program that has no transaction open, because its commit or rollback  *)
(* returned 0, sees what is stored: nothing it was told is done can be     *)
(* lost any more (Sqlite3Client.cpp:60-82, MysqlClient.cpp:69-89).  After  *)
(* a script SQLite may have run it cannot know before its next commit or   *)
(* rollback that returns 0.                                                *)
(***************************************************************************)
AckedIsStored == fault = "none" /\ begun = "no" => view = stored /\ ~tx

(***************************************************************************)
(* After an open that failed (SQLite, Sqlite3Client.cpp:9-13), a lost      *)
(* connection or a SELECT whose rows nobody fetches (MySQL,                *)
(* MysqlClient.cpp:24-33) the object still says it is connected, and       *)
(* refuses every call until it is closed: connecting again is no way out.  *)
(***************************************************************************)
Wedged == handle = "sick" \/ unread

WedgedUntilClosed ==
  [][Wedged /\ fault' = "none" /\ call' # "close" =>
       Wedged' /\ ret' < 0 /\ stored' = stored]_vars
=============================================================================
