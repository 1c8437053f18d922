-------------------------------- MODULE Sql --------------------------------
(***************************************************************************)
(* The statements that the table classes of Sqlite3Client.cpp and          *)
(* MysqlClient.cpp generate, and what an engine makes of them.  A          *)
(* statement is reduced to what an engine tells apart: its verb, the       *)
(* columns it sets, the columns it compares, and the form of its text.     *)
(*                                                                         *)
(* The table has an integer key that the engine can generate and a text    *)
(* column that may be null.  A table object of the program carries a value *)
(* and a set of Condition flags for each column.                           *)
(***************************************************************************)
EXTENDS Integers, FiniteSets

CONSTANTS Keys,    \* the values of the key column
          Vals,    \* the texts the program puts into the other column
          Quoted,  \* the texts that hold a double quote
          Escaped, \* the texts that hold a backslash
          Named,   \* the texts that are the name of a column
          Null,    \* the absent text
          NoTable  \* a database in which the table does not exist

ASSUME KeysAssumption == IsFiniteSet(Keys) /\ Keys # {}
ASSUME ValsAssumption == Quoted \cup Escaped \cup Named \subseteq Vals /\ Null \notin Vals

Columns == {"key", "val"}
Flags   == {"INSERT", "MODIFY", "CONDITION"}

(* The table objects a program can fill in. *)
Objects ==
  {[key |-> [value |-> k, uses |-> u], val |-> [value |-> v, uses |-> w]] :
     k \in Keys, v \in Vals, u \in SUBSET Flags, w \in SUBSET Flags}

(***************************************************************************)
(* toSqlStr: a text goes between double quotes as it is.  What the engine  *)
(* reads there is one of                                                   *)
(*   "exact"    the text;                                                  *)
(*   "altered"  something else in the same statement;                      *)
(*   "script"   something else, up to further statements.                  *)
(* A quote ends the literal, and sqlite3_exec runs whatever statements     *)
(* follow, mysql_real_query one only; MySQL reads a backslash as an        *)
(* escape; SQLite takes the name of a column between double quotes for the *)
(* column, where the statement has columns to read.                        *)
(***************************************************************************)
SqliteLiteral(v) ==
  IF v \in Quoted THEN "script" ELSE IF v \in Named THEN "altered" ELSE "exact"
MysqlLiteral(v) == IF v \in Quoted \cup Escaped THEN "altered" ELSE "exact"

(* The loops over FieldDefine: the columns that carry a flag.              *)
Chosen(object, flag) ==
  [c \in {d \in Columns : flag \in object[d].uses} |-> object[c].value]
Nothing == [c \in {} |-> Null]

Texts(columns) == {columns[c] : c \in DOMAIN columns \ {"key"}}

(* A statement that is read as it was meant sets and compares what it      *)
(* names, unless it does not parse; of another one nothing is known.       *)
Statement(verb, set, where, parses, literals) ==
  IF literals \subseteq {"exact"}
  THEN [verb |-> verb, set |-> set, where |-> where,
        form |-> IF parses THEN "exact" ELSE "broken"]
  ELSE [verb |-> verb, set |-> Nothing, where |-> Nothing,
        form |-> IF "script" \in literals THEN "script" ELSE "altered"]

(***************************************************************************)
(* The generators.  Modify writes its SET list and its WHERE list with one *)
(* flag isfirst that is not set again between them, so that WHERE starts   *)
(* with AND as soon as SET has a column; and a SET list without a column   *)
(* does not parse.  Delete looks at the conditions of the table it is      *)
(* called on, not at those of its argument.                                *)
(***************************************************************************)
ModifyParses(set, where) == set # Nothing /\ where = Nothing

(* The name of a column means nothing among the values of an INSERT, and   *)
(* mends no statement.                                                     *)
SqliteInsert(values) ==
  LET set == Chosen(values, "INSERT")
  IN  Statement("insert", set, Nothing, set # Nothing,
                {SqliteLiteral(v) : v \in Texts(set)} \ {"altered"})
SqliteDelete(table) ==
  LET where == Chosen(table, "CONDITION")
  IN  Statement("delete", Nothing, where, TRUE, {SqliteLiteral(v) : v \in Texts(where)})
SqliteModify(values) ==
  LET set == Chosen(values, "MODIFY")  where == Chosen(values, "CONDITION")
  IN  Statement("modify", set, where, ModifyParses(set, where),
                {SqliteLiteral(v) : v \in Texts(set) \cup Texts(where)}
                  \ IF ModifyParses(set, where) THEN {} ELSE {"altered"})

(* MySQL takes an INSERT without columns. *)
MysqlInsert(values) ==
  LET set == Chosen(values, "INSERT")
  IN  Statement("insert", set, Nothing, TRUE, {MysqlLiteral(v) : v \in Texts(set)})
MysqlDelete(table) ==
  LET where == Chosen(table, "CONDITION")
  IN  Statement("delete", Nothing, where, TRUE, {MysqlLiteral(v) : v \in Texts(where)})
MysqlModify(values) ==
  LET set == Chosen(values, "MODIFY")  where == Chosen(values, "CONDITION")
  IN  Statement("modify", set, where, ModifyParses(set, where),
                {MysqlLiteral(v) : v \in Texts(set) \cup Texts(where)})

Plain(verb) == [verb |-> verb, set |-> Nothing, where |-> Nothing, form |-> "exact"]
SqliteCreate == Plain("create")
SqliteDrop   == Plain("drop")
SqliteQuery  == Plain("select")
MysqlCreate  == Plain("create")
MysqlDrop    == Plain("drop")
MysqlQuery   == Plain("select")

SqliteStatements ==
  {SqliteCreate, SqliteDrop, SqliteQuery}
    \cup {SqliteInsert(o) : o \in Objects} \cup {SqliteDelete(o) : o \in Objects}
    \cup {SqliteModify(o) : o \in Objects}
MysqlStatements ==
  {MysqlCreate, MysqlDrop, MysqlQuery}
    \cup {MysqlInsert(o) : o \in Objects} \cup {MysqlDelete(o) : o \in Objects}
    \cup {MysqlModify(o) : o \in Objects}

-----------------------------------------------------------------------------
(***************************************************************************)
(* The engines.  A table is a function from the keys in use to their texts *)
(* or Null; Outcomes(statement, table) are the tables a statement may      *)
(* leave, none when it fails; one that was altered may leave any, or fail. *)
(***************************************************************************)
Tables == {NoTable} \cup UNION {[K -> Vals \cup {Null}] : K \in SUBSET Keys}

Matching(table, where) ==
  {k \in DOMAIN table : \A c \in DOMAIN where :
     where[c] = IF c = "key" THEN k ELSE table[k]}

Put(table, k, v) == [l \in DOMAIN table \cup {k} |-> IF l = k THEN v ELSE table[l]]
Keep(table, K)   == [k \in K |-> table[k]]

Inserted(table, set) ==
  LET v == IF "val" \in DOMAIN set THEN set["val"] ELSE Null
      K == IF "key" \in DOMAIN set THEN {set["key"]} ELSE Keys
  IN  {Put(table, k, v) : k \in K \ DOMAIN table}

Deleted(table, where) == {Keep(table, DOMAIN table \ Matching(table, where))}

(* A new key fits one row at most, and only if no other row has it. *)
Modified(table, set, where) ==
  LET M == Matching(table, where)
      T == [k \in DOMAIN table |->
              IF k \in M /\ "val" \in DOMAIN set THEN set["val"] ELSE table[k]]
  IN  IF "key" \notin DOMAIN set \/ M = {} THEN {T}
      ELSE {Put(Keep(T, DOMAIN T \ M), set["key"], T[k]) :
              k \in {l \in M : M = {l} /\ set["key"] \notin DOMAIN table \ {l}}}

Outcomes(s, table) ==
  IF s.form = "broken" THEN {}
  ELSE IF table = NoTable THEN IF s.verb = "create" THEN {Nothing} ELSE {}
  ELSE IF s.form = "altered" THEN Tables \ {NoTable}
  ELSE CASE s.verb = "create" -> {table}
         [] s.verb = "drop"   -> {NoTable}
         [] s.verb = "select" -> {table}
         [] s.verb = "insert" -> Inserted(table, s.set)
         [] s.verb = "delete" -> Deleted(table, s.where)
         [] s.verb = "modify" -> Modified(table, s.set, s.where)

Fallible(s, table) == Outcomes(s, table) = {} \/ s.form = "altered"
=============================================================================
