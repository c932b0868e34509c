------------------------------- MODULE Tables -------------------------------
(***************************************************************************)
(* Tables of the C implementation's own storage engine                     *)
(* (ganada-c/src/builtins.c): the row operations every writer shares and   *)
(* the effect of one SQL statement on the tables of one database.          *)
(*                                                                         *)
(* Data is abstracted to what a row is told apart by: its rowid and one    *)
(* value.  A table is of one of three kinds, by what its key column is:    *)
(*   "plain"  no INTEGER PRIMARY KEY column,                               *)
(*   "pk"     an INTEGER PRIMARY KEY column,                               *)
(*   "auto"   an INTEGER PRIMARY KEY AUTOINCREMENT column,                 *)
(* or, read from a file that was not written to its end, "cut": some of    *)
(* its columns are missing.                                                *)
(* MaxId bounds the rowids: a statement that would hand out a larger one   *)
(* does not fit and is not taken.                                          *)
(***************************************************************************)
EXTENDS Integers

CONSTANTS
    MaxId,      \* the largest rowid of the instance
    Vals,       \* the values a row may hold
    NoRow,      \* "no row has this rowid"
    Names,      \* the table names the program uses
    NoTable,    \* "there is no table of this name"
    NoId        \* an INSERT that leaves the key column out, or gives NULL

RowIds == 0 .. MaxId
GivenIds == -1 .. MaxId     \* what an INSERT may write in the key column
Kinds == {"plain", "pk", "auto"}
Shapes == Kinds \cup {"cut"}

Table == [kind : Shapes, seq : RowIds, rows : [RowIds -> Vals \cup {NoRow}]]
Tabs == [Names -> Table \cup {NoTable}]

ASSUME TablesAssumption ==
    /\ MaxId \in Nat \ {0}
    /\ NoRow \notin Vals
    /\ NoTable \notin Table
    /\ NoId \notin GivenIds

NoTabs == [n \in Names |-> NoTable]

NewTable(kind) == [kind |-> kind, seq |-> 0, rows |-> [r \in RowIds |-> NoRow]]

Has(t, r) == t.rows[r] # NoRow

Present(t) == {r \in RowIds : Has(t, r)}

-----------------------------------------------------------------------------
(* Row operations *)

\* tab_next_rowid: one past seq for AUTOINCREMENT, else one past the largest
\* row present, counting from 0.
IsNextRowid(t, n) ==
    IF t.kind = "auto"
    THEN n = t.seq + 1
    ELSE /\ \A r \in Present(t) : r < n
         /\ n = 1 \/ (n - 1) \in Present(t)

Fits(t) == \E n \in RowIds \ {0} : IsNextRowid(t, n)

NextRowid(t) == CHOOSE n \in RowIds \ {0} : IsNextRowid(t, n)

\* Mutants of TabInsert: seq left one past the row; seq counts the insertions.
TabInsertPast(t, r, v) == [t EXCEPT !.rows[r] = v, !.seq = IF r >= t.seq THEN r + 1 ELSE t.seq]
TabInsertCounts(t, r, v) == [t EXCEPT !.rows[r] = v, !.seq = @ + 1]

\* tab_insert: the row, and seq raised to the largest rowid ever handed out.
TabInsert(t, r, v) ==
    [t EXCEPT !.rows[r] = v, !.seq = IF r > t.seq THEN r ELSE t.seq]

\* Mutant of TabRemove: seq falls back to 0 with the rows.
TabRemoveForgets(t, gone) ==
    [t EXCEPT !.rows = [r \in RowIds |-> IF r \in gone THEN NoRow ELSE t.rows[r]], !.seq = 0]

TabRemove(t, gone) ==
    [t EXCEPT !.rows = [r \in RowIds |-> IF r \in gone THEN NoRow ELSE t.rows[r]]]

TabUpdate(t, hit, v) ==
    [t EXCEPT !.rows = [r \in RowIds |-> IF r \in hit /\ Has(t, r) THEN v ELSE t.rows[r]]]

-----------------------------------------------------------------------------
(* One SQL statement.  A result says which tables it leaves, whether it    *)
(* succeeded and whether it marked the database changed (q->mutated).  A   *)
(* statement that fails leaves whatever it had already done.               *)

Result == [tabs : Tabs, ok : BOOLEAN, mutated : BOOLEAN]

Done(tabs) == [tabs |-> tabs, ok |-> TRUE, mutated |-> TRUE]
Nothing(tabs) == [tabs |-> tabs, ok |-> TRUE, mutated |-> FALSE]
Failed(tabs) == [tabs |-> tabs, ok |-> FALSE, mutated |-> FALSE]

SqCreate(tabs, s) ==
    IF tabs[s.table] # NoTable
    THEN IF s.tolerant THEN Nothing(tabs) ELSE Failed(tabs)
    ELSE Done([tabs EXCEPT ![s.table] = NewTable(s.kind)])

SqDrop(tabs, s) ==
    IF tabs[s.table] = NoTable
    THEN IF s.tolerant THEN Nothing(tabs) ELSE Failed(tabs)
    ELSE Done([tabs EXCEPT ![s.table] = NoTable])

\* The rowid of one VALUES list: the key column's value when it is given and
\* not negative (a negative one meets the "not given" sentinel), else the next.
ChosenIsGiven(t, id) == t.kind # "plain" /\ id \in RowIds

ChosenRowid(t, id) == IF ChosenIsGiven(t, id) THEN id ELSE NextRowid(t)

\* A VALUES list that is refused: malformed, for a column the table lacks, or
\* its key is taken.
Refused(t, row) ==
    \/ row.bad \/ t.kind = "cut"
    \/ t.kind # "plain" /\ row.id \in Present(t)

\* One VALUES list on the result of the lists before it.
InsertRow(res, name, row) ==
    LET t == res.tabs[name] IN
    IF ~res.ok THEN res
    ELSE IF Refused(t, row) THEN [res EXCEPT !.ok = FALSE]
    ELSE Done([res.tabs EXCEPT ![name] = TabInsert(t, ChosenRowid(t, row.id), row.val)])

SqInsert(tabs, s) ==
    IF tabs[s.table] = NoTable
    THEN Failed(tabs)
    ELSE LET one == InsertRow(Nothing(tabs), s.table, s.first)
         IN  IF s.more THEN InsertRow(one, s.table, s.second) ELSE one

SqUpdate(tabs, s) ==
    LET t == tabs[s.table] IN
    IF t = NoTable \/ t.kind = "cut" THEN Failed(tabs)
    ELSE IF s.where \cap Present(t) = {} THEN Nothing(tabs)
    ELSE Done([tabs EXCEPT ![s.table] = TabUpdate(t, s.where, s.val)])

SqDelete(tabs, s) ==
    LET t == tabs[s.table] IN
    IF t = NoTable THEN Failed(tabs)
    ELSE IF s.where \cap Present(t) = {} THEN Nothing(tabs)
    ELSE Done([tabs EXCEPT ![s.table] = TabRemove(t, s.where)])

\* What is left of the text when the statement's own part has run: s.junk, and
\* the column list of a CREATE TABLE IF NOT EXISTS that found its table.
Unread(tabs, s) == s.junk \/ (s.op = "create" /\ tabs[s.table] # NoTable)

\* sql_run: the statement runs first; only then is the rest of the text read,
\* and text that is left turns what was done into a syntax error.
SqlRun(tabs, s) ==
    LET res == CASE s.op = "create" -> SqCreate(tabs, s)
                 [] s.op = "drop"   -> SqDrop(tabs, s)
                 [] s.op = "insert" -> SqInsert(tabs, s)
                 [] s.op = "update" -> SqUpdate(tabs, s)
                 [] s.op = "delete" -> SqDelete(tabs, s)
    IN  [res EXCEPT !.ok = res.ok /\ ~Unread(tabs, s)]

\* No rowid beyond MaxId is needed to run the statement.
ListFits(t, row) == Refused(t, row) \/ ChosenIsGiven(t, row.id) \/ Fits(t)

StatementFits(tabs, s) ==
    s.op = "insert" /\ tabs[s.table] # NoTable =>
        LET one == InsertRow(Nothing(tabs), s.table, s.first)
        IN  /\ ListFits(tabs[s.table], s.first)
            /\ s.more /\ one.ok => ListFits(one.tabs[s.table], s.second)

\* The VALUES lists and the statements a program may send.
ValuesLists == [id : GivenIds \cup {NoId}, val : Vals, bad : BOOLEAN]

Statements ==
    [op : {"create"}, table : Names, kind : Kinds, tolerant : BOOLEAN, junk : BOOLEAN]
    \cup [op : {"drop"}, table : Names, tolerant : BOOLEAN, junk : BOOLEAN]
    \cup [op : {"insert"}, table : Names, first : ValuesLists, more : BOOLEAN,
          second : ValuesLists, junk : BOOLEAN]
    \cup [op : {"update"}, table : Names, where : SUBSET RowIds, val : Vals, junk : BOOLEAN]
    \cup [op : {"delete"}, table : Names, where : SUBSET RowIds, junk : BOOLEAN]

-----------------------------------------------------------------------------
(* What db_load makes of a text that db_save did not write to its end.  The *)
(* tables come one after the other, each as a line of its name, seq and    *)
(* autoinc, a line per column, a line per row in rowid order; a number at  *)
(* the cut is read from the digits that are there, from none as 0, a field *)
(* that is missing is 0 or NULL, and a text that is cut open makes the     *)
(* file no database.                                                       *)

\* The numbers read from the first digits of n.
CutNumbers(n) == {m \in RowIds : \E k \in 0 .. n : m * 10^k <= n /\ n < (m + 1) * 10^k}

\* The table whose rows from r on are missing.
Before(t, r) == TabRemove(t, {x \in RowIds : x >= r})

\* Cut in a table: before it, in its columns (one whose last column is there
\* but for its flags counts as cut too), between two rows, or in the row r,
\* whose cells may then be anything.  (A cut rowid that an earlier row has
\* is in the code a second row of that rowid; here it takes the other's place.)
Parts(t) ==
    IF t = NoTable THEN {NoTable}
    ELSE {NoTable, NewTable("cut")}
         \cup {Before(t, r) : r \in 0 .. MaxId + 1}
         \cup UNION {{TabInsert(Before(t, r), m, v) : m \in CutNumbers(r), v \in Vals}
                       : r \in Present(t)}

\* Cut in the table last: those before it (in the order they were made, which
\* is left open) are whole, those after it are missing.
Remains(tabs) ==
    UNION {{[n \in Names |-> IF n \in whole THEN tabs[n] ELSE IF n = last THEN part ELSE NoTable]
             : whole \in SUBSET Names, part \in Parts(tabs[last])}
            : last \in Names}
=============================================================================
