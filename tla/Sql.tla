--------------------------------- MODULE Sql ---------------------------------
(***************************************************************************)
(* sq_select, sq_insert, sq_update and sq_delete on one table: the loops   *)
(* over the rows of the table, which an UPDATE and a DELETE change while   *)
(* they go through it.  A statement is read before its loop begins, except *)
(* that INSERT reads one VALUES list a turn; a turn of a loop is a step.   *)
(* Column 0 is the rowid and the INTEGER PRIMARY KEY; its value in a       *)
(* VALUES list is the list's key.  Text that cannot be read, column names  *)
(* and the attachment of ? are left out.                                   *)
(***************************************************************************)
EXTENDS Cells, FiniteSets

CONSTANTS
    Schema,         \* the affinity of each column
    Statements,     \* the statements a program may send
    Idle,           \* no statement runs
    MaxStatements,  \* how many a program sends
    MaxRow          \* the largest rowid

VARIABLES
    rows,     \* t->rows: rowid and cells, in the order they are kept
    stmt,     \* the statement that runs
    at,       \* r, the row or the VALUES list whose turn it is
    found,    \* order: the rows a SELECT has picked so far
    answer,   \* what the last statement gave its caller
    changes,  \* *changes
    before,   \* the rows when the statement began (auxiliary)
    sent      \* how many statements began
vars == <<rows, stmt, at, found, answer, changes, before, sent>>

Columns == DOMAIN Schema

IsList(list) == list \in Seq({list[i] : i \in DOMAIN list})
\* DbRow and its cells
IsTuple(cells) == cells = [c \in Columns |-> cells[c]] /\ \A c \in Columns : IsCell(cells[c])
IsRow(row) ==
    /\ row = [id |-> row.id, cells |-> row.cells]
    /\ row.id \in Int /\ IsTuple(row.cells)

\* What the parser makes of a text.
IsStatement(s) ==
    \/ /\ s.op = "select" /\ IsExpression(s.where, Columns)
       /\ IsList(s.keys)
       /\ \A k \in DOMAIN s.keys : s.keys[k].col \in {0} \cup Columns
       /\ IsCell(s.limit) /\ IsCell(s.offset)
    \/ s.op = "delete" /\ IsExpression(s.where, Columns)
    \/ /\ s.op = "update" /\ IsExpression(s.where, Columns)
       /\ IsList(s.sets)
       /\ \A i \in DOMAIN s.sets : s.sets[i].col \in Columns /\ IsExpression(s.sets[i].to, Columns)
    \/ /\ s.op = "insert" /\ IsList(s.lists)
       /\ \A i \in DOMAIN s.lists : IsCell(s.lists[i].key) /\ IsTuple(s.lists[i].cells)

ASSUME StatementsAssumption == (\A s \in Statements : IsStatement(s)) /\ Idle \notin Statements
Answer(s, ok, n, list) == [to |-> s, ok |-> ok, changes |-> n, rows |-> list]

NoAnswer == Answer(Idle, TRUE, 0, <<>>)

RowMatches(where, row) == Truth(Eval(where, row))

Init ==
    /\ rows = <<>> /\ before = <<>> /\ found = <<>>
    /\ stmt = Idle /\ at = 0 /\ changes = 0 /\ sent = 0
    /\ answer = NoAnswer

NextRowid == LET ids == {0} \cup {rows[i].id : i \in DOMAIN rows}
             IN  1 + CHOOSE m \in ids : \A id \in ids : id <= m

\* The bound on rowids.
Fits(s) ==
    s.op = "insert" =>
        LET keys == {NextRowid - 1} \cup {Coerce(s.lists[i].key, "INT").n : i \in DOMAIN s.lists}
        IN  \A k \in keys : k + Len(s.lists) <= MaxRow

Begin(s) ==
    /\ stmt = Idle /\ sent < MaxStatements /\ Fits(s)
    /\ stmt' = s /\ sent' = sent + 1
    /\ at' = IF s.op = "delete" THEN Len(rows) ELSE 1
    /\ before' = rows /\ found' = <<>> /\ changes' = 0 /\ answer' = NoAnswer
    /\ UNCHANGED rows

End(ok, list) ==
    /\ answer' = Answer(stmt, ok, changes, list)
    /\ stmt' = Idle /\ at' = 0 /\ found' = <<>> /\ changes' = 0 /\ before' = rows
    /\ UNCHANGED <<rows, sent>>

-----------------------------------------------------------------------------
(* SELECT *)

\* row_order_cmp: the first key that tells the rows apart decides.
RowOrder(p, q) ==
    LET by(k) == Compare(RowCell(p, stmt.keys[k].col), RowCell(q, stmt.keys[k].col))
        apart == {k \in DOMAIN stmt.keys : by(k) # 0}
        first == CHOOSE k \in apart : \A j \in apart : k <= j
    IN  IF apart = {} THEN Sign(p.id - q.id)
        ELSE IF stmt.keys[first].desc THEN -by(first) ELSE by(first)

\* qsort: a row stands behind as many rows as come before it.
Sorted ==
    LET ahead(i) == Cardinality({j \in DOMAIN found : RowOrder(found[j], found[i]) < 0})
    IN  IF stmt.keys = <<>> THEN found
        ELSE [n \in DOMAIN found |-> found[CHOOSE i \in DOMAIN found : ahead(i) = n - 1]]

Cut(list) ==
    LET offset == ToCount(stmt.offset) limit == ToCount(stmt.limit)
        first == IF offset > 0 THEN offset ELSE 0
        last == IF limit < 0 \/ first + limit > Len(list) THEN Len(list) ELSE first + limit
    IN  SubSeq(list, first + 1, last)

SelectRow ==
    /\ stmt # Idle /\ stmt.op = "select" /\ at <= Len(rows)
    /\ found' = IF RowMatches(stmt.where, rows[at]) THEN Append(found, rows[at]) ELSE found
    /\ at' = at + 1
    /\ UNCHANGED <<rows, stmt, answer, changes, before, sent>>

SelectEnd ==
    /\ stmt # Idle /\ stmt.op = "select" /\ at > Len(rows)
    /\ End(TRUE, Cut(Sorted))

-----------------------------------------------------------------------------
(* UPDATE *)

\* Mutated: a right side sees what the ones before it have set.
UpdatedOneByOne(row) ==
    LET kept[i \in 0..Len(stmt.sets)] ==
            IF i = 0 THEN row
            ELSE LET c == stmt.sets[i].col
                 IN  [kept[i - 1] EXCEPT !.cells[c] =
                         Coerce(Eval(stmt.sets[i].to, kept[i - 1]), Schema[c])]
    IN  kept[Len(stmt.sets)]

\* Mutated: a value is stored as it was calculated.
UpdatedAsIs(row) ==
    [row EXCEPT !.cells = [c \in Columns |->
        LET hits == {i \in DOMAIN stmt.sets : stmt.sets[i].col = c}
        IN  IF hits = {} THEN row.cells[c]
            ELSE Eval(stmt.sets[CHOOSE i \in hits : \A j \in hits : j <= i].to, row)]]

\* All right sides are calculated, then assigned from the first to the last.
Assigned(cells, fresh) ==
    LET kept[i \in 0..Len(stmt.sets)] ==
            IF i = 0 THEN cells
            ELSE LET c == stmt.sets[i].col
                 IN  [kept[i - 1] EXCEPT ![c] = Coerce(fresh[i], Schema[c])]
    IN  kept[Len(stmt.sets)]

Updated(row) ==
    LET fresh == [i \in DOMAIN stmt.sets |-> Eval(stmt.sets[i].to, row)]
    IN  [row EXCEPT !.cells = Assigned(row.cells, fresh)]

UpdateRow ==
    /\ stmt # Idle /\ stmt.op = "update" /\ at <= Len(rows)
    /\ IF RowMatches(stmt.where, rows[at])
       THEN rows' = [rows EXCEPT ![at] = Updated(rows[at])] /\ changes' = changes + 1
       ELSE UNCHANGED <<rows, changes>>
    /\ at' = at + 1
    /\ UNCHANGED <<stmt, found, answer, before, sent>>

UpdateEnd ==
    /\ stmt # Idle /\ stmt.op = "update" /\ at > Len(rows)
    /\ End(TRUE, <<>>)

-----------------------------------------------------------------------------
(* DELETE, from the last row to the first *)

\* tab_remove
Without(list, i) == SubSeq(list, 1, i - 1) \o SubSeq(list, i + 1, Len(list))

DeleteRow ==
    /\ stmt # Idle /\ stmt.op = "delete" /\ at >= 1
    /\ IF RowMatches(stmt.where, rows[at])
       THEN rows' = Without(rows, at) /\ changes' = changes + 1
       ELSE UNCHANGED <<rows, changes>>
    /\ at' = at - 1
    /\ UNCHANGED <<stmt, found, answer, before, sent>>

DeleteEnd ==
    /\ stmt # Idle /\ stmt.op = "delete" /\ at = 0
    /\ End(TRUE, <<>>)

-----------------------------------------------------------------------------
(* INSERT *)

\* tab_insert: behind the last row whose rowid is not larger.
Placed(row) ==
    LET below == {i \in DOMAIN rows : rows[i].id <= row.id}
        n == CHOOSE n \in {0} \cup below : \A i \in below : i <= n
    IN  SubSeq(rows, 1, n) \o <<row>> \o SubSeq(rows, n + 1, Len(rows))

Taken(id) == \E i \in DOMAIN rows : rows[i].id = id

Refused(list) ==
    /\ ~IsNull(list.key)
    /\ LET c == Coerce(list.key, "INT") IN c.kind # "int" \/ Taken(c.n)

\* The key of the list unless it is negative, the sentinel for none.
RowidFor(list) ==
    LET c == Coerce(list.key, "INT") IN IF IsNull(c) \/ c.n < 0 THEN NextRowid ELSE c.n

Stored(list) == [c \in Columns |-> Coerce(list.cells[c], Schema[c])]

InsertList ==
    /\ stmt # Idle /\ stmt.op = "insert" /\ at <= Len(stmt.lists)
    /\ LET list == stmt.lists[at] IN
       IF Refused(list)
       THEN End(FALSE, <<>>)
       ELSE /\ rows' = Placed([id |-> RowidFor(list), cells |-> Stored(list)])
            /\ changes' = changes + 1 /\ at' = at + 1
            /\ UNCHANGED <<stmt, found, answer, before, sent>>

InsertEnd ==
    /\ stmt # Idle /\ stmt.op = "insert" /\ at > Len(stmt.lists)
    /\ End(TRUE, <<>>)

Next == \/ \E s \in Statements : Begin(s)
        \/ SelectRow \/ SelectEnd
        \/ UpdateRow \/ UpdateEnd
        \/ DeleteRow \/ DeleteEnd
        \/ InsertList \/ InsertEnd

Spec == Init /\ [][Next]_vars

-----------------------------------------------------------------------------
(* Properties *)

\* The rows are rows of the table, and the row whose turn it is is there.
TypeOK ==
    /\ IsList(rows)
    /\ \A i \in DOMAIN rows : IsRow(rows[i])
    /\ stmt = Idle \/ stmt \in Statements
    /\ at \in Nat /\ changes \in Nat
    /\ stmt # Idle => CASE stmt.op = "delete" -> at <= Len(rows)
                         [] stmt.op = "insert" -> at \in 1..(Len(stmt.lists) + 1)
                         [] OTHER -> at \in 1..(Len(rows) + 1)

\* What is kept in a column has its affinity: ORDER BY compares cells as they
\* are kept, and what is read back from the file must be what was written.
StoredConverted ==
    \A i \in DOMAIN rows : \A c \in Columns :
        Coerce(rows[i].cells[c], Schema[c]) = rows[i].cells[c]

\* The rows stay in the order of their rowids, each of which one row has: a
\* SELECT without ORDER BY answers in this order, and tab_insert looks for a
\* row's place from the end.
RowsInOrder == \A i, j \in DOMAIN rows : i < j => rows[i].id < rows[j].id

Table == IF stmt = Idle THEN rows ELSE before

Promise == INSTANCE RowSet WITH rows <- {Table[i] : i \in DOMAIN Table}

\* Each statement is one step of RowSet: its WHERE is decided by the logic of
\* three values, its rows are taken, changed, sorted and counted as they were
\* when it began, and nothing is seen of the loop.
KeepsPromise == Promise!Spec
=============================================================================
