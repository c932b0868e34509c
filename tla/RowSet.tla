------------------------------- MODULE RowSet -------------------------------
(***************************************************************************)
(* What a statement of SQL promises: the table is a set of rows, a WHERE  *)
(* is true, false or neither of each row by itself, and a statement takes *)
(* or changes the rows it is true of, all at once.                         *)
(***************************************************************************)
EXTENDS Cells, FiniteSets, FiniteSetsExt

CONSTANTS
    Schema,      \* the affinity of each column
    Statements,  \* the statements a program may send
    Idle         \* no statement

VARIABLES
    rows,    \* the rows of the table
    answer   \* what the last statement gave its caller
vars == <<rows, answer>>

Columns == DOMAIN Schema

Answer(s, ok, changes, found) == [to |-> s, ok |-> ok, changes |-> changes, rows |-> found]

\* The truth of a condition: 0 false, 1 neither, 2 true.
Value(e, row) ==
    LET v[k \in 1..Len(e)] ==
            LET x == e[k] c == EvalAt(e, k, row) IN
            CASE x.op = "AND" -> Min({v[k - x.a], v[k - x.b]})
              [] x.op = "OR"  -> Max({v[k - x.a], v[k - x.b]})
              [] x.op = "NOT" -> 2 - v[k - x.a]
              [] OTHER -> IF IsNull(c) THEN 1 ELSE IF Truth(c) THEN 2 ELSE 0
    IN  v[Len(e)]

Chosen(e) == {row \in rows : Value(e, row) = 2}

\* The order of an answer: the first key that tells two rows apart decides,
\* and the rowid where none does.
Before(keys, p, q) ==
    LET by(k) == Compare(RowCell(p, keys[k].col), RowCell(q, keys[k].col))
        lower(k) == IF keys[k].desc THEN by(k) > 0 ELSE by(k) < 0
    IN  \/ \E k \in DOMAIN keys : lower(k) /\ \A j \in 1..(k - 1) : by(j) = 0
        \/ (\A k \in DOMAIN keys : by(k) = 0) /\ p.id < q.id

\* The rows of an answer are numbered from 0 by how many come before them.
Place(found, keys, p) == Cardinality({q \in found : Before(keys, q, p)})

Pick(found, keys, offset, limit) ==
    LET skip == Max({0, offset})
        kept == {p \in found : /\ Place(found, keys, p) >= skip
                               /\ limit < 0 \/ Place(found, keys, p) < skip + limit}
    IN  [i \in 1..Cardinality(kept) |->
            CHOOSE p \in kept : Place(found, keys, p) = skip + i - 1]

Select(s) ==
    /\ answer' = Answer(s, TRUE, 0, Pick(Chosen(s.where), s.keys, ToCount(s.offset), ToCount(s.limit)))
    /\ UNCHANGED rows

\* SET: every right side is the old row's; a column named twice has the last.
Changed(row, sets) ==
    [row EXCEPT !.cells = [c \in Columns |->
        LET hits == {i \in DOMAIN sets : sets[i].col = c}
        IN  IF hits = {} THEN row.cells[c]
            ELSE Coerce(Eval(sets[Max(hits)].to, row), Schema[c])]]

Update(s) ==
    /\ rows' = (rows \ Chosen(s.where)) \cup {Changed(row, s.sets) : row \in Chosen(s.where)}
    /\ answer' = Answer(s, TRUE, Cardinality(Chosen(s.where)), <<>>)

Delete(s) ==
    /\ rows' = rows \ Chosen(s.where)
    /\ answer' = Answer(s, TRUE, Cardinality(Chosen(s.where)), <<>>)

\* INSERT: lists in their order up to the first that is refused.  A list says
\* the key of its row, unless that is NULL or negative, and the values of the
\* columns.
Largest(set) == Max({0} \cup {row.id : row \in set})

Refused(set, list) ==
    ~IsNull(list.key) /\ \/ Coerce(list.key, "INT").kind # "int"
                         \/ \E row \in set : row.id = Coerce(list.key, "INT").n

RowOf(set, list) ==
    [id |-> IF IsNull(list.key) \/ Coerce(list.key, "INT").n < 0 THEN Largest(set) + 1
            ELSE Coerce(list.key, "INT").n,
     cells |-> [c \in Columns |-> Coerce(list.cells[c], Schema[c])]]

With(set, lists) ==
    LET after[i \in 0..Len(lists)] ==
            IF i = 0 THEN set ELSE after[i - 1] \cup {RowOf(after[i - 1], lists[i])}
        refused == {i \in 1..Len(lists) : Refused(after[i - 1], lists[i])}
    IN  after[Min(refused \cup {Len(lists) + 1}) - 1]

Insert(s) ==
    /\ rows' = With(rows, s.lists)
    /\ LET new == Cardinality(rows') - Cardinality(rows)
       IN  answer' = Answer(s, new = Len(s.lists), new, <<>>)

NoAnswer == Answer(Idle, TRUE, 0, <<>>)

Init == rows = {} /\ answer = NoAnswer

\* The next statement is on its way.
Ask == answer' = NoAnswer /\ UNCHANGED rows

Next == \/ Ask
        \/ \E s \in Statements :
              /\ answer'.to = s
              /\ \/ s.op = "select" /\ Select(s)
                 \/ s.op = "insert" /\ Insert(s)
                 \/ s.op = "update" /\ Update(s)
                 \/ s.op = "delete" /\ Delete(s)

Spec == Init /\ [][Next]_vars
=============================================================================
