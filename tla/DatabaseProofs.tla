--------------------------- MODULE DatabaseProofs ---------------------------
(***************************************************************************)
(* Theorems about Database, for every value of its constants: what the     *)
(* operators of Tables keep true, type correctness, references, ids, the   *)
(* depth of 거래 and what a rollback and a commit do to the tables and the *)
(* files, and that the database implements AutocommitStore.                *)
(***************************************************************************)
EXTENDS DatabaseRefinement, SequenceTheorems, FiniteSetTheorems, TLAPS

-----------------------------------------------------------------------------
(* What the row operations and the statements of Tables keep true of the   *)
(* tables.                                                                 *)

\* The rowid handed out is one of the instance's, and positive.
LEMMA NextRowidType ==
    ASSUME NEW t \in Table, Fits(t)
    PROVE  NextRowid(t) \in RowIds \ {0} /\ IsNextRowid(t, NextRowid(t))
BY Zenon DEF Fits, NextRowid

LEMMA InsertType ==
    ASSUME NEW t \in Table, NEW r \in RowIds, NEW v \in Vals
    PROVE  TabInsert(t, r, v) \in Table
BY DEF TabInsert, Table

LEMMA RemoveType ==
    ASSUME NEW t \in Table, NEW gone
    PROVE  TabRemove(t, gone) \in Table
BY DEF TabRemove, Table

LEMMA UpdateType ==
    ASSUME NEW t \in Table, NEW hit, NEW v \in Vals
    PROVE  TabUpdate(t, hit, v) \in Table
BY DEF TabUpdate, Table

LEMMA NewTableType ==
    ASSUME NEW kind \in Shapes
    PROVE  NewTable(kind) \in Table
BY TablesAssumption DEF NewTable, Table, RowIds

LEMMA ChosenRowidType ==
    ASSUME NEW t \in Table, NEW id, ChosenIsGiven(t, id) \/ Fits(t)
    PROVE  ChosenRowid(t, id) \in RowIds
BY NextRowidType DEF ChosenRowid, ChosenIsGiven

LEMMA NoTabsType == NoTabs \in Tabs
BY DEF NoTabs, Tabs

LEMMA PutTableType ==
    ASSUME NEW tabs \in Tabs, NEW n \in Names, NEW t \in Table \cup {NoTable}
    PROVE  [tabs EXCEPT ![n] = t] \in Tabs
BY DEF Tabs

LEMMA InsertRowType ==
    ASSUME NEW res \in Result, NEW n \in Names, NEW row \in ValuesLists,
           res.tabs[n] # NoTable,
           res.ok => ListFits(res.tabs[n], row)
    PROVE  /\ InsertRow(res, n, row) \in Result
           /\ InsertRow(res, n, row).tabs[n] # NoTable
<1> DEFINE t == res.tabs[n]
           new == TabInsert(t, ChosenRowid(t, row.id), row.val)
<1>1. t \in Table /\ row.val \in Vals
  BY DEF Result, Tabs, ValuesLists
<1>2. CASE ~res.ok
  BY <1>2 DEF InsertRow
<1>3. CASE res.ok /\ Refused(t, row)
  BY <1>3 DEF InsertRow, Result
<1>4. CASE res.ok /\ ~Refused(t, row)
  <2>1. ChosenRowid(t, row.id) \in RowIds
    BY <1>1, <1>4, ChosenRowidType DEF ListFits
  <2>2. new \in Table
    BY <1>1, <2>1, InsertType
  <2>3. [res.tabs EXCEPT ![n] = new] \in Tabs
    BY <2>2, PutTableType DEF Result
  <2>4. InsertRow(res, n, row) = Done([res.tabs EXCEPT ![n] = new])
    BY <1>4 DEF InsertRow
  <2>5. new # NoTable
    BY <2>2, TablesAssumption
  <2> QED
    BY <2>2, <2>3, <2>4, <2>5 DEF Done, Result, Tabs
<1> QED
  BY <1>2, <1>3, <1>4

\* A statement that fits the instance leaves tables, whether it fails or not.
LEMMA SqlRunType ==
    ASSUME NEW tabs \in Tabs, NEW s \in Statements, StatementFits(tabs, s)
    PROVE  SqlRun(tabs, s) \in Result
<1>1. s.table \in Names /\ s.junk \in BOOLEAN
  BY DEF Statements
<1>2. \A x \in Tabs : Done(x) \in Result /\ Nothing(x) \in Result /\ Failed(x) \in Result
  BY DEF Done, Nothing, Failed, Result
<1>3. CASE s.op = "create"
  <2>1. s.kind \in Kinds
    BY <1>3 DEF Statements
  <2>2. [tabs EXCEPT ![s.table] = NewTable(s.kind)] \in Tabs
    BY <1>1, <2>1, NewTableType, PutTableType DEF Shapes
  <2>3. SqCreate(tabs, s) \in Result
    BY <1>2, <2>2 DEF SqCreate
  <2> QED
    BY <1>1, <1>3, <2>3 DEF SqlRun, Result
<1>4. CASE s.op = "drop"
  <2>1. [tabs EXCEPT ![s.table] = NoTable] \in Tabs
    BY <1>1, PutTableType
  <2>2. SqDrop(tabs, s) \in Result
    BY <1>2, <2>1 DEF SqDrop
  <2> QED
    BY <1>1, <1>4, <2>2 DEF SqlRun, Result
<1>5. CASE s.op = "insert"
  <2>1. s.first \in ValuesLists /\ s.second \in ValuesLists /\ s.more \in BOOLEAN
    BY <1>5 DEF Statements
  <2>2. CASE tabs[s.table] = NoTable
    <3>1. SqInsert(tabs, s) \in Result
      BY <1>2, <2>2 DEF SqInsert
    <3> QED
      BY <1>1, <1>5, <3>1 DEF SqlRun, Result
  <2>3. CASE tabs[s.table] # NoTable
    <3> DEFINE none == Nothing(tabs)
               one == InsertRow(none, s.table, s.first)
    <3>1. none \in Result /\ none.tabs = tabs
      BY <1>2 DEF Nothing
    <3>2. ListFits(tabs[s.table], s.first)
      BY <1>5, <2>3 DEF StatementFits
    <3>3. s.more /\ one.ok => ListFits(one.tabs[s.table], s.second)
      BY <1>5, <2>3 DEF StatementFits
    <3>4. one \in Result /\ one.tabs[s.table] # NoTable
      BY <1>1, <2>1, <2>3, <3>1, <3>2, InsertRowType
    <3>5. s.more => InsertRow(one, s.table, s.second) \in Result
      BY <1>1, <2>1, <3>3, <3>4, InsertRowType
    <3>6. SqInsert(tabs, s) \in Result
      BY <2>3, <3>4, <3>5 DEF SqInsert
    <3> QED
      BY <1>1, <1>5, <3>6 DEF SqlRun, Result
  <2> QED
    BY <2>2, <2>3
<1>6. CASE s.op = "update"
  <2>1. s.val \in Vals
    BY <1>6 DEF Statements
  <2>2. tabs[s.table] # NoTable =>
          [tabs EXCEPT ![s.table] = TabUpdate(tabs[s.table], s.where, s.val)] \in Tabs
    BY <1>1, <2>1, UpdateType, PutTableType DEF Tabs
  <2>3. SqUpdate(tabs, s) \in Result
    BY <1>2, <2>2 DEF SqUpdate
  <2> QED
    BY <1>1, <1>6, <2>3 DEF SqlRun, Result
<1>7. CASE s.op = "delete"
  <2>1. tabs[s.table] # NoTable =>
          [tabs EXCEPT ![s.table] = TabRemove(tabs[s.table], s.where)] \in Tabs
    BY <1>1, RemoveType, PutTableType DEF Tabs
  <2>2. SqDelete(tabs, s) \in Result
    BY <1>2, <2>1 DEF SqDelete
  <2> QED
    BY <1>1, <1>7, <2>2 DEF SqlRun, Result
<1> QED
  BY <1>3, <1>4, <1>5, <1>6, <1>7 DEF Statements

-----------------------------------------------------------------------------
(* What a statement does to the rowids handed out: seq never falls, and keeps *)
(* covering every row.                                                       *)

Onward(old, new) ==
    /\ Covered(old) => Covered(new)
    /\ \A n \in Names : old[n] # NoTable /\ new[n] # NoTable => old[n].seq <= new[n].seq

TableCovered(t) == Present(t) \subseteq 0 .. t.seq

LEMMA InsertOnward ==
    ASSUME NEW t \in Table, NEW r \in RowIds, NEW v \in Vals
    PROVE  /\ TableCovered(t) => TableCovered(TabInsert(t, r, v))
           /\ t.seq <= TabInsert(t, r, v).seq
<1>1. t.seq \in 0 .. MaxId /\ r \in 0 .. MaxId /\ MaxId \in Nat
  BY TablesAssumption DEF Table, RowIds
<1>2. PICK u : u = TabInsert(t, r, v)
  OBVIOUS
<1>3. /\ u.seq = (IF r > t.seq THEN r ELSE t.seq)
      /\ \A x \in RowIds : x # r => u.rows[x] = t.rows[x]
  BY <1>2 DEF TabInsert, Table
<1>4. t.seq <= u.seq /\ r <= u.seq /\ u.seq \in Nat
  BY <1>1, <1>3
<1>5. Present(u) \subseteq Present(t) \cup {r}
  BY <1>3 DEF Present, Has
<1>6. ASSUME TableCovered(t) PROVE TableCovered(u)
  BY <1>1, <1>4, <1>5, <1>6 DEF TableCovered
<1> QED
  BY <1>2, <1>4, <1>6

LEMMA RemoveOnward ==
    ASSUME NEW t \in Table, NEW gone
    PROVE  /\ TableCovered(t) => TableCovered(TabRemove(t, gone))
           /\ t.seq <= TabRemove(t, gone).seq
<1>1. t.seq \in Int
  BY TablesAssumption DEF Table, RowIds
<1>2. TabRemove(t, gone).seq = t.seq
  BY DEF TabRemove, Table
<1>3. Present(TabRemove(t, gone)) \subseteq Present(t)
  BY DEF TabRemove, Table, Present, Has
<1> QED
  BY <1>1, <1>2, <1>3 DEF TableCovered

LEMMA UpdateOnward ==
    ASSUME NEW t \in Table, NEW hit, NEW v \in Vals
    PROVE  /\ TableCovered(t) => TableCovered(TabUpdate(t, hit, v))
           /\ t.seq <= TabUpdate(t, hit, v).seq
<1>1. t.seq \in Int
  BY TablesAssumption DEF Table, RowIds
<1>2. TabUpdate(t, hit, v).seq = t.seq
  BY DEF TabUpdate, Table
<1>3. Present(TabUpdate(t, hit, v)) \subseteq Present(t)
  BY DEF TabUpdate, Table, Present, Has
<1> QED
  BY <1>1, <1>2, <1>3 DEF TableCovered

LEMMA NewTableCovered == ASSUME NEW kind PROVE TableCovered(NewTable(kind))
BY DEF NewTable, TableCovered, Present, Has

LEMMA NoTabsCovered == Covered(NoTabs)
BY DEF Covered, NoTabs

LEMMA PutOnward ==
    ASSUME NEW tabs \in Tabs, NEW n \in Names, NEW t,
           t = NoTable \/ (t \in Table /\ (Covered(tabs) => TableCovered(t))),
           tabs[n] # NoTable /\ t # NoTable => tabs[n].seq <= t.seq
    PROVE  Onward(tabs, [tabs EXCEPT ![n] = t])
<1>1. PICK new : new = [tabs EXCEPT ![n] = t]
  OBVIOUS
<1>2. new[n] = t /\ \A m \in Names : m # n => new[m] = tabs[m]
  BY <1>1 DEF Tabs
<1>3. ASSUME NEW m \in Names, tabs[m] # NoTable PROVE tabs[m].seq <= tabs[m].seq
  <2>1. tabs[m].seq \in Int
    BY <1>3, TablesAssumption DEF Tabs, Table, RowIds
  <2> QED
    BY <2>1
<1>4. \A m \in Names : tabs[m] # NoTable /\ new[m] # NoTable => tabs[m].seq <= new[m].seq
  BY <1>2, <1>3
<1>5. Covered(tabs) => Covered(new)
  BY <1>2 DEF Covered, TableCovered
<1> QED
  BY <1>1, <1>4, <1>5 DEF Onward

LEMMA SameOnward == ASSUME NEW tabs \in Tabs PROVE Onward(tabs, tabs)
<1> SUFFICES ASSUME NEW n \in Names, tabs[n] # NoTable PROVE tabs[n].seq <= tabs[n].seq
  BY DEF Onward
<1>1. tabs[n].seq \in Int
  BY TablesAssumption DEF Tabs, Table, RowIds
<1> QED
  BY <1>1

\* One VALUES list after the others.
LEMMA InsertRowOnward ==
    ASSUME NEW res \in Result, NEW n \in Names, NEW row \in ValuesLists,
           res.tabs[n] # NoTable, res.ok => ListFits(res.tabs[n], row),
           NEW tabs \in Tabs, tabs[n] # NoTable, Onward(tabs, res.tabs)
    PROVE  Onward(tabs, InsertRow(res, n, row).tabs)
<1> DEFINE t == res.tabs[n]
           new == TabInsert(t, ChosenRowid(t, row.id), row.val)
<1>1. t \in Table /\ row.val \in Vals /\ res.tabs \in Tabs
  BY DEF Result, Tabs, ValuesLists
<1>2. CASE ~res.ok \/ Refused(t, row)
  BY <1>2 DEF InsertRow, Result
<1>3. CASE res.ok /\ ~Refused(t, row)
  <2>1. ChosenRowid(t, row.id) \in RowIds
    BY <1>1, <1>3, ChosenRowidType DEF ListFits
  <2>2. new \in Table /\ (TableCovered(t) => TableCovered(new)) /\ t.seq <= new.seq
    BY <1>1, <2>1, InsertType, InsertOnward
  <2>3. InsertRow(res, n, row).tabs = [res.tabs EXCEPT ![n] = new]
    BY <1>3 DEF InsertRow, Done
  <2>4. Covered(res.tabs) => TableCovered(t)
    BY DEF Covered, TableCovered
  <2> HIDE DEF new
  <2>5. Onward(res.tabs, [res.tabs EXCEPT ![n] = new])
    BY <1>1, <2>2, <2>4, PutOnward
  <2>6. PICK all \in Tabs : all = [res.tabs EXCEPT ![n] = new]
    BY <1>1, <2>2, PutTableType
  <2>7. ASSUME NEW m \in Names, tabs[m] # NoTable, all[m] # NoTable
        PROVE  tabs[m].seq <= all[m].seq
    <3>1. res.tabs[m] # NoTable
      BY <1>1, <2>6, <2>7 DEF Tabs
    <3>2. tabs[m].seq <= res.tabs[m].seq /\ res.tabs[m].seq <= all[m].seq
      BY <2>5, <2>6, <2>7, <3>1 DEF Onward
    <3>3. tabs[m].seq \in Int /\ res.tabs[m].seq \in Int /\ all[m].seq \in Int
      BY <1>1, <2>7, <3>1, TablesAssumption DEF Tabs, Table, RowIds
    <3> QED
      BY <3>2, <3>3
  <2>8. Covered(tabs) => Covered(all)
    BY <2>5, <2>6 DEF Onward
  <2> QED
    BY <2>3, <2>6, <2>7, <2>8 DEF Onward
<1> QED
  BY <1>2, <1>3

LEMMA SqlRunOnward ==
    ASSUME NEW tabs \in Tabs, NEW s \in Statements, StatementFits(tabs, s)
    PROVE  Onward(tabs, SqlRun(tabs, s).tabs)
<1>1. s.table \in Names
  BY DEF Statements
<1>2. Onward(tabs, tabs)
  BY SameOnward
<1>3. \A x : Done(x).tabs = x /\ Nothing(x).tabs = x /\ Failed(x).tabs = x
  BY DEF Done, Nothing, Failed
<1>4. CASE s.op = "create"
  <2>1. s.kind \in Kinds
    BY <1>4 DEF Statements
  <2>2. tabs[s.table] = NoTable => Onward(tabs, [tabs EXCEPT ![s.table] = NewTable(s.kind)])
    BY <1>1, <2>1, NewTableType, NewTableCovered, PutOnward DEF Shapes
  <2>3. Onward(tabs, SqCreate(tabs, s).tabs)
    BY <1>2, <1>3, <2>2 DEF SqCreate
  <2> QED
    BY <1>4, <2>3 DEF SqlRun
<1>5. CASE s.op = "drop"
  <2>1. Onward(tabs, [tabs EXCEPT ![s.table] = NoTable])
    BY <1>1, PutOnward
  <2>2. Onward(tabs, SqDrop(tabs, s).tabs)
    BY <1>2, <1>3, <2>1 DEF SqDrop
  <2> QED
    BY <1>5, <2>2 DEF SqlRun
<1>6. CASE s.op = "insert"
  <2>1. s.first \in ValuesLists /\ s.second \in ValuesLists /\ s.more \in BOOLEAN
    BY <1>6 DEF Statements
  <2>2. CASE tabs[s.table] = NoTable
    <3>1. Onward(tabs, SqInsert(tabs, s).tabs)
      BY <1>2, <1>3, <2>2 DEF SqInsert
    <3> QED
      BY <1>6, <3>1 DEF SqlRun
  <2>3. CASE tabs[s.table] # NoTable
    <3> DEFINE none == Nothing(tabs)
               one == InsertRow(none, s.table, s.first)
    <3>1. none \in Result /\ none.tabs = tabs
      BY DEF Nothing, Result
    <3>2. ListFits(tabs[s.table], s.first)
      BY <1>6, <2>3 DEF StatementFits
    <3>3. s.more /\ one.ok => ListFits(one.tabs[s.table], s.second)
      BY <1>6, <2>3 DEF StatementFits
    <3>4. one \in Result /\ one.tabs[s.table] # NoTable
      BY <1>1, <2>1, <2>3, <3>1, <3>2, InsertRowType
    <3>5. Onward(tabs, one.tabs)
      BY <1>1, <1>2, <2>1, <2>3, <3>1, <3>2, InsertRowOnward
    <3>6. s.more => Onward(tabs, InsertRow(one, s.table, s.second).tabs)
      <4> HIDE DEF one
      <4> QED
        BY <1>1, <2>1, <2>3, <3>3, <3>4, <3>5, InsertRowOnward
    <3>7. Onward(tabs, SqInsert(tabs, s).tabs)
      BY <2>3, <3>5, <3>6 DEF SqInsert
    <3> QED
      BY <1>6, <3>7 DEF SqlRun
  <2> QED
    BY <2>2, <2>3
<1>7. ASSUME NEW t \in Table, tabs[s.table] # NoTable,
             TableCovered(tabs[s.table]) => TableCovered(t), tabs[s.table].seq <= t.seq
      PROVE  Onward(tabs, [tabs EXCEPT ![s.table] = t])
  <2>1. Covered(tabs) => TableCovered(tabs[s.table])
    BY <1>1, <1>7 DEF Covered, TableCovered
  <2> QED
    BY <1>1, <1>7, <2>1, PutOnward
<1>8. CASE s.op = "update"
  <2>1. s.val \in Vals
    BY <1>8 DEF Statements
  <2>2. tabs[s.table] # NoTable =>
            Onward(tabs, [tabs EXCEPT ![s.table] = TabUpdate(tabs[s.table], s.where, s.val)])
    <3>1. tabs[s.table] # NoTable => tabs[s.table] \in Table
      BY <1>1 DEF Tabs
    <3> QED
      BY <1>7, <2>1, <3>1, UpdateType, UpdateOnward
  <2>3. Onward(tabs, SqUpdate(tabs, s).tabs)
    BY <1>2, <1>3, <2>2 DEF SqUpdate
  <2> QED
    BY <1>8, <2>3 DEF SqlRun
<1>9. CASE s.op = "delete"
  <2>1. tabs[s.table] # NoTable =>
            Onward(tabs, [tabs EXCEPT ![s.table] = TabRemove(tabs[s.table], s.where)])
    <3>1. tabs[s.table] # NoTable => tabs[s.table] \in Table
      BY <1>1 DEF Tabs
    <3> QED
      BY <1>7, <3>1, RemoveType, RemoveOnward
  <2>2. Onward(tabs, SqDelete(tabs, s).tabs)
    BY <1>2, <1>3, <2>1 DEF SqDelete
  <2> QED
    BY <1>9, <2>2 DEF SqlRun
<1> QED
  BY <1>4, <1>5, <1>6, <1>8, <1>9 DEF Statements

-----------------------------------------------------------------------------
(* What db_load reads of a file that was not written to its end is a smaller  *)
(* database whose tables still cover their rows, or nothing.                 *)

LEMMA PartFacts ==
    ASSUME NEW t \in Table, NEW part \in Parts(t)
    PROVE  /\ part \in Table \cup {NoTable}
           /\ TableCovered(t) /\ part # NoTable => TableCovered(part)
<1>1. t # NoTable
  BY TablesAssumption
<1>2. CASE part = NoTable
  BY <1>2
<1>3. CASE part = NewTable("cut")
  BY <1>3, NewTableType, NewTableCovered DEF Shapes
<1>4. ASSUME NEW r PROVE Before(t, r) \in Table /\ (TableCovered(t) => TableCovered(Before(t, r)))
  BY RemoveType, RemoveOnward DEF Before
<1>5. ASSUME NEW r, part = Before(t, r)
      PROVE  part \in Table /\ (TableCovered(t) => TableCovered(part))
  BY <1>4, <1>5
<1>6. ASSUME NEW r, NEW m \in CutNumbers(r), NEW v \in Vals, part = TabInsert(Before(t, r), m, v)
      PROVE  part \in Table /\ (TableCovered(t) => TableCovered(part))
  <2>1. m \in RowIds
    BY DEF CutNumbers
  <2>2. PICK left \in Table : left = Before(t, r) /\ (TableCovered(t) => TableCovered(left))
    BY <1>4
  <2> QED
    BY <1>6, <2>1, <2>2, InsertType, InsertOnward
<1>7. \/ part \in {NoTable, NewTable("cut")}
      \/ \E r \in 0 .. MaxId + 1 : part = Before(t, r)
      \/ \E r \in Present(t) : \E m \in CutNumbers(r), v \in Vals : part = TabInsert(Before(t, r), m, v)
  BY <1>1 DEF Parts
<1> QED
  BY <1>2, <1>3, <1>5, <1>6, <1>7

LEMMA RemainsFacts ==
    ASSUME NEW tabs \in Tabs, NEW left \in Remains(tabs)
    PROVE  left \in Tabs /\ (Covered(tabs) => Covered(left))
<1>1. PICK last \in Names : \E whole \in SUBSET Names, part \in Parts(tabs[last]) :
          left = [n \in Names |-> IF n \in whole THEN tabs[n] ELSE IF n = last THEN part ELSE NoTable]
  BY DEF Remains
<1>2. PICK whole \in SUBSET Names, part \in Parts(tabs[last]) :
          left = [n \in Names |-> IF n \in whole THEN tabs[n] ELSE IF n = last THEN part ELSE NoTable]
  BY <1>1
<1>3. /\ part \in Table \cup {NoTable}
      /\ Covered(tabs) /\ part # NoTable => TableCovered(part)
  <2>1. CASE tabs[last] = NoTable
    BY <2>1 DEF Parts
  <2>2. CASE tabs[last] # NoTable
    <3>1. tabs[last] \in Table
      BY <2>2 DEF Tabs
    <3>2. Covered(tabs) => TableCovered(tabs[last])
      BY <2>2 DEF Covered, TableCovered
    <3> QED
      BY <3>1, <3>2, PartFacts
  <2> QED
    BY <2>1, <2>2
<1>4. left \in Tabs
  BY <1>2, <1>3 DEF Tabs
<1>5. ASSUME Covered(tabs), NEW n \in Names, left[n] # NoTable PROVE TableCovered(left[n])
  <2>1. CASE n \in whole
    BY <1>2, <1>5, <2>1 DEF Covered, TableCovered
  <2>2. CASE n \notin whole
    BY <1>2, <1>3, <1>5, <2>2
  <2> QED
    BY <2>1, <2>2
<1> QED
  BY <1>4, <1>5 DEF Covered, TableCovered

LEMMA TornType ==
    ASSUME NEW tabs \in Tabs
    PROVE  Torn(tabs) \subseteq Tabs \cup {Absent, Garbage}
BY RemainsFacts DEF Torn

-----------------------------------------------------------------------------
(* The stack *)

LEMMA PoppedFacts ==
    ASSUME stack \in Seq(TxFrame \cup GuardFrame), stack # <<>>
    PROVE  /\ Popped \in Seq(TxFrame \cup GuardFrame)
           /\ Len(stack) \in Nat \ {0}
           /\ Len(Popped) = Len(stack) - 1
           /\ \A k \in 1 .. Len(Popped) : Popped[k] = stack[k]
           /\ Top \in TxFrame \cup GuardFrame
<1> DEFINE Frame == TxFrame \cup GuardFrame
<1> HIDE DEF Frame
<1>1. stack \in Seq(Frame) /\ stack # <<>>
  BY DEF Frame
<1>2. Len(stack) \in Nat \ {0} /\ \A k \in 1 .. Len(stack) : stack[k] \in Frame
  BY <1>1
<1>3. /\ Popped \in Seq(Frame)
      /\ Len(Popped) = Len(stack) - 1
      /\ \A k \in 1 .. Len(Popped) : Popped[k] = stack[k]
  <2>1. \A k \in 1 .. Len(stack) - 1 : stack[k] \in Frame
    BY <1>2
  <2>2. PICK n \in Nat : n = Len(stack) - 1
    BY <1>2
  <2>3. Popped = SubSeq(stack, 1, n)
    BY <2>2 DEF Popped
  <2>4. /\ Popped \in Seq(Frame)
        /\ Len(Popped) = IF 1 <= n THEN n - 1 + 1 ELSE 0
        /\ \A k \in 1 .. n - 1 + 1 : Popped[k] = stack[1 + k - 1]
    <3>1. 1 \in Int /\ n \in Int /\ \A k \in 1 .. n : stack[k] \in Frame
      BY <2>1, <2>2
    <3>2. /\ SubSeq(stack, 1, n) \in Seq(Frame)
          /\ Len(SubSeq(stack, 1, n)) = IF 1 <= n THEN n - 1 + 1 ELSE 0
          /\ \A k \in 1 .. n - 1 + 1 : SubSeq(stack, 1, n)[k] = stack[1 + k - 1]
      BY <3>1, SubSeqProperties
    <3> QED
      BY <2>3, <3>2
  <2>5. Len(Popped) = n /\ n - 1 + 1 = n /\ \A k \in 1 .. n : 1 + k - 1 = k
    BY <2>2, <2>4
  <2>6. \A k \in 1 .. n : Popped[k] = stack[k]
    BY <2>4, <2>5
  <2> QED
    BY <2>2, <2>4, <2>5, <2>6
<1>4. Top \in Frame
  BY <1>2 DEF Top
<1> QED
  BY <1>2, <1>3, <1>4 DEF Frame

LEMMA PushedFacts ==
    ASSUME stack \in Seq(TxFrame \cup GuardFrame), NEW frame \in TxFrame \cup GuardFrame
    PROVE  /\ Append(stack, frame) \in Seq(TxFrame \cup GuardFrame)
           /\ Len(Append(stack, frame)) = Len(stack) + 1
           /\ Append(stack, frame)[Len(stack) + 1] = frame
           /\ \A k \in 1 .. Len(stack) : Append(stack, frame)[k] = stack[k]
           /\ Len(stack) \in Nat
OBVIOUS

LEMMA FrameFacts ==
    ASSUME NEW frame \in TxFrame \cup GuardFrame
    PROVE  /\ frame.kind \in {"tx", "try", "loop"}
           /\ frame.kind = "tx" => frame \in TxFrame /\ frame.db \in ImageIds /\ frame.entry \in Tabs
BY DEF TxFrame, GuardFrame

LEMMA ElementType ==
    ASSUME NEW S, NEW s \in Seq(S), NEW k \in 1 .. Len(s)
    PROVE  s[k] \in S
OBVIOUS

-----------------------------------------------------------------------------
(* Images and files *)

LEMMA ImageFacts ==
    ASSUME TypeOK, NEW i \in ImageIds, Alive(i)
    PROVE  img[i] \in Image
BY DEF TypeOK, Alive

LEMMA ImageUpdate ==
    ASSUME NEW im \in Image, NEW tabs \in Tabs, NEW snap \in Tabs, NEW tx \in Int
    PROVE  /\ [im EXCEPT !.tx = tx, !.snap = snap] \in Image
           /\ [im EXCEPT !.tabs = tabs, !.snap = snap, !.tx = tx] \in Image
           /\ [im EXCEPT !.tx = tx, !.snap = snap].refs = im.refs
           /\ [im EXCEPT !.tx = tx, !.snap = snap].path = im.path
           /\ [im EXCEPT !.tabs = tabs, !.snap = snap, !.tx = tx].refs = im.refs
           /\ [im EXCEPT !.tabs = tabs, !.snap = snap, !.tx = tx].path = im.path
BY DEF Image

LEMMA SaveType ==
    ASSUME NEW im \in Image, NEW dk \in Disks, DbSave(im, dk)
    PROVE  disk' \in Disks /\ mode' \in {"run", "error", "dead"}
<1>1. im.path = Memory \/ FileOf[im.path] \in Files
  BY DatabaseAssumption DEF Image
<1>2. im.tabs \in Tabs
  BY DEF Image
<1>3. Torn(im.tabs) \subseteq Tabs \cup {Absent, Garbage}
  BY <1>2, TornType
<1> QED
  BY <1>1, <1>2, <1>3 DEF DbSave, Disks

LEMMA OpenType ==
    ASSUME TypeOK, NEW p \in Paths, CanOpen(p)
    PROVE  /\ OpenId(p) \in ImageIds
           /\ OpenImage(p) \in Image
           /\ Created(p) \in Disks
           /\ Seen(OpenId(p)) \in 0 .. MaxImages
<1>1. OpenId(p) \in ImageIds
  BY DEF CanOpen
<1>2. OpenImage(p) \in Image
  <2>1. CASE p # Memory /\ Opened(p) # {}
    <3>1. OpenId(p) \in Opened(p)
      BY <2>1 DEF OpenId
    <3>2. img[OpenId(p)] \in Image
      BY <3>1, ImageFacts DEF Opened
    <3> QED
      BY <2>1, <3>2 DEF OpenImage, Image
  <2>2. CASE ~(p # Memory /\ Opened(p) # {})
    <3>1. p = Memory \/ FileOf[p] \in Files
      BY DatabaseAssumption
    <3>2. Content(p) \in Tabs
      BY <2>2, <3>1, NoTabsType DEF CanOpen, Content, TypeOK, Disks
    <3> QED
      BY <2>2, <3>2, NoTabsType DEF OpenImage, NewImage, Image
  <2> QED
    BY <2>1, <2>2
<1>3. Created(p) \in Disks
  BY NoTabsType DEF Created, TypeOK, Disks
<1>4. Seen(OpenId(p)) \in 0 .. MaxImages
  BY <1>1, DatabaseAssumption DEF Seen, TypeOK, ImageIds
<1> QED
  BY <1>1, <1>2, <1>3, <1>4

LEMMA WithStoreType ==
    ASSUME NEW im \in Image, NEW n \in Names
    PROVE  WithStore(im, n) \in Image
<1>1. NewTable("auto") \in Table
  BY NewTableType DEF Shapes, Kinds
<1>2. [im.tabs EXCEPT ![n] = NewTable("auto")] \in Tabs
  BY <1>1, PutTableType DEF Image
<1> QED
  BY <1>2 DEF WithStore, Image

-----------------------------------------------------------------------------
(* Type correctness.  A 거래 frame always names an open image: without that  *)
(* fact the return of 거래 has no image to write.                            *)

FramesAlive ==
    \A k \in 1 .. Len(stack) : stack[k].kind = "tx" => Alive(stack[k].db)

TypeInv == TypeOK /\ FramesAlive

LEMMA TypeInit == Init => TypeInv
<1> SUFFICES ASSUME Init PROVE TypeInv
  OBVIOUS
<1>1. TypeOK
  BY DatabaseAssumption, NoTabsType DEF Init, Fresh, TypeOK, Disks, ImageIds
<1>2. FramesAlive
  BY DEF Init, Fresh, FramesAlive
<1> QED
  BY <1>1, <1>2 DEF TypeInv

\* A step that changes no frame and frees no image a frame names.
LEMMA SameFrames ==
    ASSUME FramesAlive, UNCHANGED stack,
           \A i \in ImageIds : Alive(i) /\ Running(i) => Alive(i)',
           stack \in Seq(TxFrame \cup GuardFrame)
    PROVE  FramesAlive'
<1> SUFFICES ASSUME NEW k \in 1 .. Len(stack), stack[k].kind = "tx"
             PROVE  Alive(stack[k].db)'
  BY DEF FramesAlive
<1>1. stack[k] \in TxFrame \cup GuardFrame
  OBVIOUS
<1>2. stack[k].db \in ImageIds
  BY <1>1, FrameFacts
<1>3. Alive(stack[k].db) /\ Running(stack[k].db)
  BY DEF FramesAlive, Running, FramesOf, IsTxOf
<1> QED
  BY <1>2, <1>3

\* One image gets a new state; the others keep theirs.
LEMMA ImageSet ==
    ASSUME TypeOK, NEW i \in ImageIds, NEW im \in Image, img' = [img EXCEPT ![i] = im]
    PROVE  /\ img' \in [ImageIds -> Image \cup {Free}]
           /\ img'[i] = im
           /\ \A j \in ImageIds : j # i => img'[j] = img[j]
           /\ \A j \in ImageIds : Alive(j) => Alive(j)'
BY FreeAssumption DEF TypeOK, Alive

\* What a statement or a store call does: the image gets new tables, and is
\* saved, or an error is thrown before the save.
CallEffect(i, tabs) ==
    /\ Alive(i) /\ mode = "run" /\ Onward(img[i].tabs, tabs)
    /\ img' = [img EXCEPT ![i] = [img[i] EXCEPT !.tabs = tabs]]
    /\ \/ DbSave([img[i] EXCEPT !.tabs = tabs], disk)
       \/ /\ MayThrow /\ mode' = "error" /\ UNCHANGED disk
          /\ tabs # img[i].tabs => "statement" \in Failures
    /\ UNCHANGED <<dbseq, stack, program>>

LEMMA CallShape ==
    ASSUME TypeOK, NEW i \in ImageIds, Call(i)
    PROVE  \E tabs \in Tabs : CallEffect(i, tabs)
<1>1. ASSUME NEW s \in Stmts, Exec(i, s) PROVE \E tabs \in Tabs : CallEffect(i, tabs)
  <2> DEFINE res == SqlRun(img[i].tabs, s)
  <2>1. img[i] \in Image /\ s \in Statements /\ StatementFits(img[i].tabs, s)
    BY <1>1, ImageFacts, DatabaseAssumption DEF Exec
  <2>2. res \in Result
    BY <2>1, SqlRunType DEF Image
  <2>3. res.tabs \in Tabs /\ Onward(img[i].tabs, res.tabs)
    BY <2>1, <2>2, SqlRunOnward DEF Result, Image
  <2>4. CallEffect(i, res.tabs)
    BY <1>1, <2>3 DEF Exec, Write, CallEffect
  <2> QED
    BY <2>3, <2>4
<1>2. ASSUME NEW n \in Names, StoreCall(i, n)
      PROVE  /\ Alive(i) /\ mode = "run" /\ UNCHANGED <<dbseq, stack, program>>
             /\ img[i].tabs \in Tabs /\ img[i].tabs[n] \in Table
  BY <1>2, ImageFacts DEF StoreCall, Image, Tabs
<1>3. ASSUME NEW n \in Names, StoreCall(i, n), NEW new \in Table,
             TableCovered(img[i].tabs[n]) => TableCovered(new),
             img[i].tabs[n].seq <= new.seq, Write(i, [img[i].tabs EXCEPT ![n] = new])
      PROVE  \E tabs \in Tabs : CallEffect(i, tabs)
  <2>1. [img[i].tabs EXCEPT ![n] = new] \in Tabs
    BY <1>2, <1>3, PutTableType
  <2>2. Onward(img[i].tabs, [img[i].tabs EXCEPT ![n] = new])
    <3>1. img[i].tabs[n] # NoTable
      BY <1>3 DEF StoreCall
    <3>2. Covered(img[i].tabs) => TableCovered(new)
      BY <1>3, <3>1 DEF Covered, TableCovered
    <3> QED
      BY <1>2, <1>3, <3>2, PutOnward
  <2>3. CallEffect(i, [img[i].tabs EXCEPT ![n] = new])
    BY <1>2, <1>3, <2>2 DEF Write, CallEffect
  <2> QED
    BY <2>1, <2>3
<1>4. ASSUME NEW n \in Names, NEW v \in Vals, Put(i, n, v)
      PROVE  \E tabs \in Tabs : CallEffect(i, tabs)
  <2>1. StoreCall(i, n) /\ Fits(img[i].tabs[n])
    BY <1>4 DEF Put
  <2>2. PICK new \in Table : /\ new = TabInsert(img[i].tabs[n], NextRowid(img[i].tabs[n]), v)
                             /\ TableCovered(img[i].tabs[n]) => TableCovered(new)
                             /\ img[i].tabs[n].seq <= new.seq
    BY <1>2, <2>1, NextRowidType, InsertType, InsertOnward
  <2> QED
    BY <1>3, <1>4, <2>1, <2>2 DEF Put
<1>5. ASSUME NEW n \in Names, NEW r \in RowIds, NEW v \in Vals, Fix(i, n, r, v)
      PROVE  \E tabs \in Tabs : CallEffect(i, tabs)
  <2>1. StoreCall(i, n)
    BY <1>5 DEF Fix
  <2>2. PICK new \in Table : /\ new = TabUpdate(img[i].tabs[n], {r}, v)
                             /\ TableCovered(img[i].tabs[n]) => TableCovered(new)
                             /\ img[i].tabs[n].seq <= new.seq
    BY <1>2, <2>1, UpdateType, UpdateOnward
  <2> QED
    BY <1>3, <1>5, <2>1, <2>2 DEF Fix
<1>6. ASSUME NEW n \in Names, NEW r \in RowIds, Remove(i, n, r)
      PROVE  \E tabs \in Tabs : CallEffect(i, tabs)
  <2>1. StoreCall(i, n)
    BY <1>6 DEF Remove
  <2>2. PICK new \in Table : /\ new = TabRemove(img[i].tabs[n], {r})
                             /\ TableCovered(img[i].tabs[n]) => TableCovered(new)
                             /\ img[i].tabs[n].seq <= new.seq
    BY <1>2, <2>1, RemoveType, RemoveOnward
  <2> QED
    BY <1>3, <1>6, <2>1, <2>2 DEF Remove
<1> QED
  BY <1>1, <1>4, <1>5, <1>6 DEF Call

\* The last frame goes and no image a remaining frame names is freed.
LEMMA PoppedFrames ==
    ASSUME TypeOK, FramesAlive, stack # <<>>, stack' = Popped,
           \A i \in ImageIds : Alive(i) => Alive(i)'
    PROVE  stack' \in Seq(TxFrame \cup GuardFrame) /\ FramesAlive'
<1>1. /\ Popped \in Seq(TxFrame \cup GuardFrame)
      /\ Len(Popped) = Len(stack) - 1 /\ Len(stack) \in Nat
      /\ \A k \in 1 .. Len(Popped) : Popped[k] = stack[k]
  BY PoppedFacts DEF TypeOK
<1>2. ASSUME NEW k \in 1 .. Len(Popped), Popped[k].kind = "tx"
      PROVE  img'[Popped[k].db] # Free
  <2>1. Popped[k] = stack[k] /\ k \in 1 .. Len(stack)
    BY <1>1
  <2>2. Popped[k].db \in ImageIds
    BY <1>1, <1>2, FrameFacts, ElementType
  <2>3. Alive(Popped[k].db)
    BY <1>2, <2>1 DEF FramesAlive
  <2> QED
    BY <2>2, <2>3 DEF Alive
<1> QED
  BY <1>1, <1>2 DEF FramesAlive, Alive

\* A frame is pushed: a guard, or a 거래 on an open image.
LEMMA PushedFrames ==
    ASSUME TypeOK, FramesAlive, NEW frame \in TxFrame \cup GuardFrame,
           stack' = Append(stack, frame),
           frame.kind = "tx" => Alive(frame.db),
           \A i \in ImageIds : Alive(i) => Alive(i)'
    PROVE  stack' \in Seq(TxFrame \cup GuardFrame) /\ FramesAlive'
<1>1. /\ stack' \in Seq(TxFrame \cup GuardFrame)
      /\ Len(stack') = Len(stack) + 1 /\ Len(stack) \in Nat
      /\ stack'[Len(stack) + 1] = frame
      /\ \A k \in 1 .. Len(stack) : stack'[k] = stack[k]
  BY PushedFacts DEF TypeOK
<1>2. ASSUME NEW k \in 1 .. Len(stack'), stack'[k].kind = "tx"
      PROVE  img'[stack'[k].db] # Free
  <2>1. stack'[k].db \in ImageIds
    BY <1>1, <1>2, FrameFacts, ElementType
  <2>2. CASE k = Len(stack) + 1
    BY <1>1, <1>2, <2>1, <2>2 DEF Alive
  <2>3. CASE k \in 1 .. Len(stack)
    <3>1. stack[k].kind = "tx" /\ stack'[k].db = stack[k].db
      BY <1>1, <1>2, <2>3
    <3> QED
      BY <2>1, <2>3, <3>1 DEF Alive, FramesAlive
  <2> QED
    BY <1>1, <2>2, <2>3
<1> QED
  BY <1>1, <1>2 DEF FramesAlive, Alive

\* A 거래 on top of the stack has an image to return to.
LEMMA TopAlive ==
    ASSUME TypeOK, FramesAlive, stack # <<>>, Top.kind = "tx"
    PROVE  Top.db \in ImageIds /\ Alive(Top.db) /\ img[Top.db] \in Image
<1>1. Top \in TxFrame \cup GuardFrame /\ Len(stack) \in Nat \ {0}
  BY PoppedFacts DEF TypeOK
<1>2. Top.db \in ImageIds
  BY <1>1, FrameFacts
<1>3. Alive(Top.db)
  BY <1>1 DEF FramesAlive, Top
<1> QED
  BY <1>2, <1>3, ImageFacts

LEMMA TypeStep == TypeInv /\ [Next]_vars => TypeInv'
<1> SUFFICES ASSUME TypeInv, [Next]_vars PROVE TypeInv'
  OBVIOUS
<1> USE DEF TypeInv
<1>1. ASSUME NEW p \in Paths, Open(p) PROVE TypeInv'
  <2>1. /\ OpenId(p) \in ImageIds /\ OpenImage(p) \in Image
        /\ Created(p) \in Disks /\ Seen(OpenId(p)) \in 0 .. MaxImages
    BY <1>1, OpenType DEF Open
  <2>2. img' \in [ImageIds -> Image \cup {Free}] /\ \A j \in ImageIds : Alive(j) => Alive(j)'
    BY <1>1, <2>1, ImageSet DEF Open
  <2>3. TypeOK'
    BY <1>1, <2>1, <2>2 DEF Open, TypeOK
  <2>4. FramesAlive'
    BY <1>1, <2>2, SameFrames DEF Open, TypeOK
  <2> QED
    BY <2>3, <2>4
<1>2. ASSUME NEW p \in Paths, NEW n \in Names, OpenStore(p, n) PROVE TypeInv'
  <2> DEFINE i == OpenId(p)
             im == WithStore(OpenImage(p), n)
  <2>1. /\ i \in ImageIds /\ OpenImage(p) \in Image
        /\ Created(p) \in Disks /\ Seen(i) \in 0 .. MaxImages
    BY <1>2, OpenType DEF OpenStore
  <2>2. im \in Image
    BY <2>1, WithStoreType
  <2>3. img' \in [ImageIds -> Image \cup {Free}] /\ \A j \in ImageIds : Alive(j) => Alive(j)'
    <3>1. img' = [img EXCEPT ![i] = im]
      BY <1>2 DEF OpenStore
    <3> HIDE DEF i, im
    <3> QED
      BY <2>1, <2>2, <3>1, ImageSet
  <2>4. disk' \in Disks /\ mode' \in {"run", "error", "dead"}
    BY <1>2, <2>1, <2>2, SaveType DEF OpenStore
  <2>5. held' \subseteq ImageIds \X Names
    BY <1>2, <2>1 DEF OpenStore, TypeOK
  <2>6. TypeOK'
    BY <1>2, <2>1, <2>3, <2>4, <2>5 DEF OpenStore, TypeOK, Thrown
  <2>7. FramesAlive'
    BY <1>2, <2>3, SameFrames DEF OpenStore, TypeOK
  <2> QED
    BY <2>6, <2>7
<1>3. ASSUME NEW i \in ImageIds, NEW again \in BOOLEAN, Close(i, again) PROVE TypeInv'
  <2>1. img[i] \in Image
    BY <1>3, ImageFacts DEF Close
  <2>2. WithoutRef(i) \in Image \cup {Free}
    BY <2>1 DEF WithoutRef, Image
  <2>3. img' \in [ImageIds -> Image \cup {Free}]
    BY <1>3, <2>2 DEF Close, TypeOK
  <2>4. open' \in [ImageIds -> Nat]
    <3>1. open \in [ImageIds -> Nat] /\ (open[i] > 0 => open[i] - 1 \in Nat)
      BY <1>3 DEF TypeOK
    <3>2. open' = open \/ (open[i] > 0 /\ open' = [open EXCEPT ![i] = open[i] - 1])
      BY <1>3 DEF Close
    <3> QED
      BY <3>1, <3>2
  <2>5. TypeOK'
    BY <1>3, <2>3, <2>4 DEF Close, TypeOK
  <2>6. \A j \in ImageIds : Alive(j) /\ Running(j) => Alive(j)'
    <3> SUFFICES ASSUME NEW j \in ImageIds, Alive(j), Running(j) PROVE img'[j] # Free
      BY DEF Alive
    <3>1. CASE j # i
      BY <1>3, <3>1 DEF Close, Alive, TypeOK
    <3>2. CASE j = i
      <4>1. WithoutRef(i) = [img[i] EXCEPT !.refs = @ - 1] /\ img[i].refs > 1
        BY <1>3, <3>2 DEF Close, WithoutRef
      <4>2. WithoutRef(i) \in Image
        BY <2>1, <4>1 DEF Image
      <4> QED
        BY <1>3, <3>2, <4>2, FreeAssumption DEF Close, TypeOK
    <3> QED
      BY <3>1, <3>2
  <2>7. FramesAlive'
    BY <1>3, <2>6, SameFrames DEF Close, TypeOK
  <2> QED
    BY <2>5, <2>7
<1>4. ASSUME NEW i \in ImageIds, Call(i) PROVE TypeInv'
  <2>1. PICK tabs \in Tabs : CallEffect(i, tabs)
    BY <1>4, CallShape
  <2> DEFINE im == [img[i] EXCEPT !.tabs = tabs]
  <2>2. im \in Image
    BY <2>1, ImageFacts DEF CallEffect, Image
  <2>3. img' \in [ImageIds -> Image \cup {Free}] /\ \A j \in ImageIds : Alive(j) => Alive(j)'
    <3>1. img' = [img EXCEPT ![i] = im]
      BY <2>1 DEF CallEffect
    <3> HIDE DEF im
    <3> QED
      BY <2>2, <3>1, ImageSet
  <2>4. disk' \in Disks /\ mode' \in {"run", "error", "dead"}
    BY <2>1, <2>2, SaveType DEF CallEffect, TypeOK
  <2>5. TypeOK'
    BY <2>1, <2>3, <2>4 DEF CallEffect, TypeOK, program, Thrown
  <2>6. FramesAlive'
    BY <2>1, <2>3, SameFrames DEF CallEffect, TypeOK
  <2> QED
    BY <2>5, <2>6
<1>5. ASSUME NEW i \in ImageIds, TxBegin(i) PROVE TypeInv'
  <2> DEFINE im == IF img[i].tx = 0 THEN [img[i] EXCEPT !.snap = img[i].tabs] ELSE img[i]
             new == [im EXCEPT !.tx = @ + 1]
             frame == [kind |-> "tx", db |-> i, entry |-> img[i].tabs]
  <2>1. img[i] \in Image /\ Alive(i)
    BY <1>5, ImageFacts DEF TxBegin
  <2>2. im \in Image
    BY <2>1 DEF Image
  <2>3. new \in Image
    <3> HIDE DEF im
    <3> QED
      BY <2>2 DEF Image
  <2>4. img' \in [ImageIds -> Image \cup {Free}] /\ \A j \in ImageIds : Alive(j) => Alive(j)'
    <3>1. img' = [img EXCEPT ![i] = new]
      BY <1>5 DEF TxBegin
    <3> HIDE DEF new
    <3> QED
      BY <2>3, <3>1, ImageSet
  <2>5. frame \in TxFrame /\ frame.db = i /\ stack' = Append(stack, frame)
    BY <1>5, <2>1 DEF TxBegin, TxFrame, Image
  <2>6. stack' \in Seq(TxFrame \cup GuardFrame) /\ FramesAlive'
    <3> HIDE DEF frame
    <3> QED
      BY <2>1, <2>4, <2>5, PushedFrames
  <2> QED
    BY <1>5, <2>4, <2>6 DEF TxBegin, TypeOK, program
<1>6. ASSUME TxEnd PROVE TypeInv'
  <2> DEFINE i == Top.db
             n == img[i].tx - 1
             im == [img[i] EXCEPT !.tx = n, !.snap = IF n = 0 THEN NoTabs ELSE @]
  <2>1. i \in ImageIds /\ Alive(i) /\ img[i] \in Image /\ stack # <<>>
    BY <1>6, TopAlive DEF TxEnd
  <2>2. im \in Image
    <3>1. n \in Int /\ (IF n = 0 THEN NoTabs ELSE img[i].snap) \in Tabs
      BY <2>1, NoTabsType DEF Image
    <3> QED
      BY <2>1, <3>1, ImageUpdate, NoTabsType
  <2>3. /\ img' = [img EXCEPT ![i] = im] /\ stack' = Popped /\ UNCHANGED <<dbseq, program>>
        /\ DbSave(im, disk) \/ UNCHANGED <<disk, mode>>
    BY <1>6 DEF TxEnd
  <2> HIDE DEF im, i
  <2>4. img' \in [ImageIds -> Image \cup {Free}] /\ \A j \in ImageIds : Alive(j) => Alive(j)'
    BY <2>1, <2>2, <2>3, ImageSet
  <2>5. disk' \in Disks /\ mode' \in {"run", "dead"} \cup Thrown
    BY <2>2, <2>3, SaveType DEF TypeOK, Thrown
  <2>6. stack' \in Seq(TxFrame \cup GuardFrame) /\ FramesAlive'
    BY <2>1, <2>3, <2>4, PoppedFrames
  <2> QED
    BY <2>3, <2>4, <2>5, <2>6 DEF TypeOK, program
<1>7. ASSUME TxAbort PROVE TypeInv'
  <2> DEFINE i == Top.db
             im == [img[i] EXCEPT !.tabs = img[i].snap, !.snap = NoTabs, !.tx = 0]
  <2>1. i \in ImageIds /\ Alive(i) /\ img[i] \in Image /\ stack # <<>>
    BY <1>7, TopAlive DEF TxAbort
  <2>2. im \in Image
    <3>1. img[i].snap \in Tabs /\ 0 \in Int
      BY <2>1 DEF Image
    <3> QED
      BY <2>1, <3>1, ImageUpdate, NoTabsType
  <2>3. img' = [img EXCEPT ![i] = im] /\ stack' = Popped /\ UNCHANGED <<dbseq, disk, mode, program>>
    BY <1>7 DEF TxAbort
  <2> HIDE DEF im, i
  <2>4. img' \in [ImageIds -> Image \cup {Free}] /\ \A j \in ImageIds : Alive(j) => Alive(j)'
    BY <2>1, <2>2, <2>3, ImageSet
  <2>5. stack' \in Seq(TxFrame \cup GuardFrame) /\ FramesAlive'
    BY <2>1, <2>3, <2>4, PoppedFrames
  <2> QED
    BY <2>3, <2>4, <2>5 DEF TypeOK, program
<1>8. ASSUME NEW kind \in {"try", "loop"}, GuardBegin(kind) PROVE TypeInv'
  <2>1. [kind |-> kind] \in GuardFrame /\ [kind |-> kind].kind # "tx"
    BY DEF GuardFrame
  <2>2. stack' \in Seq(TxFrame \cup GuardFrame) /\ FramesAlive'
    BY <1>8, <2>1, PushedFrames DEF GuardBegin, Alive
  <2> QED
    BY <1>8, <2>2 DEF GuardBegin, TypeOK, program
<1>9. ASSUME GuardEnd \/ Catch PROVE TypeInv'
  <2>1. stack # <<>> /\ stack' = Popped /\ UNCHANGED <<img, dbseq, disk, program>>
    BY <1>9 DEF GuardEnd, Catch
  <2>2. stack' \in Seq(TxFrame \cup GuardFrame) /\ FramesAlive'
    BY <2>1, PoppedFrames DEF Alive
  <2>3. mode' \in {"run", "dead"} \cup Thrown
    BY <1>9 DEF GuardEnd, Catch, TypeOK
  <2> QED
    BY <2>1, <2>2, <2>3 DEF TypeOK, program
<1>10. ASSUME NEW what \in Thrown, Throw(what) PROVE TypeInv'
  BY <1>10 DEF Throw, TypeOK, FramesAlive, Alive, program
<1>11. ASSUME ProcessEnd, disk' \in Disks PROVE TypeInv'
  <2>1. TypeOK'
    BY <1>11, DatabaseAssumption DEF ProcessEnd, TypeOK, ImageIds
  <2>2. FramesAlive'
    BY <1>11 DEF ProcessEnd, FramesAlive
  <2> QED
    BY <2>1, <2>2
<1>12. CASE Stop
  BY <1>11, <1>12 DEF Stop, TypeOK
<1>13. CASE UNCHANGED vars
  BY <1>13 DEF vars, TypeOK, FramesAlive, Alive
<1> QED
  BY <1>1, <1>2, <1>3, <1>4, <1>6, <1>7, <1>8, <1>5, <1>6, <1>7, <1>8, <1>9, <1>10,
     <1>12, <1>13 DEF Next

\* Every reachable state is of the expected type, and every running 거래 names
\* an open image, whatever fails and wherever the process stops.
THEOREM TypeCorrect == Spec => [](TypeOK /\ FramesAlive)
<1>1. Spec => []TypeInv
  BY TypeInit, TypeStep, PTL DEF Spec
<1> QED
  BY <1>1, PTL DEF TypeInv

-----------------------------------------------------------------------------
(* Every step writes an open image, or the next id's.                       *)

LEMMA OpenIdFacts ==
    ASSUME TypeOK, NEW p \in Paths, CanOpen(p)
    PROVE  \/ /\ p # Memory /\ Alive(OpenId(p)) /\ img[OpenId(p)].path = p
              /\ OpenImage(p) = [img[OpenId(p)] EXCEPT !.refs = @ + 1]
           \/ /\ p = Memory \/ Opened(p) = {}
              /\ OpenId(p) = dbseq + 1 /\ OpenImage(p) = NewImage(p)
<1>1. CASE p # Memory /\ Opened(p) # {}
  <2>1. OpenId(p) \in Opened(p)
    BY <1>1 DEF OpenId
  <2> QED
    BY <1>1, <2>1 DEF Opened, OpenImage
<1>2. CASE ~(p # Memory /\ Opened(p) # {})
  BY <1>2 DEF OpenId, OpenImage
<1> QED
  BY <1>1, <1>2

\* The steps that open, close and end nothing.
Inside ==
    \/ \E i \in ImageIds : Call(i) \/ TxBegin(i)
    \/ TxEnd \/ TxAbort \/ GuardEnd \/ Catch \/ UNCHANGED vars
    \/ \E kind \in {"try", "loop"} : GuardBegin(kind)
    \/ \E what \in Thrown : Throw(what)

LEMMA StepKinds ==
    ASSUME [Next]_vars
    PROVE  \/ \E p \in Paths : Open(p)
           \/ \E p \in Paths, n \in Names : OpenStore(p, n)
           \/ \E i \in ImageIds, again \in BOOLEAN : Close(i, again)
           \/ Inside
           \/ ProcessEnd
BY DEF Next, Inside, Stop

\* Those steps keep every image open under its path, with its references.
SameImages ==
    /\ UNCHANGED <<dbseq, program>>
    /\ \A j \in ImageIds :
        IF Alive(j)
        THEN img'[j] # Free /\ img'[j].refs = img[j].refs /\ img'[j].path = img[j].path
        ELSE img'[j] = Free

LEMMA InsideKeeps == ASSUME TypeInv, Inside PROVE SameImages
<1> USE DEF TypeInv
<1>1. ASSUME NEW i \in ImageIds, Alive(i), NEW im \in Image, img' = [img EXCEPT ![i] = im],
             im.refs = img[i].refs, im.path = img[i].path, UNCHANGED <<dbseq, program>>
      PROVE  SameImages
  BY <1>1, ImageSet DEF SameImages, Alive
<1>2. ASSUME NEW i \in ImageIds, Call(i) PROVE SameImages
  <2>1. PICK tabs \in Tabs : CallEffect(i, tabs)
    BY <1>2, CallShape
  <2> DEFINE im == [img[i] EXCEPT !.tabs = tabs]
  <2>2. im \in Image /\ im.refs = img[i].refs /\ im.path = img[i].path
    BY <2>1, ImageFacts DEF CallEffect, Image
  <2>3. img' = [img EXCEPT ![i] = im] /\ Alive(i) /\ UNCHANGED <<dbseq, program>>
    BY <2>1 DEF CallEffect
  <2> HIDE DEF im
  <2> QED
    BY <1>1, <2>2, <2>3
<1>3. ASSUME NEW i \in ImageIds, TxBegin(i) PROVE SameImages
  <2> DEFINE snap == IF img[i].tx = 0 THEN img[i].tabs ELSE img[i].snap
             n == img[i].tx + 1
             im == [img[i] EXCEPT !.tx = n, !.snap = snap]
  <2>1. img[i] \in Image /\ Alive(i)
    BY <1>3, ImageFacts DEF TxBegin
  <2>2. im \in Image /\ im.refs = img[i].refs /\ im.path = img[i].path
    <3>1. n \in Int /\ snap \in Tabs
      BY <2>1 DEF Image
    <3> HIDE DEF n, snap
    <3> QED
      BY <2>1, <3>1, ImageUpdate DEF Image
  <2>3. img' = [img EXCEPT ![i] = im] /\ UNCHANGED <<dbseq, program>>
    BY <1>3, <2>1 DEF TxBegin, Image
  <2> HIDE DEF im
  <2> QED
    BY <1>1, <2>1, <2>2, <2>3
<1>4. CASE TxEnd
  <2> DEFINE i == Top.db
             n == img[i].tx - 1
             snap == IF n = 0 THEN NoTabs ELSE img[i].snap
             im == [img[i] EXCEPT !.tx = n, !.snap = snap]
  <2>1. i \in ImageIds /\ Alive(i) /\ img[i] \in Image
    BY <1>4, TopAlive DEF TxEnd
  <2>2. im \in Image /\ im.refs = img[i].refs /\ im.path = img[i].path
    <3>1. n \in Int /\ snap \in Tabs
      BY <2>1, NoTabsType DEF Image
    <3> HIDE DEF n, snap
    <3> QED
      BY <2>1, <3>1, ImageUpdate DEF Image
  <2>3. img' = [img EXCEPT ![i] = im] /\ UNCHANGED <<dbseq, program>>
    BY <1>4 DEF TxEnd
  <2> HIDE DEF i, im
  <2> QED
    BY <1>1, <2>1, <2>2, <2>3
<1>5. CASE TxAbort
  <2> DEFINE i == Top.db
             im == [img[i] EXCEPT !.tabs = img[i].snap, !.snap = NoTabs, !.tx = 0]
  <2>1. i \in ImageIds /\ Alive(i) /\ img[i] \in Image
    BY <1>5, TopAlive DEF TxAbort
  <2>2. im \in Image /\ im.refs = img[i].refs /\ im.path = img[i].path
    <3> HIDE DEF i
    <3>1. img[i].snap \in Tabs /\ NoTabs \in Tabs /\ 0 \in Int
      BY <2>1, NoTabsType DEF Image
    <3>2. im \in Image
      BY <2>1, <3>1 DEF Image
    <3>3. im.refs = img[i].refs /\ im.path = img[i].path
      BY <2>1 DEF Image
    <3> QED
      BY <3>2, <3>3
  <2>3. img' = [img EXCEPT ![i] = im] /\ UNCHANGED <<dbseq, program>>
    BY <1>5 DEF TxAbort
  <2> HIDE DEF i, im
  <2> QED
    BY <1>1, <2>1, <2>2, <2>3
<1>6. ASSUME UNCHANGED <<img, dbseq, program>> PROVE SameImages
  BY <1>6 DEF SameImages, Alive
<1>7. CASE \/ GuardEnd \/ Catch \/ UNCHANGED vars
           \/ \E kind \in {"try", "loop"} : GuardBegin(kind)
           \/ \E what \in Thrown : Throw(what)
  BY <1>6, <1>7 DEF GuardEnd, Catch, GuardBegin, Throw, vars, program
<1> QED
  BY <1>2, <1>3, <1>4, <1>5, <1>7 DEF Inside

\* "ids are not recycled" (db_by_id): no step gives an id at or below dbseq
\* whose database is closed to another database.
THEOREM IdsStayClosed == Spec => IdsNotRecycled
<1>1. TypeInv /\ [Next]_vars => (\A i \in 1 .. dbseq : ~Alive(i) => img'[i] = Free)
  <2> SUFFICES ASSUME TypeInv, [Next]_vars, NEW i \in 1 .. dbseq, ~Alive(i)
               PROVE  img'[i] = Free
    OBVIOUS
  <2> USE DEF TypeInv
  <2>1. i \in ImageIds /\ img[i] = Free /\ dbseq \in Nat
    BY DatabaseAssumption DEF TypeOK, ImageIds, Alive
  <2>2. ASSUME NEW j \in ImageIds, NEW im, img' = [img EXCEPT ![j] = im], j # i
        PROVE  img'[i] = Free
    BY <2>1, <2>2 DEF TypeOK
  <2>3. ASSUME NEW p \in Paths, CanOpen(p) PROVE OpenId(p) \in ImageIds /\ OpenId(p) # i
    BY <2>1, <2>3, OpenIdFacts, OpenType DEF Alive
  <2>4. ASSUME NEW p \in Paths, Open(p) PROVE img'[i] = Free
    BY <2>2, <2>3, <2>4 DEF Open
  <2>5. ASSUME NEW p \in Paths, NEW n \in Names, OpenStore(p, n) PROVE img'[i] = Free
    BY <2>2, <2>3, <2>5 DEF OpenStore
  <2>6. ASSUME NEW j \in ImageIds, NEW again \in BOOLEAN, Close(j, again) PROVE img'[i] = Free
    BY <2>2, <2>6 DEF Close
  <2>7. CASE Inside
    BY <2>1, <2>7, InsideKeeps DEF SameImages
  <2>8. CASE ProcessEnd
    BY <2>1, <2>8 DEF ProcessEnd
  <2> QED
    BY <2>4, <2>5, <2>6, <2>7, <2>8, StepKinds
<1>2. Spec => []TypeInv
  BY TypeInit, TypeStep, PTL DEF Spec
<1> QED
  BY <1>1, <1>2, PTL DEF Spec, IdsNotRecycled

-----------------------------------------------------------------------------
(* The reference count.  Ids beyond the last one given out are unused, so an *)
(* opened database starts with the one handle it is opened for.              *)

LaterUnused == \A i \in ImageIds : i > dbseq => ~Alive(i) /\ open[i] + kept[i] = 0

LEMMA LaterStep == TypeInv /\ LaterUnused /\ [Next]_vars => LaterUnused'
<1> SUFFICES ASSUME TypeInv, LaterUnused, [Next]_vars, NEW i \in ImageIds, i > dbseq'
             PROVE  img'[i] = Free /\ open'[i] + kept'[i] = 0
  BY DEF LaterUnused, Alive
<1> USE DEF TypeInv, LaterUnused, Alive
<1>1. i \in Nat /\ dbseq \in Nat
  BY DatabaseAssumption DEF TypeOK, ImageIds
<1>2. ASSUME NEW p \in Paths, CanOpen(p), dbseq' = Seen(OpenId(p))
      PROVE  i > dbseq /\ i # OpenId(p) /\ OpenId(p) \in ImageIds
  BY <1>1, <1>2 DEF Seen, CanOpen, ImageIds
<1>3. ASSUME NEW p \in Paths, Open(p) PROVE img'[i] = Free /\ open'[i] + kept'[i] = 0
  BY <1>2, <1>3 DEF Open, TypeOK
<1>4. ASSUME NEW p \in Paths, NEW n \in Names, OpenStore(p, n)
      PROVE  img'[i] = Free /\ open'[i] + kept'[i] = 0
  BY <1>2, <1>4 DEF OpenStore, TypeOK
<1>5. ASSUME NEW j \in ImageIds, NEW again \in BOOLEAN, Close(j, again)
      PROVE  img'[i] = Free /\ open'[i] + kept'[i] = 0
  <2>1. i > dbseq /\ i # j
    BY <1>5 DEF Close
  <2> QED
    BY <1>5, <2>1 DEF Close, TypeOK
<1>6. CASE Inside
  BY <1>6, InsideKeeps DEF SameImages, program
<1>7. CASE ProcessEnd
  BY <1>7 DEF ProcessEnd
<1> QED
  BY <1>3, <1>4, <1>5, <1>6, <1>7, StepKinds

\* db_close frees at 0 references and not before: as long as no handle is
\* closed twice, the count is the number of handles that still count on it.
RefsInv == TypeInv /\ LaterUnused /\ RefsExact

LEMMA RefsStep ==
    ASSUME "reclose" \notin Failures
    PROVE  RefsInv /\ [Next]_vars => RefsInv'
<1> SUFFICES ASSUME TypeInv, TypeOK, LaterUnused, RefsExact, [Next]_vars PROVE RefsExact'
  BY TypeStep, LaterStep DEF RefsInv, TypeInv
<1>1. ASSUME NEW i \in ImageIds, NEW im \in Image \cup {Free}, img' = [img EXCEPT ![i] = im],
             open'[i] + kept'[i] = IF im # Free THEN im.refs ELSE 0,
             \A j \in ImageIds : j # i => open'[j] = open[j] /\ kept'[j] = kept[j]
      PROVE  RefsExact'
  BY <1>1 DEF RefsExact, Alive, TypeOK
<1>2. ASSUME NEW p \in Paths, CanOpen(p)
      PROVE  /\ OpenId(p) \in ImageIds
             /\ OpenImage(p) \in Image
             /\ OpenImage(p).refs = open[OpenId(p)] + kept[OpenId(p)] + 1
             /\ open[OpenId(p)] \in Nat /\ kept[OpenId(p)] \in Nat
  <2>1. OpenId(p) \in ImageIds /\ OpenImage(p) \in Image
        /\ open[OpenId(p)] \in Nat /\ kept[OpenId(p)] \in Nat
    BY <1>2, OpenType DEF TypeOK
  <2>2. CASE Alive(OpenId(p)) /\ OpenImage(p) = [img[OpenId(p)] EXCEPT !.refs = @ + 1]
    <3>1. img[OpenId(p)] \in Image
      BY <2>1, <2>2, ImageFacts
    <3> QED
      BY <2>1, <2>2, <3>1 DEF RefsExact, Image
  <2>3. CASE OpenId(p) = dbseq + 1 /\ OpenImage(p) = NewImage(p)
    BY <2>1, <2>3, DatabaseAssumption DEF LaterUnused, NewImage, TypeOK, ImageIds
  <2> QED
    BY <1>2, <2>1, <2>2, <2>3, OpenIdFacts
<1>3. ASSUME NEW p \in Paths, Open(p) PROVE RefsExact'
  <2>1. CanOpen(p) /\ OpenImage(p) # Free
    BY <1>2, <1>3, FreeAssumption DEF Open
  <2>2. open'[OpenId(p)] + kept'[OpenId(p)] = OpenImage(p).refs
    <3>1. open'[OpenId(p)] = open[OpenId(p)] + 1 /\ kept'[OpenId(p)] = kept[OpenId(p)]
      BY <1>2, <1>3, <2>1 DEF Open, TypeOK
    <3> QED
      BY <1>2, <2>1, <3>1
  <2> QED
    BY <1>1, <1>2, <1>3, <2>1, <2>2 DEF Open, TypeOK
<1>4. ASSUME NEW p \in Paths, NEW n \in Names, OpenStore(p, n) PROVE RefsExact'
  <2> DEFINE im == WithStore(OpenImage(p), n)
  <2>1. CanOpen(p)
    BY <1>4 DEF OpenStore
  <2>2. im \in Image /\ im # Free
    BY <1>2, <2>1, WithStoreType, FreeAssumption
  <2>3. im.refs = OpenImage(p).refs
    BY <1>2, <2>1 DEF WithStore, Image
  <2>4. open'[OpenId(p)] + kept'[OpenId(p)] = im.refs
    <3>1. open'[OpenId(p)] = open[OpenId(p)] /\ kept'[OpenId(p)] = kept[OpenId(p)] + 1
      BY <1>2, <1>4, <2>1 DEF OpenStore, TypeOK
    <3> QED
      BY <1>2, <2>1, <2>3, <3>1
  <2>5. img' = [img EXCEPT ![OpenId(p)] = im]
    BY <1>4 DEF OpenStore
  <2> HIDE DEF im
  <2> QED
    BY <1>1, <1>2, <1>4, <2>1, <2>2, <2>4, <2>5 DEF OpenStore, TypeOK
<1>5. ASSUME NEW i \in ImageIds, NEW again \in BOOLEAN, Close(i, again) PROVE RefsExact'
  <2>1. /\ Alive(i) /\ img' = [img EXCEPT ![i] = WithoutRef(i)]
        /\ open[i] > 0 /\ open' = [open EXCEPT ![i] = @ - 1] /\ UNCHANGED kept
    BY <1>5 DEF Close
  <2>2. img[i] \in Image
    BY <2>1, ImageFacts
  <2>3. /\ img[i].refs = open[i] + kept[i] /\ open[i] \in Nat /\ kept[i] \in Nat
        /\ open'[i] + kept'[i] = img[i].refs - 1
    <3>1. open[i] \in Nat /\ kept[i] \in Nat /\ open'[i] = open[i] - 1 /\ kept'[i] = kept[i]
      BY <2>1 DEF TypeOK
    <3>2. img[i].refs = open[i] + kept[i]
      BY <2>1 DEF RefsExact
    <3> QED
      BY <3>1, <3>2
  <2>4. CASE img[i].refs > 1
    <3>1. WithoutRef(i) \in Image /\ WithoutRef(i).refs = img[i].refs - 1
      <4>1. img[i].refs \in Nat /\ img[i].refs - 1 \in Nat
        BY <2>2, <2>4 DEF Image
      <4>2. WithoutRef(i) = [img[i] EXCEPT !.refs = img[i].refs - 1]
        BY <2>4 DEF WithoutRef
      <4> QED
        BY <2>2, <4>1, <4>2 DEF Image
    <3>2. WithoutRef(i) # Free
      BY <3>1, FreeAssumption
    <3> QED
      BY <1>1, <2>1, <2>3, <3>1, <3>2 DEF TypeOK
  <2>5. CASE ~(img[i].refs > 1)
    <3>1. WithoutRef(i) = Free /\ open'[i] + kept'[i] = 0
      <4>1. img[i].refs = 1
        BY <2>1, <2>3, <2>5
      <4> QED
        BY <2>3, <2>5, <4>1 DEF WithoutRef
    <3> QED
      BY <1>1, <2>1, <3>1 DEF TypeOK
  <2> QED
    BY <2>4, <2>5
<1>6. CASE Inside
  BY <1>6, InsideKeeps DEF SameImages, program, RefsExact, Alive
<1>7. CASE ProcessEnd
  <2>1. \A i \in ImageIds : img'[i] = Free /\ open'[i] = 0 /\ kept'[i] = 0
    BY <1>7 DEF ProcessEnd
  <2> QED
    BY <2>1 DEF RefsExact, Alive
<1> QED
  BY <1>3, <1>4, <1>5, <1>6, <1>7, StepKinds

\* The reference count is exact in every program that closes each handle once.
THEOREM ReferencesExact ==
    ASSUME "reclose" \notin Failures
    PROVE  Spec => []RefsExact
<1>1. Init => RefsInv
  <2> SUFFICES ASSUME Init PROVE RefsInv
    OBVIOUS
  <2>1. \A i \in ImageIds : img[i] = Free /\ open[i] = 0 /\ kept[i] = 0
    BY DEF Init, Fresh
  <2> QED
    BY <2>1, TypeInit DEF RefsInv, LaterUnused, RefsExact, Alive
<1>2. RefsInv /\ [Next]_vars => RefsInv'
  BY RefsStep
<1>3. RefsInv => RefsExact
  BY DEF RefsInv
<1> QED
  BY <1>1, <1>2, <1>3, PTL DEF Spec

-----------------------------------------------------------------------------
(* One file, one image, when each file is always named by the same string.  *)

OneName ==
    \A p, q \in Paths \ {Memory} : FileOf[p] = FileOf[q] => p = q

OneImagePerPath ==
    \A i, j \in ImageIds :
        Alive(i) /\ Alive(j) /\ i # j /\ img[i].path = img[j].path => img[i].path = Memory

PathInv == TypeInv /\ LaterUnused /\ OneImagePerPath

LEMMA PathStep == PathInv /\ [Next]_vars => PathInv'
<1> SUFFICES ASSUME PathInv, [Next]_vars PROVE OneImagePerPath'
  BY TypeStep, LaterStep DEF PathInv
<1> USE DEF PathInv, TypeInv
<1>1. ASSUME NEW p \in Paths, CanOpen(p), NEW im \in Image, im.path = OpenImage(p).path,
             img' = [img EXCEPT ![OpenId(p)] = im]
      PROVE  OneImagePerPath'
  <2>1. OpenId(p) \in ImageIds
    BY <1>1 DEF CanOpen
  <2>2. img'[OpenId(p)] = im /\ \A j \in ImageIds : j # OpenId(p) => img'[j] = img[j]
    BY <1>1, <2>1 DEF TypeOK
  <2>3. CASE Alive(OpenId(p)) /\ im.path = img[OpenId(p)].path
    BY <2>1, <2>2, <2>3 DEF OneImagePerPath, Alive
  <2>4. CASE im.path = p /\ (p = Memory \/ Opened(p) = {})
    BY <2>1, <2>2, <2>4 DEF OneImagePerPath, Alive, Opened
  <2>5. \/ Alive(OpenId(p)) /\ im.path = img[OpenId(p)].path
        \/ im.path = p /\ (p = Memory \/ Opened(p) = {})
    <3>1. Alive(OpenId(p)) => img[OpenId(p)] \in Image
      BY <2>1, ImageFacts
    <3> QED
      BY <1>1, <3>1, OpenIdFacts DEF NewImage, Image
  <2> QED
    BY <2>3, <2>4, <2>5
<1>2. ASSUME NEW p \in Paths, Open(p) PROVE OneImagePerPath'
  BY <1>1, <1>2, OpenType DEF Open
<1>3. ASSUME NEW p \in Paths, NEW n \in Names, OpenStore(p, n) PROVE OneImagePerPath'
  <2>1. CanOpen(p) /\ OpenImage(p) \in Image
    BY <1>3, OpenType DEF OpenStore
  <2>2. WithStore(OpenImage(p), n) \in Image
        /\ WithStore(OpenImage(p), n).path = OpenImage(p).path
    BY <2>1, WithStoreType DEF WithStore, Image
  <2>3. img' = [img EXCEPT ![OpenId(p)] = WithStore(OpenImage(p), n)]
    BY <1>3 DEF OpenStore
  <2> QED
    BY <1>1, <2>1, <2>2, <2>3
<1>4. ASSUME NEW i \in ImageIds, NEW again \in BOOLEAN, Close(i, again) PROVE OneImagePerPath'
  <2>1. Alive(i) /\ img' = [img EXCEPT ![i] = WithoutRef(i)]
    BY <1>4 DEF Close
  <2>2. img[i] \in Image
    BY <2>1, ImageFacts
  <2>3. WithoutRef(i) = Free \/ WithoutRef(i).path = img[i].path
    BY <2>2 DEF WithoutRef, Image
  <2> QED
    BY <2>1, <2>3 DEF OneImagePerPath, Alive, TypeOK
<1>5. CASE Inside
  BY <1>5, InsideKeeps DEF SameImages, OneImagePerPath, Alive
<1>6. CASE ProcessEnd
  BY <1>6 DEF ProcessEnd, OneImagePerPath, Alive
<1> QED
  BY <1>2, <1>3, <1>4, <1>5, <1>6, StepKinds

LEMMA PathInit == Init => PathInv
BY TypeInit DEF PathInv, LaterUnused, OneImagePerPath, Init, Fresh, Alive

LEMMA PathImpliesFile == ASSUME OneName, PathInv PROVE OneImagePerFile
<1>1. \A i \in ImageIds : Alive(i) => img[i].path \in Paths
  BY ImageFacts DEF PathInv, TypeInv, Image
<1> QED
  BY <1>1 DEF OneName, PathInv, OneImagePerPath, OneImagePerFile

\* "one file, one image" (db_open), for programs that name each file one way.
THEOREM OneImage == ASSUME OneName PROVE Spec => []OneImagePerFile
<1>1. Init => PathInv
  BY PathInit
<1>2. PathInv /\ [Next]_vars => PathInv'
  BY PathStep
<1>3. PathInv => OneImagePerFile
  BY PathImpliesFile
<1> QED
  BY <1>1, <1>2, <1>3, PTL DEF Spec

-----------------------------------------------------------------------------
(* The depth of 거래.  While something is thrown no depth is above 1, so the  *)
(* abort that sets a depth to 0 removes the only frame there is.             *)

ThrownAtDepth1 == mode \in Thrown => \A i \in ImageIds : Alive(i) => img[i].tx <= 1

DepthInv == TypeInv /\ LaterUnused /\ DepthIsFrames /\ ThrownAtDepth1

LEMMA FramesFinite ==
    ASSUME TypeOK, NEW i
    PROVE  IsFiniteSet(FramesOf(i)) /\ Cardinality(FramesOf(i)) \in Nat
<1>1. Len(stack) \in Nat
  BY DEF TypeOK
<1>2. IsFiniteSet(1 .. Len(stack))
  BY <1>1, FS_Interval
<1>3. IsFiniteSet(FramesOf(i))
  BY <1>2, FS_Subset DEF FramesOf
<1> QED
  BY <1>3, FS_CardinalityType

LEMMA NoFrames ==
    ASSUME TypeOK, NEW i
    PROVE  Running(i) <=> Cardinality(FramesOf(i)) # 0
BY FramesFinite, FS_EmptySet DEF Running

LEMMA FramesPopped ==
    ASSUME TypeOK, stack # <<>>, stack' = Popped, NEW i
    PROVE  Cardinality(FramesOf(i)') =
             IF IsTxOf(Top, i) THEN Cardinality(FramesOf(i)) - 1 ELSE Cardinality(FramesOf(i))
<1>1. /\ Len(Popped) = Len(stack) - 1 /\ Len(stack) \in Nat \ {0}
      /\ \A k \in 1 .. Len(Popped) : Popped[k] = stack[k]
  BY PoppedFacts DEF TypeOK
<1>2. FramesOf(i)' = FramesOf(i) \ {Len(stack)}
  BY <1>1 DEF FramesOf
<1>3. Len(stack) \in FramesOf(i) <=> IsTxOf(Top, i)
  BY <1>1 DEF FramesOf, Top
<1>4. CASE IsTxOf(Top, i)
  <2>1. Cardinality(FramesOf(i) \ {Len(stack)}) = Cardinality(FramesOf(i)) - 1
    BY <1>3, <1>4, FramesFinite, FS_RemoveElement
  <2> QED
    BY <1>2, <1>4, <2>1
<1>5. CASE ~IsTxOf(Top, i)
  <2>1. FramesOf(i)' = FramesOf(i)
    BY <1>2, <1>3, <1>5
  <2> QED
    BY <1>5, <2>1
<1> QED
  BY <1>4, <1>5

LEMMA FramesPushed ==
    ASSUME TypeOK, NEW frame \in TxFrame \cup GuardFrame, stack' = Append(stack, frame), NEW i
    PROVE  Cardinality(FramesOf(i)') =
             IF IsTxOf(frame, i) THEN Cardinality(FramesOf(i)) + 1 ELSE Cardinality(FramesOf(i))
<1>1. /\ Len(stack') = Len(stack) + 1 /\ Len(stack) \in Nat
      /\ stack'[Len(stack) + 1] = frame
      /\ \A k \in 1 .. Len(stack) : stack'[k] = stack[k]
  BY PushedFacts DEF TypeOK
<1>2. Len(stack) + 1 \notin FramesOf(i)
  BY <1>1 DEF FramesOf
<1>3. CASE IsTxOf(frame, i)
  <2>1. FramesOf(i)' = FramesOf(i) \cup {Len(stack) + 1}
    BY <1>1, <1>3 DEF FramesOf
  <2>2. Cardinality(FramesOf(i) \cup {Len(stack) + 1}) = Cardinality(FramesOf(i)) + 1
    BY <1>2, FramesFinite, FS_AddElement
  <2> QED
    BY <1>3, <2>1, <2>2
<1>4. CASE ~IsTxOf(frame, i)
  <2>1. FramesOf(i)' = FramesOf(i)
    BY <1>1, <1>4 DEF FramesOf
  <2> QED
    BY <1>4, <2>1
<1> QED
  BY <1>3, <1>4

\* The stack stays and each image keeps its depth, starts at 0, or is freed
\* when no frame names it.
LEMMA DepthKept ==
    ASSUME TypeInv, DepthIsFrames, UNCHANGED stack,
           \A j \in ImageIds :
              \/ img'[j] # Free /\ Alive(j) /\ img'[j].tx = img[j].tx
              \/ img'[j] # Free /\ ~Alive(j) /\ img'[j].tx = 0
              \/ img'[j] = Free /\ ~Running(j)
    PROVE  DepthIsFrames'
<1> SUFFICES ASSUME NEW j \in ImageIds
             PROVE  /\ img'[j] # Free => img'[j].tx = Cardinality(FramesOf(j)')
                    /\ img'[j] = Free => ~Running(j)'
  BY DEF DepthIsFrames, Alive
<1>1. FramesOf(j)' = FramesOf(j) /\ (Running(j)' <=> Running(j))
  BY DEF FramesOf, Running
<1>2. CASE img'[j] # Free /\ Alive(j) /\ img'[j].tx = img[j].tx
  BY <1>1, <1>2 DEF DepthIsFrames
<1>3. CASE img'[j] # Free /\ ~Alive(j) /\ img'[j].tx = 0
  BY <1>1, <1>3, NoFrames DEF DepthIsFrames, TypeInv
<1>4. CASE img'[j] = Free /\ ~Running(j)
  BY <1>1, <1>4
<1> QED
  BY <1>2, <1>3, <1>4

LEMMA MayThrowFacts ==
    ASSUME MayThrow, "nested" \notin Failures, NEW i \in ImageIds, Alive(i)
    PROVE  img[i].tx <= 1
BY DEF MayThrow

LEMMA SaveThrows ==
    ASSUME NEW im, NEW dk, DbSave(im, dk)
    PROVE  mode' \notin Thrown \/ MayThrow
BY DEF DbSave, Thrown

LEMMA CallDepth ==
    ASSUME DepthInv, "nested" \notin Failures, NEW i \in ImageIds, NEW tabs \in Tabs,
           CallEffect(i, tabs)
    PROVE  DepthIsFrames' /\ ThrownAtDepth1'
<1> USE DEF DepthInv, TypeInv
<1> DEFINE im == [img[i] EXCEPT !.tabs = tabs]
<1>1. img[i] \in Image /\ Alive(i)
  BY ImageFacts DEF CallEffect
<1>2. im \in Image /\ im.tx = img[i].tx
  BY <1>1 DEF Image
<1>3. img' = [img EXCEPT ![i] = im] /\ UNCHANGED stack /\ (mode' \notin Thrown \/ MayThrow)
  BY SaveThrows DEF CallEffect
<1> HIDE DEF im
<1>4. \A j \in ImageIds : IF img[j] = Free THEN img'[j] = Free
                          ELSE img'[j] # Free /\ img'[j].tx = img[j].tx
  BY <1>1, <1>2, <1>3, ImageSet DEF Alive
<1>5. DepthIsFrames'
  BY <1>3, <1>4, DepthKept DEF Alive, DepthIsFrames
<1>6. ThrownAtDepth1'
  BY <1>3, <1>4, MayThrowFacts DEF Alive, ThrownAtDepth1
<1> QED
  BY <1>5, <1>6

\* The frames of the next state, counted.
LEMMA DepthFromCards ==
    ASSUME Len(stack') \in Nat,
           \A j \in ImageIds :
              IF img'[j] # Free THEN img'[j].tx = Cardinality(FramesOf(j)')
              ELSE Cardinality(FramesOf(j)') = 0
    PROVE  DepthIsFrames'
<1>1. \A j \in ImageIds : IsFiniteSet(FramesOf(j)')
  <2>1. IsFiniteSet(1 .. Len(stack'))
    BY FS_Interval
  <2> QED
    BY <2>1, FS_Subset DEF FramesOf
<1>2. \A j \in ImageIds : Cardinality(FramesOf(j)') = 0 => ~Running(j)'
  BY <1>1, FS_EmptySet DEF Running
<1> QED
  BY <1>2 DEF DepthIsFrames, Alive

LEMMA DepthStep ==
    ASSUME "nested" \notin Failures
    PROVE  DepthInv /\ [Next]_vars => DepthInv'
<1> SUFFICES ASSUME TypeInv, TypeOK, LaterUnused, DepthIsFrames, ThrownAtDepth1, DepthInv, [Next]_vars
             PROVE  DepthIsFrames' /\ ThrownAtDepth1'
  BY TypeStep, LaterStep DEF DepthInv, TypeInv
<1>0. Len(stack') \in Nat
  BY TypeStep DEF TypeInv, TypeOK
<1>1. ASSUME NEW p \in Paths, CanOpen(p), NEW im \in Image, im.tx = OpenImage(p).tx,
             img' = [img EXCEPT ![OpenId(p)] = im], UNCHANGED stack, mode = "run",
             mode' \notin Thrown \/ MayThrow
      PROVE  DepthIsFrames' /\ ThrownAtDepth1'
  <2>1. OpenId(p) \in ImageIds
    BY <1>1 DEF CanOpen
  <2>2. \/ Alive(OpenId(p)) /\ im.tx = img[OpenId(p)].tx
        \/ ~Alive(OpenId(p)) /\ im.tx = 0
    <3>1. CASE Alive(OpenId(p)) /\ OpenImage(p) = [img[OpenId(p)] EXCEPT !.refs = @ + 1]
      <4>1. img[OpenId(p)] \in Image
        BY <2>1, <3>1, ImageFacts
      <4> QED
        BY <1>1, <3>1, <4>1 DEF Image
    <3>2. CASE OpenId(p) = dbseq + 1 /\ OpenImage(p) = NewImage(p)
      <4>1. OpenId(p) > dbseq
        BY <3>2, DatabaseAssumption DEF TypeOK
      <4>2. OpenImage(p).tx = 0
        BY <3>2 DEF NewImage
      <4> QED
        BY <1>1, <2>1, <4>1, <4>2 DEF LaterUnused
    <3> QED
      BY <1>1, <3>1, <3>2, OpenIdFacts
  <2>3. im # Free /\ img'[OpenId(p)] = im /\ \A j \in ImageIds : j # OpenId(p) => img'[j] = img[j]
    BY <1>1, <2>1, ImageSet, FreeAssumption
  <2>4. DepthIsFrames'
    <3>1. \A j \in ImageIds : img[j] = Free => ~Running(j)
      BY DEF DepthIsFrames, Alive
    <3> QED
      BY <1>1, <2>2, <2>3, <3>1, DepthKept DEF Alive
  <2>5. ThrownAtDepth1'
    BY <1>1, <2>2, <2>3, MayThrowFacts DEF ThrownAtDepth1, Alive
  <2> QED
    BY <2>4, <2>5
<1>2. ASSUME NEW p \in Paths, Open(p) PROVE DepthIsFrames' /\ ThrownAtDepth1'
  BY <1>1, <1>2, OpenType DEF Open, Thrown
<1>3. ASSUME NEW p \in Paths, NEW n \in Names, OpenStore(p, n)
      PROVE  DepthIsFrames' /\ ThrownAtDepth1'
  <2>1. CanOpen(p) /\ OpenImage(p) \in Image
    BY <1>3, OpenType DEF OpenStore
  <2>2. /\ WithStore(OpenImage(p), n) \in Image
        /\ WithStore(OpenImage(p), n).tx = OpenImage(p).tx
    BY <2>1, WithStoreType DEF WithStore, Image
  <2>3. img' = [img EXCEPT ![OpenId(p)] = WithStore(OpenImage(p), n)]
    BY <1>3 DEF OpenStore
  <2>4. mode = "run" /\ UNCHANGED stack /\ (mode' \notin Thrown \/ MayThrow)
    BY <1>3, SaveThrows DEF OpenStore, Thrown
  <2> QED
    BY <1>1, <2>1, <2>2, <2>3, <2>4
<1>4. ASSUME NEW i \in ImageIds, NEW again \in BOOLEAN, Close(i, again)
      PROVE  DepthIsFrames' /\ ThrownAtDepth1'
  <2>1. /\ Alive(i) /\ img' = [img EXCEPT ![i] = WithoutRef(i)] /\ UNCHANGED stack
        /\ mode' = "run" /\ (Running(i) => img[i].refs > 1)
    BY <1>4 DEF Close
  <2>2. img[i] \in Image
    BY <2>1, ImageFacts
  <2>3. \/ WithoutRef(i) = Free /\ ~Running(i)
        \/ WithoutRef(i) # Free /\ WithoutRef(i).tx = img[i].tx
    <3>1. CASE img[i].refs > 1
      <4>1. img[i].refs - 1 \in Nat
        BY <2>2, <3>1 DEF Image
      <4>2. WithoutRef(i) \in Image /\ WithoutRef(i).tx = img[i].tx
        BY <2>2, <3>1, <4>1 DEF WithoutRef, Image
      <4> QED
        BY <4>2, FreeAssumption
    <3> QED
      BY <2>1, <3>1 DEF WithoutRef
  <2>4. /\ img'[i] = WithoutRef(i)
        /\ \A j \in ImageIds : j # i => img'[j] = img[j]
        /\ \A j \in ImageIds : img[j] = Free => ~Running(j)
    BY <2>1 DEF TypeOK, DepthIsFrames, Alive
  <2>5. DepthIsFrames'
    BY <2>1, <2>3, <2>4, DepthKept DEF Alive
  <2> QED
    BY <2>1, <2>5 DEF ThrownAtDepth1, Thrown
<1>5. ASSUME NEW i \in ImageIds, Call(i) PROVE DepthIsFrames' /\ ThrownAtDepth1'
  <2>1. PICK tabs \in Tabs : CallEffect(i, tabs)
    BY <1>5, CallShape
  <2> QED
    BY <2>1, CallDepth
<1>6. ASSUME NEW i \in ImageIds, TxBegin(i) PROVE DepthIsFrames' /\ ThrownAtDepth1'
  <2> DEFINE frame == [kind |-> "tx", db |-> i, entry |-> img[i].tabs]
  <2>1. img[i] \in Image /\ Alive(i) /\ mode' = "run"
    BY <1>6, ImageFacts DEF TxBegin
  <2>2. frame \in TxFrame \cup GuardFrame /\ stack' = Append(stack, frame)
    BY <1>6, <2>1 DEF TxBegin, TxFrame, Image
  <2>3. img'[i].tx = img[i].tx + 1 /\ \A j \in ImageIds : j # i => img'[j] = img[j]
    BY <1>6, <2>1 DEF TxBegin, TypeOK, Image
  <2>4. \A j \in ImageIds : IsTxOf(frame, j) <=> j = i
    BY DEF IsTxOf
  <2> HIDE DEF frame
  <2>5. \A j \in ImageIds :
           Cardinality(FramesOf(j)') = IF j = i THEN Cardinality(FramesOf(j)) + 1
                                       ELSE Cardinality(FramesOf(j))
    BY <2>2, <2>4, FramesPushed
  <2>6. \A j \in ImageIds : ~Alive(j) => j # i /\ Cardinality(FramesOf(j)) = 0
    BY <2>1, NoFrames DEF DepthIsFrames
  <2>7. img'[i] # Free
    BY <1>6, <2>1, InsideKeeps DEF Inside, SameImages
  <2>8. DepthIsFrames'
    BY <1>0, <2>1, <2>3, <2>5, <2>6, <2>7, DepthFromCards DEF DepthIsFrames, Alive
  <2> QED
    BY <2>1, <2>8 DEF ThrownAtDepth1, Thrown
<1>7. ASSUME stack # <<>>, Top.kind = "tx", stack' = Popped, img'[Top.db].tx = img[Top.db].tx - 1,
             \A j \in ImageIds : j # Top.db => img'[j] = img[j], SameImages,
             mode' \notin Thrown \/ MayThrow \/ mode \in Thrown
      PROVE  DepthIsFrames' /\ ThrownAtDepth1'
  <2>1. Top.db \in ImageIds /\ Alive(Top.db) /\ img[Top.db] \in Image
    BY <1>7, TopAlive DEF TypeInv
  <2>2. \A j \in ImageIds : IsTxOf(Top, j) <=> j = Top.db
    BY <1>7 DEF IsTxOf
  <2>3. \A j \in ImageIds :
           Cardinality(FramesOf(j)') = IF j = Top.db THEN Cardinality(FramesOf(j)) - 1
                                       ELSE Cardinality(FramesOf(j))
    BY <1>7, <2>2, FramesPopped
  <2>4. \A j \in ImageIds : ~Alive(j) => j # Top.db /\ Cardinality(FramesOf(j)) = 0
    BY <2>1, NoFrames DEF DepthIsFrames
  <2>5. DepthIsFrames'
    BY <1>7, <1>0, <2>1, <2>3, <2>4, DepthFromCards DEF DepthIsFrames, Alive, SameImages
  <2>6. img[Top.db].tx \in Int
    BY <2>1 DEF Image
  <2>7. ThrownAtDepth1'
    <3> SUFFICES ASSUME mode' \in Thrown, NEW j \in ImageIds, img'[j] # Free PROVE img'[j].tx <= 1
      BY DEF ThrownAtDepth1, Alive
    <3>1. Alive(j) /\ img[j].tx <= 1
      BY <1>7, MayThrowFacts DEF SameImages, ThrownAtDepth1
    <3> QED
      BY <1>7, <2>6, <3>1
  <2> QED
    BY <2>5, <2>7
<1>8. CASE TxEnd
  <2> DEFINE i == Top.db
             snap == IF img[i].tx - 1 = 0 THEN NoTabs ELSE img[i].snap
  <2>1. i \in ImageIds /\ img[i] \in Image
    BY <1>8, TopAlive DEF TxEnd, TypeInv
  <2>2. img' = [img EXCEPT ![i] = [img[i] EXCEPT !.tx = img[i].tx - 1, !.snap = snap]]
    BY <1>8 DEF TxEnd
  <2>3. img'[i].tx = img[i].tx - 1 /\ \A j \in ImageIds : j # i => img'[j] = img[j]
    <3> HIDE DEF i, snap
    <3> QED
      BY <2>1, <2>2 DEF TypeOK, Image
  <2>4. SameImages /\ (mode' \notin Thrown \/ MayThrow)
    <3>1. SameImages
      BY <1>8, InsideKeeps DEF Inside
    <3>2. mode = "run" /\ (UNCHANGED mode \/ \E im, dk : DbSave(im, dk))
      BY <1>8 DEF TxEnd
    <3> QED
      BY <3>1, <3>2, SaveThrows DEF Thrown
  <2> QED
    BY <1>7, <1>8, <2>3, <2>4 DEF TxEnd
<1>9. CASE TxAbort
  <2> DEFINE i == Top.db
  <2>1. i \in ImageIds /\ Alive(i) /\ img[i] \in Image
    BY <1>9, TopAlive DEF TxAbort, TypeInv
  <2>2. img[i].tx = 1
    <3>1. Len(stack) \in FramesOf(i)
      BY <1>9, PoppedFacts DEF TxAbort, TypeOK, FramesOf, IsTxOf, Top
    <3>2. Cardinality(FramesOf(i)) # 0 /\ Cardinality(FramesOf(i)) \in Nat
      BY <3>1, FramesFinite, FS_EmptySet
    <3>3. img[i].tx <= 1 /\ img[i].tx = Cardinality(FramesOf(i))
      BY <1>9, <2>1 DEF TxAbort, ThrownAtDepth1, DepthIsFrames
    <3> QED
      BY <3>2, <3>3
  <2>3. img' = [img EXCEPT ![i] =
                  [img[i] EXCEPT !.tabs = img[i].snap, !.snap = NoTabs, !.tx = 0]]
    BY <1>9 DEF TxAbort
  <2>4. img'[i].tx = 0 /\ \A j \in ImageIds : j # i => img'[j] = img[j]
    <3> HIDE DEF i
    <3> QED
      BY <2>1, <2>3 DEF TypeOK, Image
  <2>5. SameImages
    BY <1>9, InsideKeeps DEF Inside
  <2> QED
    BY <1>7, <1>9, <2>2, <2>4, <2>5 DEF TxAbort
<1>11. ASSUME NEW frame \in GuardFrame, UNCHANGED img,
              \/ stack' = Append(stack, frame)
              \/ stack # <<>> /\ Top.kind # "tx" /\ stack' = Popped,
              UNCHANGED mode \/ mode' \notin Thrown
       PROVE  DepthIsFrames' /\ ThrownAtDepth1'
  <2>1. \A j : ~IsTxOf(frame, j) /\ (Top.kind # "tx" => ~IsTxOf(Top, j))
    BY DEF IsTxOf, GuardFrame
  <2>2. \A j \in ImageIds : Cardinality(FramesOf(j)') = Cardinality(FramesOf(j))
    BY <1>11, <2>1, FramesPopped, FramesPushed
  <2>3. \A j \in ImageIds : ~Alive(j) => Cardinality(FramesOf(j)) = 0
    BY NoFrames DEF DepthIsFrames
  <2> QED
    BY <1>0, <1>11, <2>2, <2>3, DepthFromCards DEF DepthIsFrames, ThrownAtDepth1, Alive
<1>12. ASSUME NEW kind \in {"try", "loop"}, GuardBegin(kind) PROVE DepthIsFrames' /\ ThrownAtDepth1'
  BY <1>11, <1>12 DEF GuardBegin, GuardFrame
<1>13. CASE GuardEnd \/ Catch
  <2>1. [kind |-> "try"] \in GuardFrame
    BY DEF GuardFrame
  <2> QED
    BY <1>11, <1>13, <2>1 DEF GuardEnd, Catch, Thrown
<1>14. ASSUME UNCHANGED <<img, stack>>, UNCHANGED mode \/ MayThrow
       PROVE  DepthIsFrames' /\ ThrownAtDepth1'
  <2>1. DepthIsFrames'
    BY <1>14, DepthKept DEF DepthIsFrames, Alive
  <2>2. ThrownAtDepth1'
    BY <1>14, MayThrowFacts DEF ThrownAtDepth1, Alive
  <2> QED
    BY <2>1, <2>2
<1>15. CASE UNCHANGED vars \/ \E what \in Thrown : Throw(what)
  BY <1>14, <1>15 DEF vars, Throw
<1>16. CASE ProcessEnd
  <2>1. /\ \A j \in ImageIds : img'[j] = Free
        /\ mode' = "run" /\ stack' = <<>>
    BY <1>16 DEF ProcessEnd
  <2>2. \A j \in ImageIds : ~Running(j)'
    BY <2>1 DEF Running, FramesOf
  <2> QED
    BY <2>1, <2>2 DEF DepthIsFrames, ThrownAtDepth1, Alive, Thrown
<1> QED
  BY <1>2, <1>3, <1>4, <1>5, <1>6, <1>8, <1>9, <1>12, <1>13, <1>15, <1>16, StepKinds DEF Inside

LEMMA DepthInit == Init => DepthInv
<1> SUFFICES ASSUME Init PROVE DepthInv
  OBVIOUS
<1>1. /\ \A i \in ImageIds : img[i] = Free /\ open[i] + kept[i] = 0
      /\ stack = <<>> /\ mode = "run"
  BY DEF Init, Fresh
<1>2. \A i \in ImageIds : ~Running(i)
  BY <1>1 DEF Running, FramesOf
<1> QED
  BY <1>1, <1>2, TypeInit DEF DepthInv, LaterUnused, DepthIsFrames, ThrownAtDepth1, Alive, Thrown

\* The depth 거래 keeps is the number of its frames, in every program that does
\* not throw out of nested 거래.
THEOREM DepthCounted ==
    ASSUME "nested" \notin Failures
    PROVE  Spec => []DepthIsFrames
<1>1. DepthInv /\ [Next]_vars => DepthInv'
  BY DepthStep
<1>2. DepthInv => DepthIsFrames
  BY DEF DepthInv
<1> QED
  BY <1>1, <1>2, DepthInit, PTL DEF Spec

-----------------------------------------------------------------------------
(* Rollback.  The copy an image keeps is what its lowest frame saw on entry. *)

IsLowest(k) ==
    stack[k].kind = "tx" /\ \A m \in 1 .. k - 1 : ~IsTxOf(stack[m], stack[k].db)

EntriesAreCopies ==
    \A k \in 1 .. Len(stack) : IsLowest(k) => stack[k].entry = img[stack[k].db].snap

CopyInv == DepthInv /\ EntriesAreCopies

\* Steps that push no 거래 frame and keep the copy of every image a frame names.
LEMMA CopiesKept ==
    ASSUME TypeOK, EntriesAreCopies,
           \/ UNCHANGED stack
           \/ stack # <<>> /\ stack' = Popped
           \/ \E kind \in {"try", "loop"} : stack' = Append(stack, [kind |-> kind]),
           \A j \in ImageIds : Running(j)' => img'[j].snap = img[j].snap
    PROVE  EntriesAreCopies'
<1> SUFFICES ASSUME NEW k \in 1 .. Len(stack'), IsLowest(k)'
             PROVE  stack'[k].entry = img'[stack'[k].db].snap
  BY DEF EntriesAreCopies
<1>1. Len(stack) \in Nat
  BY DEF TypeOK
<1>2. k \in 1 .. Len(stack) /\ \A m \in 1 .. k : stack'[m] = stack[m]
  <2>1. CASE UNCHANGED stack
    BY <1>1, <2>1
  <2>2. CASE stack # <<>> /\ stack' = Popped
    <3>1. Len(Popped) = Len(stack) - 1 /\ \A m \in 1 .. Len(Popped) : Popped[m] = stack[m]
      BY <2>2, PoppedFacts DEF TypeOK
    <3> QED
      BY <1>1, <2>2, <3>1
  <2>3. ASSUME NEW kind \in {"try", "loop"}, stack' = Append(stack, [kind |-> kind])
        PROVE  k \in 1 .. Len(stack) /\ \A m \in 1 .. k : stack'[m] = stack[m]
    <3>1. [kind |-> kind] \in TxFrame \cup GuardFrame
      BY DEF GuardFrame
    <3>2. /\ Len(stack') = Len(stack) + 1 /\ stack'[Len(stack) + 1] = [kind |-> kind]
          /\ \A m \in 1 .. Len(stack) : stack'[m] = stack[m]
      BY <2>3, <3>1, PushedFacts DEF TypeOK
    <3>3. k # Len(stack) + 1
      BY <3>2 DEF IsLowest
    <3> QED
      BY <1>1, <3>2, <3>3
  <2> QED
    BY <2>1, <2>2, <2>3
<1>3. IsLowest(k) /\ stack'[k] = stack[k] /\ k \in Nat
  BY <1>1, <1>2 DEF IsLowest
<1>4. stack[k].entry = img[stack[k].db].snap
  BY <1>2, <1>3 DEF EntriesAreCopies
<1>5. stack[k].db \in ImageIds
  BY <1>2, <1>3, FrameFacts, ElementType DEF TypeOK, IsLowest
<1>6. Running(stack[k].db)'
  BY <1>3 DEF Running, FramesOf, IsTxOf, IsLowest
<1> QED
  BY <1>3, <1>4, <1>5, <1>6

\* At depth 0 no frame of the image is left.
LEMMA StoppedByCount ==
    ASSUME DepthIsFrames', TypeOK', NEW i \in ImageIds, img'[i] # Free, img'[i].tx = 0
    PROVE  ~Running(i)'
<1>1. Cardinality(FramesOf(i)') = 0
  BY DEF DepthIsFrames, Alive
<1>2. IsFiniteSet(1 .. Len(stack'))
  BY FS_Interval DEF TypeOK
<1>3. IsFiniteSet(FramesOf(i)')
  BY <1>2, FS_Subset DEF FramesOf
<1> QED
  BY <1>1, <1>3, FS_EmptySet DEF Running

LEMMA CopyStep ==
    ASSUME "nested" \notin Failures
    PROVE  CopyInv /\ [Next]_vars => CopyInv'
<1> SUFFICES ASSUME TypeInv, TypeOK, DepthInv, DepthIsFrames, EntriesAreCopies, [Next]_vars
             PROVE  EntriesAreCopies'
  BY DepthStep DEF CopyInv, DepthInv, TypeInv
<1>0. DepthIsFrames' /\ TypeOK'
  BY DepthStep DEF DepthInv, TypeInv
<1>1. ASSUME NEW i \in ImageIds, NEW im, img' = [img EXCEPT ![i] = im], UNCHANGED stack,
             Running(i) => im.snap = img[i].snap
      PROVE  EntriesAreCopies'
  <2>1. \A j \in ImageIds : Running(j)' => Running(j)
    BY <1>1 DEF Running, FramesOf
  <2>2. \A j \in ImageIds : Running(j)' => img'[j].snap = img[j].snap
    BY <1>1, <2>1 DEF TypeOK
  <2> QED
    BY <1>1, <2>2, CopiesKept
<1>2. ASSUME NEW p \in Paths, CanOpen(p), Running(OpenId(p))
      PROVE  OpenImage(p).snap = img[OpenId(p)].snap
  <2>1. OpenId(p) \in ImageIds /\ Alive(OpenId(p)) /\ img[OpenId(p)] \in Image
    BY <1>2, ImageFacts DEF CanOpen, DepthIsFrames
  <2>2. OpenImage(p) = [img[OpenId(p)] EXCEPT !.refs = @ + 1]
    <3>1. ~(OpenId(p) = dbseq + 1)
      BY <2>1, DatabaseAssumption DEF DepthInv, LaterUnused, TypeOK
    <3> QED
      BY <1>2, <3>1, OpenIdFacts
  <2> QED
    BY <2>1, <2>2 DEF Image
<1>3. ASSUME NEW p \in Paths, Open(p) PROVE EntriesAreCopies'
  BY <1>1, <1>2, <1>3 DEF Open, CanOpen
<1>4. ASSUME NEW p \in Paths, NEW n \in Names, OpenStore(p, n) PROVE EntriesAreCopies'
  <2>1. CanOpen(p) /\ OpenImage(p) \in Image /\ OpenId(p) \in ImageIds
    BY <1>4, OpenType DEF OpenStore
  <2>2. WithStore(OpenImage(p), n).snap = OpenImage(p).snap
    BY <2>1 DEF WithStore, Image
  <2>3. img' = [img EXCEPT ![OpenId(p)] = WithStore(OpenImage(p), n)] /\ UNCHANGED stack
    BY <1>4 DEF OpenStore
  <2> QED
    BY <1>1, <1>2, <2>1, <2>2, <2>3
<1>5. ASSUME NEW i \in ImageIds, NEW again \in BOOLEAN, Close(i, again) PROVE EntriesAreCopies'
  <2>1. img[i] \in Image /\ (Running(i) => img[i].refs > 1)
    BY <1>5, ImageFacts DEF Close
  <2>2. Running(i) => WithoutRef(i).snap = img[i].snap
    BY <2>1 DEF WithoutRef, Image
  <2> QED
    BY <1>1, <1>5, <2>2 DEF Close
<1>6. ASSUME NEW i \in ImageIds, Call(i) PROVE EntriesAreCopies'
  <2>1. PICK tabs \in Tabs : CallEffect(i, tabs)
    BY <1>6, CallShape
  <2>2. img[i] \in Image
    BY <2>1, ImageFacts DEF CallEffect
  <2>3. [img[i] EXCEPT !.tabs = tabs].snap = img[i].snap
    BY <2>2 DEF Image
  <2> QED
    BY <1>1, <2>1, <2>3 DEF CallEffect
<1>7. ASSUME NEW i \in ImageIds, TxBegin(i) PROVE EntriesAreCopies'
  <2> DEFINE frame == [kind |-> "tx", db |-> i, entry |-> img[i].tabs]
  <2> SUFFICES ASSUME NEW k \in 1 .. Len(stack'), IsLowest(k)'
               PROVE  stack'[k].entry = img'[stack'[k].db].snap
    BY DEF EntriesAreCopies
  <2>1. img[i] \in Image /\ Alive(i)
    BY <1>7, ImageFacts DEF TxBegin
  <2>2. frame \in TxFrame \cup GuardFrame /\ stack' = Append(stack, frame)
    BY <1>7, <2>1 DEF TxBegin, TxFrame, Image
  <2>3. /\ Len(stack') = Len(stack) + 1 /\ Len(stack) \in Nat
        /\ stack'[Len(stack) + 1] = frame
        /\ \A m \in 1 .. Len(stack) : stack'[m] = stack[m]
    <3> HIDE DEF frame
    <3> QED
      BY <2>2, PushedFacts DEF TypeOK
  <2>4. img[i].tx = 0 <=> ~Running(i)
    BY <2>1, NoFrames DEF DepthIsFrames
  <2>5. /\ img'[i].snap = IF img[i].tx = 0 THEN img[i].tabs ELSE img[i].snap
        /\ \A j \in ImageIds : j # i => img'[j] = img[j]
    BY <1>7, <2>1 DEF TxBegin, TypeOK, Image
  <2>6. CASE k = Len(stack) + 1
    <3>1. stack'[k].db = i /\ stack'[k].entry = img[i].tabs
      BY <2>3, <2>6
    <3>2. ~Running(i)
      BY <2>3, <2>6, <3>1 DEF IsLowest, Running, FramesOf
    <3> QED
      BY <2>4, <2>5, <3>1, <3>2
  <2>7. CASE k \in 1 .. Len(stack)
    <3>1. stack'[k] = stack[k] /\ IsLowest(k)
      BY <2>3, <2>7 DEF IsLowest
    <3>2. stack[k].entry = img[stack[k].db].snap /\ Running(stack[k].db)
      BY <2>7, <3>1 DEF EntriesAreCopies, IsLowest, Running, FramesOf, IsTxOf
    <3>3. stack[k].db \in ImageIds
      BY <2>7, <3>1, FrameFacts, ElementType DEF TypeOK, IsLowest
    <3> QED
      BY <2>4, <2>5, <3>1, <3>2, <3>3
  <2> QED
    BY <2>3, <2>6, <2>7
<1>8. CASE TxEnd
  <2> DEFINE i == Top.db
             snap == IF img[i].tx - 1 = 0 THEN NoTabs ELSE img[i].snap
  <2>1. i \in ImageIds /\ img[i] \in Image
    BY <1>8, TopAlive DEF TxEnd, TypeInv
  <2>2. img' = [img EXCEPT ![i] = [img[i] EXCEPT !.tx = img[i].tx - 1, !.snap = snap]]
    BY <1>8 DEF TxEnd
  <2>3. /\ img'[i].snap = snap /\ img'[i].tx = img[i].tx - 1
        /\ \A j \in ImageIds : j # i => img'[j] = img[j]
    <3> HIDE DEF i, snap
    <3> QED
      BY <2>1, <2>2 DEF TypeOK, Image
  <2>4. img'[i] # Free
    BY <1>8, TopAlive, InsideKeeps DEF TxEnd, Inside, SameImages, TypeInv
  <2>5. ASSUME NEW j \in ImageIds, j = i, Running(j)' PROVE snap = img[i].snap
    <3>1. img[i].tx - 1 # 0
      <4> HIDE DEF i, snap
      <4> QED
        BY <1>0, <2>1, <2>3, <2>4, <2>5, StoppedByCount
    <3> QED
      BY <3>1
  <2>6. \A j \in ImageIds : Running(j)' => img'[j].snap = img[j].snap
    <3> HIDE DEF i, snap
    <3> QED
      BY <2>3, <2>5
  <2> QED
    BY <1>8, <2>6, CopiesKept DEF TxEnd
<1>9. CASE TxAbort
  <2> DEFINE i == Top.db
  <2>1. i \in ImageIds /\ img[i] \in Image
    BY <1>9, TopAlive DEF TxAbort, TypeInv
  <2>2. img' = [img EXCEPT ![i] =
                  [img[i] EXCEPT !.tabs = img[i].snap, !.snap = NoTabs, !.tx = 0]]
    BY <1>9 DEF TxAbort
  <2>3. img'[i].tx = 0 /\ \A j \in ImageIds : j # i => img'[j] = img[j]
    <3> HIDE DEF i
    <3> QED
      BY <2>1, <2>2 DEF TypeOK, Image
  <2>4. img'[i] # Free
    BY <1>9, TopAlive, InsideKeeps DEF TxAbort, Inside, SameImages, TypeInv
  <2>5. \A j \in ImageIds : Running(j)' => img'[j].snap = img[j].snap
    <3> HIDE DEF i
    <3> QED
      BY <1>0, <2>1, <2>3, <2>4, StoppedByCount
  <2> QED
    BY <1>9, <2>5, CopiesKept DEF TxAbort
<1>10. ASSUME NEW kind \in {"try", "loop"}, GuardBegin(kind) PROVE EntriesAreCopies'
  BY <1>10, CopiesKept DEF GuardBegin
<1>11. CASE GuardEnd \/ Catch \/ UNCHANGED vars \/ \E what \in Thrown : Throw(what)
  BY <1>11, CopiesKept DEF GuardEnd, Catch, vars, Throw
<1>12. CASE ProcessEnd
  BY <1>12 DEF ProcessEnd, EntriesAreCopies
<1> QED
  BY <1>3, <1>4, <1>5, <1>6, <1>7, <1>8, <1>9, <1>10, <1>11, <1>12, StepKinds DEF Inside

\* An outermost 거래 that throws puts back the tables it saw on entry, in every
\* program that does not throw out of nested 거래.
THEOREM RollbackIsExact ==
    ASSUME "nested" \notin Failures
    PROVE  Spec => RollbackRestores
<1> DEFINE Restores ==
      stack # <<>> /\ Top.kind = "tx" /\ {mode, mode'} \subseteq Thrown /\ stack' = Popped
        /\ (\A k \in 1 .. Len(Popped) : ~IsTxOf(Popped[k], Top.db))
            => img'[Top.db] # Free /\ img'[Top.db].tabs = Top.entry
<1>1. Init => CopyInv
  BY DepthInit DEF CopyInv, EntriesAreCopies, Init, Fresh
<1>2. CopyInv /\ [Next]_vars => CopyInv'
  BY CopyStep
<1>3. CopyInv /\ [Next]_vars => Restores
  <2> SUFFICES ASSUME CopyInv, TypeInv, TypeOK, [Next]_vars, {mode, mode'} \subseteq Thrown, stack # <<>>,
                      Top.kind = "tx", stack' = Popped,
                      \A k \in 1 .. Len(Popped) : ~IsTxOf(Popped[k], Top.db)
               PROVE  img'[Top.db] # Free /\ img'[Top.db].tabs = Top.entry
    BY DEF CopyInv, DepthInv, TypeInv
  <2> DEFINE i == Top.db
  <2>1. /\ Len(Popped) = Len(stack) - 1 /\ Len(stack) \in Nat \ {0}
        /\ \A k \in 1 .. Len(Popped) : Popped[k] = stack[k]
    BY PoppedFacts DEF TypeOK
  <2>2. i \in ImageIds /\ Alive(i) /\ img[i] \in Image
    BY TopAlive DEF TypeInv
  <2>3. TxAbort
    <3>1. Popped # stack
      BY <2>1
    <3> QED
      BY <3>1 DEF Next, Open, OpenStore, Close, Call, Exec, Put, Fix, Remove, StoreCall, TxBegin,
                  Thrown, TxEnd, GuardBegin, GuardEnd, Catch, Throw, Stop, ProcessEnd, vars
  <2>4. Top.entry = img[i].snap
    <3>1. IsLowest(Len(stack))
      BY <2>1 DEF IsLowest, Top
    <3> QED
      BY <2>1, <3>1 DEF CopyInv, EntriesAreCopies, Top
  <2>5. img'[i].tabs = img[i].snap
    <3>1. img' = [img EXCEPT ![i] =
                    [img[i] EXCEPT !.tabs = img[i].snap, !.snap = NoTabs, !.tx = 0]]
      BY <2>3 DEF TxAbort
    <3> HIDE DEF i
    <3> QED
      BY <2>2, <3>1 DEF TypeOK, Image
  <2>6. img'[i] # Free
    BY <2>2, <2>3, InsideKeeps DEF Inside, SameImages
  <2> QED
    BY <2>4, <2>5, <2>6
<1> QED
  BY <1>1, <1>2, <1>3, PTL DEF Spec, RollbackRestores

-----------------------------------------------------------------------------
(* Commit.  A file is written only for an image at depth 0, which has no     *)
(* frame, and no other image has the file.                                   *)

LEMMA SaveWrites ==
    ASSUME NEW im \in Image, NEW dk \in Disks, DbSave(im, dk)
    PROVE  /\ \A f \in Files : disk'[f] # dk[f] =>
                im.path # Memory /\ FileOf[im.path] = f /\ im.tx = 0
           /\ "save" \notin Failures /\ mode' # "dead" =>
                /\ mode' = "run"
                /\ im.path # Memory => disk'[FileOf[im.path]] =
                     IF im.tx = 0 THEN im.tabs ELSE dk[FileOf[im.path]]
<1>1. im.path = Memory \/ FileOf[im.path] \in Files
  BY DatabaseAssumption DEF Image
<1>2. CASE im.path = Memory \/ im.tx # 0
  BY <1>2 DEF DbSave
<1>3. CASE im.path # Memory /\ im.tx = 0
  <2>1. \/ disk' = [dk EXCEPT ![FileOf[im.path]] = im.tabs] /\ mode' = "run"
        \/ "save" \in Failures /\ disk' = dk
        \/ mode' = "dead" /\ \E part : disk' = [dk EXCEPT ![FileOf[im.path]] = part]
    BY <1>3 DEF DbSave
  <2> QED
    BY <1>1, <1>3, <2>1 DEF Disks
<1> QED
  BY <1>2, <1>3

LEMMA CreatedWrites ==
    ASSUME TypeOK, NEW p \in Paths, CanOpen(p)
    PROVE  /\ \A f \in Files : Created(p)[f] # disk[f] =>
                /\ p # Memory /\ Opened(p) = {} /\ FileOf[p] = f
                /\ OpenImage(p) = NewImage(p)
           /\ p # Memory /\ Opened(p) = {} => Created(p)[FileOf[p]] = Content(p)
BY DatabaseAssumption DEF Created, Content, OpenImage, TypeOK, Disks

Written(f) ==
    \/ stack' = <<>>
    \/ \E j \in ImageIds :
         img'[j] # Free /\ img'[j].path # Memory /\ FileOf[img'[j].path] = f /\ img'[j].tx = 0

LEMMA DiskWrites ==
    ASSUME TypeInv, [Next]_vars, NEW f \in Files, disk'[f] # disk[f]
    PROVE  Written(f)
<1>0. TypeOK /\ FramesAlive /\ disk \in Disks
  BY DEF TypeInv, TypeOK
<1>1. ASSUME NEW j \in ImageIds, NEW im \in Image, img' = [img EXCEPT ![j] = im],
             im.path # Memory, FileOf[im.path] = f, im.tx = 0
      PROVE  Written(f)
  BY <1>0, <1>1, FreeAssumption DEF Written, TypeOK
<1>2. ASSUME NEW p \in Paths, CanOpen(p), NEW im \in Image,
             img' = [img EXCEPT ![OpenId(p)] = im],
             im.path = OpenImage(p).path, im.tx = OpenImage(p).tx, Created(p)[f] # disk[f]
      PROVE  Written(f)
  <2>1. p # Memory /\ FileOf[p] = f /\ OpenImage(p) = NewImage(p)
    BY <1>0, <1>2, CreatedWrites
  <2>2. im.path = p /\ im.tx = 0
    BY <1>2, <2>1 DEF NewImage
  <2> QED
    BY <1>1, <1>2, <2>1, <2>2 DEF CanOpen
<1>3. ASSUME NEW p \in Paths, Open(p) PROVE Written(f)
  BY <1>0, <1>2, <1>3, OpenType DEF Open
<1>4. ASSUME NEW p \in Paths, NEW n \in Names, OpenStore(p, n) PROVE Written(f)
  <2> DEFINE im == WithStore(OpenImage(p), n)
  <2>1. CanOpen(p) /\ OpenImage(p) \in Image /\ OpenId(p) \in ImageIds /\ Created(p) \in Disks
    BY <1>0, <1>4, OpenType DEF OpenStore
  <2>2. im \in Image /\ im.path = OpenImage(p).path /\ im.tx = OpenImage(p).tx
    BY <2>1, WithStoreType DEF WithStore, Image
  <2>3. img' = [img EXCEPT ![OpenId(p)] = im] /\ (DbSave(im, Created(p)) \/ disk' = Created(p))
    BY <1>4 DEF OpenStore
  <2> HIDE DEF im
  <2>4. CASE Created(p)[f] # disk[f]
    BY <1>2, <2>1, <2>2, <2>3, <2>4
  <2>5. CASE Created(p)[f] = disk[f]
    <3>1. disk'[f] # Created(p)[f]
      BY <2>5
    <3>2. im.path # Memory /\ FileOf[im.path] = f /\ im.tx = 0
      BY <2>1, <2>2, <2>3, <3>1, SaveWrites
    <3> QED
      BY <1>1, <2>1, <2>2, <2>3, <3>2
  <2> QED
    BY <2>4, <2>5
<1>5. ASSUME NEW i \in ImageIds, Call(i) PROVE Written(f)
  <2>1. PICK tabs \in Tabs : CallEffect(i, tabs)
    BY <1>0, <1>5, CallShape
  <2> DEFINE im == [img[i] EXCEPT !.tabs = tabs]
  <2>2. im \in Image
    BY <1>0, <2>1, ImageFacts DEF CallEffect, Image
  <2>3. img' = [img EXCEPT ![i] = im] /\ DbSave(im, disk)
    BY <2>1 DEF CallEffect
  <2> HIDE DEF im
  <2> QED
    BY <1>0, <1>1, <2>2, <2>3, SaveWrites
<1>6. CASE TxEnd
  <2> DEFINE i == Top.db
             n == img[i].tx - 1
             snap == IF n = 0 THEN NoTabs ELSE img[i].snap
             im == [img[i] EXCEPT !.tx = n, !.snap = snap]
  <2>1. i \in ImageIds /\ img[i] \in Image
    BY <1>0, <1>6, TopAlive DEF TxEnd
  <2>2. im \in Image
    <3>1. n \in Int /\ snap \in Tabs
      BY <2>1, NoTabsType DEF Image
    <3> HIDE DEF n, snap
    <3> QED
      BY <2>1, <3>1, ImageUpdate DEF Image
  <2>3. img' = [img EXCEPT ![i] = im] /\ (DbSave(im, disk) \/ disk' = disk)
    BY <1>6 DEF TxEnd
  <2>4. im.path # Memory /\ FileOf[im.path] = f /\ im.tx = 0
    <3> HIDE DEF i, im
    <3> QED
      BY <1>0, <2>2, <2>3, SaveWrites
  <2> HIDE DEF i, im
  <2> QED
    BY <1>1, <2>1, <2>2, <2>3, <2>4
<1>7. CASE ProcessEnd
  BY <1>7 DEF ProcessEnd, Written
<1>8. CASE \/ \E i \in ImageIds, again \in BOOLEAN : Close(i, again)
           \/ \E i \in ImageIds : TxBegin(i)
           \/ TxAbort \/ GuardEnd \/ Catch \/ UNCHANGED vars
           \/ \E kind \in {"try", "loop"} : GuardBegin(kind)
           \/ \E what \in Thrown : Throw(what)
  BY <1>8 DEF Close, TxBegin, TxAbort, GuardEnd, Catch, vars, GuardBegin, Throw
<1> QED
  BY <1>3, <1>4, <1>5, <1>6, <1>7, <1>8, StepKinds DEF Inside

LEMMA OneFileNext ==
    ASSUME OneName, PathInv'
    PROVE  OneImagePerFile'
<1>1. \A i \in ImageIds : img'[i] # Free => img'[i].path \in Paths
  BY DEF PathInv, TypeInv, TypeOK, Image
<1> QED
  BY <1>1 DEF OneName, PathInv, OneImagePerPath, OneImagePerFile, Alive

\* What a 거래 writes reaches the file only when it has returned.
THEOREM NothingIsEarly ==
    ASSUME OneName, "nested" \notin Failures
    PROVE  Spec => NothingEarly
<1> DEFINE Early ==
      \A f \in Files : disk'[f] # disk[f] =>
        \A k \in 1 .. Len(stack') :
            LET i == stack'[k].db IN
            stack'[k].kind = "tx" /\ img'[i] # Free =>
                img'[i].path = Memory \/ FileOf[img'[i].path] # f
<1>1. Init => DepthInv /\ PathInv
  BY DepthInit, PathInit
<1>2. DepthInv /\ PathInv /\ [Next]_vars => DepthInv' /\ PathInv'
  BY DepthStep, PathStep
<1>3. DepthInv /\ PathInv /\ [Next]_vars => Early
  <2> SUFFICES ASSUME DepthInv, PathInv, [Next]_vars, NEW f \in Files, disk'[f] # disk[f],
                      NEW k \in 1 .. Len(stack'), stack'[k].kind = "tx",
                      img'[stack'[k].db] # Free, img'[stack'[k].db].path # Memory,
                      FileOf[img'[stack'[k].db].path] = f
               PROVE  FALSE
    OBVIOUS
  <2>1. DepthIsFrames' /\ TypeOK' /\ OneImagePerFile' /\ TypeInv
    BY <1>2, OneFileNext DEF DepthInv, TypeInv
  <2>2. PICK i \in ImageIds : i = stack'[k].db
    <3>1. stack'[k] \in TxFrame \cup GuardFrame
      BY <2>1, ElementType DEF TypeOK
    <3> QED
      BY <3>1, FrameFacts
  <2>3. Running(i)'
    BY <2>2 DEF Running, FramesOf, IsTxOf
  <2>4. stack' # <<>>
    BY DEF TypeOK
  <2>5. PICK j \in ImageIds : /\ img'[j] # Free /\ img'[j].path # Memory
                              /\ FileOf[img'[j].path] = f /\ img'[j].tx = 0
    BY <2>1, <2>4, DiskWrites DEF Written
  <2>6. j = i
    BY <2>1, <2>2, <2>5 DEF OneImagePerFile, Alive
  <2> QED
    BY <2>1, <2>3, <2>5, <2>6, StoppedByCount
<1> QED
  BY <1>1, <1>2, <1>3, PTL DEF Spec, NothingEarly

-----------------------------------------------------------------------------
(* Autocommit.  Without failing saves and half-done statements, the file is  *)
(* what a rollback would give back.                                          *)

CommitInv == DepthInv /\ PathInv /\ FileIsCurrent

Current(im, dk) ==
    im.path # Memory => dk[FileOf[im.path]] = IF im.tx = 0 THEN im.tabs ELSE im.snap

Agree == \A i \in ImageIds : Alive(i) => Current(img[i], disk)

LEMMA AgreeIsCurrent ==
    /\ FileIsCurrent <=> (mode # "dead" => Agree)
    /\ FileIsCurrent' <=> (mode' # "dead" => Agree')
BY DEF FileIsCurrent, Agree, Current, Alive

\* Of a process that died nothing moves before the next one starts.
LEMMA DeadEnds ==
    ASSUME mode = "dead", [Next]_vars
    PROVE  Stop \/ UNCHANGED vars
BY DEF Next, Open, OpenStore, Close, Call, Exec, Put, Fix, Remove, StoreCall, TxBegin, TxEnd,
       TxAbort, GuardBegin, GuardEnd, Catch, Throw, Thrown

\* One image changes with its file; the file of no other image is written.
LEMMA CurrentSet ==
    ASSUME TypeOK, Agree, OneImagePerFile', NEW i \in ImageIds, NEW im \in Image,
           img' = [img EXCEPT ![i] = im], Current(im, disk'),
           \A f \in Files : disk'[f] # disk[f] => im.path # Memory /\ FileOf[im.path] = f
    PROVE  Agree'
<1> SUFFICES ASSUME NEW j \in ImageIds, img'[j] # Free, img'[j].path # Memory
             PROVE  Current(img'[j], disk')
  BY DEF Agree, Current, Alive
<1>1. img'[i] = im /\ im # Free /\ \A k \in ImageIds : k # i => img'[k] = img[k]
  BY FreeAssumption DEF TypeOK
<1>2. CASE j # i
  <2>1. img'[j] = img[j] /\ img[j] \in Image /\ Current(img[j], disk)
    BY <1>1, <1>2 DEF Agree, Current, TypeOK, Alive
  <2>2. FileOf[img[j].path] \in Files
    BY <2>1, DatabaseAssumption DEF Image
  <2>3. disk'[FileOf[img[j].path]] = disk[FileOf[img[j].path]]
    BY <1>1, <1>2, <2>1, <2>2 DEF OneImagePerFile, Alive
  <2> QED
    BY <2>1, <2>3 DEF Current
<1> QED
  BY <1>1, <1>2

\* A frame on top counts in the depth of its image.
LEMMA TopCounted ==
    ASSUME TypeOK, FramesAlive, DepthIsFrames, stack # <<>>, Top.kind = "tx"
    PROVE  img[Top.db].tx # 0
<1>1. Top.db \in ImageIds /\ Alive(Top.db)
  BY TopAlive
<1>2. Len(stack) \in FramesOf(Top.db)
  BY PoppedFacts DEF TypeOK, FramesOf, IsTxOf, Top
<1>3. Cardinality(FramesOf(Top.db)) # 0
  BY <1>2, FramesFinite, FS_EmptySet
<1> QED
  BY <1>1, <1>3 DEF DepthIsFrames

LEMMA CurrentStep ==
    ASSUME OneName, {"nested", "save", "statement"} \cap Failures = {}
    PROVE  CommitInv /\ [Next]_vars => CommitInv'
<1> SUFFICES ASSUME TypeOK, TypeInv, DepthInv, DepthIsFrames, PathInv, Agree, [Next]_vars,
                    mode # "dead", mode' # "dead"
             PROVE  Agree'
  <2> SUFFICES ASSUME CommitInv, [Next]_vars, mode' # "dead" PROVE Agree'
    BY DepthStep, PathStep, AgreeIsCurrent DEF CommitInv
  <2>1. CASE mode = "dead"
    <3>1. Stop
      BY <2>1, DeadEnds DEF vars
    <3> QED
      BY <3>1 DEF Stop, ProcessEnd, Agree, Alive
  <2>2. CASE mode # "dead"
    BY <2>2, AgreeIsCurrent DEF CommitInv, DepthInv, TypeInv
  <2> QED
    BY <2>1, <2>2
<1> USE DEF TypeInv
<1>0. /\ OneImagePerFile' /\ disk \in Disks /\ "save" \notin Failures
      /\ "statement" \notin Failures
  BY PathStep, OneFileNext DEF TypeOK
<1>1. ASSUME NEW i \in ImageIds, Alive(i)
      PROVE  img[i] \in Image /\ Current(img[i], disk)
  BY <1>1, ImageFacts DEF Agree, Current
\* The image db_open returns, with the file it leaves.
<1>2. ASSUME NEW p \in Paths, CanOpen(p)
      PROVE  /\ OpenId(p) \in ImageIds /\ OpenImage(p) \in Image /\ Created(p) \in Disks
             /\ Current(OpenImage(p), Created(p))
             /\ \A f \in Files : Created(p)[f] # disk[f] =>
                  OpenImage(p).path # Memory /\ FileOf[OpenImage(p).path] = f
  <2>1. OpenId(p) \in ImageIds /\ OpenImage(p) \in Image /\ Created(p) \in Disks
    BY <1>2, OpenType
  <2>2. CASE /\ p # Memory /\ Alive(OpenId(p)) /\ img[OpenId(p)].path = p
             /\ OpenImage(p) = [img[OpenId(p)] EXCEPT !.refs = @ + 1]
    <3>1. img[OpenId(p)] \in Image /\ Current(img[OpenId(p)], disk)
      BY <1>1, <2>1, <2>2
    <3>2. Opened(p) # {}
      BY <2>1, <2>2 DEF Opened
    <3>3. Created(p) = disk
      BY <3>2 DEF Created
    <3>4. /\ OpenImage(p).path = img[OpenId(p)].path /\ OpenImage(p).tx = img[OpenId(p)].tx
          /\ OpenImage(p).tabs = img[OpenId(p)].tabs /\ OpenImage(p).snap = img[OpenId(p)].snap
      BY <2>2, <3>1 DEF Image
    <3> QED
      BY <2>1, <3>1, <3>3, <3>4 DEF Current
  <2>3. CASE (p = Memory \/ Opened(p) = {}) /\ OpenImage(p) = NewImage(p)
    <3>1. OpenImage(p).path = p /\ OpenImage(p).tx = 0 /\ OpenImage(p).tabs = Content(p)
      BY <2>3 DEF NewImage
    <3> QED
      BY <1>2, <2>1, <2>3, <3>1, CreatedWrites DEF Current
  <2> QED
    BY <1>2, <2>2, <2>3, OpenIdFacts
<1>3. ASSUME NEW p \in Paths, Open(p) PROVE Agree'
  BY <1>0, <1>2, <1>3, CurrentSet DEF Open
\* A save of im, or nothing to save.
<1>4. ASSUME NEW im \in Image, NEW dk \in Disks, DbSave(im, dk),
             im.path # Memory /\ im.tx # 0 => dk[FileOf[im.path]] = im.snap
      PROVE  /\ Current(im, disk')
             /\ \A f \in Files : disk'[f] # dk[f] => im.path # Memory /\ FileOf[im.path] = f
  BY <1>0, <1>4, SaveWrites DEF Current
<1>5. ASSUME NEW p \in Paths, NEW n \in Names, OpenStore(p, n) PROVE Agree'
  <2> DEFINE old == OpenImage(p)
             im == WithStore(old, n)
  <2>1. /\ CanOpen(p) /\ OpenId(p) \in ImageIds /\ old \in Image /\ Created(p) \in Disks
        /\ Current(old, Created(p))
        /\ \A f \in Files : Created(p)[f] # disk[f] => old.path # Memory /\ FileOf[old.path] = f
    BY <1>2, <1>5 DEF OpenStore
  <2>2. im \in Image /\ im.path = old.path /\ im.tx = old.tx /\ im.snap = old.snap
    BY <2>1, WithStoreType DEF WithStore, Image
  <2>3. /\ img' = [img EXCEPT ![OpenId(p)] = im]
        /\ \/ DbSave(im, Created(p))
           \/ disk' = Created(p) /\ im = old
    BY <1>5 DEF OpenStore, WithStore
  <2> HIDE DEF old, im
  <2>4. /\ Current(im, disk')
        /\ \A f \in Files : disk'[f] # disk[f] => im.path # Memory /\ FileOf[im.path] = f
    <3>1. CASE DbSave(im, Created(p))
      <4>1. im.path # Memory /\ im.tx # 0 => Created(p)[FileOf[im.path]] = im.snap
        BY <2>1, <2>2 DEF Current
      <4>2. /\ Current(im, disk')
            /\ \A f \in Files : disk'[f] # Created(p)[f] => im.path # Memory /\ FileOf[im.path] = f
        BY <1>4, <2>1, <2>2, <3>1, <4>1
      <4> QED
        BY <2>1, <2>2, <4>2
    <3>2. CASE disk' = Created(p) /\ im = old
      BY <2>1, <3>2
    <3> QED
      BY <2>3, <3>1, <3>2
  <2> QED
    BY <1>0, <2>1, <2>2, <2>3, <2>4, CurrentSet
<1>6. ASSUME NEW i \in ImageIds, NEW again \in BOOLEAN, Close(i, again) PROVE Agree'
  <2>1. Alive(i) /\ img' = [img EXCEPT ![i] = WithoutRef(i)] /\ UNCHANGED disk
    BY <1>6 DEF Close
  <2>2. img[i] \in Image /\ Current(img[i], disk)
    BY <1>1, <2>1
  <2>3. WithoutRef(i) = Free \/ Current(WithoutRef(i), disk)
    BY <2>2 DEF WithoutRef, Current, Image
  <2> QED
    BY <2>1, <2>3 DEF Agree, Current, Alive, TypeOK
<1>7. ASSUME NEW i \in ImageIds, Call(i) PROVE Agree'
  <2>1. PICK tabs \in Tabs : CallEffect(i, tabs)
    BY <1>7, CallShape
  <2> DEFINE im == [img[i] EXCEPT !.tabs = tabs]
  <2>2. Alive(i) /\ img[i] \in Image /\ Current(img[i], disk)
    BY <1>1, <2>1 DEF CallEffect
  <2>3. /\ im \in Image /\ im.path = img[i].path /\ im.tx = img[i].tx /\ im.snap = img[i].snap
        /\ im.tabs = tabs
    BY <2>2 DEF Image
  <2>4. /\ img' = [img EXCEPT ![i] = im]
        /\ DbSave(im, disk) \/ (UNCHANGED disk /\ tabs = img[i].tabs)
    BY <1>0, <2>1 DEF CallEffect
  <2> HIDE DEF im
  <2>5. /\ Current(im, disk')
        /\ \A f \in Files : disk'[f] # disk[f] => im.path # Memory /\ FileOf[im.path] = f
    <3>1. CASE DbSave(im, disk)
      <4>1. im.path # Memory /\ im.tx # 0 => disk[FileOf[im.path]] = im.snap
        BY <2>2, <2>3 DEF Current
      <4> QED
        BY <1>0, <1>4, <2>3, <3>1, <4>1
    <3>2. CASE UNCHANGED disk /\ tabs = img[i].tabs
      BY <2>2, <2>3, <3>2 DEF Current
    <3> QED
      BY <2>4, <3>1, <3>2
  <2> QED
    BY <1>0, <2>3, <2>4, <2>5, CurrentSet
<1>8. ASSUME NEW i \in ImageIds, TxBegin(i) PROVE Agree'
  <2> DEFINE snap == IF img[i].tx = 0 THEN img[i].tabs ELSE img[i].snap
             n == img[i].tx + 1
             im == [img[i] EXCEPT !.tx = n, !.snap = snap]
  <2>1. Alive(i) /\ img[i] \in Image /\ Current(img[i], disk)
    BY <1>1, <1>8 DEF TxBegin
  <2>2. n # 0
    BY <2>1, FramesFinite DEF DepthIsFrames
  <2>3. n \in Int /\ snap \in Tabs
    BY <2>1 DEF Image
  <2>4. img' = [img EXCEPT ![i] = im] /\ UNCHANGED disk
    BY <1>8, <2>1 DEF TxBegin, Image
  <2>5. im \in Image /\ im.path = img[i].path /\ im.tx = n /\ im.snap = snap
    <3> HIDE DEF n, snap
    <3> QED
      BY <2>1, <2>3, ImageUpdate DEF Image
  <2>6. Current(im, disk')
    <3> HIDE DEF im, n
    <3> QED
      BY <2>1, <2>2, <2>4, <2>5 DEF Current
  <2> HIDE DEF im
  <2> QED
    BY <1>0, <2>4, <2>5, <2>6, CurrentSet
<1>9. CASE TxEnd
  <2>0. PICK i \in ImageIds : i = Top.db /\ Alive(i)
    BY <1>9, TopAlive DEF TxEnd
  <2> DEFINE n == img[i].tx - 1
             snap == IF n = 0 THEN NoTabs ELSE img[i].snap
             im == [img[i] EXCEPT !.tx = n, !.snap = snap]
  <2>1. img[i] \in Image /\ Current(img[i], disk)
    BY <1>1, <2>0
  <2>2. img[i].tx # 0
    BY <1>9, <2>0, TopCounted DEF TxEnd
  <2>3. n \in Int /\ snap \in Tabs
    BY <2>1, NoTabsType DEF Image
  <2>4. /\ img' = [img EXCEPT ![i] = im]
        /\ IF n = 0 THEN DbSave(im, disk) ELSE UNCHANGED disk
    BY <1>9, <2>0 DEF TxEnd
  <2>5. im \in Image /\ im.path = img[i].path /\ im.tx = n /\ im.snap = snap
    <3> HIDE DEF n, snap
    <3> QED
      BY <2>1, <2>3, ImageUpdate DEF Image
  <2>6. /\ Current(im, disk')
        /\ \A f \in Files : disk'[f] # disk[f] => im.path # Memory /\ FileOf[im.path] = f
    <3>1. CASE n = 0
      <4> HIDE DEF im, n
      <4> QED
        BY <1>0, <1>4, <2>4, <2>5, <3>1
    <3>2. CASE n # 0
      <4>1. snap = img[i].snap /\ UNCHANGED disk
        BY <2>4, <3>2
      <4> HIDE DEF im, n, snap
      <4> QED
        BY <2>1, <2>2, <2>5, <3>2, <4>1 DEF Current
    <3> QED
      BY <3>1, <3>2
  <2> HIDE DEF im
  <2> QED
    BY <1>0, <2>4, <2>5, <2>6, CurrentSet
<1>10. CASE TxAbort
  <2>0. PICK i \in ImageIds : i = Top.db /\ Alive(i)
    BY <1>10, TopAlive DEF TxAbort
  <2> DEFINE im == [img[i] EXCEPT !.tabs = img[i].snap, !.snap = NoTabs, !.tx = 0]
  <2>1. img[i] \in Image /\ Current(img[i], disk)
    BY <1>1, <2>0
  <2>2. img[i].tx # 0
    BY <1>10, <2>0, TopCounted DEF TxAbort
  <2>3. im \in Image /\ im.path = img[i].path /\ im.tx = 0 /\ im.tabs = img[i].snap
    <3>1. img[i].snap \in Tabs /\ NoTabs \in Tabs /\ 0 \in Int
      BY <2>1, NoTabsType DEF Image
    <3>2. im \in Image
      BY <2>1, <3>1 DEF Image
    <3> QED
      BY <2>1, <3>2 DEF Image
  <2>4. img' = [img EXCEPT ![i] = im] /\ UNCHANGED disk
    BY <1>10, <2>0 DEF TxAbort
  <2> HIDE DEF im
  <2>5. Current(im, disk')
    BY <2>1, <2>2, <2>3, <2>4 DEF Current
  <2> QED
    BY <1>0, <2>3, <2>4, <2>5, CurrentSet
<1>11. CASE \/ GuardEnd \/ Catch \/ UNCHANGED vars
            \/ \E kind \in {"try", "loop"} : GuardBegin(kind)
            \/ \E what \in Thrown : Throw(what)
  <2>1. UNCHANGED <<img, disk>>
    BY <1>11 DEF GuardEnd, Catch, GuardBegin, Throw, vars
  <2> QED
    BY <2>1 DEF Agree, Alive
<1>12. CASE ProcessEnd
  BY <1>12 DEF ProcessEnd, Agree, Alive
<1> QED
  BY <1>3, <1>5, <1>6, <1>7, <1>8, <1>9, <1>10, <1>11, <1>12, StepKinds DEF Inside

\* Autocommit: the file holds what memory holds outside a 거래, and what a
\* rollback gives back inside one, when each file has one name, saves succeed,
\* no statement fails half-way and nothing is thrown out of nested 거래.
THEOREM AutocommitHolds ==
    ASSUME OneName, {"nested", "save", "statement"} \cap Failures = {}
    PROVE  Spec => []FileIsCurrent
<1>1. Init => CommitInv
  BY DepthInit, PathInit DEF CommitInv, FileIsCurrent, Init, Fresh, Alive
<1>2. CommitInv /\ [Next]_vars => CommitInv'
  BY CurrentStep
<1>3. CommitInv => FileIsCurrent
  BY DEF CommitInv
<1> QED
  BY <1>1, <1>2, <1>3, PTL DEF Spec

-----------------------------------------------------------------------------
(* Rowids.  In memory, in the rollback copy and on the file, seq covers      *)
(* every row: the copy and the file are tables that were once in memory.     *)

CoverInv == TypeInv /\ LaterUnused /\ SeqCoversRows

\* One image changes, and what is written to a file is covered.
LEMMA CoverSet ==
    ASSUME TypeOK, SeqCoversRows, NEW i \in ImageIds, NEW im \in Image,
           img' = [img EXCEPT ![i] = im], Covered(im.tabs), Covered(im.snap),
           \A f \in Files : disk'[f] \in {disk[f], Garbage} \/ Covered(disk'[f])
    PROVE  SeqCoversRows'
<1>1. img'[i] = im /\ \A j \in ImageIds : j # i => img'[j] = img[j]
  BY ImageSet
<1>2. ASSUME NEW j \in ImageIds, img'[j] # Free
      PROVE  Covered(img'[j].tabs) /\ Covered(img'[j].snap)
  BY <1>1, <1>2 DEF SeqCoversRows, Alive
<1>3. ASSUME NEW f \in Files, disk'[f] \notin {Absent, Garbage} PROVE Covered(disk'[f])
  BY <1>3 DEF SeqCoversRows
<1> QED
  BY <1>2, <1>3 DEF SeqCoversRows, Alive

LEMMA SaveCovers ==
    ASSUME NEW im \in Image, NEW dk \in Disks, DbSave(im, dk), Covered(im.tabs),
           NEW f \in Files
    PROVE  disk'[f] \in {dk[f], Garbage} \/ Covered(disk'[f])
<1>1. im.path = Memory \/ FileOf[im.path] \in Files
  BY DatabaseAssumption DEF Image
<1>2. \A part \in Torn(im.tabs) : part = Garbage \/ Covered(part)
  BY RemainsFacts DEF Torn, Image
<1> QED
  BY <1>1, <1>2 DEF DbSave, Disks

\* db_open finds covered tables, in memory or on the file, or makes none.
LEMMA OpenCovers ==
    ASSUME TypeOK, SeqCoversRows, NEW p \in Paths, CanOpen(p)
    PROVE  /\ Covered(OpenImage(p).tabs) /\ Covered(OpenImage(p).snap)
           /\ \A f \in Files : Created(p)[f] = disk[f] \/ Covered(Created(p)[f])
<1>1. OpenId(p) \in ImageIds
  BY DEF CanOpen
<1>2. CASE p # Memory /\ Opened(p) # {}
  <2>1. Alive(OpenId(p)) /\ img[OpenId(p)] \in Image
    BY <1>1, <1>2, ImageFacts DEF OpenId, Opened
  <2>2. /\ OpenImage(p).tabs = img[OpenId(p)].tabs
        /\ OpenImage(p).snap = img[OpenId(p)].snap
    BY <1>2, <2>1 DEF OpenImage, Image
  <2>3. Created(p) = disk
    BY <1>2 DEF Created
  <2> QED
    BY <1>1, <2>1, <2>2, <2>3 DEF SeqCoversRows
<1>3. CASE ~(p # Memory /\ Opened(p) # {})
  <2>1. OpenImage(p).tabs = Content(p) /\ OpenImage(p).snap = NoTabs
    BY <1>3 DEF OpenImage, NewImage
  <2>2. p # Memory => FileOf[p] \in Files
    BY DatabaseAssumption
  <2>3. Covered(Content(p))
    <3>1. Content(p) # Garbage
      BY <1>3 DEF CanOpen
    <3>2. CASE p = Memory \/ disk[FileOf[p]] = Absent
      BY <3>2, NoTabsCovered DEF Content
    <3>3. CASE p # Memory /\ disk[FileOf[p]] # Absent
      BY <2>2, <3>1, <3>3 DEF Content, SeqCoversRows
    <3> QED
      BY <3>2, <3>3
  <2>4. \A f \in Files : Created(p)[f] = disk[f] \/ Created(p)[f] = NoTabs
    BY <2>2 DEF Created, TypeOK, Disks
  <2> QED
    BY <2>1, <2>3, <2>4, NoTabsCovered
<1> QED
  BY <1>2, <1>3

\* The table 저장소 makes has no row; it replaces none.
LEMMA StoreOnward ==
    ASSUME NEW im \in Image, NEW n \in Names
    PROVE  Onward(im.tabs, WithStore(im, n).tabs) /\ WithStore(im, n).snap = im.snap
<1>1. im.tabs \in Tabs
  BY DEF Image
<1>2. CASE im.tabs[n] = NoTable
  <2>1. WithStore(im, n).tabs = [im.tabs EXCEPT ![n] = NewTable("auto")]
        /\ WithStore(im, n).snap = im.snap
    BY <1>2 DEF WithStore, Image
  <2>2. NewTable("auto") \in Table /\ TableCovered(NewTable("auto"))
    BY NewTableType, NewTableCovered DEF Kinds, Shapes
  <2> QED
    BY <1>1, <1>2, <2>1, <2>2, PutOnward
<1>3. CASE im.tabs[n] # NoTable
  BY <1>1, <1>3, SameOnward DEF WithStore
<1> QED
  BY <1>2, <1>3

LEMMA CoverStep == CoverInv /\ [Next]_vars => CoverInv'
<1> SUFFICES ASSUME CoverInv, [Next]_vars PROVE SeqCoversRows'
  BY TypeStep, LaterStep DEF CoverInv
<1>0. TypeInv /\ TypeOK /\ FramesAlive /\ SeqCoversRows /\ disk \in Disks
  BY DEF CoverInv, TypeInv, TypeOK
<1>1. ASSUME NEW p \in Paths, Open(p) PROVE SeqCoversRows'
  <2>1. OpenId(p) \in ImageIds /\ OpenImage(p) \in Image /\ CanOpen(p)
    BY <1>0, <1>1, OpenType DEF Open
  <2>2. img' = [img EXCEPT ![OpenId(p)] = OpenImage(p)] /\ disk' = Created(p)
    BY <1>1 DEF Open
  <2> QED
    BY <1>0, <2>1, <2>2, OpenCovers, CoverSet
<1>2. ASSUME NEW p \in Paths, NEW n \in Names, OpenStore(p, n) PROVE SeqCoversRows'
  <2>1. OpenId(p) \in ImageIds /\ OpenImage(p) \in Image /\ CanOpen(p) /\ Created(p) \in Disks
    BY <1>0, <1>2, OpenType DEF OpenStore
  <2>2. PICK im \in Image : im = WithStore(OpenImage(p), n)
    BY <2>1, WithStoreType
  <2>3. Covered(im.tabs) /\ Covered(im.snap)
    BY <1>0, <2>1, <2>2, OpenCovers, StoreOnward DEF Onward
  <2>4. /\ img' = [img EXCEPT ![OpenId(p)] = im]
        /\ DbSave(im, Created(p)) \/ disk' = Created(p)
    BY <1>2, <2>2 DEF OpenStore
  <2>5. \A f \in Files : disk'[f] \in {disk[f], Garbage} \/ Covered(disk'[f])
    BY <1>0, <2>1, <2>3, <2>4, OpenCovers, SaveCovers
  <2> QED
    BY <1>0, <2>1, <2>3, <2>4, <2>5, CoverSet
<1>3. ASSUME NEW i \in ImageIds, NEW again \in BOOLEAN, Close(i, again) PROVE SeqCoversRows'
  <2>1. img[i] \in Image /\ Alive(i) /\ disk' = disk /\ img' = [img EXCEPT ![i] = WithoutRef(i)]
    BY <1>0, <1>3, ImageFacts DEF Close
  <2>2. \/ WithoutRef(i) = Free
        \/ WithoutRef(i).tabs = img[i].tabs /\ WithoutRef(i).snap = img[i].snap
    BY <2>1 DEF WithoutRef, Image
  <2>3. img'[i] = WithoutRef(i) /\ \A j \in ImageIds : j # i => img'[j] = img[j]
    BY <1>0, <2>1 DEF TypeOK
  <2>4. ASSUME NEW j \in ImageIds, img'[j] # Free
        PROVE  Covered(img'[j].tabs) /\ Covered(img'[j].snap)
    BY <1>0, <2>1, <2>2, <2>3, <2>4 DEF SeqCoversRows, Alive
  <2> QED
    BY <1>0, <2>1, <2>4 DEF SeqCoversRows, Alive
<1>4. ASSUME NEW i \in ImageIds, Call(i) PROVE SeqCoversRows'
  <2>1. PICK tabs \in Tabs : CallEffect(i, tabs)
    BY <1>0, <1>4, CallShape
  <2>2. img[i] \in Image /\ Covered(img[i].tabs) /\ Covered(img[i].snap)
    BY <1>0, <2>1, ImageFacts DEF CallEffect, SeqCoversRows
  <2>3. PICK im \in Image : im = [img[i] EXCEPT !.tabs = tabs]
    BY <2>2 DEF Image
  <2>4. im.tabs = tabs /\ im.snap = img[i].snap
    BY <2>2, <2>3 DEF Image
  <2>5. Covered(im.tabs) /\ Covered(im.snap)
    BY <2>1, <2>2, <2>4 DEF CallEffect, Onward
  <2>6. img' = [img EXCEPT ![i] = im] /\ (DbSave(im, disk) \/ disk' = disk)
    BY <2>1, <2>3 DEF CallEffect
  <2>7. \A f \in Files : disk'[f] \in {disk[f], Garbage} \/ Covered(disk'[f])
    BY <1>0, <2>5, <2>6, SaveCovers
  <2> QED
    BY <1>0, <2>5, <2>6, <2>7, CoverSet
<1>5. ASSUME NEW i \in ImageIds, TxBegin(i) PROVE SeqCoversRows'
  <2>1. img[i] \in Image /\ Covered(img[i].tabs) /\ Covered(img[i].snap)
    BY <1>0, <1>5, ImageFacts DEF TxBegin, SeqCoversRows
  <2>2. PICK copy \in Image :
            copy = IF img[i].tx = 0 THEN [img[i] EXCEPT !.snap = img[i].tabs] ELSE img[i]
    BY <2>1 DEF Image
  <2>3. copy.tabs = img[i].tabs /\ (copy.snap = img[i].tabs \/ copy.snap = img[i].snap)
    BY <2>1, <2>2 DEF Image
  <2>4. PICK im \in Image : im = [copy EXCEPT !.tx = @ + 1]
    <3>1. PICK n \in Int : n = copy.tx + 1
      BY DEF Image
    <3>2. [copy EXCEPT !.tx = n] \in Image
      BY DEF Image
    <3> QED
      BY <3>1, <3>2
  <2>5. im.tabs = copy.tabs /\ im.snap = copy.snap
    BY <2>4 DEF Image
  <2>6. img' = [img EXCEPT ![i] = im] /\ disk' = disk
    BY <1>5, <2>2, <2>4 DEF TxBegin
  <2> QED
    BY <1>0, <2>1, <2>3, <2>5, <2>6, CoverSet
<1>6. ASSUME TxEnd PROVE SeqCoversRows'
  <2>1. PICK i \in ImageIds : i = Top.db /\ Alive(i) /\ img[i] \in Image
    BY <1>0, <1>6, TopAlive DEF TxEnd
  <2>2. Covered(img[i].tabs) /\ Covered(img[i].snap)
    BY <1>0, <2>1 DEF SeqCoversRows
  <2>3. PICK n \in Int : n = img[i].tx - 1
    BY <2>1 DEF Image
  <2>4. PICK snap \in Tabs : snap = IF n = 0 THEN NoTabs ELSE img[i].snap
    BY <2>1, NoTabsType DEF Image
  <2>5. PICK im \in Image : im = [img[i] EXCEPT !.tx = n, !.snap = snap]
    BY <2>1 DEF Image
  <2>6. im.tabs = img[i].tabs /\ im.snap = snap
    BY <2>1, <2>5 DEF Image
  <2>7. Covered(im.tabs) /\ Covered(im.snap)
    BY <2>2, <2>4, <2>6, NoTabsCovered
  <2>8. img' = [img EXCEPT ![i] = im] /\ (DbSave(im, disk) \/ disk' = disk)
    BY <1>6, <2>1, <2>3, <2>4, <2>5 DEF TxEnd
  <2>9. \A f \in Files : disk'[f] \in {disk[f], Garbage} \/ Covered(disk'[f])
    BY <1>0, <2>7, <2>8, SaveCovers
  <2> QED
    BY <1>0, <2>7, <2>8, <2>9, CoverSet
<1>7. ASSUME TxAbort PROVE SeqCoversRows'
  <2>1. PICK i \in ImageIds : i = Top.db /\ Alive(i) /\ img[i] \in Image
    BY <1>0, <1>7, TopAlive DEF TxAbort
  <2>2. Covered(img[i].snap)
    BY <1>0, <2>1 DEF SeqCoversRows
  <2>3. PICK im \in Image : im = [img[i] EXCEPT !.tabs = img[i].snap, !.snap = NoTabs, !.tx = 0]
    <3>1. img[i].snap \in Tabs /\ 0 \in Int
      BY <2>1 DEF Image
    <3> QED
      BY <2>1, <3>1, NoTabsType, ImageUpdate
  <2>4. im.tabs = img[i].snap /\ im.snap = NoTabs
    BY <2>1, <2>3 DEF Image
  <2>5. img' = [img EXCEPT ![i] = im] /\ disk' = disk
    BY <1>7, <2>1, <2>3 DEF TxAbort
  <2> QED
    BY <1>0, <2>2, <2>4, <2>5, NoTabsCovered, CoverSet
<1>8. CASE UNCHANGED <<img, disk>>
  BY <1>0, <1>8 DEF SeqCoversRows, Alive
<1>9. CASE \/ GuardEnd \/ Catch \/ UNCHANGED vars
           \/ \E kind \in {"try", "loop"} : GuardBegin(kind)
           \/ \E what \in Thrown : Throw(what)
  BY <1>8, <1>9 DEF GuardEnd, Catch, vars, GuardBegin, Throw
<1>10. CASE Stop
  <2>1. \A i \in ImageIds : img'[i] = Free
    BY <1>10 DEF Stop, ProcessEnd
  <2> QED
    BY <1>0, <1>10, <2>1 DEF Stop, SeqCoversRows, Alive
<1> QED
  BY <1>1, <1>2, <1>3, <1>4, <1>5, <1>6, <1>7, <1>9, <1>10 DEF Next

LEMMA CoverHolds == Spec => []CoverInv
<1>1. Init => CoverInv
  <2> SUFFICES ASSUME Init PROVE CoverInv
    OBVIOUS
  <2>1. \A i \in ImageIds : img[i] = Free /\ open[i] = 0 /\ kept[i] = 0
    BY DEF Init, Fresh
  <2>2. \A f \in Files : disk[f] \in {Absent, Garbage}
    BY DEF Init
  <2> QED
    BY <2>1, <2>2, TypeInit DEF CoverInv, LaterUnused, SeqCoversRows, Alive
<1> QED
  BY <1>1, CoverStep, PTL DEF Spec

\* AUTOINCREMENT gives no rowid to two rows: whatever statements run or fail half
\* way, whatever is rolled back and whenever the process dies, the seq of a table
\* is at or above every row, in memory, in the rollback copy and on the file.
THEOREM RowidsStayCovered == Spec => []SeqCoversRows
<1>1. CoverInv => SeqCoversRows
  BY DEF CoverInv
<1> QED
  BY <1>1, CoverHolds, PTL

\* No call lowers the seq of a table it leaves, the unwinding of 거래 apart: a
\* number that was handed out stays used when its row is deleted.
THEOREM RowidsStayUsed == Spec => SeqNeverFalls
<1> DEFINE Kept ==
      \A i \in ImageIds, n \in Names :
        Alive(i) /\ img'[i] # Free /\ mode = "run"
        /\ img[i].tabs[n] # NoTable /\ img'[i].tabs[n] # NoTable
            => img[i].tabs[n].seq <= img'[i].tabs[n].seq
<1>1. TypeInv /\ LaterUnused /\ [Next]_vars => Kept
  <2> SUFFICES ASSUME TypeInv, LaterUnused, [Next]_vars, NEW i \in ImageIds, Alive(i),
                      img'[i] # Free, mode = "run"
               PROVE  Onward(img[i].tabs, img'[i].tabs)
    BY DEF Onward
  <2>0. TypeOK /\ FramesAlive /\ img[i] \in Image /\ img[i].tabs \in Tabs
    BY ImageFacts DEF TypeInv, Image
  <2>1. ASSUME NEW j \in ImageIds, NEW im \in Image, img' = [img EXCEPT ![j] = im],
               j = i => Onward(img[i].tabs, im.tabs)
        PROVE  Onward(img[i].tabs, img'[i].tabs)
    BY <2>0, <2>1, ImageSet, SameOnward
  <2>2. ASSUME NEW p \in Paths, CanOpen(p), OpenId(p) = i
        PROVE  OpenImage(p).tabs = img[i].tabs
    <3>1. OpenId(p) # dbseq + 1
      BY <2>2 DEF LaterUnused, TypeInv, TypeOK
    <3> QED
      BY <2>0, <2>2, <3>1, OpenIdFacts DEF Image
  <2>3. ASSUME NEW p \in Paths, Open(p) PROVE Onward(img[i].tabs, img'[i].tabs)
    <3>1. /\ OpenId(p) \in ImageIds /\ OpenImage(p) \in Image /\ CanOpen(p)
          /\ img' = [img EXCEPT ![OpenId(p)] = OpenImage(p)]
      BY <2>0, <2>3, OpenType DEF Open
    <3> QED
      BY <2>0, <2>1, <2>2, <3>1, SameOnward
  <2>4. ASSUME NEW p \in Paths, NEW n \in Names, OpenStore(p, n)
        PROVE  Onward(img[i].tabs, img'[i].tabs)
    <3>1. OpenId(p) \in ImageIds /\ OpenImage(p) \in Image /\ CanOpen(p)
      BY <2>0, <2>4, OpenType DEF OpenStore
    <3>2. PICK im \in Image : im = WithStore(OpenImage(p), n)
      BY <3>1, WithStoreType
    <3>3. img' = [img EXCEPT ![OpenId(p)] = im]
      BY <2>4, <3>2 DEF OpenStore
    <3>4. OpenId(p) = i => Onward(img[i].tabs, im.tabs)
      BY <2>2, <3>1, <3>2, StoreOnward
    <3> QED
      BY <2>1, <3>1, <3>3, <3>4
  <2>5. ASSUME NEW j \in ImageIds, NEW again \in BOOLEAN, Close(j, again)
        PROVE  Onward(img[i].tabs, img'[i].tabs)
    <3>1. img' = [img EXCEPT ![j] = WithoutRef(j)]
      BY <2>5 DEF Close
    <3>2. j # i => img'[i] = img[i]
      BY <2>0, <3>1 DEF TypeOK
    <3>3. j = i => img'[i].tabs = img[i].tabs
      BY <2>0, <3>1 DEF TypeOK, WithoutRef, Image
    <3> QED
      BY <2>0, <3>2, <3>3, SameOnward
  <2>6. ASSUME NEW j \in ImageIds, Call(j) PROVE Onward(img[i].tabs, img'[i].tabs)
    <3>1. PICK tabs \in Tabs : CallEffect(j, tabs)
      BY <2>0, <2>6, CallShape
    <3>2. img[j] \in Image
      BY <2>0, <3>1, ImageFacts DEF CallEffect
    <3>3. PICK im \in Image : im = [img[j] EXCEPT !.tabs = tabs]
      BY <3>2 DEF Image
    <3>4. im.tabs = tabs /\ Onward(img[j].tabs, tabs)
      BY <3>1, <3>2, <3>3 DEF Image, CallEffect
    <3>5. img' = [img EXCEPT ![j] = im]
      BY <3>1, <3>3 DEF CallEffect
    <3> QED
      BY <2>1, <3>4, <3>5
  <2>7. ASSUME NEW j \in ImageIds, TxBegin(j) PROVE Onward(img[i].tabs, img'[i].tabs)
    <3>1. img[j] \in Image
      BY <2>0, <2>7, ImageFacts DEF TxBegin
    <3>2. img'[i].tabs = img[i].tabs
      BY <2>0, <2>7, <3>1 DEF TxBegin, TypeOK, Image
    <3> QED
      BY <2>0, <3>2, SameOnward
  <2>8. ASSUME TxEnd PROVE Onward(img[i].tabs, img'[i].tabs)
    <3>1. PICK j \in ImageIds : j = Top.db /\ img[j] \in Image
      BY <2>0, <2>8, TopAlive DEF TxEnd
    <3>2. img'[i].tabs = img[i].tabs
      BY <2>0, <2>8, <3>1 DEF TxEnd, TypeOK, Image
    <3> QED
      BY <2>0, <3>2, SameOnward
  <2>9. CASE \/ GuardEnd \/ Catch \/ UNCHANGED vars
             \/ \E kind \in {"try", "loop"} : GuardBegin(kind)
             \/ \E what \in Thrown : Throw(what)
    <3>1. img' = img
      BY <2>9 DEF GuardEnd, Catch, vars, GuardBegin, Throw
    <3> QED
      BY <2>0, <3>1, SameOnward
  <2>10. ~TxAbort
    BY DEF TxAbort, Thrown
  <2>11. ~ProcessEnd
    BY DEF ProcessEnd
  <2> QED
    BY <2>3, <2>4, <2>5, <2>6, <2>7, <2>8, <2>9, <2>10, <2>11, StepKinds DEF Inside
<1>2. CoverInv => TypeInv /\ LaterUnused
  BY DEF CoverInv
<1> QED
  BY <1>1, <1>2, CoverHolds, PTL DEF Spec, SeqNeverFalls

-----------------------------------------------------------------------------
(* The refinement.  What AutocommitStore sees of a file depends on the      *)
(* images m the process has, of which at most one is of that file.          *)

Keeping(m, f) == {i \in ImageIds : m[i] # Free /\ m[i].path # Memory /\ FileOf[m[i].path] = f}

ViewIn(m) ==
    [f \in Files |-> IF Keeping(m, f) = {} THEN Closed
                     ELSE m[CHOOSE i \in Keeping(m, f) : TRUE].tabs]

SavedIn(m) ==
    [f \in Files |-> IF \A i \in Keeping(m, f) : m[i].tx = 0 THEN Idle
                     ELSE m[CHOOSE i \in Keeping(m, f) : TRUE].snap]

Separate(m) ==
    \A i, j \in ImageIds :
        m[i] # Free /\ m[j] # Free /\ i # j /\ Memory \notin {m[i].path, m[j].path}
            => FileOf[m[i].path] # FileOf[m[j].path]

SavedBy(im) == IF im.tx = 0 THEN Idle ELSE im.snap

Images == [ImageIds -> Image \cup {Free}]

LEMMA SeenNow ==
    /\ mode # "dead" => view = ViewIn(img) /\ saved = SavedIn(img)
    /\ mode' # "dead" => view' = ViewIn(img') /\ saved' = SavedIn(img')
BY DEF view, saved, ViewIn, SavedIn, ImagesOf, Keeping, Alive

\* A process that died shows nothing.
AllClosed == [f \in Files |-> Closed]
AllIdle == [f \in Files |-> Idle]

LEMMA DeadShown ==
    /\ mode = "dead" => view = AllClosed /\ saved = AllIdle
    /\ mode' = "dead" => view' = AllClosed /\ saved' = AllIdle
BY DEF view, saved, AllClosed, AllIdle

\* i is the image of f; m and n keep the same for f.
Alone(m, f, i) == Keeping(m, f) = {i}
Alike(m, n, f) == Keeping(m, f) = Keeping(n, f) /\ \A i \in Keeping(m, f) : n[i] = m[i]

LEMMA FileShown ==
    ASSUME NEW m, NEW f \in Files, NEW i \in ImageIds, Alone(m, f, i)
    PROVE  ViewIn(m)[f] = m[i].tabs /\ SavedIn(m)[f] = SavedBy(m[i])
BY DEF ViewIn, SavedIn, SavedBy, Alone

LEMMA FileClosed ==
    ASSUME NEW m, NEW f \in Files, Keeping(m, f) = {}
    PROVE  ViewIn(m)[f] = Closed /\ SavedIn(m)[f] = Idle
BY DEF ViewIn, SavedIn

LEMMA FileOfImage ==
    ASSUME NEW m \in Images, Separate(m), NEW i \in ImageIds, m[i] # Free, m[i].path # Memory
    PROVE  FileOf[m[i].path] \in Files /\ Alone(m, FileOf[m[i].path], i)
<1>1. m[i] \in Image
  BY DEF Images
<1>2. FileOf[m[i].path] \in Files
  BY <1>1, DatabaseAssumption DEF Image
<1> QED
  BY <1>2 DEF Alone, Keeping, Separate

\* A file shows the same where its images are the same.
LEMMA FileSame ==
    ASSUME NEW m, NEW n, NEW f \in Files, Alike(m, n, f)
    PROVE  ViewIn(n)[f] = ViewIn(m)[f] /\ SavedIn(n)[f] = SavedIn(m)[f]
<1> USE DEF Alike
<1>1. CASE Keeping(m, f) = {}
  BY <1>1, FileClosed
<1>2. CASE Keeping(m, f) # {}
  <2>1. PICK c \in Keeping(m, f) : c = CHOOSE i \in Keeping(m, f) : TRUE
    BY <1>2
  <2>2. n[c] = m[c]
    BY <2>1
  <2>3. (\A i \in Keeping(n, f) : n[i].tx = 0) <=> (\A i \in Keeping(m, f) : m[i].tx = 0)
    OBVIOUS
  <2> QED
    BY <1>2, <2>1, <2>2, <2>3 DEF ViewIn, SavedIn
<1> QED
  BY <1>1, <1>2

\* From the images m to the images n only the file of path p shows a change.
Shows(m, n, p, tabs, copy) ==
    IF p = Memory
    THEN ViewIn(n) = ViewIn(m) /\ SavedIn(n) = SavedIn(m)
    ELSE /\ ViewIn(n) = [ViewIn(m) EXCEPT ![FileOf[p]] = tabs]
         /\ SavedIn(n) = [SavedIn(m) EXCEPT ![FileOf[p]] = copy]

Replaced(m, i, im) == [m EXCEPT ![i] = im]

\* Only what the one image that changes keeps is seen to change.
LEMMA OneShown ==
    ASSUME NEW m \in Images, NEW i \in ImageIds, NEW im \in Image, Separate(m),
           m[i] # Free => m[i].path = im.path,
           NEW n, n = Replaced(m, i, im), Separate(n)
    PROVE  Shows(m, n, im.path, im.tabs, SavedBy(im))
<1> USE DEF Replaced, Shows
<1>1. /\ n \in Images /\ n[i] = im /\ im # Free
      /\ \A j \in ImageIds : j # i => n[j] = m[j]
  BY FreeAssumption DEF Images
<1>2. ASSUME NEW f \in Files, im.path = Memory \/ FileOf[im.path] # f
      PROVE  ViewIn(n)[f] = ViewIn(m)[f] /\ SavedIn(n)[f] = SavedIn(m)[f]
  <2>1. i \notin Keeping(m, f) /\ i \notin Keeping(n, f)
    BY <1>1, <1>2 DEF Keeping
  <2>2. Alike(m, n, f)
    BY <1>1, <2>1 DEF Alike, Keeping
  <2> QED
    BY <2>2, FileSame
<1>3. ASSUME im.path # Memory
      PROVE  /\ ViewIn(n)[FileOf[im.path]] = im.tabs
             /\ SavedIn(n)[FileOf[im.path]] = SavedBy(im)
  <2>1. FileOf[im.path] \in Files /\ Alone(n, FileOf[im.path], i)
    BY <1>1, <1>3, FileOfImage
  <2>2. PICK f \in Files : f = FileOf[im.path]
    BY <2>1
  <2>3. ViewIn(n)[f] = n[i].tabs /\ SavedIn(n)[f] = SavedBy(n[i])
    BY <2>1, <2>2, FileShown
  <2> QED
    BY <1>1, <2>2, <2>3
<1>4. /\ DOMAIN ViewIn(m) = Files /\ DOMAIN ViewIn(n) = Files
      /\ DOMAIN SavedIn(m) = Files /\ DOMAIN SavedIn(n) = Files
      /\ ViewIn(m) = [f \in Files |-> ViewIn(m)[f]]
      /\ ViewIn(n) = [f \in Files |-> ViewIn(n)[f]]
      /\ SavedIn(m) = [f \in Files |-> SavedIn(m)[f]]
      /\ SavedIn(n) = [f \in Files |-> SavedIn(n)[f]]
  BY DEF ViewIn, SavedIn
<1>5. CASE im.path = Memory
  BY <1>2, <1>4, <1>5
<1>6. CASE im.path # Memory
  BY <1>2, <1>3, <1>4, <1>6
<1> QED
  BY <1>5, <1>6

LEMMA OneFreed ==
    ASSUME NEW m \in Images, NEW i \in ImageIds, m[i] # Free, Separate(m),
           NEW n, n = Replaced(m, i, Free)
    PROVE  Shows(m, n, m[i].path, Closed, Idle)
<1> USE DEF Replaced, Shows
<1>1. n[i] = Free /\ \A j \in ImageIds : j # i => n[j] = m[j]
  BY DEF Images
<1>2. ASSUME NEW f \in Files, m[i].path = Memory \/ FileOf[m[i].path] # f
      PROVE  ViewIn(n)[f] = ViewIn(m)[f] /\ SavedIn(n)[f] = SavedIn(m)[f]
  <2>1. i \notin Keeping(m, f) /\ i \notin Keeping(n, f)
    BY <1>1, <1>2 DEF Keeping
  <2>2. Alike(m, n, f)
    BY <1>1, <2>1 DEF Alike, Keeping
  <2> QED
    BY <2>2, FileSame
<1>3. ASSUME m[i].path # Memory
      PROVE  /\ ViewIn(n)[FileOf[m[i].path]] = Closed
             /\ SavedIn(n)[FileOf[m[i].path]] = Idle
  <2>1. FileOf[m[i].path] \in Files /\ Alone(m, FileOf[m[i].path], i)
    BY <1>3, FileOfImage
  <2>2. Keeping(n, FileOf[m[i].path]) = {}
    BY <1>1, <2>1 DEF Alone, Keeping
  <2> QED
    BY <2>1, <2>2, FileClosed
<1>4. /\ DOMAIN ViewIn(m) = Files /\ DOMAIN ViewIn(n) = Files
      /\ DOMAIN SavedIn(m) = Files /\ DOMAIN SavedIn(n) = Files
      /\ ViewIn(m) = [f \in Files |-> ViewIn(m)[f]]
      /\ ViewIn(n) = [f \in Files |-> ViewIn(n)[f]]
      /\ SavedIn(m) = [f \in Files |-> SavedIn(m)[f]]
      /\ SavedIn(n) = [f \in Files |-> SavedIn(n)[f]]
  BY DEF ViewIn, SavedIn
<1>5. CASE m[i].path = Memory
  BY <1>2, <1>4, <1>5
<1>6. CASE m[i].path # Memory
  BY <1>2, <1>3, <1>4, <1>6
<1> QED
  BY <1>5, <1>6

-----------------------------------------------------------------------------
(* Steps.  The files are disk, and each step changes at most one image.      *)

Hidden == UNCHANGED <<disk, view, saved>>

LEMMA SeparateNow ==
    ASSUME OneName, CommitInv, CommitInv'
    PROVE  /\ img \in Images /\ img' \in Images
           /\ Separate(img) /\ Separate(img')
<1>1. OneImagePerFile /\ OneImagePerFile'
  BY PathImpliesFile, OneFileNext DEF CommitInv
<1> QED
  BY <1>1 DEF Images, Separate, OneImagePerFile, Alive, CommitInv, DepthInv, TypeInv, TypeOK

\* What a file shows before and after a step that changes its image.
LEMMA ImageChanges ==
    ASSUME OneName, CommitInv, CommitInv', mode # "dead", mode' # "dead",
           NEW i \in ImageIds, Alive(i),
           NEW im \in Image, img' = [img EXCEPT ![i] = im], im.path = img[i].path
    PROVE  IF im.path = Memory THEN UNCHANGED <<view, saved>>
           ELSE LET f == FileOf[im.path] IN
                /\ f \in Files
                /\ view[f] = img[i].tabs /\ saved[f] = SavedBy(img[i])
                /\ view' = [view EXCEPT ![f] = im.tabs]
                /\ saved' = [saved EXCEPT ![f] = SavedBy(im)]
<1>1. img \in Images /\ Separate(img) /\ Separate(img')
  BY SeparateNow
<1>2. PICK n : n = img' /\ n = Replaced(img, i, im)
  BY DEF Replaced
<1>3. Shows(img, n, im.path, im.tabs, SavedBy(im))
  BY <1>1, <1>2, OneShown
<1>4. CASE im.path = Memory
  BY <1>2, <1>3, <1>4, SeenNow DEF Shows
<1>5. CASE im.path # Memory
  <2>1. FileOf[im.path] \in Files /\ Alone(img, FileOf[im.path], i)
    BY <1>1, <1>5, FileOfImage DEF Alive
  <2>2. PICK f \in Files : f = FileOf[im.path]
    BY <2>1
  <2>3. ViewIn(img)[f] = img[i].tabs /\ SavedIn(img)[f] = SavedBy(img[i])
    BY <2>1, <2>2, FileShown
  <2> QED
    BY <1>2, <1>3, <1>5, <2>2, <2>3, SeenNow DEF Shows
<1> QED
  BY <1>4, <1>5

LEMMA ShownFunctions ==
    /\ view = [f \in Files |-> view[f]]
    /\ saved = [f \in Files |-> saved[f]]
BY DEF view, saved

\* A change of the tables, with the save that follows it, or no change at all.
LEMMA WriteShown ==
    ASSUME OneName, "save" \notin Failures, CommitInv, CommitInv', mode # "dead", mode' # "dead",
           NEW i \in ImageIds, Alive(i), NEW im \in Image, img' = [img EXCEPT ![i] = im],
           im.path = img[i].path, im.tx = img[i].tx, im.snap = img[i].snap,
           DbSave(im, disk) \/ (disk' = disk /\ im.tabs = img[i].tabs)
    PROVE  Promise!Next \/ Hidden
<1>1. CASE im.path = Memory
  <2>1. disk' = disk
    BY <1>1 DEF DbSave
  <2> QED
    BY <1>1, <2>1, ImageChanges DEF Hidden
<1>2. CASE im.path # Memory
  <2>1. PICK f \in Files : f = FileOf[im.path]
    BY <1>2, DatabaseAssumption DEF Image
  <2>2. /\ view[f] = img[i].tabs /\ saved[f] = SavedBy(img[i])
        /\ view' = [view EXCEPT ![f] = im.tabs]
        /\ saved' = [saved EXCEPT ![f] = SavedBy(im)]
    BY <1>2, <2>1, ImageChanges
  <2>3. SavedBy(im) = SavedBy(img[i])
    BY DEF SavedBy
  <2>4. saved' = saved
    BY <2>2, <2>3, ShownFunctions
  <2>5. im.tabs \in Tabs /\ im.snap \in Tabs /\ img[i] \in Image
    BY ImageFacts DEF Image, CommitInv, DepthInv, TypeInv
  <2>6. CASE disk' = disk /\ im.tabs = img[i].tabs
    <3>1. view' = view
      BY <2>2, <2>6, ShownFunctions
    <3> QED
      BY <2>4, <2>6, <3>1 DEF Hidden
  <2>7. CASE DbSave(im, disk) /\ im.tx = 0
    <3>1. disk' = [disk EXCEPT ![f] = im.tabs]
      BY <1>2, <2>1, <2>7 DEF DbSave
    <3>2. saved[f] = Idle
      BY <2>2, <2>7 DEF SavedBy
    <3>3. disk[f] = img[i].tabs
      BY <1>2, <2>1, <2>7 DEF CommitInv, FileIsCurrent
    <3>4. disk[f] # Garbage
      BY <2>5, <3>3, DatabaseAssumption DEF Image
    <3>5. Promise!Write(f, im.tabs)
      BY <2>2, <2>4, <3>1, <3>2, <3>4 DEF Promise!Write
    <3> QED
      BY <2>5, <3>5 DEF Promise!Next
  <2>8. CASE DbSave(im, disk) /\ im.tx # 0
    <3>1. disk' = disk
      BY <2>8 DEF DbSave
    <3>2. saved[f] # Idle
      BY <2>2, <2>5, <2>8, MarksAssumption DEF SavedBy
    <3>3. Promise!Change(f, im.tabs)
      BY <2>2, <2>4, <3>1, <3>2 DEF Promise!Change
    <3> QED
      BY <2>5, <3>3 DEF Promise!Next
  <2> QED
    BY <2>6, <2>7, <2>8
<1> QED
  BY <1>1, <1>2

\* A file that no image kept gets one: it is opened, and 저장소 may write it
\* at once.
LEMMA NewShown ==
    ASSUME OneName, "save" \notin Failures, CommitInv, CommitInv', mode # "dead", mode' # "dead",
           NEW p \in Paths, CanOpen(p),
           p = Memory \/ Opened(p) = {}, OpenId(p) = dbseq + 1,
           NEW im \in Image, img' = [img EXCEPT ![OpenId(p)] = im], im.path = p, im.tx = 0,
           \/ DbSave(im, Created(p))
           \/ disk' = Created(p) /\ im.tabs = Content(p)
    PROVE  Promise!Next \/ Hidden
<1>0. TypeOK /\ LaterUnused /\ disk \in Disks
  BY DEF CommitInv, DepthInv, TypeInv, TypeOK
<1>1. PICK i \in ImageIds : i = OpenId(p) /\ ~Alive(i)
  BY <1>0 DEF CanOpen, LaterUnused, TypeOK, ImageIds
<1>2. img \in Images /\ Separate(img) /\ Separate(img')
  BY SeparateNow
<1>3. PICK n : n = img' /\ n = Replaced(img, i, im)
  BY <1>1 DEF Replaced
<1>4. Shows(img, n, p, im.tabs, Idle)
  <2>1. Shows(img, n, im.path, im.tabs, SavedBy(im))
    BY <1>1, <1>2, <1>3, OneShown DEF Alive
  <2> QED
    BY <2>1 DEF SavedBy
<1>5. CASE p = Memory
  <2>1. disk' = disk
    BY <1>5 DEF DbSave, Created
  <2>2. UNCHANGED <<view, saved>>
    BY <1>3, <1>4, <1>5, SeenNow DEF Shows
  <2> QED
    BY <2>1, <2>2 DEF Hidden
<1>6. CASE p # Memory
  <2>1. PICK f \in Files : f = FileOf[p]
    BY <1>6, DatabaseAssumption
  <2>2. Keeping(img, f) = {}
    <3> SUFFICES ASSUME NEW j \in Keeping(img, f) PROVE FALSE
      OBVIOUS
    <3>1. j \in ImageIds /\ Alive(j) /\ img[j].path # Memory /\ FileOf[img[j].path] = f
      BY DEF Keeping, Alive
    <3>2. img[j].path \in Paths
      BY <1>0, <3>1, ImageFacts DEF Image
    <3>3. img[j].path = p
      BY <1>6, <2>1, <3>1, <3>2 DEF OneName
    <3> QED
      BY <1>6, <3>1, <3>3 DEF Opened
  <2>3. view[f] = Closed /\ saved[f] = Idle
    BY <2>2, FileClosed, SeenNow
  <2>4. view' = [view EXCEPT ![f] = im.tabs] /\ saved' = [saved EXCEPT ![f] = Idle]
    BY <1>3, <1>4, <1>6, <2>1, SeenNow DEF Shows
  <2>5. saved' = saved
    BY <2>3, <2>4, ShownFunctions
  <2>6. disk[f] # Garbage /\ Content(p) = Promise!Committed(f)
    <3>1. Content(p) = IF disk[f] = Absent THEN NoTabs ELSE disk[f]
      BY <1>6, <2>1 DEF Content
    <3>2. Content(p) # Garbage
      BY <1>6 DEF CanOpen
    <3> QED
      BY <3>1, <3>2, MarksAssumption DEF Promise!Committed
  <2>7. Created(p) = [disk EXCEPT ![f] = Content(p)]
    BY <1>0, <1>6, <2>1 DEF Created, Content, Disks
  <2>8. CASE DbSave(im, Created(p))
    <3>1. disk' = [Created(p) EXCEPT ![f] = im.tabs]
      BY <1>6, <2>1, <2>8 DEF DbSave
    <3>2. disk' = [disk EXCEPT ![f] = im.tabs]
      BY <1>0, <2>7, <3>1 DEF Disks
    <3>3. Promise!Write(f, im.tabs)
      BY <2>3, <2>4, <2>5, <2>6, <3>2 DEF Promise!Write
    <3> QED
      BY <3>3 DEF Promise!Next, Image
  <2>9. CASE disk' = Created(p) /\ im.tabs = Content(p)
    <3>1. Promise!Open(f)
      BY <2>3, <2>4, <2>5, <2>6, <2>7, <2>9 DEF Promise!Open
    <3> QED
      BY <3>1 DEF Promise!Next
  <2> QED
    BY <2>8, <2>9
<1> QED
  BY <1>5, <1>6

LEMMA OpenShown ==
    ASSUME OneName, "save" \notin Failures, CommitInv, CommitInv', mode # "dead", mode' # "dead",
           NEW p \in Paths, Open(p)
    PROVE  Promise!Next \/ Hidden
<1>0. TypeOK /\ CanOpen(p) /\ img' = [img EXCEPT ![OpenId(p)] = OpenImage(p)]
      /\ disk' = Created(p) /\ OpenImage(p) \in Image /\ OpenId(p) \in ImageIds
  BY OpenType DEF Open, CommitInv, DepthInv, TypeInv
<1>1. CASE /\ p # Memory /\ Alive(OpenId(p)) /\ img[OpenId(p)].path = p
           /\ OpenImage(p) = [img[OpenId(p)] EXCEPT !.refs = @ + 1]
  <2>1. img[OpenId(p)] \in Image
    BY <1>0, <1>1, ImageFacts
  <2>2. PICK im \in Image : im = OpenImage(p)
    BY <1>0
  <2>3. /\ im.path = img[OpenId(p)].path /\ im.tx = img[OpenId(p)].tx
        /\ im.tabs = img[OpenId(p)].tabs /\ im.snap = img[OpenId(p)].snap
    BY <1>1, <2>1, <2>2 DEF Image
  <2>4. Created(p) = disk
    BY <1>0, <1>1 DEF Created, Opened
  <2> QED
    BY <1>0, <1>1, <2>2, <2>3, <2>4, WriteShown
<1>2. CASE /\ p = Memory \/ Opened(p) = {}
           /\ OpenId(p) = dbseq + 1 /\ OpenImage(p) = NewImage(p)
  <2>1. PICK im \in Image : im = OpenImage(p)
    BY <1>0
  <2>2. im.path = p /\ im.tx = 0 /\ im.tabs = Content(p)
    BY <1>2, <2>1 DEF NewImage
  <2> QED
    BY <1>0, <1>2, <2>1, <2>2, NewShown
<1> QED
  BY <1>0, <1>1, <1>2, OpenIdFacts

LEMMA OpenStoreShown ==
    ASSUME OneName, "save" \notin Failures, CommitInv, CommitInv', mode # "dead", mode' # "dead",
           NEW p \in Paths, NEW t \in Names, OpenStore(p, t)
    PROVE  Promise!Next \/ Hidden
<1> DEFINE old == OpenImage(p)
           new == WithStore(old, t)
<1>0. /\ TypeOK /\ CanOpen(p) /\ old \in Image /\ OpenId(p) \in ImageIds
      /\ img' = [img EXCEPT ![OpenId(p)] = new]
      /\ \/ DbSave(new, Created(p))
         \/ disk' = Created(p) /\ new = old
  BY OpenType DEF OpenStore, CommitInv, DepthInv, TypeInv, WithStore
<1>1. new \in Image /\ new.path = old.path /\ new.tx = old.tx /\ new.snap = old.snap
  BY <1>0, WithStoreType DEF WithStore, Image
<1>2. PICK im \in Image : im = new
  BY <1>1
<1>3. CASE /\ p # Memory /\ Alive(OpenId(p)) /\ img[OpenId(p)].path = p
           /\ OpenImage(p) = [img[OpenId(p)] EXCEPT !.refs = @ + 1]
  <2>1. img[OpenId(p)] \in Image
    BY <1>0, <1>3, ImageFacts
  <2>2. /\ old.path = img[OpenId(p)].path /\ old.tx = img[OpenId(p)].tx
        /\ old.tabs = img[OpenId(p)].tabs /\ old.snap = img[OpenId(p)].snap
    BY <1>3, <2>1 DEF Image
  <2>3. Created(p) = disk
    BY <1>0, <1>3 DEF Created, Opened
  <2> HIDE DEF old, new
  <2> QED
    BY <1>0, <1>1, <1>2, <1>3, <2>2, <2>3, WriteShown
<1>4. CASE /\ p = Memory \/ Opened(p) = {}
           /\ OpenId(p) = dbseq + 1 /\ OpenImage(p) = NewImage(p)
  <2>1. old.path = p /\ old.tx = 0 /\ old.tabs = Content(p)
    BY <1>4 DEF NewImage
  <2> HIDE DEF old, new
  <2> QED
    BY <1>0, <1>1, <1>2, <1>4, <2>1, NewShown
<1> QED
  BY <1>0, <1>3, <1>4, OpenIdFacts

\* The last reference closes the file: its 거래 is over.
LEMMA CloseShown ==
    ASSUME OneName, "save" \notin Failures, CommitInv, CommitInv', mode # "dead", mode' # "dead",
           NEW i \in ImageIds, NEW again \in BOOLEAN, Close(i, again)
    PROVE  Promise!Next \/ Hidden
<1>0. /\ TypeOK /\ DepthIsFrames /\ Alive(i) /\ img[i] \in Image /\ disk' = disk
      /\ img' = [img EXCEPT ![i] = WithoutRef(i)]
  BY ImageFacts DEF Close, CommitInv, DepthInv, TypeInv
<1>1. CASE img[i].refs > 1
  <2> DEFINE r == img[i].refs - 1
  <2>0. r \in Nat /\ WithoutRef(i) = [img[i] EXCEPT !.refs = r]
    BY <1>0, <1>1 DEF WithoutRef, Image
  <2>1. PICK im \in Image : im = WithoutRef(i)
    <3> HIDE DEF r
    <3> QED
      BY <1>0, <2>0 DEF Image
  <2>2. /\ im.path = img[i].path /\ im.tx = img[i].tx
        /\ im.tabs = img[i].tabs /\ im.snap = img[i].snap
    BY <1>0, <1>1, <2>1 DEF WithoutRef, Image
  <2> QED
    BY <1>0, <2>1, <2>2, WriteShown
<1>2. CASE ~(img[i].refs > 1)
  <2>1. ~Running(i)
    BY <1>2 DEF Close
  <2>2. img[i].tx = 0
    BY <1>0, <2>1, NoFrames DEF DepthIsFrames
  <2>3. PICK n : n = img' /\ n = Replaced(img, i, Free)
    BY <1>0, <1>2 DEF WithoutRef, Replaced
  <2>4. img \in Images /\ Separate(img)
    BY SeparateNow
  <2>5. Shows(img, n, img[i].path, Closed, Idle)
    BY <1>0, <2>3, <2>4, OneFreed DEF Alive
  <2>6. CASE img[i].path = Memory
    <3>1. UNCHANGED <<view, saved>>
      BY <2>3, <2>5, <2>6, SeenNow DEF Shows
    <3> QED
      BY <1>0, <3>1 DEF Hidden
  <2>7. CASE img[i].path # Memory
    <3>1. FileOf[img[i].path] \in Files /\ Alone(img, FileOf[img[i].path], i)
      BY <1>0, <2>4, <2>7, FileOfImage DEF Alive
    <3>2. PICK f \in Files : f = FileOf[img[i].path]
      BY <3>1
    <3>3. view[f] = img[i].tabs /\ saved[f] = SavedBy(img[i])
      BY <3>1, <3>2, FileShown, SeenNow
    <3>4. view[f] # Closed /\ saved[f] = Idle
      BY <1>0, <2>2, <3>3, MarksAssumption DEF SavedBy, Image
    <3>5. view' = [view EXCEPT ![f] = Closed] /\ saved' = [saved EXCEPT ![f] = Idle]
      BY <2>3, <2>5, <2>7, <3>2, SeenNow DEF Shows
    <3>6. saved' = saved
      BY <3>4, <3>5, ShownFunctions
    <3>7. Promise!Close(f)
      BY <1>0, <3>4, <3>5, <3>6 DEF Promise!Close
    <3> QED
      BY <3>7 DEF Promise!Next
  <2> QED
    BY <2>6, <2>7
<1> QED
  BY <1>1, <1>2

\* 거래 from the first line to the call of its function.
LEMMA TxBeginShown ==
    ASSUME OneName, CommitInv, CommitInv', mode # "dead", mode' # "dead",
           NEW i \in ImageIds, TxBegin(i)
    PROVE  Promise!Next \/ Hidden
<1> DEFINE snap == IF img[i].tx = 0 THEN img[i].tabs ELSE img[i].snap
           n == img[i].tx + 1
<1>0. TypeOK /\ DepthIsFrames /\ Alive(i) /\ img[i] \in Image /\ disk' = disk
  BY ImageFacts DEF TxBegin, CommitInv, DepthInv, TypeInv
<1>1. n # 0 /\ n \in Int /\ snap \in Tabs
  <2>1. img[i].tx \in Nat
    BY <1>0, FramesFinite DEF DepthIsFrames
  <2> QED
    BY <1>0, <2>1 DEF Image
<1>2. img' = [img EXCEPT ![i] = [img[i] EXCEPT !.tx = n, !.snap = snap]]
  BY <1>0 DEF TxBegin, Image
<1>3. PICK im \in Image : /\ img' = [img EXCEPT ![i] = im] /\ im.path = img[i].path
                          /\ im.tabs = img[i].tabs /\ im.tx = n /\ im.snap = snap
  <2> HIDE DEF n, snap
  <2>1. [img[i] EXCEPT !.tx = n, !.snap = snap] \in Image
    BY <1>0, <1>1, ImageUpdate
  <2> QED
    BY <1>0, <1>2, <2>1 DEF Image
<1>4. SavedBy(im) = snap
  <2> HIDE DEF n, snap
  <2> QED
    BY <1>1, <1>3 DEF SavedBy
<1>5. CASE im.path = Memory
  BY <1>0, <1>3, <1>5, ImageChanges DEF Hidden
<1>6. CASE im.path # Memory
  <2>1. PICK f \in Files : f = FileOf[im.path]
    BY <1>6, DatabaseAssumption DEF Image
  <2>2. /\ view[f] = img[i].tabs /\ saved[f] = SavedBy(img[i])
        /\ view' = [view EXCEPT ![f] = im.tabs]
        /\ saved' = [saved EXCEPT ![f] = snap]
    <3> HIDE DEF n, snap
    <3> QED
      BY <1>0, <1>3, <1>4, <1>6, <2>1, ImageChanges
  <2>3. view' = view
    BY <1>3, <2>2, ShownFunctions
  <2>4. CASE img[i].tx = 0
    <3>1. view[f] # Closed /\ saved[f] = Idle /\ snap = view[f]
      BY <1>0, <2>2, <2>4, MarksAssumption DEF SavedBy, Image
    <3>2. Promise!Begin(f)
      BY <1>0, <2>2, <2>3, <3>1 DEF Promise!Begin
    <3> QED
      BY <3>2 DEF Promise!Next
  <2>5. CASE img[i].tx # 0
    <3>1. snap = saved[f]
      BY <2>2, <2>5 DEF SavedBy
    <3>2. saved' = saved
      BY <2>2, <3>1, ShownFunctions
    <3> QED
      BY <1>0, <2>3, <3>2 DEF Hidden
  <2> QED
    BY <2>4, <2>5
<1> QED
  BY <1>5, <1>6

LEMMA TxEndShown ==
    ASSUME OneName, "save" \notin Failures, CommitInv, CommitInv', mode # "dead", mode' # "dead", TxEnd
    PROVE  Promise!Next \/ Hidden
<1>0. TypeOK /\ FramesAlive /\ DepthIsFrames
  BY DEF CommitInv, DepthInv, TypeInv
<1>1. PICK i \in ImageIds : i = Top.db /\ Alive(i) /\ img[i] \in Image
  BY <1>0, TopAlive DEF TxEnd
<1> DEFINE n == img[i].tx - 1
           snap == IF n = 0 THEN NoTabs ELSE img[i].snap
<1>2. img[i].tx # 0 /\ n \in Int /\ snap \in Tabs
  BY <1>0, <1>1, TopCounted, NoTabsType DEF TxEnd, Image
<1>3. /\ img' = [img EXCEPT ![i] = [img[i] EXCEPT !.tx = n, !.snap = snap]]
      /\ IF n = 0 THEN DbSave([img[i] EXCEPT !.tx = n, !.snap = snap], disk) ELSE disk' = disk
  BY <1>1 DEF TxEnd
<1>4. PICK im \in Image : /\ img' = [img EXCEPT ![i] = im] /\ im.path = img[i].path
                          /\ im.tabs = img[i].tabs /\ im.tx = n /\ im.snap = snap
                          /\ IF n = 0 THEN DbSave(im, disk) ELSE disk' = disk
  <2> HIDE DEF n, snap
  <2>1. [img[i] EXCEPT !.tx = n, !.snap = snap] \in Image
    BY <1>1, <1>2, ImageUpdate
  <2> QED
    BY <1>1, <1>3, <2>1 DEF Image
<1>5. CASE im.path = Memory
  <2>1. disk' = disk
    BY <1>4, <1>5 DEF DbSave
  <2> QED
    BY <1>1, <1>4, <1>5, <2>1, ImageChanges DEF Hidden
<1>6. CASE im.path # Memory
  <2>1. PICK f \in Files : f = FileOf[im.path]
    BY <1>6, DatabaseAssumption DEF Image
  <2>2. /\ view[f] = img[i].tabs /\ saved[f] = SavedBy(img[i])
        /\ view' = [view EXCEPT ![f] = im.tabs]
        /\ saved' = [saved EXCEPT ![f] = SavedBy(im)]
    <3> HIDE DEF n, snap
    <3> QED
      BY <1>1, <1>4, <1>6, <2>1, ImageChanges
  <2>3. view' = view
    BY <1>4, <2>2, ShownFunctions
  <2>4. saved[f] = img[i].snap /\ saved[f] # Idle
    BY <1>1, <1>2, <2>2, MarksAssumption DEF SavedBy, Image
  <2>5. CASE n = 0
    <3>1. im.tx = 0 /\ DbSave(im, disk)
      BY <1>4, <2>5
    <3> HIDE DEF n, snap
    <3>2. disk' = [disk EXCEPT ![f] = view[f]]
      BY <1>4, <1>6, <2>1, <2>2, <3>1 DEF DbSave
    <3>3. saved' = [saved EXCEPT ![f] = Idle]
      BY <2>2, <3>1 DEF SavedBy
    <3>4. Promise!Commit(f)
      BY <2>3, <2>4, <3>2, <3>3 DEF Promise!Commit
    <3> QED
      BY <3>4 DEF Promise!Next
  <2>6. CASE n # 0
    <3>1. im.tx # 0 /\ disk' = disk /\ im.snap = saved[f]
      BY <1>4, <2>4, <2>6
    <3>2. saved' = saved
      BY <2>2, <3>1, ShownFunctions DEF SavedBy
    <3> QED
      BY <2>3, <3>1, <3>2 DEF Hidden
  <2> QED
    BY <2>5, <2>6
<1> QED
  BY <1>5, <1>6

LEMMA TxAbortShown ==
    ASSUME OneName, CommitInv, CommitInv', mode # "dead", mode' # "dead", TxAbort
    PROVE  Promise!Next \/ Hidden
<1>0. TypeOK /\ FramesAlive /\ DepthIsFrames
  BY DEF CommitInv, DepthInv, TypeInv
<1>1. PICK i \in ImageIds : i = Top.db /\ Alive(i) /\ img[i] \in Image
  BY <1>0, TopAlive DEF TxAbort
<1>2. img[i].tx # 0
  BY <1>0, <1>1, TopCounted DEF TxAbort
<1>3. PICK im \in Image : /\ img' = [img EXCEPT ![i] = im] /\ im.path = img[i].path
                          /\ im.tabs = img[i].snap /\ im.tx = 0
  <2>1. img[i].snap \in Tabs /\ NoTabs \in Tabs /\ 0 \in Int
    BY <1>1, NoTabsType DEF Image
  <2>2. [img[i] EXCEPT !.tabs = img[i].snap, !.snap = NoTabs, !.tx = 0] \in Image
    BY <1>1, <2>1 DEF Image
  <2>3. img' = [img EXCEPT ![i] =
                  [img[i] EXCEPT !.tabs = img[i].snap, !.snap = NoTabs, !.tx = 0]]
    BY <1>1 DEF TxAbort
  <2> QED
    BY <1>1, <2>2, <2>3 DEF Image
<1>4. disk' = disk
  BY DEF TxAbort
<1>5. CASE im.path = Memory
  BY <1>1, <1>3, <1>4, <1>5, ImageChanges DEF Hidden
<1>6. CASE im.path # Memory
  <2>1. PICK f \in Files : f = FileOf[im.path]
    BY <1>6, DatabaseAssumption DEF Image
  <2>2. /\ saved[f] = SavedBy(img[i])
        /\ view' = [view EXCEPT ![f] = im.tabs]
        /\ saved' = [saved EXCEPT ![f] = SavedBy(im)]
    BY <1>1, <1>3, <1>6, <2>1, ImageChanges
  <2>3. saved[f] = im.tabs /\ saved[f] # Idle
    BY <1>1, <1>2, <1>3, <2>2, MarksAssumption DEF SavedBy, Image
  <2>4. saved' = [saved EXCEPT ![f] = Idle]
    BY <1>3, <2>2 DEF SavedBy
  <2>5. Promise!Rollback(f)
    BY <1>4, <2>2, <2>3, <2>4 DEF Promise!Rollback
  <2> QED
    BY <2>5 DEF Promise!Next
<1> QED
  BY <1>5, <1>6

LEMMA NothingShown ==
    ASSUME img = [i \in ImageIds |-> Free]
    PROVE  view = [f \in Files |-> Closed] /\ saved = [f \in Files |-> Idle]
BY DEF view, saved, ImagesOf, Alive

\* The process dies in the save of im: its file holds a part of im's tables.
LEMMA DieShown ==
    ASSUME NEW f \in Files, NEW im \in Image, mode' = "dead", disk[f] # Garbage,
           saved[f] # Idle => im.tabs = view[f],
           NEW part \in Torn(im.tabs), disk' = [disk EXCEPT ![f] = part]
    PROVE  Promise!Next
<1>1. Promise!Die(f, im.tabs)
  BY DeadShown DEF Promise!Die, AllClosed, AllIdle
<1> QED
  BY <1>1 DEF Promise!Next, Image

LEMMA DieOpen ==
    ASSUME OneName, CommitInv, mode # "dead", mode' = "dead",
           NEW i \in ImageIds, Alive(i), NEW im \in Image, im.path = img[i].path,
           img[i].tx = 0 \/ im.tabs = img[i].tabs, DbSave(im, disk)
    PROVE  Promise!Next
<1>1. im.path # Memory /\ im.tx = 0
  BY DEF DbSave
<1>2. PICK f \in Files : f = FileOf[im.path]
  BY <1>1, DatabaseAssumption DEF Image
<1>3. PICK part \in Torn(im.tabs) : disk' = [disk EXCEPT ![f] = part]
  BY <1>1, <1>2 DEF DbSave
<1>4. img[i] \in Image /\ TypeOK
  BY ImageFacts DEF CommitInv, DepthInv, TypeInv
<1>5. img \in Images /\ Separate(img)
  BY PathImpliesFile
     DEF Images, Separate, OneImagePerFile, Alive, CommitInv, DepthInv, TypeInv, TypeOK
<1>6. Alone(img, f, i)
  BY <1>1, <1>2, <1>5, FileOfImage DEF Alive
<1>7. view[f] = img[i].tabs /\ saved[f] = SavedBy(img[i])
  BY <1>6, FileShown, SeenNow
<1>8. disk[f] = IF img[i].tx = 0 THEN img[i].tabs ELSE img[i].snap
  BY <1>1, <1>2 DEF CommitInv, FileIsCurrent
<1>9. disk[f] # Garbage
  BY <1>4, <1>8, DatabaseAssumption DEF Image
<1>10. saved[f] # Idle => im.tabs = view[f]
  BY <1>7 DEF SavedBy
<1> QED
  BY <1>3, <1>9, <1>10, DieShown

LEMMA DieNew ==
    ASSUME OneName, CommitInv, mode # "dead", mode' = "dead", NEW p \in Paths, CanOpen(p),
           p = Memory \/ Opened(p) = {}, NEW im \in Image, im.path = p, DbSave(im, Created(p))
    PROVE  Promise!Next
<1>1. p # Memory
  BY DEF DbSave
<1>2. PICK f \in Files : f = FileOf[p]
  BY <1>1, DatabaseAssumption
<1>3. TypeOK /\ disk \in Disks
  BY DEF CommitInv, DepthInv, TypeInv, TypeOK
<1>4. PICK part \in Torn(im.tabs) : disk' = [Created(p) EXCEPT ![f] = part]
  BY <1>1, <1>2 DEF DbSave
<1>5. Created(p) = [disk EXCEPT ![f] = Content(p)]
  BY <1>1, <1>2, <1>3 DEF Created, Content, Disks
<1>6. disk' = [disk EXCEPT ![f] = part]
  BY <1>3, <1>4, <1>5 DEF Disks
<1>7. disk[f] # Garbage
  BY <1>1, <1>2, MarksAssumption DEF CanOpen, Content
<1>8. Keeping(img, f) = {}
  <2> SUFFICES ASSUME NEW j \in Keeping(img, f) PROVE FALSE
    OBVIOUS
  <2>1. j \in ImageIds /\ Alive(j) /\ img[j].path # Memory /\ FileOf[img[j].path] = f
    BY DEF Keeping, Alive
  <2>2. img[j].path \in Paths
    BY <1>3, <2>1, ImageFacts DEF Image
  <2>3. img[j].path = p
    BY <1>1, <1>2, <2>1, <2>2 DEF OneName
  <2> QED
    BY <1>1, <2>1, <2>3 DEF Opened
<1>9. saved[f] = Idle
  BY <1>8, FileClosed, SeenNow
<1> QED
  BY <1>6, <1>7, <1>9, DieShown

LEMMA DeathKinds ==
    ASSUME mode # "dead", mode' = "dead", [Next]_vars
    PROVE  \/ \E p \in Paths, n \in Names : OpenStore(p, n)
           \/ \E i \in ImageIds : Call(i)
           \/ TxEnd
BY DEF Next, Open, Close, TxBegin, TxAbort, GuardBegin, GuardEnd, Catch, Throw, Thrown, Stop,
       ProcessEnd, vars

LEMMA DeathShown ==
    ASSUME OneName, "nested" \notin Failures, CommitInv, mode # "dead", mode' = "dead", [Next]_vars
    PROVE  Promise!Next
<1>0. TypeOK /\ FramesAlive
  BY DEF CommitInv, DepthInv, TypeInv
<1>1. ASSUME NEW i \in ImageIds, Call(i) PROVE Promise!Next
  <2>1. PICK tabs \in Tabs : CallEffect(i, tabs)
    BY <1>0, <1>1, CallShape
  <2>2. Alive(i) /\ img[i] \in Image
    BY <1>0, <2>1, ImageFacts DEF CallEffect
  <2>3. PICK im \in Image : im = [img[i] EXCEPT !.tabs = tabs]
    BY <2>2 DEF Image
  <2>4. im.path = img[i].path /\ im.tx = img[i].tx
    BY <2>2, <2>3 DEF Image
  <2>5. DbSave(im, disk)
    BY <2>1, <2>3 DEF CallEffect
  <2>6. img[i].tx = 0
    BY <2>4, <2>5 DEF DbSave
  <2> QED
    BY <2>2, <2>4, <2>5, <2>6, DieOpen
<1>2. ASSUME NEW p \in Paths, NEW n \in Names, OpenStore(p, n) PROVE Promise!Next
  <2>1. CanOpen(p) /\ OpenImage(p) \in Image /\ OpenId(p) \in ImageIds
    BY <1>0, <1>2, OpenType DEF OpenStore
  <2>2. PICK im \in Image : im = WithStore(OpenImage(p), n)
    BY <2>1, WithStoreType
  <2>3. im.path = OpenImage(p).path /\ im.tx = OpenImage(p).tx
    BY <2>1, <2>2 DEF WithStore, Image
  <2>4. DbSave(im, Created(p))
    BY <1>2, <2>2 DEF OpenStore
  <2>5. CASE /\ p # Memory /\ Alive(OpenId(p)) /\ img[OpenId(p)].path = p
             /\ OpenImage(p) = [img[OpenId(p)] EXCEPT !.refs = @ + 1]
    <3>1. img[OpenId(p)] \in Image
      BY <1>0, <2>1, <2>5, ImageFacts
    <3>2. im.path = img[OpenId(p)].path /\ im.tx = img[OpenId(p)].tx
      BY <2>3, <2>5, <3>1 DEF Image
    <3>3. Created(p) = disk
      BY <2>1, <2>5 DEF Created, Opened
    <3>4. img[OpenId(p)].tx = 0
      BY <2>4, <3>2 DEF DbSave
    <3> QED
      BY <2>1, <2>4, <2>5, <3>2, <3>3, <3>4, DieOpen
  <2>6. CASE /\ p = Memory \/ Opened(p) = {}
             /\ OpenId(p) = dbseq + 1 /\ OpenImage(p) = NewImage(p)
    <3>1. im.path = p
      BY <2>3, <2>6 DEF NewImage
    <3> QED
      BY <2>1, <2>4, <2>6, <3>1, DieNew
  <2> QED
    BY <1>0, <2>1, <2>5, <2>6, OpenIdFacts
<1>3. CASE TxEnd
  <2>1. PICK i \in ImageIds : i = Top.db /\ Alive(i) /\ img[i] \in Image
    BY <1>0, <1>3, TopAlive DEF TxEnd
  <2>2. PICK n \in Int : n = img[i].tx - 1
    BY <2>1 DEF Image
  <2>3. PICK snap \in Tabs : snap = IF n = 0 THEN NoTabs ELSE img[i].snap
    BY <2>1, NoTabsType DEF Image
  <2>4. PICK im \in Image : im = [img[i] EXCEPT !.tx = n, !.snap = snap]
    BY <2>1 DEF Image
  <2>5. im.path = img[i].path /\ im.tabs = img[i].tabs
    BY <2>1, <2>4 DEF Image
  <2>6. DbSave(im, disk)
    BY <1>3, <2>1, <2>2, <2>3, <2>4 DEF TxEnd
  <2> QED
    BY <2>1, <2>5, <2>6, DieOpen
<1> QED
  BY <1>1, <1>2, <1>3, DeathKinds

\* The end of a process that did not die in a save, and of one that did.
LEMMA EndShown ==
    ASSUME Stop
    PROVE  Promise!Next
<1>1. view' = [f \in Files |-> Closed] /\ saved' = [f \in Files |-> Idle]
  BY DEF Stop, ProcessEnd, view, saved, ImagesOf, Alive
<1> QED
  BY <1>1 DEF Stop, Promise!End, Promise!Next

LEMMA EndKinds ==
    ASSUME [Next]_vars
    PROVE  \/ \E p \in Paths : Open(p)
           \/ \E p \in Paths, n \in Names : OpenStore(p, n)
           \/ \E i \in ImageIds, again \in BOOLEAN : Close(i, again)
           \/ Inside
           \/ Stop
BY DEF Next, Inside

LEMMA ShownStep ==
    ASSUME OneName, {"nested", "save", "statement"} \cap Failures = {},
           CommitInv, CommitInv', [Next]_vars
    PROVE  Promise!Next \/ Hidden
<1> SUFFICES ASSUME mode # "dead", mode' # "dead", ~Stop PROVE Promise!Next \/ Hidden
  <2>1. CASE UNCHANGED vars
    BY <2>1 DEF vars, Hidden, view, saved, ImagesOf, Alive
  <2> QED
    BY <2>1, EndShown, DeadEnds, DeathShown
<1>0. "save" \notin Failures /\ "statement" \notin Failures
  OBVIOUS
<1>1. ASSUME NEW i \in ImageIds, Call(i) PROVE Promise!Next \/ Hidden
  <2>0. TypeOK
    BY DEF CommitInv, DepthInv, TypeInv
  <2>1. PICK tabs \in Tabs : CallEffect(i, tabs)
    BY <1>1, <2>0, CallShape
  <2>2. Alive(i) /\ img[i] \in Image
    BY <2>0, <2>1, ImageFacts DEF CallEffect
  <2>3. PICK im \in Image : im = [img[i] EXCEPT !.tabs = tabs]
    BY <2>2 DEF Image
  <2>4. im.path = img[i].path /\ im.tx = img[i].tx /\ im.snap = img[i].snap /\ im.tabs = tabs
    BY <2>2, <2>3 DEF Image
  <2>5. /\ img' = [img EXCEPT ![i] = im]
        /\ DbSave(im, disk) \/ (disk' = disk /\ tabs = img[i].tabs)
    BY <1>0, <2>1, <2>3 DEF CallEffect
  <2> QED
    BY <1>0, <2>2, <2>4, <2>5, WriteShown
<1>2. CASE \/ GuardEnd \/ Catch \/ UNCHANGED vars
           \/ \E kind \in {"try", "loop"} : GuardBegin(kind)
           \/ \E what \in Thrown : Throw(what)
  <2>1. UNCHANGED <<img, disk>>
    BY <1>2 DEF GuardEnd, Catch, GuardBegin, Throw, vars
  <2> QED
    BY <2>1, SeenNow DEF Hidden
<1> QED
  BY <1>0, <1>1, <1>2, OpenShown, OpenStoreShown, CloseShown, TxBeginShown, TxEndShown,
     TxAbortShown, EndKinds DEF Inside

\* Every behaviour of the database builtins is one of AutocommitStore: what a
\* 거래 wrote reaches its file when the outermost one returns and not before,
\* whatever unwinds inside; a process that ends, in a 거래 or out of it, leaves
\* every file as it was committed; and one that dies in db_save harms no file
\* but the one it was writing, which is left with the first part of what it
\* was to hold.  As for AutocommitHolds, each file has one name, saves that can
\* be begun are not refused, no statement fails half-way and nothing is thrown
\* out of nested 거래.
THEOREM DatabaseIsAutocommitStore ==
    ASSUME OneName, {"nested", "save", "statement"} \cap Failures = {}
    PROVE  Spec => ImplementsAutocommit
<1>1. Init => CommitInv
  BY DepthInit, PathInit DEF CommitInv, FileIsCurrent, Init, Fresh, Alive
<1>2. CommitInv /\ [Next]_vars => CommitInv'
  BY CurrentStep
<1>3. Init => Promise!Init
  BY NothingShown DEF Init, Fresh, Promise!Init
<1>4. CommitInv /\ CommitInv' /\ [Next]_vars => [Promise!Next]_(Promise!vars)
  <2> SUFFICES ASSUME CommitInv, CommitInv', [Next]_vars
               PROVE  Promise!Next \/ UNCHANGED <<disk, view, saved>>
    BY DEF Promise!vars
  <2> QED
    BY ShownStep DEF Hidden
<1> QED
  BY <1>1, <1>2, <1>3, <1>4, PTL DEF Spec, ImplementsAutocommit, Promise!Spec
=============================================================================
