----------------------------- MODULE MCDatabase -----------------------------
(***************************************************************************)
(* Database with the small values TLC runs it on.  One table name and one  *)
(* value are enough for what the runs ask about files, copies and handles: *)
(* rows differ by their rowids.                                            *)
(***************************************************************************)
EXTENDS DatabaseRefinement, TLC

CONSTANTS p1, p2, f1, f2, v1, t1

OnePath == p1 :> f1
TwoPaths == p1 :> f1 @@ p2 :> f2

Create(kind) == [op |-> "create", table |-> t1, kind |-> kind, tolerant |-> TRUE, junk |-> FALSE]
Drop == [op |-> "drop", table |-> t1, tolerant |-> FALSE, junk |-> FALSE]
Insert(id) == [op |-> "insert", table |-> t1, first |-> [id |-> id, val |-> v1, bad |-> FALSE],
               more |-> FALSE, second |-> [id |-> NoId, val |-> v1, bad |-> FALSE], junk |-> FALSE]
InsertTwo(id, bad) ==
    [Insert(id) EXCEPT !.more = TRUE, !.second.bad = bad]
Delete(ids, junk) == [op |-> "delete", table |-> t1, where |-> ids, junk |-> junk]

OneStatement == {Insert(NoId)}

PartStatements == {Insert(NoId), Delete({1}, TRUE)}

FewStatements == {Create("pk"), Insert(NoId), Delete({1}, FALSE)}

SomeStatements ==
    {Create(k) : k \in {"pk", "auto"}} \cup {Drop, Insert(-1), Insert(2)}
    \cup {InsertTwo(NoId, FALSE), InsertTwo(1, TRUE), Delete({1}, FALSE), Delete({2}, TRUE)}
=============================================================================
