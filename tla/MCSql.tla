-------------------------------- MODULE MCSql --------------------------------
(***************************************************************************)
(* Sql with integers of three bits, a key and three columns, of INTEGER,   *)
(* TEXT and no type.                                                       *)
(***************************************************************************)
EXTENDS Sql

McSchema == <<"INT", "TEXT", "NONE">>

\* Every text, in order, and the number it spells: its kind, over and under.
Spelled == <<
    <<"", "null", 0, 1>>, <<"-1", "int", -1, 1>>, <<"-2", "int", -2, 1>>, <<"-3", "int", -3, 1>>,
    <<"-4", "int", -4, 1>>, <<"0", "int", 0, 1>>, <<"0.5", "real", 1, 2>>, <<"01", "int", 1, 1>>,
    <<"1", "int", 1, 1>>, <<"1.0", "real", 1, 1>>, <<"2", "int", 2, 1>>, <<"3", "int", 3, 1>>,
    <<"3.5", "real", 7, 2>>, <<"4.0", "real", 4, 1>>, <<"5.0", "real", 5, 1>>, <<"6.0", "real", 6, 1>>,
    <<"7.0", "real", 7, 1>>, <<"8.0", "real", 8, 1>>, <<"9.0", "real", 9, 1>>, <<"x", "null", 0, 1>> >>

Entry(t) == Cell(t[2], t[3], t[4], "")
McTexts == [i \in 1..20 |-> Spelled[i][1]]
McNumberIn == [s \in {Spelled[i][1] : i \in 2..19} |-> Entry(Spelled[CHOOSE i \in 1..20 : Spelled[i][1] = s])]
\* Numbers are printed one way: never as 01.
McSpelling == [c \in {Entry(Spelled[i]) : i \in 1..20} |->
    Spelled[CHOOSE i \in 1..20 : Entry(Spelled[i]) = c /\ Spelled[i][1] # "01"][1]]

R == Col(0, "INT")
A == Col(1, "INT")
B == Col(2, "TEXT")
C == Col(3, "NONE")
N(n) == Lit(Num(n))
All == N(1)

\* Conditions that meet NULL, other types, division by zero and overflow.
Atoms == { Bin("<", A, N(1)), Bin("=", B, N(1)), Bin("=", A, Lit(Text("01"))), Bin("=", B, A),
           Bin(">=", C, A), Bin("=", Bin("%", A, C), N(0)), Bin(">", Bin("+", A, N(3)), N(3)),
           Un("IS NULL", C), Bin("<>", Un("NEG", A), A), C }
Wheres == Atoms \cup {Un("NOT", e) : e \in Atoms}
    \cup {Bin(op, e, f) : op \in {"AND", "OR"}, e \in Atoms, f \in Atoms}
    \cup {Un("NOT", Bin("AND", C, e)) : e \in Atoms} \cup {All, Un("NOT NULL", Bin("/", A, C))}

Delete(e) == [op |-> "delete", where |-> e]
Update(e, sets) == [op |-> "update", where |-> e, sets |-> sets]
Select(e, keys, limit, offset) ==
    [op |-> "select", where |-> e, keys |-> keys, limit |-> limit, offset |-> offset]
Set(c, e) == [col |-> c, to |-> e]
Key(c, desc) == [col |-> c, desc |-> desc]
Insert(lists) == [op |-> "insert", lists |-> lists]
List(key, a, b, c) == [key |-> key, cells |-> <<a, b, c>>]

Inserts == {
    Insert(<< List(Null, Num(1), Text("01"), Null), List(Null, Num(-4), Num(1), Text("x")),
              List(Num(-1), Null, Text("x"), Num(0)) >>),
    Insert(<< List(Text("2"), Text("1"), Null, Num(2)), List(Num(1), Text("1.0"), Num(3), Text("1")),
              List(Num(2), Num(0), Num(0), Num(0)) >>),
    Insert(<< List(Num(3), Num(3), Text("1"), Real(1, 1)), List(Real(1, 1), Text("x"), Real(1, 1), Real(1, 2)) >>),
    Insert(<< List(Null, Text(""), Text(""), Text("")), List(Text("x"), Null, Null, Null) >>) }

Updates == {Update(e, sets) : e \in {All, Bin("<", A, N(1)), C},
    sets \in { <<Set(1, B), Set(2, A)>>, <<Set(1, Bin("+", A, N(3))), Set(2, Bin("+", A, N(3)))>>,
               <<Set(3, Un("NEG", A)), Set(3, Bin("/", C, A)), Set(1, C)>> }}

Selects == {Select(All, keys, limit, offset) :
        keys \in { <<>>, <<Key(3, FALSE)>>, <<Key(1, TRUE), Key(2, FALSE)>> },
        limit \in {Num(-1), Num(2), Null}, offset \in {Num(-1), Num(1)}}
    \cup {Select(e, <<Key(2, TRUE)>>, Real(3, 2), Text("x")) : e \in Wheres}

McStatements == Inserts \cup Updates \cup Selects \cup {Delete(e) : e \in Wheres}
=============================================================================
