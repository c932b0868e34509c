-------------------------------- MODULE Syntax --------------------------------
(***************************************************************************)
(* The tree of a 가나다 program (ganada.h, Node) and its text as a list of  *)
(* tokens.  A node has one shape whatever its kind: k the kind, x a name or *)
(* an operator, n a number, e its expressions, b its blocks, line the line  *)
(* of the statement (0 for a node no N_STMT wraps: an expression, or the    *)
(* 만약 of an 아니면 만약).                                                 *)
(*                                                                         *)
(*   k          x          e                       b                       *)
(*   lit        type       -                       -        n the value    *)
(*   var        name       -                       -                       *)
(*   un         neg, not   operand                 -                       *)
(*   bin        operator   left, right             -                       *)
(*   call       -          callee, arguments...    -                       *)
(*   index      -          object, index           -                       *)
(*   list       -          items...                -                       *)
(*   assign     name       value                   -                       *)
(*   setindex   -          object, index, value    -                       *)
(*   expr       -          value                   -                       *)
(*   if         -          condition               then [, else]           *)
(*   while      -          condition               body                    *)
(*   for        name       from, to [, step]       body                    *)
(*   foreach    name       collection              body                    *)
(*   func       name       parameters...           body                    *)
(*   try        name       -                       tried, handler          *)
(*   ret        -          [value]                 -                       *)
(*   brk, cont  -          -                       -                       *)
(***************************************************************************)
EXTENDS Integers, Sequences

CONSTANT Top                    \* INT64_MAX, scaled down

ASSUME TopAssumption == Top \in Nat \ {0}

Least == -Top - 1               \* INT64_MIN
Ints == Least..Top

Node(k, x, n, e, b) == [k |-> k, x |-> x, n |-> n, e |-> e, b |-> b, line |-> 0]

Lit(t, n)    == Node("lit", t, n, <<>>, <<>>)
Var(x)       == Node("var", x, 0, <<>>, <<>>)
Un(op, a)    == Node("un", op, 0, <<a>>, <<>>)
Bin(op, a, b) == Node("bin", op, 0, <<a, b>>, <<>>)
Call(f, args) == Node("call", "", 0, <<f>> \o args, <<>>)
Stmt(k, x, e) == Node(k, x, 0, e, <<>>)

\* Every node at or under n.
RECURSIVE NodesOf(_)
NodesOf(n) ==
    {n} \cup UNION {NodesOf(n.e[i]) : i \in 1..Len(n.e)}
        \cup UNION {UNION {NodesOf(n.b[i][j]) : j \in 1..Len(n.b[i])} : i \in 1..Len(n.b)}

(***************************************************************************)
(* The text.  A token has a kind (kw, id, num, str, op, end), a spelling, a *)
(* number and the line it stands on; there is no token for a line break.    *)
(***************************************************************************)
Tok(k, s)   == [k |-> k, s |-> s, n |-> 0, line |-> 0]
Kw(s)       == <<Tok("kw", s)>>
Id(s)       == <<Tok("id", s)>>
Sign(s)     == <<Tok("op", s)>>
Number(n)   == <<[Tok("num", "") EXCEPT !.n = n]>>

\* How tightly each operator binds, from loosest.
Binds == << {"or"}, {"and"}, {"==", "!="}, {"<", ">", "<=", ">="}, {"+", "-"}, {"*", "/", "%"} >>
Unary == 7
Postfix == 8

Level(e) ==
    CASE e.k = "bin" -> CHOOSE l \in 1..6 : e.x \in Binds[l]
      [] e.k = "un" \/ e = Lit("int", Least) -> Unary
      [] OTHER -> Postfix

RECURSIVE Show(_, _), ShowAll(_), ShowBlock(_), ShowStmts(_), ShowStmt(_)

\* e as a reader writes it where only what binds at least as tightly as min may stand
\* without parentheses.
Show(e, min) ==
    IF Level(e) < min THEN Sign("(") \o Show(e, 1) \o Sign(")")
    ELSE CASE e = Lit("int", Least) -> Sign("-") \o Number(Top + 1)
           [] e.k = "lit" /\ e.x = "int"  -> Number(e.n)
           [] e.k = "lit" /\ e.x = "bool" -> Kw(IF e.n = 1 THEN "true" ELSE "false")
           [] e.k = "lit" /\ e.x = "nil"  -> Kw("nil")
           [] e.k = "lit"  -> <<[Tok("str", "") EXCEPT !.n = e.n]>>
           [] e.k = "var"  -> Id(e.x)
           [] e.k = "un"   -> (IF e.x = "neg" THEN Sign("-") ELSE Kw("not")) \o Show(e.e[1], Unary)
           [] e.k = "bin"  -> Show(e.e[1], Level(e))
                              \o (IF e.x \in {"or", "and"} THEN Kw(e.x) ELSE Sign(e.x))
                              \o Show(e.e[2], Level(e) + 1)
           [] e.k = "call" -> Show(e.e[1], Postfix) \o Sign("(") \o ShowAll(Tail(e.e)) \o Sign(")")
           [] e.k = "index" -> Show(e.e[1], Postfix) \o Sign("[") \o Show(e.e[2], 1) \o Sign("]")
           [] e.k = "list" -> Sign("[") \o ShowAll(e.e) \o Sign("]")

ShowAll(es) ==
    CASE es = <<>>     -> <<>>
      [] Len(es) = 1   -> Show(es[1], 1)
      [] OTHER         -> Show(es[1], 1) \o Sign(",") \o ShowAll(Tail(es))

On(line, toks) == [i \in 1..Len(toks) |-> [toks[i] EXCEPT !.line = line]]

ShowBlock(b) == Sign("{") \o ShowStmts(b) \o Sign("}")
ShowStmts(b) == IF b = <<>> THEN <<>> ELSE ShowStmt(b[1]) \o ShowStmts(Tail(b))

\* A statement: the words before its first block stand on its line.
ShowStmt(s) ==
    CASE s.k = "assign"   -> On(s.line, Id(s.x) \o Sign("=") \o Show(s.e[1], 1))
      [] s.k = "setindex" -> On(s.line, Show(s.e[1], Postfix) \o Sign("[") \o Show(s.e[2], 1)
                                        \o Sign("]") \o Sign("=") \o Show(s.e[3], 1))
      [] s.k = "expr"     -> On(s.line, Show(s.e[1], 1))
      [] s.k = "if"       -> On(s.line, Kw("if") \o Show(s.e[1], 1)) \o ShowBlock(s.b[1])
                             \o (IF Len(s.b) = 1 THEN <<>>
                                 ELSE Kw("else")
                                      \o (IF Len(s.b[2]) = 1 /\ s.b[2][1].line = 0
                                          THEN ShowStmt(s.b[2][1]) ELSE ShowBlock(s.b[2])))
      [] s.k = "while"    -> On(s.line, Kw("while") \o Show(s.e[1], 1)) \o ShowBlock(s.b[1])
      [] s.k = "for"      -> On(s.line, Kw("for") \o Id(s.x) \o Kw("in") \o Show(s.e[1], 1)
                                        \o Kw("from") \o Show(s.e[2], 1) \o Kw("upto")
                                        \o (IF Len(s.e) = 2 THEN <<>>
                                            ELSE Show(s.e[3], 1) \o Id("each")))
                             \o ShowBlock(s.b[1])
      [] s.k = "foreach"  -> On(s.line, Kw("for") \o Id(s.x) \o Kw("in") \o Show(s.e[1], 1)
                                        \o Kw("of")) \o ShowBlock(s.b[1])
      [] s.k = "func"     -> On(s.line, Kw("func") \o Id(s.x) \o Sign("(") \o ShowAll(s.e) \o Sign(")"))
                             \o ShowBlock(s.b[1])
      [] s.k = "try"      -> On(s.line, Kw("try")) \o ShowBlock(s.b[1])
                             \o Kw("catch") \o Sign("(") \o Id(s.x) \o Sign(")") \o ShowBlock(s.b[2])
      [] s.k = "ret"      -> On(s.line, Kw("ret") \o (IF s.e = <<>> THEN <<>> ELSE Show(s.e[1], 1)))
      [] OTHER            -> On(s.line, Kw(s.k))

Text(b) == ShowStmts(b) \o <<Tok("end", "")>>

\* No token ends a statement: what s says runs on into t when t's first word can continue an
\* expression, and a 반환 without a value takes the next statement's for its own.
RunsOn(s, t) ==
    \/ s.k = "ret" /\ s.e = <<>>
    \/ /\ s.k \in {"assign", "setindex", "expr", "ret"}
       /\ ShowStmt(t)[1].s \in {"(", "[", "-"}

RECURSIVE Separate(_)
Separate(b) ==
    /\ \A i \in 1..(Len(b) - 1) : ~RunsOn(b[i], b[i + 1])
    /\ \A i \in 1..Len(b) : \A j \in 1..Len(b[i].b) : Separate(b[i].b[j])
===============================================================================
