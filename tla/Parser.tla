-------------------------------- MODULE Parser --------------------------------
(***************************************************************************)
(* parser.c: the recursive descent from tokens to the tree.  Every operator *)
(* takes the tokens t and answers a node with the position after it; most   *)
(* are given one too, the node r.n as far as it is built and the position   *)
(* r.p, and build on.  A syntax error (g_error out of eat, parse_primary,   *)
(* ...) ends the parse: here it is the node Broken at the end of the text,  *)
(* where no expectation can be met any more.                                *)
(* Not in this fragment: dictionaries, slices, lambdas, default parameters, *)
(* destructuring, compound assignment and 가져오기.                         *)
(***************************************************************************)
EXTENDS Syntax

Broken == Node("broken", "", 0, <<>>, <<>>)
Wrong(t) == [n |-> Broken, p |-> Len(t)]
Got(n, p) == [n |-> n, p |-> p]
Fine(r) == r.n # Broken

At(t, p, k, s) == t[p].k = k /\ t[p].s = s
IsOne(t, p, ops) == t[p].k \in {"op", "kw"} /\ t[p].s \in ops

\* eat the token k s after r.
Eat(t, r, k, s) == IF Fine(r) /\ At(t, r.p, k, s) THEN Got(r.n, r.p + 1) ELSE Wrong(t)

\* What stands at p: a statement, or an expression of what binds at least as tightly as l.
Statement == 0
RECURSIVE Parse(_, _, _)

Part(n, a) == IF Fine(a) THEN Got([n EXCEPT !.e = Append(@, a.n)], a.p) ELSE a

\* r with what is parsed after it as one more part.
Add(t, r, l) == IF Fine(r) THEN Part(r.n, Parse(l, t, r.p)) ELSE r
AddExpr(t, r) == Add(t, r, 1)

-------------------------------------------------------------------------------
RECURSIVE ParseMore(_, _, _), ParsePostfix(_, _), ParseItems(_, _, _)

\* Mutated: the right operand takes the operators of its own level.
ParseMoreRight(t, r, l) ==
    IF ~Fine(r) \/ ~IsOne(t, r.p, Binds[l]) THEN r
    ELSE ParseMore(t, Add(t, Got(Node("bin", t[r.p].s, 0, <<r.n>>, <<>>), r.p + 1), l), l)

\* parse_logic_or ... parse_factor: after one operand of the next level, as many more as this
\* level's operators join, to the left.
ParseMore(t, r, l) ==
    IF ~Fine(r) \/ ~IsOne(t, r.p, Binds[l]) THEN r
    ELSE ParseMore(t, Add(t, Got(Node("bin", t[r.p].s, 0, <<r.n>>, <<>>), r.p + 1), l + 1), l)

\* A minus before the one literal only a minus can make right is part of it.
ParseUnary(t, p) ==
    CASE At(t, p, "kw", "not") -> Add(t, Got(Node("un", "not", 0, <<>>, <<>>), p + 1), Unary)
      [] At(t, p, "op", "-") /\ t[p + 1].k = "num" /\ t[p + 1].n = Top + 1 ->
             Parse(Postfix, [t EXCEPT ![p + 1].n = Least], p + 1)
      [] At(t, p, "op", "-") -> Add(t, Got(Node("un", "neg", 0, <<>>, <<>>), p + 1), Unary)
      [] OTHER -> Parse(Postfix, t, p)

\* parse_call
ParsePostfix(t, r) ==
    CASE Fine(r) /\ At(t, r.p, "op", "(") ->
             ParsePostfix(t, ParseItems(t, Got(Call(r.n, <<>>), r.p + 1), ")"))
      [] Fine(r) /\ At(t, r.p, "op", "[") ->
             ParsePostfix(t, Eat(t, AddExpr(t, Got(Node("index", "", 0, <<r.n>>, <<>>), r.p + 1)), "op", "]"))
      [] OTHER -> r

\* The comma between two items may be left out.
Comma(t, r) == IF At(t, r.p, "op", ",") THEN Got(r.n, r.p + 1) ELSE r

ParseItems(t, r, close) ==
    CASE ~Fine(r) -> r
      [] Fine(r) /\ At(t, r.p, "op", close) -> Got(r.n, r.p + 1)
      [] OTHER -> ParseItems(t, Comma(t, AddExpr(t, r)), close)

ParsePrimary(t, p) ==
    CASE t[p].k = "num" -> IF t[p].n > Top THEN Wrong(t) ELSE Got(Lit("int", t[p].n), p + 1)
      [] t[p].k = "str" -> Got(Lit("str", t[p].n), p + 1)
      [] IsOne(t, p, {"true", "false"}) -> Got(Lit("bool", IF t[p].s = "true" THEN 1 ELSE 0), p + 1)
      [] At(t, p, "kw", "nil") -> Got(Lit("nil", 0), p + 1)
      [] t[p].k = "id" -> Got(Var(t[p].s), p + 1)
      [] At(t, p, "op", "(") -> Eat(t, Parse(1, t, p + 1), "op", ")")
      [] At(t, p, "op", "[") -> ParseItems(t, Got(Node("list", "", 0, <<>>, <<>>), p + 1), "]")
      [] OTHER -> Wrong(t)

-------------------------------------------------------------------------------
RECURSIVE ParseStatements(_, _), ParseParams(_, _), ParseIf(_, _)

NoStatements == Node("block", "", 0, <<>>, <<>>)

\* parse_brace_block: the statements between two braces.
ParseStatements(t, r) ==
    CASE ~Fine(r) -> r
      [] Fine(r) /\ At(t, r.p, "op", "}") -> Got(r.n, r.p + 1)
      [] Fine(r) /\ t[r.p].k = "end" -> Wrong(t)
      [] OTHER -> ParseStatements(t, Add(t, r, Statement))

ParseBlock(t, p) ==
    IF At(t, p, "op", "{") THEN ParseStatements(t, Got(NoStatements, p + 1)) ELSE Wrong(t)

Body(n, b) == IF Fine(b) THEN Got([n EXCEPT !.b = Append(@, b.n.e)], b.p) ELSE b
AddBlock(t, r) == IF Fine(r) THEN Body(r.n, ParseBlock(t, r.p)) ELSE r

ParseParams(t, r) ==
    CASE At(t, r.p, "op", ")") -> Got(r.n, r.p + 1)
      [] t[r.p].k = "id" -> ParseParams(t, Comma(t, Got([r.n EXCEPT !.e = Append(@, Var(t[r.p].s))], r.p + 1)))
      [] OTHER -> Wrong(t)

ParseFunc(t, p) ==
    IF t[p + 1].k = "id" /\ At(t, p + 2, "op", "(")
    THEN AddBlock(t, ParseParams(t, Got(Stmt("func", t[p + 1].s, <<>>), p + 3))) ELSE Wrong(t)

ElseIf(n, f) == IF Fine(f) THEN Got([n EXCEPT !.b = Append(@, <<f.n>>)], f.p) ELSE f

ParseElse(t, r) ==
    CASE ~(Fine(r) /\ At(t, r.p, "kw", "else")) -> r
      [] Fine(r) /\ At(t, r.p, "kw", "else") /\ At(t, r.p + 1, "kw", "if") -> ElseIf(r.n, ParseIf(t, r.p + 1))
      [] OTHER -> AddBlock(t, Got(r.n, r.p + 1))

ParseIf(t, p) == ParseElse(t, AddBlock(t, AddExpr(t, Got(Stmt("if", "", <<>>), p + 1))))

\* 씩 and what stands before it may be left out.
ParseStep(t, r) ==
    IF ~Fine(r) \/ At(t, r.p, "op", "{") THEN r ELSE Eat(t, AddExpr(t, r), "id", "each")

\* 반복: 를 ... 에서 goes through a collection, 를 ... 부터 ... 까지 [... 씩] through a range.
ParseRange(t, r) ==
    CASE Fine(r) /\ At(t, r.p, "kw", "of") -> AddBlock(t, Got([r.n EXCEPT !.k = "foreach"], r.p + 1))
      [] Fine(r) /\ At(t, r.p, "kw", "from") ->
             AddBlock(t, ParseStep(t, Eat(t, AddExpr(t, Got(r.n, r.p + 1)), "kw", "upto")))
      [] OTHER -> Wrong(t)

ParseFor(t, p) ==
    IF t[p + 1].k = "id" /\ At(t, p + 2, "kw", "in")
    THEN ParseRange(t, AddExpr(t, Got(Stmt("for", t[p + 1].s, <<>>), p + 3))) ELSE Wrong(t)

ParseCatch(t, r) ==
    IF /\ Fine(r) /\ At(t, r.p, "kw", "catch") /\ At(t, r.p + 1, "op", "(")
       /\ t[r.p + 2].k = "id" /\ At(t, r.p + 3, "op", ")")
    THEN Got([r.n EXCEPT !.x = t[r.p + 2].s], r.p + 4) ELSE Wrong(t)

ParseTry(t, p) == AddBlock(t, ParseCatch(t, AddBlock(t, Got(Stmt("try", "", <<>>), p + 1))))

\* The value may be left out before a closing brace and at the end only.
ParseReturn(t, r) ==
    IF At(t, r.p, "op", "}") \/ t[r.p].k = "end" THEN r ELSE AddExpr(t, r)

\* An assignment or an expression: the target is parsed as an expression first.
ParseSimple(t, r) ==
    CASE ~Fine(r) -> r
      [] Fine(r) /\ ~At(t, r.p, "op", "=") -> Got(Stmt("expr", "", <<r.n>>), r.p)
      [] OTHER -> CASE r.n.k = "var"   -> AddExpr(t, Got(Stmt("assign", r.n.x, <<>>), r.p + 1))
                    [] r.n.k = "index" -> AddExpr(t, Got(Stmt("setindex", "", r.n.e), r.p + 1))
                    [] OTHER           -> Wrong(t)

ParseInner(t, p) ==
    CASE At(t, p, "kw", "func")  -> ParseFunc(t, p)
      [] IsOne(t, p, {"brk", "cont"}) -> Got(Stmt(t[p].s, "", <<>>), p + 1)
      [] At(t, p, "kw", "try")   -> ParseTry(t, p)
      [] At(t, p, "kw", "if")    -> ParseIf(t, p)
      [] At(t, p, "kw", "while") -> AddBlock(t, AddExpr(t, Got(Stmt("while", "", <<>>), p + 1)))
      [] At(t, p, "kw", "for")   -> ParseFor(t, p)
      [] At(t, p, "kw", "ret")   -> ParseReturn(t, Got(Stmt("ret", "", <<>>), p + 1))
      [] OTHER -> ParseSimple(t, Parse(1, t, p))

\* N_STMT: the statement knows the line of its first word.
Lined(r, line) == IF Fine(r) THEN Got([r.n EXCEPT !.line = line], r.p) ELSE r

Parse(l, t, p) ==
    CASE l = Statement -> Lined(ParseInner(t, p), t[p].line)
      [] l = Unary     -> ParseUnary(t, p)
      [] l = Postfix   -> ParsePostfix(t, ParsePrimary(t, p))
      [] OTHER         -> ParseMore(t, Parse(l + 1, t, p), l)

\* parse_all: the statements up to the end of the text.
RECURSIVE ParseAll(_, _)
ParseAll(t, r) == IF ~Fine(r) \/ t[r.p].k = "end" THEN r ELSE ParseAll(t, Add(t, r, Statement))

Parsed(t) == ParseAll(t, Got(NoStatements, 1))
===============================================================================
