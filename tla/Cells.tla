-------------------------------- MODULE Cells --------------------------------
(***************************************************************************)
(* The values of the database: NULL, integers of a fixed width, reals and *)
(* texts, how they are converted, compared and calculated with, and what  *)
(* an expression of SQL is for a row.  Reals are exact fractions here: the *)
(* rounding of doubles is left out.                                        *)
(***************************************************************************)
EXTENDS Integers, Sequences

CONSTANTS
    Half,             \* the width of an integer: half as many as there are
    Texts,            \* the texts in the order of memcmp
    NumberIn,         \* the number a whole text spells, if it spells one
    Spelling          \* the text a number is printed as

MinInt == -Half
MaxInt == Half - 1
Ints == MinInt..MaxInt

Cell(kind, n, d, s) == [kind |-> kind, n |-> n, d |-> d, s |-> s]
Null == Cell("null", 0, 1, "")
Num(n) == Cell("int", n, 1, "")
Text(s) == Cell("text", 0, 1, s)

Abs(n) == IF n < 0 THEN -n ELSE n
Divides(k, n) == Abs(n) % k = 0
Quot(a, b) == LET q == Abs(a) \div Abs(b) IN IF (a < 0) = (b < 0) THEN q ELSE -q
Rem(a, b) == a - b * Quot(a, b)

\* A fraction in lowest terms with a positive denominator.
Real(n, d) ==
    LET g == CHOOSE g \in 1..Abs(d) :
                /\ Divides(g, d) /\ Divides(g, n)
                /\ \A k \in (g + 1)..Abs(d) : ~(Divides(k, d) /\ Divides(k, n))
        s == IF d < 0 THEN -1 ELSE 1
    IN  Cell("real", Quot(s * n, g), Abs(d) \div g, "")

\* What a cell is: a NULL, an integer, a fraction or a text.
IsCell(c) ==
    /\ c = Cell(c.kind, c.n, c.d, c.s)
    /\ c.kind \in {"null", "int", "real", "text"}
    /\ c.n \in Int /\ c.d \in Nat \ {0}

IsNull(c) == c.kind = "null"
IsNumber(c) == c.kind \in {"int", "real"}
AsReal(c) == [c EXCEPT !.kind = "real"]

ASSUME HalfAssumption == Half \in Nat \ {0}
ASSUME TextsAssumption == DOMAIN Texts \subseteq Int
ASSUME NumberInAssumption ==
    \A s \in DOMAIN NumberIn : IsCell(NumberIn[s]) /\ IsNumber(NumberIn[s])

\* text_as_num, then cell_num: text that is no number counts as 0.
ToNumber(c) == IF c.kind = "text" /\ c.s \in DOMAIN NumberIn THEN NumberIn[c.s] ELSE c
NumberOf(c) == LET x == ToNumber(c) IN IF x.kind = "text" THEN Num(0) ELSE x

\* A run lists every text it meets; one that is not listed would come first.
TextRank(s) == IF \E i \in DOMAIN Texts : Texts[i] = s
               THEN CHOOSE i \in DOMAIN Texts : Texts[i] = s ELSE 0

\* snprintf and str_float_repr: the text that spells c the way it is printed.
Printed(c) == Text(Spelling[c])

\* cell_coerce: a whole real becomes an integer when its size is below the
\* largest power of two (9.0e18 in the code).
Coerce(c, aff) ==
    LET x == ToNumber(c) IN
    CASE aff = "TEXT" -> IF IsNumber(c) THEN Printed(c) ELSE c
      [] aff = "REAL" -> IF x.kind = "int" THEN AsReal(x) ELSE x
      [] aff \in {"INT", "NUM"} ->
            IF x.kind = "real" /\ x.d = 1 /\ Abs(x.n) <= MaxInt THEN Num(x.n) ELSE x
      [] OTHER -> c

Class(c) == CASE c.kind = "null" -> 0 [] c.kind = "text" -> 2 [] OTHER -> 1

Sign(n) == IF n < 0 THEN -1 ELSE IF n > 0 THEN 1 ELSE 0

\* cell_cmp: NULL, then numbers, then texts.
Compare(a, b) ==
    IF Class(a) # Class(b) THEN Sign(Class(a) - Class(b))
    ELSE IF a.kind = "text" THEN Sign(TextRank(a.s) - TextRank(b.s))
    ELSE Sign(a.n * b.d - b.n * a.d)

Truth(c) == ~IsNull(c) /\ NumberOf(c).n # 0
Bool(b) == Num(IF b THEN 1 ELSE 0)

-----------------------------------------------------------------------------
(* Expressions: the nodes in the order they are made, operands before the   *)
(* node that takes them and the whole expression last.  A node says how far *)
(* back its operands a and b are; column 0 is the rowid.                    *)

Lit(c) == << [op |-> "lit", cell |-> c] >>
Col(i, aff) == << [op |-> "col", col |-> i, aff |-> aff] >>
Un(op, a) == Append(a, [op |-> op, a |-> 1])
Bin(op, a, b) == a \o b \o << [op |-> op, a |-> Len(b) + 1, b |-> 1] >>

Unary == {"NEG", "NOT", "IS NULL", "NOT NULL"}
Arithmetic == {"+", "-", "*", "/", "%"}
Comparisons == {"=", "<>", "<", ">", "<=", ">="}

\* What the parser makes for a table with these columns.
IsExpression(e, columns) ==
    /\ Len(e) \in Nat \ {0} /\ DOMAIN e = 1..Len(e)
    /\ \A k \in DOMAIN e : LET x == e[k] IN
        \/ x.op = "lit" /\ IsCell(x.cell)
        \/ x.op = "col" /\ x.col \in {0} \cup columns
        \/ x.op \in Unary /\ x.a \in 1..(k - 1)
        \/ /\ x.op \in {"AND", "OR"} \cup Comparisons \cup Arithmetic
           /\ x.a \in 1..(k - 1) /\ x.b \in 1..(k - 1)

RowCell(row, i) == IF i = 0 THEN Num(row.id) ELSE row.cells[i]

\* sq_d2i: the integer part, held at both ends of the width.
ToInt(c) ==
    LET q == Quot(c.n, c.d) IN
    IF q < MinInt THEN MinInt ELSE IF q > MaxInt THEN MaxInt ELSE q

\* The number of LIMIT and OFFSET: cut to an integer.
ToCount(c) == LET x == NumberOf(c) IN Quot(x.n, x.d)

Remainder(i, j) == IF j = -1 THEN 0 ELSE Rem(i, j)

Exactly(op, i, j) ==
    CASE op = "+" -> i + j [] op = "-" -> i - j [] op = "*" -> i * j
      [] op = "/" -> Quot(i, j) [] op = "%" -> Remainder(i, j)

OnReals(op, x, y) ==
    CASE op = "+" -> Real(x.n * y.d + y.n * x.d, x.d * y.d)
      [] op = "-" -> Real(x.n * y.d - y.n * x.d, x.d * y.d)
      [] op = "*" -> Real(x.n * y.n, x.d * y.d)
      [] op = "/" -> IF y.n = 0 THEN Null ELSE Real(x.n * y.d, x.d * y.n)
      [] op = "%" -> IF ToInt(y) = 0 THEN Null
                     ELSE AsReal(Num(Remainder(ToInt(x), ToInt(y))))

\* An integer result that does not fit is calculated again with reals, and a
\* division by zero is NULL.
Calculate(op, a, b) ==
    LET x == NumberOf(a) y == NumberOf(b) IN
    IF IsNull(a) \/ IsNull(b) THEN Null
    ELSE IF x.kind = "real" \/ y.kind = "real" THEN OnReals(op, x, y)
    ELSE IF op \in {"/", "%"} /\ y.n = 0 THEN Null
    ELSE IF Exactly(op, x.n, y.n) \in Ints THEN Num(Exactly(op, x.n, y.n))
    ELSE OnReals(op, x, y)

\* The affinity of the left column, or else of the right one, is applied to
\* both sides of a comparison.
Side(x, y) == IF x.op = "col" THEN x.aff ELSE IF y.op = "col" THEN y.aff ELSE "NONE"

Holds(op, c) ==
    CASE op = "=" -> c = 0 [] op = "<>" -> c # 0 [] op = "<" -> c < 0
      [] op = ">" -> c > 0 [] op = "<=" -> c <= 0 [] op = ">=" -> c >= 0

Compared(op, aff, a, b) ==
    IF IsNull(a) \/ IsNull(b) THEN Null
    ELSE Bool(Holds(op, Compare(Coerce(a, aff), Coerce(b, aff))))

Negated(a) ==
    LET x == NumberOf(a) IN
    IF IsNull(a) THEN Null
    ELSE IF x.kind = "int" /\ x.n # MinInt THEN Num(-x.n)
    ELSE Real(-x.n, x.d)

Not(a) == IF IsNull(a) THEN Null ELSE Bool(~Truth(a))

\* AND and OR: the second side is not asked when the first decides; NULL when
\* neither decides and one of them is NULL.
Joined(op, a, b) ==
    LET decides == op = "OR" IN
    IF ~IsNull(a) /\ (Truth(a) <=> decides) THEN Bool(decides)
    ELSE IF ~IsNull(b) /\ (Truth(b) <=> decides) THEN Bool(decides)
    ELSE IF IsNull(a) \/ IsNull(b) THEN Null
    ELSE Bool(~decides)

\* The value of node k, from the values v of the nodes before it.
NodeValue(e, k, v, row) ==
    LET x == e[k] a == v[k - x.a] b == v[k - x.b] IN
    CASE x.op = "lit" -> x.cell
      [] x.op = "col" -> RowCell(row, x.col)
      [] x.op = "NEG" -> Negated(a)
      [] x.op = "NOT" -> Not(a)
      [] x.op = "IS NULL" -> Bool(IsNull(a))
      [] x.op = "NOT NULL" -> Bool(~IsNull(a))
      [] x.op \in {"AND", "OR"} -> Joined(x.op, a, b)
      [] x.op \in Comparisons -> Compared(x.op, Side(e[k - x.a], e[k - x.b]), a, b)
      [] x.op \in Arithmetic -> Calculate(x.op, a, b)

\* The value of the part of e that ends at node k, and of e.
EvalAt(e, k, row) == LET v[i \in 1..k] == NodeValue(e, i, v, row) IN v[k]
Eval(e, row) == EvalAt(e, Len(e), row)
=============================================================================
