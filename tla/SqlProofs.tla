------------------------------ MODULE SqlProofs ------------------------------
(***************************************************************************)
(* The rows of a table are always well formed, converted and in the order  *)
(* of their rowids, and the loops over them keep the promise of RowSet:    *)
(* whatever the statements are, each is one step on a set of rows.         *)
(***************************************************************************)
EXTENDS Sql, FiniteSetTheorems, SequenceTheorems, WellFoundedInduction, TLAPS

-----------------------------------------------------------------------------
(* Numbers *)

\* Every set of naturals that is not empty has a least one.
LEMMA LeastNumber ==
    ASSUME NEW S \in SUBSET Nat, S # {}
    PROVE  \E n \in S : \A m \in S : n <= m
<1> DEFINE R == {ss \in Nat \X Nat : ss[1] < ss[2]}
<1>1. IsWellFoundedOn(R, Nat)
  BY NatLessThanWellFounded DEF OpToRel
<1>2. PICK n \in S : \A m \in S : <<m, n>> \notin R
  <2> HIDE DEF R
  <2> QED
    BY <1>1, WFMin
<1>3. ASSUME NEW m \in S, m < n
      PROVE  FALSE
  <2>1. <<m, n>> \in Nat \X Nat /\ <<m, n>>[1] = m /\ <<m, n>>[2] = n
    OBVIOUS
  <2>2. <<m, n>> \in R
    BY <1>3, <2>1
  <2> QED
    BY <1>2, <2>2
<1> HIDE DEF R
<1> QED
  BY <1>3

\* Induction, for a set of numbers: what holds of a number whenever it holds
\* of all before it holds of every number.
LEMMA StepByStep ==
    ASSUME NEW n \in Nat, NEW first \in {0, 1}, NEW S,
           \A k \in first..n : (\A j \in first..(k - 1) : j \in S) => k \in S
    PROVE  \A k \in first..n : k \in S
<1> DEFINE Left == {k \in first..n : k \notin S}
<1>1. SUFFICES ASSUME Left # {} PROVE FALSE
  OBVIOUS
<1>2. Left \in SUBSET Nat
  OBVIOUS
<1>3. PICK k \in Left : \A m \in Left : k <= m
  <2> HIDE DEF Left
  <2> QED
    BY <1>1, <1>2, LeastNumber
<1>4. \A j \in first..(k - 1) : j \in S
  BY <1>3
<1> QED
  BY <1>3, <1>4

LEMMA DivisionType ==
    ASSUME NEW a \in Nat, NEW b \in Nat \ {0}
    PROVE  /\ a \div b \in Nat /\ a % b \in Nat
           /\ b <= a => a \div b # 0
OBVIOUS

LEMMA QuotType ==
    ASSUME NEW a \in Int, NEW b \in Int \ {0}
    PROVE  Quot(a, b) \in Int /\ Rem(a, b) \in Int
<1>1. Abs(a) \in Nat /\ Abs(b) \in Nat \ {0}
  BY DEF Abs
<1>2. Abs(a) \div Abs(b) \in Nat
  BY <1>1, DivisionType
<1>3. Quot(a, b) \in Int
  BY <1>2 DEF Quot
<1> QED
  BY <1>3 DEF Rem

\* A bounded set of numbers has a largest one.
LEMMA LargestNumber ==
    ASSUME NEW n \in Nat, NEW S \in SUBSET (0..n), S # {}
    PROVE  \E m \in S : \A k \in S : k <= m
<1> DEFINE T == {n - k : k \in S}
<1>1. \A k \in S : k \in 0..n /\ n - k \in Nat
  OBVIOUS
<1>2. T \in SUBSET Nat /\ T # {} /\ \A k \in S : n - k \in T
  BY <1>1
<1>3. PICK t \in T : \A u \in T : t <= u
  <2> HIDE DEF T
  <2> QED
    BY <1>2, LeastNumber
<1>4. PICK m \in S : t = n - m
  BY <1>3
<1>5. ASSUME NEW k \in S
      PROVE  k <= m
  <2>1. n - m <= n - k
    <3> HIDE DEF T
    <3> QED
      BY <1>2, <1>3, <1>4
  <2> QED
    BY <1>1, <2>1
<1> QED
  BY <1>4, <1>5

-----------------------------------------------------------------------------
(* Cells *)

\* How a cell is made, and what its fields are.
LEMMA CellIntro ==
    ASSUME NEW kind \in {"null", "int", "real", "text"},
           NEW n \in Int, NEW d \in Nat \ {0}, NEW s
    PROVE  /\ IsCell(Cell(kind, n, d, s))
           /\ Cell(kind, n, d, s).kind = kind /\ Cell(kind, n, d, s).n = n
           /\ Cell(kind, n, d, s).d = d /\ Cell(kind, n, d, s).s = s
BY DEF IsCell, Cell

LEMMA CellParts ==
    ASSUME NEW c, IsCell(c)
    PROVE  /\ c = [kind |-> c.kind, n |-> c.n, d |-> c.d, s |-> c.s]
           /\ c.kind \in {"null", "int", "real", "text"}
           /\ c.n \in Int /\ c.d \in Nat \ {0}
BY DEF IsCell, Cell

\* NULL, integers, texts and truth values are cells.
LEMMA SimpleCells ==
    /\ IsCell(Null) /\ Null.kind = "null" /\ Null.n = 0 /\ Null.d = 1
    /\ \A n \in Int : IsCell(Num(n)) /\ Num(n).kind = "int" /\ Num(n).n = n /\ Num(n).d = 1
    /\ \A s : IsCell(Text(s)) /\ Text(s).kind = "text"
    /\ \A b : IsCell(Bool(b)) /\ Bool(b).kind = "int"
<1>1. IsCell(Null) /\ Null.kind = "null" /\ Null.n = 0 /\ Null.d = 1
  BY DEF Null, Cell, IsCell
<1>2. ASSUME NEW n \in Int
      PROVE  IsCell(Num(n)) /\ Num(n).kind = "int" /\ Num(n).n = n /\ Num(n).d = 1
  BY DEF Num, Cell, IsCell
<1>3. ASSUME NEW s
      PROVE  IsCell(Text(s)) /\ Text(s).kind = "text"
  BY DEF Text, Cell, IsCell
<1>4. ASSUME NEW b
      PROVE  IsCell(Bool(b)) /\ Bool(b).kind = "int"
  <2>1. (IF b THEN 1 ELSE 0) \in Int
    OBVIOUS
  <2> QED
    BY <1>2, <2>1 DEF Bool
<1> QED
  BY <1>1, <1>2, <1>3, <1>4

LEMMA AsRealCell ==
    ASSUME NEW c, IsCell(c)
    PROVE  IsCell(AsReal(c)) /\ AsReal(c).kind = "real"
<1>1. AsReal(c) = Cell("real", c.n, c.d, c.s)
  BY CellParts DEF AsReal, Cell
<1> QED
  BY <1>1, CellParts, CellIntro

LEMMA ToNumberCell ==
    ASSUME NEW c, IsCell(c)
    PROVE  /\ IsCell(ToNumber(c))
           /\ c.kind = "null" <=> ToNumber(c).kind = "null"
           /\ ToNumber(c).kind = "text" => ToNumber(c) = c /\ c.s \notin DOMAIN NumberIn
           /\ c.kind # "text" => ToNumber(c) = c
BY NumberInAssumption DEF ToNumber, IsNumber

LEMMA NumberOfCell ==
    ASSUME NEW c, IsCell(c)
    PROVE  IsCell(NumberOf(c)) /\ NumberOf(c).kind # "text"
BY ToNumberCell, SimpleCells, 0 \in Int DEF NumberOf

\* A fraction in lowest terms: the largest common divisor is there.
LEMMA RealCell ==
    ASSUME NEW n \in Int, NEW d \in Int \ {0}
    PROVE  IsCell(Real(n, d)) /\ Real(n, d).kind = "real"
<1> DEFINE common(g) == /\ Divides(g, d) /\ Divides(g, n)
                        /\ \A k \in (g + 1)..Abs(d) : ~(Divides(k, d) /\ Divides(k, n))
           S == {g \in 1..Abs(d) : Divides(g, d) /\ Divides(g, n)}
<1>1. Abs(d) \in Nat \ {0} /\ Abs(n) \in Nat
  BY DEF Abs
<1>2. 1 \in S
  <2>1. \A a \in Nat : a % 1 = 0
    OBVIOUS
  <2> QED
    BY <1>1, <2>1 DEF Divides
<1>3. PICK g \in S : \A k \in S : k <= g
  <2>1. S \in SUBSET (0..Abs(d)) /\ S # {}
    BY <1>1, <1>2
  <2> HIDE DEF S
  <2> QED
    BY <1>1, <2>1, LargestNumber
<1>4. g \in 1..Abs(d) /\ common(g)
  BY <1>1, <1>3
<1>5. PICK h : h = CHOOSE k \in 1..Abs(d) : common(k)
  OBVIOUS
<1>6. h \in 1..Abs(d)
  BY <1>4, <1>5
<1>7. PICK s \in {1, -1} : s = IF d < 0 THEN -1 ELSE 1
  OBVIOUS
<1>8. Real(n, d) = Cell("real", Quot(s * n, h), Abs(d) \div h, "")
  BY <1>5, <1>7 DEF Real
<1>9. Quot(s * n, h) \in Int
  <2>1. s * n \in Int /\ h \in Int \ {0}
    BY <1>1, <1>6
  <2> QED
    BY <2>1, QuotType
<1>10. Abs(d) \div h \in Nat \ {0}
  BY <1>1, <1>6, DivisionType
<1>11. PICK q \in Int, e \in Nat \ {0} : Real(n, d) = Cell("real", q, e, "")
  BY <1>8, <1>9, <1>10, Zenon
<1>12. IsCell(Cell("real", q, e, "")) /\ Cell("real", q, e, "").kind = "real"
  BY DEF Cell, IsCell
<1> QED
  BY <1>11, <1>12

\* cell_coerce gives cells, and a cell that was coerced stays as it is.
LEMMA CoerceCell ==
    ASSUME NEW c, IsCell(c), NEW aff
    PROVE  /\ IsCell(Coerce(c, aff))
           /\ Coerce(c, aff).kind = "null" <=> c.kind = "null"
           /\ Coerce(Coerce(c, aff), aff) = Coerce(c, aff)
<1> DEFINE x == ToNumber(c)
<1>1. IsCell(x) /\ (c.kind = "null" <=> x.kind = "null")
      /\ (x.kind = "text" => ToNumber(x) = x) /\ (x.kind # "text" => ToNumber(x) = x)
  BY ToNumberCell
<1>2. CASE aff = "TEXT"
  BY <1>2, SimpleCells DEF Coerce, IsNumber, Printed
<1>3. CASE aff = "REAL"
  <2>1. CASE x.kind = "int"
    <3>1. IsCell(AsReal(x)) /\ AsReal(x).kind = "real"
      BY <1>1, AsRealCell
    <3>2. Coerce(c, aff) = AsReal(x)
      BY <1>3, <2>1 DEF Coerce
    <3>3. ToNumber(AsReal(x)) = AsReal(x)
      BY <3>1, ToNumberCell
    <3> QED
      BY <1>1, <1>3, <2>1, <3>1, <3>2, <3>3 DEF Coerce
  <2>2. CASE x.kind # "int"
    <3>1. Coerce(c, aff) = x
      BY <1>3, <2>2 DEF Coerce
    <3>2. Coerce(x, aff) = x
      BY <1>1, <1>3, <2>2 DEF Coerce
    <3> QED
      BY <1>1, <3>1, <3>2
  <2> QED
    BY <2>1, <2>2
<1>4. CASE aff \in {"INT", "NUM"}
  <2>1. CASE x.kind = "real" /\ x.d = 1 /\ Abs(x.n) <= MaxInt
    <3>1. IsCell(Num(x.n)) /\ Num(x.n).kind = "int"
      BY <1>1, CellParts, SimpleCells
    <3>2. Coerce(c, aff) = Num(x.n)
      BY <1>4, <2>1 DEF Coerce
    <3>3. ToNumber(Num(x.n)) = Num(x.n)
      BY <3>1, ToNumberCell
    <3> QED
      BY <1>1, <1>4, <2>1, <3>1, <3>2, <3>3 DEF Coerce
  <2>2. CASE ~(x.kind = "real" /\ x.d = 1 /\ Abs(x.n) <= MaxInt)
    <3>1. Coerce(c, aff) = x
      BY <1>4, <2>2 DEF Coerce
    <3>2. Coerce(x, aff) = x
      BY <1>1, <1>4, <2>2 DEF Coerce
    <3> QED
      BY <1>1, <3>1, <3>2
  <2> QED
    BY <2>1, <2>2
<1>5. CASE aff \notin {"TEXT", "REAL", "INT", "NUM"}
  BY <1>5 DEF Coerce
<1> QED
  BY <1>2, <1>3, <1>4, <1>5

LEMMA ToIntType ==
    ASSUME NEW c, IsCell(c)
    PROVE  ToInt(c) \in Int
<1>1. Quot(c.n, c.d) \in Int
  BY CellParts, QuotType
<1>2. MinInt \in Int /\ MaxInt \in Int
  BY HalfAssumption DEF MinInt, MaxInt
<1> QED
  BY <1>1, <1>2 DEF ToInt

\* Arithmetic gives cells.
LEMMA OnRealsCell ==
    ASSUME NEW op \in Arithmetic, NEW x, NEW y, IsCell(x), IsCell(y)
    PROVE  IsCell(OnReals(op, x, y))
<1>1. x.n \in Int /\ y.n \in Int /\ x.d \in Nat \ {0} /\ y.d \in Nat \ {0}
  BY CellParts
<1>2. x.d * y.d \in Int \ {0}
  BY <1>1
<1>3. CASE op \in {"+", "-", "*"}
  <2>1. PICK n \in Int : OnReals(op, x, y) = Real(n, x.d * y.d)
    BY <1>1, <1>3 DEF OnReals
  <2> QED
    BY <1>2, <2>1, RealCell
<1>4. CASE op = "/"
  <2>1. CASE y.n = 0
    BY <1>4, <2>1, SimpleCells DEF OnReals
  <2>2. CASE y.n # 0
    <3>1. x.n * y.d \in Int /\ x.d * y.n \in Int \ {0}
      BY <1>1, <2>2
    <3>2. OnReals(op, x, y) = Real(x.n * y.d, x.d * y.n)
      BY <1>4, <2>2 DEF OnReals
    <3> QED
      BY <3>1, <3>2, RealCell
  <2> QED
    BY <2>1, <2>2
<1>5. CASE op = "%"
  <2>1. CASE ToInt(y) = 0
    BY <1>5, <2>1, SimpleCells DEF OnReals
  <2>2. CASE ToInt(y) # 0
    <3>1. ToInt(x) \in Int /\ ToInt(y) \in Int \ {0}
      BY <2>2, ToIntType
    <3>2. Remainder(ToInt(x), ToInt(y)) \in Int
      BY <3>1, QuotType DEF Remainder
    <3>3. OnReals(op, x, y) = AsReal(Num(Remainder(ToInt(x), ToInt(y))))
      BY <1>5, <2>2 DEF OnReals
    <3> QED
      BY <3>2, <3>3, SimpleCells, AsRealCell
  <2> QED
    BY <2>1, <2>2
<1> QED
  BY <1>3, <1>4, <1>5 DEF Arithmetic

LEMMA CalculateCell ==
    ASSUME NEW op \in Arithmetic, NEW a, NEW b, IsCell(a), IsCell(b)
    PROVE  IsCell(Calculate(op, a, b))
<1> DEFINE x == NumberOf(a)
           y == NumberOf(b)
<1>1. IsCell(x) /\ IsCell(y)
  BY NumberOfCell
<1>2. IsCell(OnReals(op, x, y)) /\ IsCell(Null)
  BY <1>1, OnRealsCell, SimpleCells
<1>3. Exactly(op, x.n, y.n) \in Ints => IsCell(Num(Exactly(op, x.n, y.n)))
  <2>1. Ints \subseteq Int
    BY HalfAssumption DEF Ints, MinInt, MaxInt
  <2> QED
    BY <2>1, SimpleCells
<1>4. Calculate(op, a, b) \in {Null, OnReals(op, x, y)}
      \/ /\ Exactly(op, x.n, y.n) \in Ints
         /\ Calculate(op, a, b) = Num(Exactly(op, x.n, y.n))
  BY DEF Calculate
<1> QED
  BY <1>2, <1>3, <1>4

LEMMA NegatedCell ==
    ASSUME NEW a, IsCell(a)
    PROVE  IsCell(Negated(a))
<1> DEFINE x == NumberOf(a)
<1>1. IsCell(x) /\ x.n \in Int /\ x.d \in Int \ {0} /\ -x.n \in Int
  BY NumberOfCell, CellParts
<1>2. IsCell(Null) /\ IsCell(Num(-x.n)) /\ IsCell(Real(-x.n, x.d))
  BY <1>1, SimpleCells, RealCell
<1> QED
  BY <1>2 DEF Negated

\* Comparisons and the connectives of three values give cells.
LEMMA LogicCells ==
    ASSUME NEW a, NEW b
    PROVE  /\ IsCell(Not(a)) /\ IsCell(Bool(IsNull(a))) /\ IsCell(Bool(~IsNull(a)))
           /\ \A op \in Comparisons : \A aff : IsCell(Compared(op, aff, a, b))
BY SimpleCells DEF Not, Compared

-----------------------------------------------------------------------------
(* Expressions *)

\* What a column of a row holds is a cell.
LEMMA RowCellCell ==
    ASSUME NEW row, IsRow(row), NEW i \in {0} \cup Columns
    PROVE  IsCell(RowCell(row, i))
BY SimpleCells DEF IsRow, IsTuple, RowCell

\* A node's value is read from the nodes before it only.
LEMMA NodeReadsBack ==
    ASSUME NEW e, IsExpression(e, Columns), NEW k \in 1..Len(e), NEW row, NEW v, NEW w,
           \A j \in 1..(k - 1) : v[j] = w[j]
    PROVE  NodeValue(e, k, v, row) = NodeValue(e, k, w, row)
<1> DEFINE x == e[k]
<1>1. PICK n : n = Len(e)
  OBVIOUS
<1>2. n \in Nat /\ k \in 1..n
  BY <1>1 DEF IsExpression
<1>3. CASE x.op \in {"lit", "col"}
  BY <1>3 DEF NodeValue, Unary, Comparisons, Arithmetic
<1>4. CASE x.op \in Unary /\ x.a \in 1..(k - 1)
  <2>1. k - x.a \in 1..(k - 1)
    BY <1>2, <1>4
  <2>2. v[k - x.a] = w[k - x.a]
    BY <2>1
  <2> QED
    BY <1>4, <2>2 DEF NodeValue, Unary, Comparisons, Arithmetic
<1>5. CASE x.op \in {"AND", "OR"} \cup Comparisons \cup Arithmetic /\ x.a \in 1..(k - 1) /\ x.b \in 1..(k - 1)
  <2>1. k - x.a \in 1..(k - 1) /\ k - x.b \in 1..(k - 1)
    BY <1>2, <1>5
  <2>2. v[k - x.a] = w[k - x.a] /\ v[k - x.b] = w[k - x.b]
    BY <2>1
  <2>3. x.op \notin {"lit", "col"} \cup Unary
    BY <1>5 DEF Comparisons, Arithmetic, Unary
  <2> QED
    BY <1>5, <2>2, <2>3 DEF NodeValue, Unary, Comparisons, Arithmetic
<1> QED
  <2>1. k \in DOMAIN e
    BY DEF IsExpression
  <2> QED
    BY <1>3, <1>4, <1>5, <2>1 DEF IsExpression

AreValues(e, k, v, row) == v = [i \in 1..k |-> NodeValue(e, i, v, row)]

\* The values of the nodes are one function: for each node there is one on
\* the nodes up to it, made from the one before.
LEMMA ValuesExist ==
    ASSUME NEW e, IsExpression(e, Columns), NEW n \in 1..Len(e), NEW row
    PROVE  \E v : AreValues(e, n, v, row)
<1>1. Len(e) \in Nat /\ n \in Nat
  BY DEF IsExpression
<1> DEFINE S == {k \in 1..n : \E v : AreValues(e, k, v, row)}
<1>2. ASSUME NEW k \in 1..n, \A j \in 1..(k - 1) : j \in S
      PROVE  k \in S
  <2>1. PICK v : k = 1 \/ AreValues(e, k - 1, v, row)
    <3>1. CASE k # 1
      <4>1. k - 1 \in 1..(k - 1)
        BY <1>1, <3>1
      <4> QED
        BY <1>2, <4>1
    <3> QED
      BY <3>1
  <2> DEFINE w == [i \in 1..k |-> NodeValue(e, i, v, row)]
  <2>2. \A i \in 1..(k - 1) : w[i] = v[i]
    <3>1. \A i \in 1..(k - 1) : i \in 1..k /\ k # 1
      BY <1>1
    <3> QED
      BY <2>1, <3>1 DEF AreValues
  <2>3. ASSUME NEW i \in 1..k
        PROVE  NodeValue(e, i, v, row) = NodeValue(e, i, w, row)
    <3>1. i \in 1..Len(e) /\ \A j \in 1..(i - 1) : j \in 1..(k - 1)
      BY <1>1
    <3>2. \A j \in 1..(i - 1) : v[j] = w[j]
      BY <2>2, <3>1
    <3> HIDE DEF w
    <3> QED
      BY <3>1, <3>2, NodeReadsBack
  <2>4. AreValues(e, k, w, row)
    BY <2>3 DEF AreValues
  <2> QED
    BY <2>4
<1>3. \A k \in 1..n : k \in S
  <2> HIDE DEF S
  <2> QED
    BY <1>1, <1>2, StepByStep
<1> QED
  BY <1>1, <1>3

\* The values of all nodes, which the value of each part of e is among.
LEMMA EvalAtIs ==
    ASSUME NEW e, IsExpression(e, Columns), NEW row, NEW k \in 1..Len(e)
    PROVE  EvalAt(e, k, row) = NodeValue(e, k, [i \in 1..Len(e) |-> EvalAt(e, i, row)], row)
<1>1. Len(e) \in Nat
  BY DEF IsExpression
<1>2. ASSUME NEW n \in 1..Len(e)
      PROVE  \E v : AreValues(e, n, v, row) /\ EvalAt(e, n, row) = v[n]
  <2>1. PICK v : v = CHOOSE u : AreValues(e, n, u, row)
    OBVIOUS
  <2>2. AreValues(e, n, v, row)
    BY <2>1, ValuesExist
  <2>3. EvalAt(e, n, row) = v[n]
    BY <2>1 DEF EvalAt, AreValues
  <2> QED
    BY <2>2, <2>3
<1>3. ASSUME NEW n \in 1..Len(e), NEW m \in 1..n, NEW v, NEW w,
             AreValues(e, n, v, row), AreValues(e, m, w, row)
      PROVE  \A j \in 1..m : j \in {i \in 1..m : v[i] = w[i]}
  <2> DEFINE S == {i \in 1..m : v[i] = w[i]}
  <2>1. ASSUME NEW i \in 1..m, \A j \in 1..(i - 1) : j \in S
        PROVE  i \in S
    <3>1. i \in 1..Len(e) /\ i \in 1..n
      BY <1>1
    <3>2. \A j \in 1..(i - 1) : v[j] = w[j]
      BY <2>1
    <3>3. NodeValue(e, i, v, row) = NodeValue(e, i, w, row)
      BY <3>1, <3>2, NodeReadsBack
    <3>4. v[i] = NodeValue(e, i, v, row) /\ w[i] = NodeValue(e, i, w, row)
      BY <1>3, <3>1 DEF AreValues
    <3> QED
      BY <3>3, <3>4
  <2> HIDE DEF S
  <2>2. \A i \in 1..m : i \in S
    BY <1>1, <2>1, StepByStep
  <2> QED
    BY <2>2 DEF S
<1>4. PICK v : AreValues(e, k, v, row) /\ EvalAt(e, k, row) = v[k]
  BY <1>2
<1>5. ASSUME NEW i \in 1..(k - 1)
      PROVE  EvalAt(e, i, row) = v[i]
  <2>1. i \in 1..Len(e) /\ i \in 1..k /\ i \in 1..i
    BY <1>1
  <2>2. PICK w : AreValues(e, i, w, row) /\ EvalAt(e, i, row) = w[i]
    BY <1>2, <2>1
  <2>3. i \in {j \in 1..i : v[j] = w[j]}
    BY <1>3, <1>4, <2>1, <2>2
  <2> QED
    BY <2>2, <2>3
<1>6. PICK u : u = [i \in 1..Len(e) |-> EvalAt(e, i, row)]
  OBVIOUS
<1>7. \A i \in 1..(k - 1) : v[i] = u[i]
  <2>1. \A i \in 1..(k - 1) : i \in 1..Len(e)
    BY <1>1
  <2> QED
    BY <1>5, <1>6, <2>1
<1>8. NodeValue(e, k, v, row) = NodeValue(e, k, u, row)
  BY <1>7, NodeReadsBack
<1>9. v[k] = NodeValue(e, k, v, row)
  <2>1. k \in 1..k
    BY <1>1
  <2> QED
    BY <1>4, <2>1 DEF AreValues
<1> QED
  BY <1>4, <1>6, <1>8, <1>9

LEMMA NodeCell ==
    ASSUME NEW e, IsExpression(e, Columns), NEW row, IsRow(row), NEW k \in 1..Len(e),
           NEW v, \A j \in 1..(k - 1) : IsCell(v[j])
    PROVE  IsCell(NodeValue(e, k, v, row))
<1> DEFINE x == e[k]
<1>1. Len(e) \in Nat /\ k \in DOMAIN e
  BY DEF IsExpression
<1>2. CASE x.op = "lit" /\ IsCell(x.cell)
  BY <1>2 DEF NodeValue, Unary, Comparisons, Arithmetic
<1>3. CASE x.op = "col" /\ x.col \in {0} \cup Columns
  BY <1>3, RowCellCell DEF NodeValue, Unary, Comparisons, Arithmetic
<1>4. CASE x.op \in Unary /\ x.a \in 1..(k - 1)
  <2>1. k - x.a \in 1..(k - 1)
    BY <1>1, <1>4
  <2>2. PICK a : a = v[k - x.a] /\ IsCell(a)
    BY <2>1
  <2>3. IsCell(Negated(a)) /\ IsCell(Not(a)) /\ IsCell(Bool(IsNull(a))) /\ IsCell(Bool(~IsNull(a)))
    BY <2>2, NegatedCell, LogicCells
  <2>4. NodeValue(e, k, v, row) \in {Negated(a), Not(a), Bool(IsNull(a)), Bool(~IsNull(a))}
    BY <1>4, <2>2 DEF NodeValue, Unary, Comparisons, Arithmetic
  <2> QED
    BY <2>3, <2>4
<1>5. CASE x.op \in {"AND", "OR"} \cup Comparisons \cup Arithmetic /\ x.a \in 1..(k - 1) /\ x.b \in 1..(k - 1)
  <2>1. k - x.a \in 1..(k - 1) /\ k - x.b \in 1..(k - 1)
    BY <1>1, <1>5
  <2>2. PICK a, b : a = v[k - x.a] /\ b = v[k - x.b] /\ IsCell(a) /\ IsCell(b)
    BY <2>1
  <2>3. PICK aff : aff = Side(e[k - x.a], e[k - x.b])
    OBVIOUS
  <2>4. CASE x.op \in {"AND", "OR"}
    <3>1. NodeValue(e, k, v, row) = Joined(x.op, a, b)
      BY <2>2, <2>4 DEF NodeValue, Unary, Comparisons, Arithmetic
    <3> QED
      BY <3>1, SimpleCells DEF Joined
  <2>5. CASE x.op \in Comparisons
    <3>1. NodeValue(e, k, v, row) = Compared(x.op, aff, a, b)
      BY <2>2, <2>3, <2>5 DEF NodeValue, Comparisons, Arithmetic
    <3> QED
      BY <2>5, <3>1, LogicCells
  <2>6. CASE x.op \in Arithmetic
    <3>1. NodeValue(e, k, v, row) = Calculate(x.op, a, b)
      BY <2>2, <2>6 DEF NodeValue, Comparisons, Arithmetic
    <3> QED
      BY <2>2, <2>6, <3>1, CalculateCell
  <2> QED
    BY <1>5, <2>4, <2>5, <2>6
<1> QED
  BY <1>1, <1>2, <1>3, <1>4, <1>5 DEF IsExpression

\* An expression for a row is a cell.
LEMMA EvalCell ==
    ASSUME NEW e, IsExpression(e, Columns), NEW row, IsRow(row)
    PROVE  IsCell(Eval(e, row))
<1>1. Len(e) \in Nat /\ Len(e) \in 1..Len(e)
  BY DEF IsExpression
<1> DEFINE S == {k \in 1..Len(e) : IsCell(EvalAt(e, k, row))}
<1>2. ASSUME NEW k \in 1..Len(e), \A j \in 1..(k - 1) : j \in S
      PROVE  k \in S
  <2>1. PICK v : v = [i \in 1..Len(e) |-> EvalAt(e, i, row)]
    OBVIOUS
  <2>2. \A j \in 1..(k - 1) : IsCell(v[j])
    BY <1>2, <2>1
  <2>3. IsCell(NodeValue(e, k, v, row))
    BY <2>2, NodeCell
  <2> QED
    BY <2>1, <2>3, EvalAtIs
<1>3. \A k \in 1..Len(e) : k \in S
  <2> HIDE DEF S
  <2> QED
    BY <1>1, <1>2, StepByStep
<1> QED
  BY <1>1, <1>3 DEF Eval

(* RowSet's cells are the same. *)
LEMMA SameCells ==
    ASSUME NEW c, NEW d, NEW aff
    PROVE  /\ Promise!NumberOf(c) = NumberOf(c)
           /\ Promise!IsNull(c) <=> IsNull(c)
           /\ Promise!Truth(c) <=> Truth(c)
           /\ Promise!Coerce(c, aff) = Coerce(c, aff)
           /\ Promise!Compare(c, d) = Compare(c, d)
           /\ Promise!ToCount(c) = ToCount(c)
           /\ Promise!Null = Null
<1>1. Promise!ToNumber(c) = ToNumber(c) /\ Promise!Null = Null
      /\ (\A n : Promise!Num(n) = Num(n))
  BY DEF Promise!ToNumber, ToNumber, Promise!Null, Null, Promise!Num, Num, Promise!Cell, Cell
<1>2. Promise!NumberOf(c) = NumberOf(c)
  BY <1>1 DEF Promise!NumberOf, NumberOf
<1>3. Promise!IsNull(c) <=> IsNull(c)
  BY DEF Promise!IsNull, IsNull
<1>4. Promise!Truth(c) <=> Truth(c)
  BY <1>2, <1>3 DEF Promise!Truth, Truth
<1>5. Promise!Coerce(c, aff) = Coerce(c, aff)
  BY <1>1 DEF Promise!Coerce, Coerce, Promise!IsNumber, IsNumber, Promise!Printed, Printed,
              Promise!Text, Text, Promise!Cell, Cell, Promise!AsReal, AsReal, Promise!MaxInt,
              MaxInt, Promise!Abs, Abs
<1>6. Promise!Compare(c, d) = Compare(c, d)
  BY DEF Promise!Compare, Compare, Promise!Class, Class, Promise!Sign, Sign,
         Promise!TextRank, TextRank
<1>7. Promise!ToCount(c) = ToCount(c)
  BY <1>2 DEF Promise!ToCount, ToCount, Promise!Quot, Quot, Promise!Abs, Abs
<1> QED
  BY <1>1, <1>2, <1>3, <1>4, <1>5, <1>6, <1>7

LEMMA SameReals ==
    ASSUME NEW n, NEW d
    PROVE  Promise!Real(n, d) = Real(n, d)
BY DEF Promise!Real, Real, Promise!Divides, Divides, Promise!Abs, Abs, Promise!Quot, Quot,
       Promise!Cell, Cell

LEMMA SameNumbers ==
    ASSUME NEW op, NEW a, NEW b
    PROVE  /\ Promise!Calculate(op, a, b) = Calculate(op, a, b)
           /\ Promise!Negated(a) = Negated(a)
<1>1. \A n : Promise!Num(n) = Num(n)
  BY DEF Promise!Num, Num, Promise!Cell, Cell
<1>2. \A x : Promise!AsReal(x) = AsReal(x) /\ Promise!ToInt(x) = ToInt(x)
  BY DEF Promise!AsReal, AsReal, Promise!ToInt, ToInt, Promise!MinInt, MinInt,
         Promise!MaxInt, MaxInt, Promise!Quot, Quot, Promise!Abs, Abs
<1>3. \A i, j : Promise!Remainder(i, j) = Remainder(i, j) /\ Promise!Exactly(op, i, j) = Exactly(op, i, j)
  BY DEF Promise!Remainder, Remainder, Promise!Rem, Rem, Promise!Exactly, Exactly,
         Promise!Quot, Quot, Promise!Abs, Abs
<1>4. \A x, y : Promise!OnReals(op, x, y) = OnReals(op, x, y)
  BY <1>1, <1>2, <1>3, SameReals, SameCells DEF Promise!OnReals, OnReals
<1>5. Promise!Calculate(op, a, b) = Calculate(op, a, b)
  BY <1>1, <1>3, <1>4, SameCells DEF Promise!Calculate, Calculate, Promise!Ints, Ints,
     Promise!MinInt, MinInt, Promise!MaxInt, MaxInt
<1>6. Promise!Negated(a) = Negated(a)
  BY <1>1, SameReals, SameCells DEF Promise!Negated, Negated, Promise!MinInt, MinInt
<1> QED
  BY <1>5, <1>6

LEMMA SameLogic ==
    ASSUME NEW op, NEW aff, NEW a, NEW b
    PROVE  /\ Promise!Not(a) = Not(a)
           /\ Promise!Joined(op, a, b) = Joined(op, a, b)
           /\ Promise!Compared(op, aff, a, b) = Compared(op, aff, a, b)
<1>1. \A n : Promise!Num(n) = Num(n)
  BY DEF Promise!Num, Num, Promise!Cell, Cell
<1>3. Promise!Not(a) = Not(a)
  BY <1>1, SameCells DEF Promise!Not, Not, Promise!Bool, Bool
<1>4. Promise!Joined(op, a, b) = Joined(op, a, b)
  BY <1>1, SameCells DEF Promise!Joined, Joined, Promise!Bool, Bool
<1>5. Promise!Compared(op, aff, a, b) = Compared(op, aff, a, b)
  BY <1>1, SameCells DEF Promise!Compared, Compared, Promise!Bool, Bool, Promise!Holds, Holds
<1> QED
  BY <1>3, <1>4, <1>5

LEMMA SameRowCell ==
    ASSUME NEW row, NEW i
    PROVE  Promise!RowCell(row, i) = RowCell(row, i)
BY DEF Promise!RowCell, RowCell, Promise!Num, Num, Promise!Cell, Cell

\* ... and so are the values of expressions.
LEMMA SameNode ==
    ASSUME NEW e, NEW k, NEW v, NEW row
    PROVE  Promise!NodeValue(e, k, v, row) = NodeValue(e, k, v, row)
<1> DEFINE x == e[k]
           a == v[k - x.a]
           b == v[k - x.b]
<1>1. \A c : Promise!Bool(c) = Bool(c)
  BY DEF Promise!Bool, Bool, Promise!Num, Num, Promise!Cell, Cell
<1>2. /\ Promise!RowCell(row, x.col) = RowCell(row, x.col)
      /\ Promise!Negated(a) = Negated(a) /\ Promise!Not(a) = Not(a)
      /\ Promise!Bool(Promise!IsNull(a)) = Bool(IsNull(a))
      /\ Promise!Bool(~Promise!IsNull(a)) = Bool(~IsNull(a))
      /\ Promise!Calculate(x.op, a, b) = Calculate(x.op, a, b)
  BY <1>1, SameRowCell, SameNumbers, SameLogic, SameCells DEF Promise!IsNull, IsNull
<1>3. Promise!Joined(x.op, a, b) = Joined(x.op, a, b)
  BY <1>1, SameCells DEF Promise!Joined, Joined
<1>4. Promise!Compared(x.op, Promise!Side(e[k - x.a], e[k - x.b]), a, b)
      = Compared(x.op, Side(e[k - x.a], e[k - x.b]), a, b)
  BY SameLogic DEF Promise!Side, Side
<1> HIDE DEF x, a, b
<1> QED
  BY <1>2, <1>3, <1>4 DEF Promise!NodeValue, NodeValue, Promise!Comparisons, Comparisons,
     Promise!Arithmetic, Arithmetic, x, a, b

LEMMA SameEval ==
    ASSUME NEW e, NEW row
    PROVE  /\ \A k : Promise!EvalAt(e, k, row) = EvalAt(e, k, row)
           /\ Promise!Eval(e, row) = Eval(e, row)
<1>1. ASSUME NEW k
      PROVE  Promise!EvalAt(e, k, row) = EvalAt(e, k, row)
  <2>1. \A v, i : Promise!NodeValue(e, i, v, row) = NodeValue(e, i, v, row)
    BY SameNode
  <2>2. \A v : (v = [i \in 1..k |-> Promise!NodeValue(e, i, v, row)])
              <=> (v = [i \in 1..k |-> NodeValue(e, i, v, row)])
    BY <2>1
  <2>3. (CHOOSE v : v = [i \in 1..k |-> Promise!NodeValue(e, i, v, row)])
        = (CHOOSE v : v = [i \in 1..k |-> NodeValue(e, i, v, row)])
    BY <2>2
  <2> QED
    BY <2>3 DEF Promise!EvalAt, EvalAt
<1> QED
  BY <1>1 DEF Promise!Eval, Eval

-----------------------------------------------------------------------------
(* The logic of three values *)

Logic(c) == IF IsNull(c) THEN 1 ELSE IF Truth(c) THEN 2 ELSE 0

\* The truth of a cell as a number: 0 false, 1 neither, 2 true.
LEMMA LogicFacts ==
    ASSUME NEW c
    PROVE  /\ Logic(c) \in {0, 1, 2}
           /\ Logic(c) = 1 <=> IsNull(c)
           /\ Logic(c) = 2 <=> ~IsNull(c) /\ Truth(c)
           /\ Logic(c) = 0 <=> ~IsNull(c) /\ ~Truth(c)
BY DEF Logic

LEMMA LogicOfConstants == Logic(Null) = 1 /\ Logic(Num(1)) = 2 /\ Logic(Num(0)) = 0
BY DEF Logic, Num, Null, Cell, IsNull, Truth, NumberOf, ToNumber

LEMMA LeastAndLargestOfTwo ==
    ASSUME NEW i \in Int, NEW j \in Int
    PROVE  /\ Promise!Min({i, j}) = IF i <= j THEN i ELSE j
           /\ Promise!Max({i, j}) = IF i <= j THEN j ELSE i
BY DEF Promise!Min, Promise!Max

\* NOT, AND and OR of what the code makes of them are 2 - v, least and largest.
LEMMA LogicOfNot ==
    ASSUME NEW a
    PROVE  Logic(Not(a)) = 2 - Logic(a)
<1>1. Not(a) = IF Logic(a) = 1 THEN Null ELSE IF Logic(a) = 0 THEN Num(1) ELSE Num(0)
  BY LogicFacts DEF Not, Bool
<1> QED
  BY <1>1, LogicFacts, LogicOfConstants

LEMMA LogicOfJoined ==
    ASSUME NEW a, NEW b
    PROVE  /\ Logic(Joined("AND", a, b)) = Promise!Min({Logic(a), Logic(b)})
           /\ Logic(Joined("OR", a, b)) = Promise!Max({Logic(a), Logic(b)})
<1>1. /\ Promise!Min({Logic(a), Logic(b)}) = IF Logic(a) <= Logic(b) THEN Logic(a) ELSE Logic(b)
      /\ Promise!Max({Logic(a), Logic(b)}) = IF Logic(a) <= Logic(b) THEN Logic(b) ELSE Logic(a)
  <2>1. Logic(a) \in Int /\ Logic(b) \in Int
    BY LogicFacts
  <2> HIDE DEF Logic
  <2> QED
    BY <2>1, LeastAndLargestOfTwo
<1>2. Joined("AND", a, b) = IF Logic(a) = 0 \/ Logic(b) = 0 THEN Num(0)
                            ELSE IF Logic(a) = 1 \/ Logic(b) = 1 THEN Null ELSE Num(1)
  BY LogicFacts DEF Joined, Bool
<1>3. Joined("OR", a, b) = IF Logic(a) = 2 \/ Logic(b) = 2 THEN Num(1)
                           ELSE IF Logic(a) = 1 \/ Logic(b) = 1 THEN Null ELSE Num(0)
  BY LogicFacts DEF Joined, Bool
<1>4. Logic(a) \in {0, 1, 2} /\ Logic(b) \in {0, 1, 2}
  BY LogicFacts
<1>5. PICK p, q : p = Logic(a) /\ q = Logic(b)
  OBVIOUS
<1>6. p \in {0, 1, 2} /\ q \in {0, 1, 2}
  BY <1>4, <1>5
<1>7. Logic(Joined("AND", a, b)) = IF p <= q THEN p ELSE q
  BY <1>2, <1>5, <1>6, LogicOfConstants
<1>8. Logic(Joined("OR", a, b)) = IF p <= q THEN q ELSE p
  BY <1>3, <1>5, <1>6, LogicOfConstants
<1> QED
  BY <1>1, <1>5, <1>7, <1>8

\* The body of RowSet's Value.
TruthOf(e, k, v, row) ==
    CASE e[k].op = "AND" -> Promise!Min({v[k - e[k].a], v[k - e[k].b]})
      [] e[k].op = "OR"  -> Promise!Max({v[k - e[k].a], v[k - e[k].b]})
      [] e[k].op = "NOT" -> 2 - v[k - e[k].a]
      [] OTHER -> Logic(EvalAt(e, k, row))

AreTruths(e, v, row) == v = [k \in 1..Len(e) |-> TruthOf(e, k, v, row)]

\* One node of a condition.
LEMMA TruthStep ==
    ASSUME NEW e, IsExpression(e, Columns), NEW row, NEW k \in 1..Len(e),
           NEW v, \A j \in 1..(k - 1) : v[j] = Logic(EvalAt(e, j, row))
    PROVE  TruthOf(e, k, v, row) = Logic(EvalAt(e, k, row))
<1> DEFINE x == e[k]
<1>1. Len(e) \in Nat /\ k \in DOMAIN e
  BY DEF IsExpression
<1>2. PICK u : u = [i \in 1..Len(e) |-> EvalAt(e, i, row)]
  OBVIOUS
<1>3. EvalAt(e, k, row) = NodeValue(e, k, u, row)
  BY <1>2, EvalAtIs
<1>4. \A j \in 1..(k - 1) : u[j] = EvalAt(e, j, row)
  BY <1>1, <1>2
<1>5. CASE x.op \in {"AND", "OR"}
  <2>1. x.a \in 1..(k - 1) /\ x.b \in 1..(k - 1)
    BY <1>1, <1>5 DEF IsExpression, Unary, Comparisons, Arithmetic
  <2>2. k - x.a \in 1..(k - 1) /\ k - x.b \in 1..(k - 1)
    BY <1>1, <2>1
  <2>3. PICK a, b : a = u[k - x.a] /\ b = u[k - x.b]
    OBVIOUS
  <2>4. v[k - x.a] = Logic(a) /\ v[k - x.b] = Logic(b)
    BY <1>4, <2>2, <2>3
  <2>5. CASE x.op = "AND"
    <3>1. EvalAt(e, k, row) = Joined("AND", a, b)
      BY <1>3, <2>3, <2>5 DEF NodeValue, Comparisons, Arithmetic
    <3>2. TruthOf(e, k, v, row) = Promise!Min({Logic(a), Logic(b)})
      BY <2>4, <2>5 DEF TruthOf
    <3> QED
      BY <3>1, <3>2, LogicOfJoined
  <2>6. CASE x.op = "OR"
    <3>1. EvalAt(e, k, row) = Joined("OR", a, b)
      BY <1>3, <2>3, <2>6 DEF NodeValue, Comparisons, Arithmetic
    <3>2. TruthOf(e, k, v, row) = Promise!Max({Logic(a), Logic(b)})
      BY <2>4, <2>6 DEF TruthOf
    <3> QED
      BY <3>1, <3>2, LogicOfJoined
  <2> QED
    BY <1>5, <2>5, <2>6
<1>6. CASE x.op = "NOT"
  <2>1. x.a \in 1..(k - 1)
    BY <1>1, <1>6 DEF IsExpression, Unary, Comparisons, Arithmetic
  <2>2. k - x.a \in 1..(k - 1)
    BY <1>1, <2>1
  <2>3. PICK a : a = u[k - x.a]
    OBVIOUS
  <2>4. v[k - x.a] = Logic(a)
    BY <1>4, <2>2, <2>3
  <2>5. EvalAt(e, k, row) = Not(a)
    BY <1>3, <1>6, <2>3 DEF NodeValue, Comparisons, Arithmetic
  <2>6. TruthOf(e, k, v, row) = 2 - Logic(a)
    BY <1>6, <2>4 DEF TruthOf
  <2> QED
    BY <2>5, <2>6, LogicOfNot
<1>7. CASE x.op \notin {"AND", "OR", "NOT"}
  BY <1>7 DEF TruthOf
<1> QED
  BY <1>5, <1>6, <1>7

\* RowSet's truth of a condition is the truth of what the code makes of it.
LEMMA ValueIsTruth ==
    ASSUME NEW e, IsExpression(e, Columns), NEW row
    PROVE  (Promise!Value(e, row) = 2) <=> Truth(Eval(e, row))
<1>1. Len(e) \in Nat /\ Len(e) \in 1..Len(e)
  BY DEF IsExpression
<1> DEFINE w == [k \in 1..Len(e) |-> Logic(EvalAt(e, k, row))]
<1>2. AreTruths(e, w, row)
  <2>1. ASSUME NEW k \in 1..Len(e)
        PROVE  TruthOf(e, k, w, row) = Logic(EvalAt(e, k, row))
    <3>1. \A j \in 1..(k - 1) : w[j] = Logic(EvalAt(e, j, row))
      BY <1>1
    <3> HIDE DEF w
    <3> QED
      BY <3>1, TruthStep
  <2> QED
    BY <2>1 DEF AreTruths
<1>3. PICK v : v = CHOOSE u : AreTruths(e, u, row)
  OBVIOUS
<1>4. AreTruths(e, v, row)
  <2> HIDE DEF w
  <2> QED
    BY <1>2, <1>3
<1>5. Promise!Value(e, row) = v[Len(e)]
  <2> DEFINE body(u, k) ==
                 CASE e[k].op = "AND" -> Promise!Min({u[k - e[k].a], u[k - e[k].b]})
                   [] e[k].op = "OR"  -> Promise!Max({u[k - e[k].a], u[k - e[k].b]})
                   [] e[k].op = "NOT" -> 2 - u[k - e[k].a]
                   [] OTHER -> IF Promise!IsNull(Promise!EvalAt(e, k, row)) THEN 1
                               ELSE IF Promise!Truth(Promise!EvalAt(e, k, row)) THEN 2 ELSE 0
  <2>1. ASSUME NEW k
        PROVE  Logic(EvalAt(e, k, row))
               = IF Promise!IsNull(Promise!EvalAt(e, k, row)) THEN 1
                 ELSE IF Promise!Truth(Promise!EvalAt(e, k, row)) THEN 2 ELSE 0
    BY SameEval, SameCells DEF Logic
  <2>2. \A u, k : body(u, k) = TruthOf(e, k, u, row)
    BY <2>1 DEF TruthOf
  <2>3. \A u : (u = [k \in 1..Len(e) |-> body(u, k)]) <=> AreTruths(e, u, row)
    <3> HIDE DEF body
    <3> QED
      BY <2>2 DEF AreTruths
  <2>4. (CHOOSE u : u = [k \in 1..Len(e) |-> body(u, k)]) = v
    <3> HIDE DEF body
    <3> QED
      BY <1>3, <2>3
  <2> QED
    BY <2>4 DEF Promise!Value
<1> DEFINE S == {k \in 1..Len(e) : v[k] = Logic(EvalAt(e, k, row))}
<1>6. ASSUME NEW k \in 1..Len(e), \A j \in 1..(k - 1) : j \in S
      PROVE  k \in S
  <2>1. TruthOf(e, k, v, row) = Logic(EvalAt(e, k, row))
    BY <1>6, TruthStep
  <2> QED
    BY <1>4, <2>1 DEF AreTruths
<1>7. \A k \in 1..Len(e) : k \in S
  <2> HIDE DEF S
  <2> QED
    BY <1>1, <1>6, StepByStep
<1>8. Promise!Value(e, row) = Logic(Eval(e, row))
  BY <1>1, <1>5, <1>7 DEF Eval
<1> QED
  <2>1. Truth(Eval(e, row)) => ~IsNull(Eval(e, row))
    BY DEF Truth
  <2> QED
    BY <1>8, <2>1 DEF Logic

-----------------------------------------------------------------------------
(* Lists *)

\* Lists: their length, domain and elements.
LEMMA ListFacts ==
    ASSUME NEW list, IsList(list)
    PROVE  /\ Len(list) \in Nat /\ DOMAIN list = 1..Len(list)
           /\ list = [i \in 1..Len(list) |-> list[i]]
BY DEF IsList

LEMMA ListIntro ==
    ASSUME NEW list, NEW n \in Nat, list = [i \in 1..n |-> list[i]]
    PROVE  IsList(list) /\ Len(list) = n
<1>1. DOMAIN list = 1..n
  OBVIOUS
<1>2. list \in [1..n -> {list[i] : i \in DOMAIN list}]
  BY <1>1
<1>3. list \in Seq({list[i] : i \in DOMAIN list})
  BY <1>2
<1> QED
  BY <1>1, <1>3 DEF IsList

\* Lists of a common set, to speak of several of them.
LEMMA ListOf ==
    ASSUME NEW list, IsList(list), NEW S, \A i \in DOMAIN list : list[i] \in S
    PROVE  list \in Seq(S)
<1>1. Len(list) \in Nat /\ list \in [1..Len(list) -> S]
  BY ListFacts
<1> QED
  BY <1>1

LEMMA SeqIsList ==
    ASSUME NEW S, NEW list \in Seq(S)
    PROVE  IsList(list)
<1>1. Len(list) \in Nat /\ list = [i \in 1..Len(list) |-> list[i]]
  OBVIOUS
<1> QED
  BY <1>1, ListIntro

\* A list with one element more.
LEMMA AppendFacts ==
    ASSUME NEW list, IsList(list), NEW x
    PROVE  /\ IsList(Append(list, x)) /\ Len(Append(list, x)) = Len(list) + 1
           /\ \A i \in 1..Len(list) : Append(list, x)[i] = list[i]
           /\ Append(list, x)[Len(list) + 1] = x
<1> DEFINE S == {list[i] : i \in DOMAIN list} \cup {x}
<1>1. list \in Seq(S) /\ x \in S
  BY ListOf
<1> HIDE DEF S
<1>2. /\ Append(list, x) \in Seq(S) /\ Len(Append(list, x)) = Len(list) + 1
      /\ \A i \in 1..Len(list) : Append(list, x)[i] = list[i]
      /\ Append(list, x)[Len(list) + 1] = x
  BY <1>1
<1>3. PICK new : new = Append(list, x)
  OBVIOUS
<1>5. IsList(new)
  BY <1>2, <1>3, SeqIsList
<1> QED
  BY <1>2, <1>3, <1>5

LEMMA PartFacts ==
    ASSUME NEW list, IsList(list), NEW m \in 1..(Len(list) + 1), NEW n \in (m - 1)..Len(list)
    PROVE  /\ IsList(SubSeq(list, m, n)) /\ Len(SubSeq(list, m, n)) = n - m + 1
           /\ \A j \in 1..(n - m + 1) : SubSeq(list, m, n)[j] = list[m + j - 1]
<1> DEFINE S == {list[j] : j \in DOMAIN list}
<1>1. Len(list) \in Nat /\ DOMAIN list = 1..Len(list)
  BY ListFacts
<1>2. m \in Int /\ n \in Int /\ \A j \in m..n : list[j] \in S
  BY <1>1
<1> HIDE DEF S
<1>3. /\ SubSeq(list, m, n) \in Seq(S)
      /\ Len(SubSeq(list, m, n)) = IF m <= n THEN n - m + 1 ELSE 0
      /\ \A j \in 1..(n - m + 1) : SubSeq(list, m, n)[j] = list[m + j - 1]
  BY <1>2, SubSeqProperties
<1>4. (IF m <= n THEN n - m + 1 ELSE 0) = n - m + 1
  BY <1>1
<1> QED
  BY <1>3, <1>4, SeqIsList

\* What a list is that joins two; an operator keeps it together in the steps.
Joins(s, t, u) ==
    /\ IsList(u) /\ Len(u) = Len(s) + Len(t)
    /\ \A i \in 1..Len(s) : u[i] = s[i]
    /\ \A i \in 1..Len(t) : u[Len(s) + i] = t[i]

IsJoin(s, t, u) == u = s \o t

LEMMA JoinFacts ==
    ASSUME NEW s, IsList(s), NEW t, IsList(t), NEW u, IsJoin(s, t, u)
    PROVE  Joins(s, t, u)
<1> DEFINE S == {s[i] : i \in DOMAIN s} \cup {t[i] : i \in DOMAIN t}
<1>1. s \in Seq(S) /\ t \in Seq(S)
  BY ListOf
<1> HIDE DEF S
<1>2. /\ u \in Seq(S) /\ Len(u) = Len(s) + Len(t)
      /\ \A i \in 1..Len(s) : u[i] = s[i]
      /\ \A i \in 1..Len(t) : u[Len(s) + i] = t[i]
  BY <1>1 DEF IsJoin
<1> QED
  BY <1>2, SeqIsList DEF Joins

LEMMA WithoutFacts ==
    ASSUME NEW list, IsList(list), NEW i \in 1..Len(list)
    PROVE  /\ IsList(Without(list, i)) /\ Len(Without(list, i)) = Len(list) - 1
           /\ \A j \in 1..(i - 1) : Without(list, i)[j] = list[j]
           /\ \A j \in (i + 1)..Len(list) : Without(list, i)[j - 1] = list[j]
<1>1. PICK n \in Nat : n = Len(list) /\ i \in 1..n
  BY ListFacts
<1>2. PICK s, t : s = SubSeq(list, 1, i - 1) /\ t = SubSeq(list, i + 1, n)
  OBVIOUS
<1>3. IsList(s) /\ Len(s) = i - 1 /\ \A j \in 1..(i - 1) : s[j] = list[j]
  <2>1. 1 \in 1..(n + 1) /\ i - 1 \in (1 - 1)..n /\ i - 1 - 1 + 1 = i - 1
        /\ \A j \in 1..(i - 1) : 1 + j - 1 = j
    BY <1>1
  <2> QED
    BY <1>1, <1>2, <2>1, PartFacts
<1>4. IsList(t) /\ Len(t) = n - i /\ \A j \in 1..(n - i) : t[j] = list[i + j]
  <2>1. PICK m : m = i + 1
    OBVIOUS
  <2>2. m \in 1..(n + 1) /\ n \in (m - 1)..n /\ n - m + 1 = n - i
        /\ \A j \in 1..(n - i) : m + j - 1 = i + j
    BY <1>1, <2>1
  <2> QED
    BY <1>1, <1>2, <2>1, <2>2, PartFacts
<1>5. PICK new : IsJoin(s, t, new)
  BY DEF IsJoin
<1>6. /\ IsList(new) /\ Len(new) = Len(s) + Len(t)
      /\ \A j \in 1..Len(s) : new[j] = s[j]
      /\ \A j \in 1..Len(t) : new[Len(s) + j] = t[j]
  <2>1. Joins(s, t, new)
    BY <1>3, <1>4, <1>5, JoinFacts
  <2> QED
    BY <2>1 DEF Joins
<1>7. Len(new) = n - 1 /\ \A j \in 1..(i - 1) : new[j] = list[j]
  BY <1>1, <1>3, <1>4, <1>6
<1>8. ASSUME NEW j \in (i + 1)..n
      PROVE  new[j - 1] = list[j]
  <2>1. PICK k : k = j - i
    OBVIOUS
  <2>2. k \in 1..(n - i) /\ (i - 1) + k = j - 1 /\ i + k = j
    BY <1>1, <2>1
  <2>3. new[(i - 1) + k] = t[k]
    BY <1>3, <1>4, <1>6, <2>2
  <2> QED
    BY <1>4, <2>2, <2>3
<1>9. new = Without(list, i)
  BY <1>1, <1>2, <1>5 DEF Without, IsJoin
<1> QED
  BY <1>1, <1>6, <1>7, <1>8, <1>9

\* Where tab_insert puts a row.
LEMMA PlacedFacts ==
    ASSUME NEW row, IsList(rows), row.id \in Int, \A i \in DOMAIN rows : rows[i].id \in Int
    PROVE  \E n \in 0..Len(rows) :
              /\ n = 0 \/ rows[n].id <= row.id
              /\ \A i \in 1..Len(rows) : rows[i].id <= row.id => i <= n
              /\ IsList(Placed(row)) /\ Len(Placed(row)) = Len(rows) + 1
              /\ \A i \in 1..n : Placed(row)[i] = rows[i]
              /\ Placed(row)[n + 1] = row
              /\ \A i \in (n + 1)..Len(rows) : Placed(row)[i + 1] = rows[i]
<1> DEFINE below == {i \in DOMAIN rows : rows[i].id <= row.id}
<1>1. PICK l \in Nat : l = Len(rows) /\ DOMAIN rows = 1..l
  BY ListFacts
<1>2. PICK n : n = CHOOSE m \in {0} \cup below : \A i \in below : i <= m
  OBVIOUS
<1>3. n \in {0} \cup below /\ \A i \in below : i <= n
  <2>1. \E m \in {0} \cup below : \A k \in {0} \cup below : k <= m
    <3>1. {0} \cup below \in SUBSET (0..l) /\ {0} \cup below # {}
      BY <1>1
    <3> HIDE DEF below
    <3> QED
      BY <3>1, LargestNumber
  <2> HIDE DEF below
  <2> QED
    BY <1>2, <2>1
<1>4. n \in 0..l
  BY <1>1, <1>3
<1>5. PICK s, t : s = SubSeq(rows, 1, n) /\ t = SubSeq(rows, n + 1, l)
  OBVIOUS
<1>6. IsList(s) /\ Len(s) = n /\ \A j \in 1..n : s[j] = rows[j]
  <2>1. 1 \in 1..(l + 1) /\ n \in (1 - 1)..l /\ n - 1 + 1 = n
        /\ \A j \in 1..n : 1 + j - 1 = j
    BY <1>4
  <2> QED
    BY <1>1, <1>5, <2>1, PartFacts
<1>7. IsList(t) /\ Len(t) = l - n /\ \A j \in 1..(l - n) : t[j] = rows[n + j]
  <2>1. n + 1 \in 1..(l + 1) /\ l \in (n + 1 - 1)..l /\ l - (n + 1) + 1 = l - n
        /\ \A j \in 1..(l - n) : n + 1 + j - 1 = n + j
    BY <1>4
  <2> QED
    BY <1>1, <1>5, <2>1, PartFacts
<1>8. PICK u, new : IsJoin(s, <<row>>, u) /\ IsJoin(u, t, new)
  BY DEF IsJoin
<1>9. IsList(<<row>>) /\ Len(<<row>>) = 1 /\ <<row>>[1] = row
  <2>1. <<row>> \in Seq({row}) /\ Len(<<row>>) = 1 /\ <<row>>[1] = row
    OBVIOUS
  <2> QED
    BY <2>1, SeqIsList
<1>10. IsList(u) /\ Len(u) = n + 1 /\ (\A i \in 1..n : u[i] = rows[i]) /\ u[n + 1] = row
  <2>1. PICK one : one = <<row>>
    OBVIOUS
  <2>2. Joins(s, one, u)
    BY <1>6, <1>8, <1>9, <2>1, JoinFacts
  <2>3. /\ IsList(u) /\ Len(u) = n + 1
        /\ \A j \in 1..n : u[j] = s[j]
        /\ \A j \in 1..1 : u[n + j] = one[j]
    BY <1>6, <1>9, <2>1, <2>2 DEF Joins
  <2> QED
    BY <1>4, <1>6, <1>9, <2>1, <2>3
<1>11. /\ IsList(new) /\ Len(new) = Len(u) + Len(t)
       /\ \A j \in 1..Len(u) : new[j] = u[j]
       /\ \A j \in 1..Len(t) : new[Len(u) + j] = t[j]
  <2>1. Joins(u, t, new)
    BY <1>7, <1>8, <1>10, JoinFacts
  <2> QED
    BY <2>1 DEF Joins
<1>12. Len(new) = l + 1 /\ (\A i \in 1..n : new[i] = rows[i]) /\ new[n + 1] = row
  BY <1>4, <1>7, <1>10, <1>11
<1>13. ASSUME NEW i \in (n + 1)..l
       PROVE  new[i + 1] = rows[i]
  <2>1. i - n \in 1..(l - n) /\ n + 1 + (i - n) = i + 1 /\ n + (i - n) = i
    BY <1>4
  <2> QED
    BY <1>7, <1>10, <1>11, <2>1
<1>14. new = Placed(row)
  BY <1>1, <1>2, <1>5, <1>8 DEF Placed, IsJoin
<1>15. (n = 0 \/ rows[n].id <= row.id) /\ \A i \in 1..l : rows[i].id <= row.id => i <= n
  BY <1>1, <1>3
<1> QED
  BY <1>1, <1>4, <1>11, <1>12, <1>13, <1>14, <1>15

-----------------------------------------------------------------------------
(* Statements *)

\* What the parser promises of a statement, in the form the proofs use.
LEMMA StatementFacts ==
    ASSUME NEW s \in Statements
    PROVE  /\ s # Idle
           /\ s.op \in {"select", "delete", "update", "insert"}
           /\ s.op # "insert" => IsExpression(s.where, Columns)
           /\ s.op = "select" =>
                 /\ IsList(s.keys) /\ IsCell(s.limit) /\ IsCell(s.offset)
                 /\ \A k \in DOMAIN s.keys : s.keys[k].col \in {0} \cup Columns
           /\ s.op = "update" =>
                 /\ IsList(s.sets)
                 /\ \A i \in DOMAIN s.sets :
                       s.sets[i].col \in Columns /\ IsExpression(s.sets[i].to, Columns)
           /\ s.op = "insert" =>
                 /\ IsList(s.lists)
                 /\ \A i \in DOMAIN s.lists : IsCell(s.lists[i].key) /\ IsTuple(s.lists[i].cells)
BY StatementsAssumption DEF IsStatement

\* The largest of a set of places.
LEMMA MaxFacts ==
    ASSUME NEW n \in Nat, NEW S \in SUBSET (0..n), S # {}
    PROVE  Promise!Max(S) \in S /\ \A k \in S : k <= Promise!Max(S)
<1>1. PICK m \in S : \A k \in S : k <= m
  BY LargestNumber
<1>2. PICK x : x = CHOOSE z \in S : \A y \in S : z >= y
  OBVIOUS
<1>3. x \in S /\ \A y \in S : x >= y
  BY <1>1, <1>2
<1> QED
  BY <1>2, <1>3 DEF Promise!Max

-----------------------------------------------------------------------------
(* UPDATE *)

Hits(c, i) == {j \in 1..i : stmt.sets[j].col = c}

\* The cells of a row when i of the assignments are done.
Assigning(cells, fresh, i) ==
    [c \in Columns |-> IF Hits(c, i) = {} THEN cells[c]
                       ELSE Coerce(fresh[Promise!Max(Hits(c, i))], Schema[c])]

Assigns(cells, fresh, v) ==
    v = [i \in 0..Len(stmt.sets) |->
            IF i = 0 THEN cells
            ELSE [v[i - 1] EXCEPT ![stmt.sets[i].col] =
                     Coerce(fresh[i], Schema[stmt.sets[i].col])]]

\* One assignment of an UPDATE, upon those before it.
LEMMA AssignStep ==
    ASSUME NEW cells, NEW fresh, stmt \in Statements, stmt.op = "update", NEW i \in 1..Len(stmt.sets)
    PROVE  Assigning(cells, fresh, i)
           = [Assigning(cells, fresh, i - 1) EXCEPT ![stmt.sets[i].col] =
                 Coerce(fresh[i], Schema[stmt.sets[i].col])]
<1>1. Len(stmt.sets) \in Nat /\ i \in Nat /\ stmt.sets[i].col \in Columns
  BY StatementFacts, ListFacts
<1>2. PICK k : k = stmt.sets[i].col
  OBVIOUS
<1>3. ASSUME NEW c \in Columns, c # k
      PROVE  Hits(c, i) = Hits(c, i - 1)
  BY <1>1, <1>2, <1>3 DEF Hits
<1>4. Hits(k, i) # {} /\ Promise!Max(Hits(k, i)) = i
  <2>1. i \in Hits(k, i) /\ Hits(k, i) \in SUBSET (0..i) /\ Hits(k, i) \subseteq 1..i
    BY <1>1, <1>2 DEF Hits
  <2>2. Promise!Max(Hits(k, i)) \in Hits(k, i)
        /\ \A j \in Hits(k, i) : j <= Promise!Max(Hits(k, i))
    BY <1>1, <2>1, MaxFacts
  <2>3. PICK m : m = Promise!Max(Hits(k, i))
    OBVIOUS
  <2>4. m \in 1..i /\ i <= m
    BY <2>1, <2>2, <2>3
  <2> QED
    BY <1>1, <2>1, <2>3, <2>4
<1>5. PICK x : x = Coerce(fresh[i], Schema[k])
  OBVIOUS
<1>6. ASSUME NEW c \in Columns
      PROVE  Assigning(cells, fresh, i)[c]
             = IF c = k THEN x ELSE Assigning(cells, fresh, i - 1)[c]
  BY <1>3, <1>4, <1>5 DEF Assigning
<1>7. /\ Assigning(cells, fresh, i) = [c \in Columns |-> Assigning(cells, fresh, i)[c]]
      /\ DOMAIN Assigning(cells, fresh, i - 1) = Columns
  BY DEF Assigning
<1>8. PICK f, g : f = Assigning(cells, fresh, i) /\ g = Assigning(cells, fresh, i - 1)
  OBVIOUS
<1>9. f = [c \in Columns |-> IF c = k THEN x ELSE g[c]]
  BY <1>6, <1>7, <1>8
<1>10. [g EXCEPT ![k] = x] = [c \in Columns |-> IF c = k THEN x ELSE g[c]]
  BY <1>1, <1>2, <1>7, <1>8
<1> QED
  BY <1>2, <1>5, <1>8, <1>9, <1>10

\* The recursive function of Assigned has Assigning for its values.
LEMMA AssignedIs ==
    ASSUME NEW cells, cells = [c \in Columns |-> cells[c]], NEW fresh,
           stmt \in Statements, stmt.op = "update"
    PROVE  Assigned(cells, fresh) = Assigning(cells, fresh, Len(stmt.sets))
<1>1. PICK n \in Nat : n = Len(stmt.sets)
  BY StatementFacts, ListFacts
<1> DEFINE w == [i \in 0..n |-> Assigning(cells, fresh, i)]
<1>2. Assigning(cells, fresh, 0) = cells
  BY DEF Assigning, Hits
<1>3. Assigns(cells, fresh, w)
  <2>1. ASSUME NEW i \in 0..n
        PROVE  Assigning(cells, fresh, i)
               = IF i = 0 THEN cells
                 ELSE [w[i - 1] EXCEPT ![stmt.sets[i].col] = Coerce(fresh[i], Schema[stmt.sets[i].col])]
    <3>1. CASE i = 0
      BY <1>2, <3>1
    <3>2. CASE i # 0
      <4>1. i \in 1..n /\ i - 1 \in 0..n
        BY <3>2
      <4>2. w[i - 1] = Assigning(cells, fresh, i - 1)
        BY <4>1
      <4> QED
        BY <1>1, <3>2, <4>1, <4>2, AssignStep
    <3> QED
      BY <3>1, <3>2
  <2> QED
    BY <1>1, <2>1 DEF Assigns
<1>4. PICK v : v = CHOOSE u : Assigns(cells, fresh, u)
  OBVIOUS
<1>5. Assigns(cells, fresh, v)
  <2> HIDE DEF w
  <2> QED
    BY <1>3, <1>4
<1>6. Assigned(cells, fresh) = v[n]
  BY <1>1, <1>4 DEF Assigned, Assigns
<1> DEFINE S == {i \in 0..n : v[i] = Assigning(cells, fresh, i)}
<1>7. ASSUME NEW i \in 0..n, \A j \in 0..(i - 1) : j \in S
      PROVE  i \in S
  <2>1. CASE i = 0
    BY <1>1, <1>2, <1>5, <2>1 DEF Assigns
  <2>2. CASE i # 0
    <3>1. i \in 1..n /\ i - 1 \in 0..(i - 1)
      BY <2>2
    <3>2. v[i - 1] = Assigning(cells, fresh, i - 1)
      BY <1>7, <3>1
    <3>3. v[i] = [v[i - 1] EXCEPT ![stmt.sets[i].col] = Coerce(fresh[i], Schema[stmt.sets[i].col])]
      BY <1>1, <1>5, <2>2 DEF Assigns
    <3> QED
      BY <1>1, <3>1, <3>2, <3>3, AssignStep
  <2> QED
    BY <2>1, <2>2
<1>8. \A i \in 0..n : i \in S
  <2> HIDE DEF S
  <2> QED
    BY <1>7, StepByStep
<1> QED
  BY <1>1, <1>6, <1>8

\* What sq_update makes of a row: each column that is set has the value of
\* the last right side for it, converted.
LEMMA UpdatedFacts ==
    ASSUME NEW row, IsRow(row), stmt \in Statements, stmt.op = "update"
    PROVE  /\ IsRow(Updated(row)) /\ Updated(row).id = row.id
           /\ Updated(row) = Promise!Changed(row, stmt.sets)
           /\ (\A c \in Columns : Coerce(row.cells[c], Schema[c]) = row.cells[c])
              => \A c \in Columns : Coerce(Updated(row).cells[c], Schema[c]) = Updated(row).cells[c]
<1>1. PICK n \in Nat : n = Len(stmt.sets) /\ DOMAIN stmt.sets = 1..n
  BY StatementFacts, ListFacts
<1>2. PICK fresh : fresh = [i \in DOMAIN stmt.sets |-> Eval(stmt.sets[i].to, row)]
  OBVIOUS
<1>3. PICK new : new = Assigning(row.cells, fresh, n)
  OBVIOUS
<1>4. Updated(row) = [row EXCEPT !.cells = new]
  <2>1. row.cells = [c \in Columns |-> row.cells[c]]
    BY DEF IsRow, IsTuple
  <2>2. Assigned(row.cells, fresh) = new
    BY <1>1, <1>3, <2>1, AssignedIs
  <2> QED
    BY <1>2, <2>2 DEF Updated
<1>5. ASSUME NEW c \in Columns, Hits(c, n) # {}
      PROVE  /\ Promise!Max(Hits(c, n)) \in 1..n
             /\ fresh[Promise!Max(Hits(c, n))] = Eval(stmt.sets[Promise!Max(Hits(c, n))].to, row)
             /\ IsCell(fresh[Promise!Max(Hits(c, n))])
  <2>1. Hits(c, n) \in SUBSET (0..n) /\ Hits(c, n) \subseteq 1..n
    BY DEF Hits
  <2>2. PICK m : m = Promise!Max(Hits(c, n))
    OBVIOUS
  <2>3. m \in 1..n
    BY <1>5, <2>1, <2>2, MaxFacts
  <2>4. fresh[m] = Eval(stmt.sets[m].to, row) /\ IsExpression(stmt.sets[m].to, Columns)
    BY <1>1, <1>2, <2>3, StatementFacts
  <2> QED
    BY <2>2, <2>3, <2>4, EvalCell
<1>6. ASSUME NEW c \in Columns
      PROVE  /\ IsCell(new[c])
             /\ Coerce(row.cells[c], Schema[c]) = row.cells[c] => Coerce(new[c], Schema[c]) = new[c]
  <2>1. CASE Hits(c, n) = {}
    <3>1. new[c] = row.cells[c]
      BY <1>3, <2>1 DEF Assigning
    <3> QED
      BY <3>1 DEF IsRow, IsTuple
  <2>2. CASE Hits(c, n) # {}
    <3>1. PICK x : x = fresh[Promise!Max(Hits(c, n))] /\ IsCell(x)
      BY <1>5, <2>2
    <3>2. new[c] = Coerce(x, Schema[c])
      BY <1>3, <2>2, <3>1 DEF Assigning
    <3> QED
      BY <3>1, <3>2, CoerceCell
  <2> QED
    BY <2>1, <2>2
<1>7. new = [c \in Columns |-> new[c]]
  BY <1>3 DEF Assigning
<1>8. Updated(row) = [id |-> row.id, cells |-> new]
  BY <1>4 DEF IsRow
<1>9. IsRow(Updated(row)) /\ Updated(row).id = row.id
  BY <1>6, <1>7, <1>8 DEF IsRow, IsTuple
<1>10. Updated(row) = Promise!Changed(row, stmt.sets)
  <2>1. ASSUME NEW c \in Columns
        PROVE  new[c] = IF Hits(c, n) = {} THEN row.cells[c]
                        ELSE Promise!Coerce(Promise!Eval(stmt.sets[Promise!Max(Hits(c, n))].to, row), Schema[c])
    BY <1>3, <1>5, SameCells, SameEval DEF Assigning
  <2>2. new = [c \in Columns |->
                 IF Hits(c, n) = {} THEN row.cells[c]
                 ELSE Promise!Coerce(Promise!Eval(stmt.sets[Promise!Max(Hits(c, n))].to, row), Schema[c])]
    BY <1>7, <2>1
  <2>3. \A c : {i \in DOMAIN stmt.sets : stmt.sets[i].col = c} = Hits(c, n)
    BY <1>1 DEF Hits
  <2> QED
    BY <1>4, <2>2, <2>3 DEF Promise!Changed, Promise!Columns, Columns
<1> QED
  BY <1>6, <1>8, <1>9, <1>10

-----------------------------------------------------------------------------
(* The rows of the table *)

RowsTyped == IsList(rows) /\ \A i \in DOMAIN rows : IsRow(rows[i])

\* The rows as a list.
LEMMA RowsFacts ==
    ASSUME RowsTyped
    PROVE  /\ Len(rows) \in Nat /\ DOMAIN rows = 1..Len(rows)
           /\ \A i \in 1..Len(rows) : IsRow(rows[i]) /\ rows[i].id \in Int
BY ListFacts DEF RowsTyped, IsRow

\* tab_next_rowid: one above the largest rowid there is, the last row's.
LEMMA NextRowidFacts ==
    ASSUME RowsTyped, RowsInOrder
    PROVE  /\ NextRowid \in Int /\ 1 <= NextRowid
           /\ \A i \in 1..Len(rows) : rows[i].id < NextRowid
           /\ NextRowid - 1 \in {0} \cup {rows[i].id : i \in DOMAIN rows}
<1> DEFINE ids == {0} \cup {rows[i].id : i \in DOMAIN rows}
<1>1. PICK n \in Nat : n = Len(rows) /\ DOMAIN rows = 1..n
  BY RowsFacts
<1>2. \A i \in 1..n : rows[i].id \in Int
  BY <1>1, RowsFacts
<1>3. \E m \in ids : \A id \in ids : id <= m
  <2>1. CASE n = 0
    BY <1>1, <2>1
  <2>2. CASE n # 0
    <3>1. n \in 1..n /\ rows[n].id \in ids
      BY <1>1, <2>2
    <3>2. \A i \in 1..n : rows[i].id <= rows[n].id
      BY <1>1, <1>2, <3>1 DEF RowsInOrder
    <3>3. CASE rows[n].id >= 0
      BY <1>1, <3>1, <3>2, <3>3
    <3>4. CASE ~(rows[n].id >= 0)
      <4>1. \A i \in 1..n : rows[i].id <= 0
        BY <1>2, <3>1, <3>2, <3>4
      <4> QED
        BY <1>1, <4>1
    <3> QED
      BY <3>3, <3>4
  <2> QED
    BY <2>1, <2>2
<1>4. PICK m : m = CHOOSE z \in ids : \A id \in ids : id <= z
  OBVIOUS
<1>5. m \in ids /\ \A id \in ids : id <= m
  <2> HIDE DEF ids
  <2> QED
    BY <1>3, <1>4
<1>6. NextRowid = 1 + m
  BY <1>4 DEF NextRowid
<1>7. m \in Int /\ 0 <= m /\ \A i \in 1..n : rows[i].id <= m
  BY <1>1, <1>2, <1>5
<1> QED
  BY <1>1, <1>2, <1>5, <1>6, <1>7

\* A list that is not refused gets a rowid that no row has.
LEMMA RowidFacts ==
    ASSUME RowsTyped, RowsInOrder, NEW s \in Statements, s.op = "insert",
           NEW k \in DOMAIN s.lists, ~Refused(s.lists[k])
    PROVE  /\ RowidFor(s.lists[k]) \in Int
           /\ \A i \in 1..Len(rows) : rows[i].id # RowidFor(s.lists[k])
           /\ RowidFor(s.lists[k])
              = IF IsNull(s.lists[k].key) \/ Coerce(s.lists[k].key, "INT").n < 0 THEN NextRowid
                ELSE Coerce(s.lists[k].key, "INT").n
<1> DEFINE key == s.lists[k].key
           c == Coerce(key, "INT")
<1>1. IsCell(key)
  BY StatementFacts
<1>2. IsCell(c) /\ (c.kind = "null" <=> key.kind = "null") /\ c.n \in Int
  BY <1>1, CoerceCell, CellParts
<1>3. PICK n \in Nat : n = Len(rows) /\ DOMAIN rows = 1..n
  BY RowsFacts
<1>4. NextRowid \in Int /\ \A i \in 1..n : rows[i].id < NextRowid /\ rows[i].id \in Int
  BY <1>3, NextRowidFacts, RowsFacts
<1>5. CASE IsNull(key) \/ c.n < 0
  <2>1. RowidFor(s.lists[k]) = NextRowid
    BY <1>2, <1>5 DEF RowidFor, IsNull
  <2> QED
    BY <1>3, <1>4, <1>5, <2>1
<1>6. CASE ~IsNull(key) /\ ~(c.n < 0)
  <2>1. c.kind = "int" /\ ~Taken(c.n)
    BY <1>6 DEF Refused
  <2>2. ~IsNull(c)
    BY <2>1 DEF IsNull
  <2>3. RowidFor(s.lists[k]) = c.n
    BY <1>6, <2>2 DEF RowidFor
  <2>4. \A i \in 1..n : rows[i].id # c.n
    BY <1>3, <2>1 DEF Taken
  <2> QED
    BY <1>2, <1>3, <1>6, <2>3, <2>4
<1> QED
  BY <1>5, <1>6

Converted(row) == \A c \in Columns : Coerce(row.cells[c], Schema[c]) = row.cells[c]

\* The row that a list becomes.
LEMMA NewRowFacts ==
    ASSUME RowsTyped, RowsInOrder, NEW s \in Statements, s.op = "insert",
           NEW k \in DOMAIN s.lists, ~Refused(s.lists[k]),
           NEW row, row = [id |-> RowidFor(s.lists[k]), cells |-> Stored(s.lists[k])]
    PROVE  /\ IsRow(row) /\ Converted(row)
           /\ row.id = RowidFor(s.lists[k]) /\ row.cells = Stored(s.lists[k])
<1>1. \A c \in Columns : IsCell(s.lists[k].cells[c])
  BY StatementFacts DEF IsTuple
<1>2. \A c \in Columns : /\ Stored(s.lists[k])[c] = Coerce(s.lists[k].cells[c], Schema[c])
                         /\ IsCell(Stored(s.lists[k])[c])
                         /\ Coerce(Stored(s.lists[k])[c], Schema[c]) = Stored(s.lists[k])[c]
  BY <1>1, CoerceCell DEF Stored
<1>3. Stored(s.lists[k]) = [c \in Columns |-> Stored(s.lists[k])[c]]
  BY DEF Stored
<1>4. IsTuple(Stored(s.lists[k]))
  BY <1>2, <1>3 DEF IsTuple
<1>5. RowidFor(s.lists[k]) \in Int
  BY RowidFacts
<1> QED
  BY <1>2, <1>4, <1>5 DEF IsRow, Converted

\* tab_insert keeps the order of the rowids.
LEMMA PlacedInOrder ==
    ASSUME RowsTyped, RowsInOrder, NEW row, IsRow(row),
           \A i \in 1..Len(rows) : rows[i].id # row.id,
           NEW new, new = Placed(row)
    PROVE  /\ IsList(new) /\ Len(new) = Len(rows) + 1
           /\ \A i \in DOMAIN new : new[i] = row \/ \E j \in DOMAIN rows : new[i] = rows[j]
           /\ \E i \in DOMAIN new : new[i] = row
           /\ \A j \in DOMAIN rows : \E i \in DOMAIN new : new[i] = rows[j]
           /\ \A i, j \in DOMAIN new : i < j => new[i].id < new[j].id
<1>1. PICK l \in Nat : l = Len(rows) /\ DOMAIN rows = 1..l
  BY RowsFacts
<1>2. /\ row.id \in Int
      /\ \A i \in 1..l : rows[i].id \in Int /\ rows[i].id # row.id
      /\ \A i, j \in 1..l : i < j => rows[i].id < rows[j].id
  BY <1>1, RowsFacts DEF IsRow, RowsInOrder
<1>3. PICK n \in 0..l :
              /\ n = 0 \/ rows[n].id <= row.id
              /\ \A i \in 1..l : rows[i].id <= row.id => i <= n
              /\ IsList(new) /\ Len(new) = l + 1
              /\ \A i \in 1..n : new[i] = rows[i]
              /\ new[n + 1] = row
              /\ \A i \in (n + 1)..l : new[i + 1] = rows[i]
  BY <1>1, <1>2, PlacedFacts DEF RowsTyped
<1>4. DOMAIN new = 1..(l + 1)
  BY <1>3, ListFacts
<1>5. ASSUME NEW i \in (n + 2)..(l + 1)
      PROVE  i - 1 \in (n + 1)..l /\ new[i] = rows[i - 1] /\ row.id < rows[i - 1].id
  <2>1. PICK k : k = i - 1
    OBVIOUS
  <2>2. k \in (n + 1)..l /\ k + 1 = i /\ k \in 1..l /\ ~(k <= n)
    BY <1>1, <1>3, <2>1
  <2>3. row.id \in Int /\ rows[k].id \in Int /\ ~(rows[k].id <= row.id)
    BY <1>2, <1>3, <2>2
  <2>4. new[i] = rows[k] /\ row.id < rows[k].id
    BY <1>3, <2>2, <2>3
  <2> QED
    BY <2>1, <2>2, <2>4
<1>6. ASSUME NEW i \in 1..n
      PROVE  i \in 1..l /\ new[i] = rows[i] /\ rows[i].id < row.id
  <2>1. rows[n].id <= row.id /\ n \in 1..l /\ i \in 1..l
    BY <1>3
  <2>2. rows[i].id <= rows[n].id
    BY <1>2, <2>1
  <2> QED
    BY <1>2, <1>3, <2>1, <2>2
<1>7. ASSUME NEW i \in DOMAIN new
      PROVE  new[i] = row \/ \E j \in DOMAIN rows : new[i] = rows[j]
  <2>1. i \in 1..n \/ i = n + 1 \/ i \in (n + 2)..(l + 1)
    BY <1>4
  <2> QED
    BY <1>1, <1>3, <1>5, <1>6, <2>1
<1>8. n + 1 \in DOMAIN new /\ new[n + 1] = row
  BY <1>3, <1>4
<1>9. ASSUME NEW j \in DOMAIN rows
      PROVE  \E i \in DOMAIN new : new[i] = rows[j]
  <2>1. CASE j \in 1..n
    BY <1>3, <1>4, <2>1
  <2>2. CASE j \in (n + 1)..l
    <3>1. j + 1 \in DOMAIN new /\ new[j + 1] = rows[j]
      BY <1>3, <1>4, <2>2
    <3> QED
      BY <3>1
  <2> QED
    BY <1>1, <2>1, <2>2
<1>10. ASSUME NEW i \in DOMAIN new, NEW j \in DOMAIN new, i < j
       PROVE  new[i].id < new[j].id
  <2>1. /\ i \in 1..n \/ i = n + 1 \/ i \in (n + 2)..(l + 1)
        /\ j \in 1..n \/ j = n + 1 \/ j \in (n + 2)..(l + 1)
    BY <1>4
  <2>2. CASE i \in 1..n /\ j \in 1..n
    BY <1>2, <1>6, <1>10, <2>2
  <2>3. CASE i \in 1..n /\ j = n + 1
    BY <1>3, <1>6, <2>3
  <2>4. CASE i \in 1..n /\ j \in (n + 2)..(l + 1)
    <3>1. rows[i].id \in Int /\ rows[j - 1].id \in Int
      BY <1>2, <1>5, <1>6, <2>4
    <3> QED
      BY <1>2, <1>5, <1>6, <2>4, <3>1
  <2>5. CASE i = n + 1 /\ j \in (n + 2)..(l + 1)
    BY <1>3, <1>5, <2>5
  <2>6. CASE i \in (n + 2)..(l + 1) /\ j \in (n + 2)..(l + 1)
    <3>1. PICK p, q : p = i - 1 /\ q = j - 1
      OBVIOUS
    <3>2. p \in 1..l /\ q \in 1..l /\ p < q /\ new[i] = rows[p] /\ new[j] = rows[q]
      BY <1>5, <1>10, <2>6, <3>1
    <3> QED
      BY <1>2, <3>2
  <2> QED
    BY <1>10, <2>1, <2>2, <2>3, <2>4, <2>5, <2>6
<1> QED
  BY <1>1, <1>3, <1>7, <1>8, <1>9, <1>10

\* tab_remove keeps it as well.
LEMMA WithoutInOrder ==
    ASSUME RowsTyped, RowsInOrder, NEW k \in 1..Len(rows), NEW new, new = Without(rows, k)
    PROVE  /\ IsList(new) /\ Len(new) = Len(rows) - 1
           /\ \A i \in DOMAIN new : \E j \in DOMAIN rows \ {k} : new[i] = rows[j] /\ (i < k <=> j < k)
           /\ \A j \in DOMAIN rows \ {k} : \E i \in DOMAIN new : new[i] = rows[j] /\ (i < k <=> j < k)
           /\ \A i \in 1..(k - 1) : new[i] = rows[i]
           /\ \A i, j \in DOMAIN new : i < j => new[i].id < new[j].id
<1>1. PICK l \in Nat : l = Len(rows) /\ DOMAIN rows = 1..l
  BY RowsFacts
<1>2. /\ \A i \in 1..l : rows[i].id \in Int
      /\ \A i, j \in 1..l : i < j => rows[i].id < rows[j].id
  BY <1>1, RowsFacts DEF RowsInOrder
<1>3. /\ IsList(new) /\ Len(new) = l - 1
      /\ \A j \in 1..(k - 1) : new[j] = rows[j]
      /\ \A j \in (k + 1)..l : new[j - 1] = rows[j]
  BY <1>1, WithoutFacts DEF RowsTyped
<1>4. DOMAIN new = 1..(l - 1)
  BY <1>3, ListFacts
<1>5. ASSUME NEW i \in DOMAIN new
      PROVE  \E p \in 1..l : /\ p = (IF i < k THEN i ELSE i + 1)
                             /\ p # k /\ new[i] = rows[p] /\ (i < k <=> p < k)
  <2>1. CASE i < k
    <3>1. i \in 1..(k - 1) /\ i \in 1..l
      BY <1>1, <1>4, <2>1
    <3> QED
      BY <1>3, <2>1, <3>1
  <2>2. CASE ~(i < k)
    <3>1. PICK p : p = i + 1
      OBVIOUS
    <3>2. p \in (k + 1)..l /\ p - 1 = i /\ p \in 1..l
      BY <1>1, <1>4, <2>2, <3>1
    <3>3. new[i] = rows[p]
      BY <1>3, <3>2
    <3> QED
      BY <1>1, <2>2, <3>1, <3>2, <3>3
  <2> QED
    BY <2>1, <2>2
<1>6. ASSUME NEW j \in DOMAIN rows \ {k}
      PROVE  \E i \in DOMAIN new : new[i] = rows[j] /\ (i < k <=> j < k)
  <2>1. CASE j < k
    <3>1. j \in 1..(k - 1) /\ j \in DOMAIN new
      BY <1>1, <1>4, <2>1
    <3> QED
      BY <1>3, <2>1, <3>1
  <2>2. CASE ~(j < k)
    <3>1. j \in (k + 1)..l /\ j - 1 \in DOMAIN new /\ ~(j - 1 < k)
      BY <1>1, <1>4, <2>2
    <3> QED
      BY <1>3, <2>2, <3>1
  <2> QED
    BY <2>1, <2>2
<1>7. ASSUME NEW i \in DOMAIN new, NEW j \in DOMAIN new, i < j
      PROVE  new[i].id < new[j].id
  <2>1. PICK p \in 1..l : p = (IF i < k THEN i ELSE i + 1) /\ new[i] = rows[p]
    BY <1>5
  <2>2. PICK q \in 1..l : q = (IF j < k THEN j ELSE j + 1) /\ new[j] = rows[q]
    BY <1>5
  <2>3. p < q
    BY <1>1, <1>4, <1>7, <2>1, <2>2
  <2> QED
    BY <1>2, <2>1, <2>2, <2>3
<1>8. \A i \in DOMAIN new : \E j \in DOMAIN rows \ {k} : new[i] = rows[j] /\ (i < k <=> j < k)
  BY <1>1, <1>5
<1> QED
  BY <1>1, <1>3, <1>6, <1>7, <1>8

-----------------------------------------------------------------------------
(* What holds between two turns of a loop *)

Kept == TypeOK /\ RowsInOrder /\ StoredConverted

\* The invariant, opened and put together.
LEMMA KeptFacts ==
    ASSUME Kept
    PROVE  RowsTyped /\ RowsInOrder /\ \A i \in DOMAIN rows : Converted(rows[i])
BY DEF Kept, TypeOK, StoredConverted, RowsTyped, Converted

LEMMA RunningFacts ==
    ASSUME Kept, stmt # Idle
    PROVE  /\ stmt \in Statements
           /\ stmt.op = "delete" => at \in 0..Len(rows)
           /\ stmt.op = "insert" => at \in 1..(Len(stmt.lists) + 1)
           /\ stmt.op \in {"select", "update"} => at \in 1..(Len(rows) + 1)
           /\ changes \in Nat /\ at \in Nat
BY RowsFacts, KeptFacts DEF Kept, TypeOK

\* The rows as they are after a step, said of them as one list.
LEMMA KeptIntro ==
    ASSUME IsList(rows'), \A i \in DOMAIN rows' : IsRow(rows'[i]) /\ Converted(rows'[i]),
           \A i, j \in DOMAIN rows' : i < j => rows'[i].id < rows'[j].id,
           stmt' = Idle \/ stmt' \in Statements, at' \in Nat, changes' \in Nat,
           stmt' # Idle => /\ stmt'.op = "delete" => at' <= Len(rows')
                           /\ stmt'.op = "insert" => at' \in 1..(Len(stmt'.lists) + 1)
                           /\ stmt'.op \notin {"delete", "insert"} => at' \in 1..(Len(rows') + 1)
    PROVE  Kept'
BY DEF Kept, TypeOK, RowsInOrder, StoredConverted, Converted, Columns

LEMMA SameRows ==
    ASSUME Kept, UNCHANGED rows
    PROVE  /\ IsList(rows') /\ Len(rows') = Len(rows) /\ Len(rows) \in Nat
           /\ \A i \in DOMAIN rows' : IsRow(rows'[i]) /\ Converted(rows'[i])
           /\ \A i, j \in DOMAIN rows' : i < j => rows'[i].id < rows'[j].id
BY KeptFacts, RowsFacts DEF RowsTyped, RowsInOrder

\* The steps, one lemma for each.
LEMMA EndKeeps ==
    ASSUME Kept, NEW ok, NEW list, End(ok, list)
    PROVE  Kept'
<1>1. UNCHANGED rows /\ stmt' = Idle /\ at' = 0 /\ changes' = 0
  BY DEF End
<1> QED
  BY <1>1, SameRows, KeptIntro

LEMMA BeginKeeps ==
    ASSUME Kept, NEW s \in Statements, Begin(s)
    PROVE  Kept'
<1>1. UNCHANGED rows /\ stmt' = s /\ changes' = 0
      /\ at' = IF s.op = "delete" THEN Len(rows) ELSE 1
  BY DEF Begin
<1>2. s.op = "insert" => Len(s.lists) \in Nat
  BY StatementFacts, ListFacts
<1> QED
  BY <1>1, <1>2, SameRows, KeptIntro

LEMMA SelectRowKeeps ==
    ASSUME Kept, SelectRow
    PROVE  Kept'
<1>1. UNCHANGED <<rows, stmt, changes>> /\ at' = at + 1 /\ at <= Len(rows)
      /\ stmt # Idle /\ stmt.op = "select"
  BY DEF SelectRow
<1> QED
  BY <1>1, SameRows, KeptIntro, RunningFacts

LEMMA UpdateRowKeeps ==
    ASSUME Kept, UpdateRow
    PROVE  Kept'
<1>1. /\ stmt # Idle /\ stmt.op = "update" /\ at <= Len(rows)
      /\ \/ rows' = [rows EXCEPT ![at] = Updated(rows[at])] /\ changes' = changes + 1
         \/ UNCHANGED <<rows, changes>>
      /\ at' = at + 1 /\ UNCHANGED stmt
  BY DEF UpdateRow
<1>2. stmt \in Statements /\ at \in Nat /\ changes \in Nat /\ at \in 1..(Len(rows) + 1)
  BY <1>1, RunningFacts
<1>3. PICK n \in Nat : n = Len(rows) /\ DOMAIN rows = 1..n
  BY KeptFacts, RowsFacts
<1>4. CASE UNCHANGED rows
  BY <1>1, <1>2, <1>3, <1>4, SameRows, KeptIntro
<1>5. CASE rows' = [rows EXCEPT ![at] = Updated(rows[at])] /\ changes' = changes + 1
  <2>1. at \in 1..n /\ \A i \in 1..n : IsRow(rows[i]) /\ Converted(rows[i])
    BY <1>1, <1>2, <1>3, KeptFacts DEF RowsTyped
  <2>2. PICK new : new = Updated(rows[at]) /\ IsRow(new) /\ new.id = rows[at].id /\ Converted(new)
    BY <1>1, <1>2, <2>1, UpdatedFacts DEF Converted
  <2>3. IsList(rows') /\ Len(rows') = n /\ DOMAIN rows' = 1..n
        /\ \A i \in 1..n : rows'[i] = IF i = at THEN new ELSE rows[i]
    <3>1. rows' = [i \in 1..n |-> IF i = at THEN new ELSE rows[i]]
      <4>1. DOMAIN rows = 1..n /\ rows = [i \in 1..n |-> rows[i]]
        BY <1>3, ListFacts, KeptFacts DEF RowsTyped
      <4> QED
        BY <1>5, <2>1, <2>2, <4>1
    <3> QED
      BY <1>3, <3>1, ListIntro
  <2>4. \A i, j \in 1..n : i < j => rows'[i].id < rows'[j].id
    BY <1>3, <2>2, <2>3, KeptFacts DEF RowsInOrder
  <2>5. \A i \in 1..n : IsRow(rows'[i]) /\ Converted(rows'[i])
    BY <2>1, <2>2, <2>3
  <2> QED
    BY <1>1, <1>2, <1>3, <1>5, <2>1, <2>3, <2>4, <2>5, KeptIntro
<1> QED
  BY <1>1, <1>4, <1>5

LEMMA DeleteRowKeeps ==
    ASSUME Kept, DeleteRow
    PROVE  Kept'
<1>1. /\ stmt # Idle /\ stmt.op = "delete" /\ at >= 1
      /\ \/ rows' = Without(rows, at) /\ changes' = changes + 1
         \/ UNCHANGED <<rows, changes>>
      /\ at' = at - 1 /\ UNCHANGED stmt
  BY DEF DeleteRow
<1>2. stmt \in Statements /\ changes \in Nat /\ at \in 1..Len(rows) /\ Len(rows) \in Nat
  BY <1>1, RunningFacts, KeptFacts, RowsFacts
<1>3. CASE UNCHANGED rows
  BY <1>1, <1>2, <1>3, SameRows, KeptIntro
<1>4. CASE rows' = Without(rows, at) /\ changes' = changes + 1
  <2>1. PICK new : new = Without(rows, at) /\ new = rows'
    BY <1>4
  <2> RowsTyped /\ RowsInOrder
    BY KeptFacts
  <2>2. /\ IsList(new) /\ Len(new) = Len(rows) - 1
        /\ \A i \in DOMAIN new : \E j \in DOMAIN rows : new[i] = rows[j]
        /\ \A i, j \in DOMAIN new : i < j => new[i].id < new[j].id
    <3>1. /\ IsList(new) /\ Len(new) = Len(rows) - 1
          /\ \A i \in DOMAIN new : \E j \in DOMAIN rows \ {at} : new[i] = rows[j] /\ (i < at <=> j < at)
          /\ \A i, j \in DOMAIN new : i < j => new[i].id < new[j].id
      BY <1>2, <2>1, WithoutInOrder
    <3> QED
      BY <3>1
  <2>3. \A i \in DOMAIN new : IsRow(new[i]) /\ Converted(new[i])
    BY <2>2, KeptFacts DEF RowsTyped
  <2>4. at' \in Nat /\ changes' \in Nat /\ at' <= Len(rows')
    BY <1>1, <1>2, <1>4, <2>1, <2>2
  <2> QED
    BY <1>1, <1>2, <2>1, <2>2, <2>3, <2>4, KeptIntro
<1> QED
  BY <1>1, <1>3, <1>4

LEMMA InsertListKeeps ==
    ASSUME Kept, InsertList
    PROVE  Kept'
<1> DEFINE refused == End(FALSE, <<>>)
<1>1. /\ stmt # Idle /\ stmt.op = "insert" /\ at <= Len(stmt.lists)
      /\ \/ refused
         \/ /\ ~Refused(stmt.lists[at])
            /\ rows' = Placed([id |-> RowidFor(stmt.lists[at]), cells |-> Stored(stmt.lists[at])])
            /\ changes' = changes + 1 /\ at' = at + 1 /\ UNCHANGED stmt
  BY DEF InsertList
<1> HIDE DEF refused
<1>2. stmt \in Statements /\ changes \in Nat /\ at \in 1..(Len(stmt.lists) + 1)
      /\ Len(stmt.lists) \in Nat /\ DOMAIN stmt.lists = 1..Len(stmt.lists)
  BY <1>1, RunningFacts, StatementFacts, ListFacts
<1>3. at \in DOMAIN stmt.lists
  BY <1>1, <1>2
<1>4. SUFFICES ASSUME ~refused PROVE Kept'
  BY EndKeeps DEF refused
<1>5. PICK row : row = [id |-> RowidFor(stmt.lists[at]), cells |-> Stored(stmt.lists[at])]
  OBVIOUS
<1>6. IsRow(row) /\ Converted(row) /\ \A i \in 1..Len(rows) : rows[i].id # row.id
  BY <1>1, <1>2, <1>3, <1>4, <1>5, KeptFacts, NewRowFacts, RowidFacts
<1>7. PICK new : new = Placed(row) /\ new = rows'
  BY <1>1, <1>4, <1>5
<1> RowsTyped /\ RowsInOrder
  BY KeptFacts
<1>8. /\ IsList(new)
      /\ \A i \in DOMAIN new : new[i] = row \/ \E j \in DOMAIN rows : new[i] = rows[j]
      /\ \A i, j \in DOMAIN new : i < j => new[i].id < new[j].id
  <2>1. new = Placed(row) /\ IsRow(row) /\ \A i \in 1..Len(rows) : rows[i].id # row.id
    BY <1>6, <1>7
  <2>2. /\ IsList(new) /\ Len(new) = Len(rows) + 1
        /\ \A i \in DOMAIN new : new[i] = row \/ \E j \in DOMAIN rows : new[i] = rows[j]
        /\ \E i \in DOMAIN new : new[i] = row
        /\ \A j \in DOMAIN rows : \E i \in DOMAIN new : new[i] = rows[j]
        /\ \A i, j \in DOMAIN new : i < j => new[i].id < new[j].id
    BY <2>1, PlacedInOrder
  <2> QED
    BY <2>2
<1>9. \A i \in DOMAIN new : IsRow(new[i]) /\ Converted(new[i])
  BY <1>6, <1>8, KeptFacts DEF RowsTyped
<1>10. /\ at' \in 1..(Len(stmt'.lists) + 1) /\ at' \in Nat /\ changes' \in Nat
       /\ stmt' = stmt /\ stmt'.op = "insert"
  BY <1>1, <1>2, <1>4
<1> QED
  BY <1>2, <1>7, <1>8, <1>9, <1>10, KeptIntro

\* Every step keeps the invariant.
LEMMA StepKeeps ==
    ASSUME Kept, [Next]_vars
    PROVE  Kept'
<1>1. CASE UNCHANGED vars
  BY <1>1 DEF vars, Kept, TypeOK, RowsInOrder, StoredConverted
<1>2. CASE \E s \in Statements : Begin(s)
  BY <1>2, BeginKeeps
<1>3. CASE SelectRow
  BY <1>3, SelectRowKeeps
<1>4. CASE UpdateRow
  BY <1>4, UpdateRowKeeps
<1>5. CASE DeleteRow
  BY <1>5, DeleteRowKeeps
<1>6. CASE InsertList
  BY <1>6, InsertListKeeps
<1>7. CASE SelectEnd \/ UpdateEnd \/ DeleteEnd \/ InsertEnd
  BY <1>7, EndKeeps DEF SelectEnd, UpdateEnd, DeleteEnd, InsertEnd
<1> QED
  BY <1>1, <1>2, <1>3, <1>4, <1>5, <1>6, <1>7 DEF Next

LEMMA AlwaysKept == Spec => []Kept
<1>1. Init => Kept
  <2> SUFFICES ASSUME Init PROVE Kept
    OBVIOUS
  <2>1. rows = <<>> /\ stmt = Idle /\ at = 0 /\ changes = 0
    BY DEF Init
  <2>2. DOMAIN rows = {} /\ Len(rows) = 0 /\ IsList(rows)
    BY <2>1 DEF IsList
  <2> QED
    BY <2>1, <2>2 DEF Kept, TypeOK, RowsInOrder, StoredConverted
<1>2. Kept /\ [Next]_vars => Kept'
  BY StepKeeps
<1> QED
  BY <1>1, <1>2, PTL DEF Spec

\* The rows are rows of the table, and a loop never looks past its end,
\* although UPDATE and DELETE change it while they go through it.
THEOREM SqlTyped == Spec => []TypeOK
<1>1. Kept => TypeOK
  BY DEF Kept
<1> QED
  BY <1>1, AlwaysKept, PTL

\* What is kept in a column has the affinity of the column: sq_insert and
\* sq_update convert on the way in, and cell_coerce changes nothing twice.
THEOREM KeptConverted == Spec => []StoredConverted
<1>1. Kept => StoredConverted
  BY DEF Kept
<1> QED
  BY <1>1, AlwaysKept, PTL

\* The rows stay in the order of their rowids, each of which one row has:
\* tab_insert finds the place, tab_next_rowid a number above all others.
THEOREM KeptInOrder == Spec => []RowsInOrder
<1>1. Kept => RowsInOrder
  BY DEF Kept
<1> QED
  BY <1>1, AlwaysKept, PTL

-----------------------------------------------------------------------------
(* Counting *)

\* Finite sets of numbers and how they grow.
LEMMA CountFacts ==
    ASSUME NEW n \in Nat, NEW S \in SUBSET (0..n)
    PROVE  /\ IsFiniteSet(S) /\ Cardinality(S) \in Nat
           /\ Cardinality({}) = 0
           /\ \A k : k \notin S => Cardinality(S \cup {k}) = Cardinality(S) + 1
<1>1. IsFiniteSet(0..n)
  BY FS_Interval
<1>2. IsFiniteSet(S)
  BY <1>1, FS_Subset
<1> QED
  BY <1>2, FS_CardinalityType, FS_AddElement, FS_EmptySet

\* A list of rows in the order of their rowids, and the set of its rows.
Part(list, S) == {list[i] : i \in S}
SetOf(list) == Part(list, DOMAIN list)
IsTable(list) ==
    /\ IsList(list) /\ \A i \in DOMAIN list : IsRow(list[i])
    /\ \A i, j \in DOMAIN list : i < j => list[i].id < list[j].id

\* A table: a list of rows in the order of their rowids.
LEMMA TableFacts ==
    ASSUME NEW list, IsTable(list)
    PROVE  /\ Len(list) \in Nat /\ DOMAIN list = 1..Len(list) /\ IsList(list)
           /\ \A i \in 1..Len(list) : IsRow(list[i]) /\ list[i].id \in Int
           /\ \A i, j \in 1..Len(list) : i < j => list[i].id < list[j].id
           /\ \A i, j \in 1..Len(list) : list[i] = list[j] => i = j
           /\ \A p, q \in SetOf(list) : p.id = q.id => p = q
<1>1. /\ Len(list) \in Nat /\ DOMAIN list = 1..Len(list) /\ IsList(list)
      /\ \A i \in 1..Len(list) : IsRow(list[i]) /\ list[i].id \in Int
      /\ \A i, j \in 1..Len(list) : i < j => list[i].id < list[j].id
  BY ListFacts DEF IsTable, IsRow
<1>2. ASSUME NEW i \in 1..Len(list), NEW j \in 1..Len(list), list[i].id = list[j].id
      PROVE  i = j
  BY <1>1, <1>2
<1>3. ASSUME NEW p \in SetOf(list), NEW q \in SetOf(list), p.id = q.id
      PROVE  p = q
  <2>1. PICK i \in 1..Len(list), j \in 1..Len(list) : p = list[i] /\ q = list[j]
    BY <1>1 DEF SetOf, Part
  <2> QED
    BY <1>2, <1>3, <2>1
<1> QED
  BY <1>1, <1>2, <1>3

LEMMA KeptTable ==
    ASSUME Kept
    PROVE  IsTable(rows)
BY KeptFacts DEF RowsTyped, RowsInOrder, IsTable

\* As many rows as places.
LEMMA ImageCount ==
    ASSUME NEW list, IsTable(list), NEW S \in SUBSET (1..Len(list))
    PROVE  /\ IsFiniteSet(Part(list, S)) /\ Cardinality(Part(list, S)) = Cardinality(S)
           /\ Cardinality(S) \in Nat
<1> DEFINE T == {list[i] : i \in S}
           f == [i \in S |-> list[i]]
<1>1. IsFiniteSet(S)
  <2>1. Len(list) \in Nat /\ S \in SUBSET (0..Len(list))
    BY TableFacts
  <2> QED
    BY <2>1, CountFacts
<1>2. f \in Bijection(S, T)
  <2>1. \A i, j \in S : list[i] = list[j] => i = j
    BY TableFacts
  <2> QED
    BY <2>1 DEF Bijection, Injection, Surjection, IsInjective
<1>3. ExistsBijection(S, T)
  BY <1>2 DEF ExistsBijection
<1> HIDE DEF T, f
<1>4. IsFiniteSet(T) /\ Cardinality(T) = Cardinality(S)
  BY <1>1, <1>3, FS_Bijection
<1>5. Cardinality(T) \in Nat
  BY <1>4, FS_CardinalityType
<1>6. Part(list, S) = T
  BY DEF Part, T
<1> QED
  BY <1>4, <1>5, <1>6

-----------------------------------------------------------------------------
(* What a loop has done when it comes to row or list number at, of the rows *)
(* as they were when the statement began.                                   *)

Matched(list, where, S) == {i \in S : RowMatches(where, list[i])}

Selecting ==
    /\ rows = before /\ changes = 0
    /\ IsTable(found) /\ SetOf(found) = Part(before, Matched(before, stmt.where, 1..(at - 1)))

Updating ==
    /\ Len(rows) = Len(before)
    /\ \A i \in 1..Len(rows) :
          rows[i] = IF i \in Matched(before, stmt.where, 1..(at - 1))
                    THEN Promise!Changed(before[i], stmt.sets) ELSE before[i]
    /\ changes = Cardinality(Matched(before, stmt.where, 1..(at - 1)))

Deleting ==
    LET after == (at + 1)..Len(before) IN
    /\ at <= Len(before)
    /\ \A i \in 1..at : rows[i] = before[i]
    /\ Part(rows, (at + 1)..Len(rows)) = Part(before, after \ Matched(before, stmt.where, after))
    /\ changes = Cardinality(Matched(before, stmt.where, after))

\* The rows after each of the lists.
IsAfter(set, lists, n, v) ==
    v = [i \in 0..n |->
            IF i = 0 THEN set ELSE v[i - 1] \cup {Promise!RowOf(v[i - 1], lists[i])}]
After(set, lists) == CHOOSE v : IsAfter(set, lists, Len(lists), v)

Inserting ==
    LET after == After(SetOf(before), stmt.lists) IN
    /\ SetOf(rows) = after[at - 1]
    /\ \A i \in 1..(at - 1) : ~Promise!Refused(after[i - 1], stmt.lists[i])
    /\ changes = at - 1 /\ Len(rows) = Len(before) + changes

Looping ==
    /\ IsTable(before)
    /\ stmt = Idle => before = rows
    /\ stmt # Idle => /\ stmt.op = "select" => Selecting
                      /\ stmt.op = "update" => Updating
                      /\ stmt.op = "delete" => Deleting
                      /\ stmt.op = "insert" => Inserting

\* How many rows of a table a condition is true of, up to a place.
LEMMA MatchedFacts ==
    ASSUME NEW list, NEW where, NEW n \in Nat, NEW k \in Nat, NEW l \in Int
    PROVE  /\ \A i \in 1..n : i \in Matched(list, where, 1..n) <=> RowMatches(where, list[i])
           /\ \A i \in k..n : i \in Matched(list, where, k..n) <=> RowMatches(where, list[i])
           /\ Matched(list, where, k..l) \in SUBSET (k..l)
           /\ k > l => Matched(list, where, k..l) = {}
           /\ Cardinality(Matched(list, where, k..n)) \in Nat
<1>1. Matched(list, where, k..n) \in SUBSET (0..n)
  BY DEF Matched
<1>2. Cardinality(Matched(list, where, k..n)) \in Nat
  BY <1>1, CountFacts
<1> QED
  BY <1>2 DEF Matched

\* One row more.
LEMMA MatchedOneMore ==
    ASSUME NEW list, NEW where, NEW k \in Nat \ {0}
    PROVE  LET old == Matched(list, where, 1..(k - 1))
               new == Matched(list, where, 1..k)
           IN  IF RowMatches(where, list[k])
               THEN new = old \cup {k} /\ k \notin old /\ Cardinality(new) = Cardinality(old) + 1
               ELSE new = old /\ k \notin old
<1> DEFINE old == Matched(list, where, 1..(k - 1))
           new == Matched(list, where, 1..k)
<1>1. 1..k = 1..(k - 1) \cup {k} /\ k \notin 1..(k - 1)
  OBVIOUS
<1>2. k \notin old /\ new = IF RowMatches(where, list[k]) THEN old \cup {k} ELSE old
  BY <1>1 DEF Matched
<1>3. old \in SUBSET (0..(k - 1)) /\ k - 1 \in Nat
  BY DEF Matched
<1> HIDE DEF old, new
<1>4. Cardinality(old \cup {k}) = Cardinality(old) + 1
  BY <1>2, <1>3, CountFacts
<1> QED
  BY <1>2, <1>4 DEF old, new

LEMMA MatchedOneMoreBelow ==
    ASSUME NEW list, NEW where, NEW n \in Nat, NEW k \in 1..n
    PROVE  LET old == Matched(list, where, (k + 1)..n)
               new == Matched(list, where, k..n)
           IN  IF RowMatches(where, list[k])
               THEN new = old \cup {k} /\ k \notin old /\ Cardinality(new) = Cardinality(old) + 1
               ELSE new = old /\ k \notin old
<1> DEFINE old == Matched(list, where, (k + 1)..n)
           new == Matched(list, where, k..n)
<1>1. k..n = (k + 1)..n \cup {k} /\ k \notin (k + 1)..n
  OBVIOUS
<1>2. k \notin old /\ new = IF RowMatches(where, list[k]) THEN old \cup {k} ELSE old
  BY <1>1 DEF Matched
<1>3. old \in SUBSET (0..n)
  BY DEF Matched
<1> HIDE DEF old, new
<1>4. Cardinality(old \cup {k}) = Cardinality(old) + 1
  BY <1>2, <1>3, CountFacts
<1> QED
  BY <1>2, <1>4 DEF old, new

\* A turn of UPDATE: one row more is what the promise makes of it.
LEMMA UpdateRowLoops ==
    ASSUME Kept, Looping, UpdateRow
    PROVE  Looping'
<1>1. /\ stmt # Idle /\ stmt.op = "update" /\ at <= Len(rows)
      /\ at' = at + 1 /\ UNCHANGED <<stmt, before>>
      /\ IF RowMatches(stmt.where, rows[at])
         THEN rows' = [rows EXCEPT ![at] = Updated(rows[at])] /\ changes' = changes + 1
         ELSE UNCHANGED <<rows, changes>>
  BY DEF UpdateRow
<1>2. stmt \in Statements /\ at \in 1..(Len(rows) + 1) /\ changes \in Nat
  BY <1>1, RunningFacts
<1>3. IsTable(before) /\ Updating
  BY <1>1 DEF Looping
<1>4. PICK n \in Nat : n = Len(rows) /\ n = Len(before) /\ DOMAIN rows = 1..n /\ at \in 1..n
                       /\ rows = [i \in 1..n |-> rows[i]]
  <2>1. Len(rows) \in Nat /\ DOMAIN rows = 1..Len(rows) /\ rows = [i \in 1..Len(rows) |-> rows[i]]
    BY KeptFacts, ListFacts DEF RowsTyped
  <2>2. at \in 1..Len(rows)
    BY <1>1, <1>2, <2>1
  <2> QED
    BY <1>3, <2>1, <2>2 DEF Updating
<1>5. PICK old, new : /\ old = Matched(before, stmt.where, 1..(at - 1))
                      /\ new = Matched(before, stmt.where, 1..at)
  OBVIOUS
<1>6. /\ at \notin old
      /\ IF RowMatches(stmt.where, before[at])
         THEN new = old \cup {at} /\ Cardinality(new) = Cardinality(old) + 1
         ELSE new = old
  BY <1>4, <1>5, MatchedOneMore
<1>7. /\ \A i \in 1..n : rows[i] = IF i \in old THEN Promise!Changed(before[i], stmt.sets) ELSE before[i]
      /\ changes = Cardinality(old) /\ rows[at] = before[at]
  BY <1>3, <1>4, <1>5, <1>6 DEF Updating
<1>8. Updated(rows[at]) = Promise!Changed(before[at], stmt.sets)
  BY <1>1, <1>2, <1>3, <1>4, <1>7, TableFacts, UpdatedFacts
<1>9. /\ Len(rows') = n /\ changes' = Cardinality(new)
      /\ \A i \in 1..n : rows'[i] = IF i \in new THEN Promise!Changed(before[i], stmt.sets) ELSE before[i]
  <2>1. CASE RowMatches(stmt.where, before[at])
    <3>1. rows' = [i \in 1..n |-> IF i = at THEN Promise!Changed(before[at], stmt.sets) ELSE rows[i]]
      BY <1>1, <1>4, <1>7, <1>8, <2>1
    <3>2. Len(rows') = n
      BY <3>1, ListIntro
    <3>3. changes' = Cardinality(new)
      BY <1>1, <1>6, <1>7, <2>1
    <3> QED
      BY <1>6, <1>7, <2>1, <3>1, <3>2, <3>3
  <2>2. CASE ~RowMatches(stmt.where, before[at])
    BY <1>1, <1>4, <1>6, <1>7, <2>2
  <2> QED
    BY <2>1, <2>2
<1>10. Updating'
  <2>1. at' - 1 = at
    BY <1>1, <1>4
  <2> QED
    BY <1>1, <1>4, <1>5, <1>9, <2>1 DEF Updating
<1> QED
  BY <1>1, <1>3, <1>10 DEF Looping

\* A turn of DELETE, from the end: what is behind has been judged.
LEMMA DeleteRowLoops ==
    ASSUME Kept, Looping, DeleteRow
    PROVE  Looping'
<1>1. /\ stmt # Idle /\ stmt.op = "delete" /\ at >= 1
      /\ at' = at - 1 /\ UNCHANGED <<stmt, before>>
      /\ IF RowMatches(stmt.where, rows[at])
         THEN rows' = Without(rows, at) /\ changes' = changes + 1
         ELSE UNCHANGED <<rows, changes>>
  BY DEF DeleteRow
<1>2. stmt \in Statements /\ at \in 0..Len(rows) /\ changes \in Nat
  BY <1>1, RunningFacts
<1>3. IsTable(before) /\ Deleting
  BY <1>1 DEF Looping
<1>4. PICK l \in Nat, n \in Nat : /\ l = Len(rows) /\ DOMAIN rows = 1..l
                                  /\ n = Len(before) /\ at \in 1..l /\ at <= n
  <2>1. at <= Len(before)
    BY <1>3 DEF Deleting
  <2>2. Len(rows) \in Nat /\ DOMAIN rows = 1..Len(rows) /\ Len(before) \in Nat
    BY <1>3, KeptFacts, RowsFacts, TableFacts
  <2>3. at \in 1..Len(rows)
    BY <1>1, <1>2, <2>2
  <2> QED
    BY <2>1, <2>2, <2>3
<1>5. PICK old, new : /\ old = Matched(before, stmt.where, (at + 1)..n)
                      /\ new = Matched(before, stmt.where, at..n)
  OBVIOUS
<1>6. /\ at \notin old
      /\ IF RowMatches(stmt.where, before[at])
         THEN new = old \cup {at} /\ Cardinality(new) = Cardinality(old) + 1
         ELSE new = old
  BY <1>4, <1>5, MatchedOneMoreBelow
<1>7. /\ \A i \in 1..at : rows[i] = before[i]
      /\ Part(rows, (at + 1)..l) = Part(before, ((at + 1)..n) \ old)
      /\ changes = Cardinality(old)
  BY <1>3, <1>4, <1>5 DEF Deleting
<1>8. at..l = {at} \cup (at + 1)..l /\ at..n = {at} \cup (at + 1)..n
  BY <1>4
<1>9. /\ \A i \in 1..(at - 1) : rows'[i] = before[i]
      /\ Part(rows', at..Len(rows')) = Part(before, (at..n) \ new)
      /\ changes' = Cardinality(new)
  <2>1. CASE RowMatches(stmt.where, before[at])
    <3>1. rows' = Without(rows, at) /\ changes' = changes + 1
      BY <1>1, <1>4, <1>7, <2>1
    <3>2. PICK r : r = Without(rows, at) /\ r = rows'
      BY <3>1
    <3>3. /\ IsList(r) /\ Len(r) = l - 1
          /\ \A j \in 1..(at - 1) : r[j] = rows[j]
          /\ \A j \in (at + 1)..l : r[j - 1] = rows[j]
      BY <1>4, <3>2, KeptFacts, WithoutFacts DEF RowsTyped
    <3>4. Part(r, at..(l - 1)) = Part(rows, (at + 1)..l)
      <4>1. \A i \in at..(l - 1) : i + 1 \in (at + 1)..l /\ (i + 1) - 1 = i
        BY <1>4
      <4>2. \A i \in (at + 1)..l : i - 1 \in at..(l - 1)
        BY <1>4
      <4>3. \A i \in at..(l - 1) : r[i] = rows[i + 1]
        BY <3>3, <4>1
      <4> QED
        BY <3>3, <4>1, <4>2, <4>3 DEF Part
    <3>5. (at..n) \ new = ((at + 1)..n) \ old
      BY <1>4, <1>6, <1>8, <2>1
    <3>6. \A i \in 1..(at - 1) : r[i] = before[i]
      BY <1>4, <1>7, <3>3
    <3>7. Part(r, at..Len(r)) = Part(before, (at..n) \ new)
      BY <1>7, <3>3, <3>4, <3>5
    <3>8. changes' = Cardinality(new)
      BY <1>6, <1>7, <2>1, <3>1
    <3> QED
      BY <3>2, <3>6, <3>7, <3>8
  <2>2. CASE ~RowMatches(stmt.where, before[at])
    <3>1. rows' = rows /\ changes' = changes
      BY <1>1, <1>4, <1>7, <2>2
    <3>2. (at..n) \ new = {at} \cup (((at + 1)..n) \ old) /\ rows[at] = before[at]
      BY <1>4, <1>6, <1>7, <1>8, <2>2
    <3>3. /\ Part(rows, at..l) = {rows[at]} \cup Part(rows, (at + 1)..l)
          /\ Part(before, (at..n) \ new) = {before[at]} \cup Part(before, ((at + 1)..n) \ old)
      BY <1>8, <3>2 DEF Part
    <3>4. Part(rows, at..l) = Part(before, (at..n) \ new)
      BY <1>7, <3>2, <3>3
    <3>5. \A i \in 1..(at - 1) : rows[i] = before[i]
      BY <1>4, <1>7
    <3> QED
      BY <1>4, <1>6, <1>7, <2>2, <3>1, <3>4, <3>5
  <2> QED
    BY <2>1, <2>2
<1>10. Deleting'
  <2>1. at' + 1 = at /\ at' = at - 1 /\ at' <= n
    BY <1>1, <1>4
  <2>2. at' <= Len(before') /\ \A i \in 1..at' : rows'[i] = before'[i]
    BY <1>1, <1>4, <1>9, <2>1
  <2>3. Len(before') = n /\ Matched(before', stmt'.where, (at' + 1)..Len(before')) = new
    BY <1>1, <1>4, <1>5, <2>1
  <2>4. Part(rows', (at' + 1)..Len(rows')) = Part(before', ((at' + 1)..Len(before')) \ new)
    BY <1>1, <1>9, <2>1, <2>3
  <2> QED
    BY <1>9, <2>2, <2>3, <2>4 DEF Deleting
<1> QED
  BY <1>1, <1>3, <1>10 DEF Looping

\* A row with a larger rowid at the end.
LEMMA AppendTable ==
    ASSUME NEW list, IsTable(list), NEW row, IsRow(row), \A p \in SetOf(list) : p.id < row.id,
           NEW new, new = Append(list, row)
    PROVE  IsTable(new) /\ SetOf(new) = SetOf(list) \cup {row}
<1>1. PICK n \in Nat : n = Len(list) /\ DOMAIN list = 1..n
  BY TableFacts
<1>2. /\ IsList(new) /\ Len(new) = n + 1
      /\ \A i \in 1..n : new[i] = list[i]
      /\ new[n + 1] = row
  BY <1>1, TableFacts, AppendFacts
<1>3. DOMAIN new = 1..n \cup {n + 1} /\ n + 1 \notin 1..n
  <2>1. DOMAIN new = 1..(n + 1)
    BY <1>2, ListFacts
  <2> QED
    BY <2>1
<1>4. \A i \in 1..n : IsRow(list[i]) /\ list[i].id < row.id
  BY <1>1, TableFacts DEF SetOf, Part
<1>5. \A i, j \in 1..n : i < j => list[i].id < list[j].id
  BY <1>1, TableFacts
<1>6. \A i, j \in DOMAIN new : i < j => new[i].id < new[j].id
  BY <1>2, <1>3, <1>4, <1>5
<1>7. SetOf(new) = SetOf(list) \cup {row}
  BY <1>1, <1>2, <1>3 DEF SetOf, Part
<1> QED
  BY <1>2, <1>3, <1>4, <1>6, <1>7 DEF IsTable

\* A turn of SELECT: the rows found so far are those before at.
LEMMA SelectRowLoops ==
    ASSUME Kept, Looping, SelectRow
    PROVE  Looping'
<1>1. /\ stmt # Idle /\ stmt.op = "select" /\ at <= Len(rows) /\ at' = at + 1
      /\ UNCHANGED <<rows, stmt, before, changes>>
      /\ found' = IF RowMatches(stmt.where, rows[at]) THEN Append(found, rows[at]) ELSE found
  BY DEF SelectRow
<1>2. IsTable(before) /\ rows = before /\ changes = 0 /\ IsTable(found)
  BY <1>1 DEF Looping, Selecting
<1>3. PICK n \in Nat : n = Len(before) /\ DOMAIN before = 1..n /\ at \in 1..n
  <2>1. at \in 1..(Len(rows) + 1) /\ Len(before) \in Nat
    BY <1>1, <1>2, RunningFacts, TableFacts
  <2> QED
    BY <1>1, <1>2, <2>1, TableFacts
<1>4. PICK old, new : /\ old = Matched(before, stmt.where, 1..(at - 1))
                      /\ new = Matched(before, stmt.where, 1..at)
  OBVIOUS
<1>5. IF RowMatches(stmt.where, before[at]) THEN new = old \cup {at} ELSE new = old
  BY <1>3, <1>4, MatchedOneMore
<1>6. SetOf(found) = Part(before, old)
  BY <1>1, <1>4 DEF Looping, Selecting
<1>7. IsTable(found') /\ SetOf(found') = Part(before, new)
  <2>1. CASE RowMatches(stmt.where, before[at])
    <3>1. PICK row : row = before[at] /\ IsRow(row)
      BY <1>2, <1>3, TableFacts
    <3>2. ASSUME NEW p \in SetOf(found)
          PROVE  p.id < row.id
      <4>1. PICK i \in old : p = before[i]
        BY <1>6 DEF Part
      <4>2. i \in 1..(at - 1)
        BY <1>4 DEF Matched
      <4>3. i \in 1..n /\ i < at
        BY <1>3, <4>2
      <4> QED
        BY <1>2, <1>3, <3>1, <4>1, <4>3, TableFacts
    <3>3. PICK list : list = found' /\ list = Append(found, row)
      BY <1>1, <1>2, <2>1, <3>1
    <3>4. IsTable(list) /\ SetOf(list) = SetOf(found) \cup {row}
      BY <1>2, <3>1, <3>2, <3>3, AppendTable
    <3>5. Part(before, new) = Part(before, old) \cup {row}
      BY <1>5, <2>1, <3>1 DEF Part
    <3> QED
      BY <1>6, <3>3, <3>4, <3>5
  <2>2. CASE ~RowMatches(stmt.where, before[at])
    BY <1>1, <1>2, <1>5, <1>6, <2>2
  <2> QED
    BY <2>1, <2>2
<1>8. Selecting'
  <2>1. at' - 1 = at
    BY <1>1, <1>3
  <2> QED
    BY <1>1, <1>2, <1>4, <1>7, <2>1 DEF Selecting
<1> QED
  BY <1>1, <1>2, <1>8 DEF Looping

LEMMA EndLoops ==
    ASSUME Kept, Looping, NEW ok, NEW list, End(ok, list)
    PROVE  Looping'
<1>1. stmt' = Idle /\ before' = rows /\ rows' = rows
  BY DEF End
<1> QED
  BY <1>1, KeptTable DEF Looping

-----------------------------------------------------------------------------
(* INSERT *)

\* The sets of rows after each list of an INSERT.
LEMMA AfterExists ==
    ASSUME NEW set, NEW lists, NEW n \in Nat
    PROVE  \E v : IsAfter(set, lists, n, v)
<1> DEFINE S == {k \in 0..n : \E v : IsAfter(set, lists, k, v)}
<1>1. ASSUME NEW k \in 0..n, \A j \in 0..(k - 1) : j \in S
      PROVE  k \in S
  <2>1. CASE k = 0
    <3>1. PICK v : v = [i \in 0..0 |-> set]
      OBVIOUS
    <3>2. IsAfter(set, lists, 0, v)
      BY <3>1 DEF IsAfter
    <3> QED
      BY <2>1, <3>2
  <2>2. CASE k # 0
    <3>1. k - 1 \in 0..(k - 1)
      BY <2>2
    <3>2. PICK v : IsAfter(set, lists, k - 1, v)
      BY <1>1, <3>1
    <3>3. PICK new : new = v[k - 1] \cup {Promise!RowOf(v[k - 1], lists[k])}
      OBVIOUS
    <3>4. PICK w : w = [i \in 0..k |-> IF i = k THEN new ELSE v[i]]
      OBVIOUS
    <3>5. ASSUME NEW i \in 0..k
          PROVE  w[i] = IF i = 0 THEN set ELSE w[i - 1] \cup {Promise!RowOf(w[i - 1], lists[i])}
      <4>1. CASE i = k
        <5>1. w[i] = new /\ w[i - 1] = v[i - 1] /\ i # 0
          BY <2>2, <3>4, <4>1
        <5> QED
          BY <3>3, <4>1, <5>1
      <4>2. CASE i = 0
        BY <2>2, <3>2, <3>4, <4>2 DEF IsAfter
      <4>3. CASE i # k /\ i # 0
        <5>1. i \in 0..(k - 1) /\ w[i] = v[i] /\ w[i - 1] = v[i - 1]
          BY <3>4, <4>3
        <5> QED
          BY <3>2, <4>3, <5>1 DEF IsAfter
      <4> QED
        BY <4>1, <4>2, <4>3
    <3>6. IsAfter(set, lists, k, w)
      BY <3>4, <3>5 DEF IsAfter
    <3> QED
      BY <3>6
  <2> QED
    BY <2>1, <2>2
<1>2. n \in S
  <2>1. \A k \in 0..n : k \in S
    <3> HIDE DEF S
    <3> QED
      BY <1>1, StepByStep
  <2> QED
    BY <2>1
<1> QED
  BY <1>2

LEMMA AfterFacts ==
    ASSUME NEW set, NEW lists, Len(lists) \in Nat
    PROVE  /\ After(set, lists)[0] = set
           /\ \A i \in 1..Len(lists) :
                 After(set, lists)[i] = After(set, lists)[i - 1]
                                        \cup {Promise!RowOf(After(set, lists)[i - 1], lists[i])}
<1>1. PICK n \in Nat : n = Len(lists)
  OBVIOUS
<1> DEFINE v == After(set, lists)
<1>2. IsAfter(set, lists, n, v)
  <2>1. \E w : IsAfter(set, lists, n, w)
    BY AfterExists
  <2> QED
    BY <1>1, <2>1 DEF After
<1>3. v[0] = set
  BY <1>2 DEF IsAfter
<1>4. ASSUME NEW i \in 1..n
      PROVE  v[i] = v[i - 1] \cup {Promise!RowOf(v[i - 1], lists[i])}
  <2>1. i \in 0..n /\ i # 0
    OBVIOUS
  <2> QED
    BY <1>2, <2>1 DEF IsAfter
<1> QED
  BY <1>1, <1>3, <1>4

\* The next rowid is above the largest.
LEMMA LargestFacts ==
    ASSUME RowsTyped, RowsInOrder
    PROVE  Promise!Largest(SetOf(rows)) + 1 = NextRowid
<1>1. PICK n \in Nat : n = Len(rows) /\ DOMAIN rows = 1..n
  BY RowsFacts
<1>2. \A i \in 1..n : rows[i].id \in Int /\ rows[i].id < NextRowid
  BY <1>1, RowsFacts, NextRowidFacts
<1>3. PICK ids : ids = {0} \cup {row.id : row \in SetOf(rows)}
  OBVIOUS
<1>4. ids = {0} \cup {rows[i].id : i \in DOMAIN rows}
  BY <1>3 DEF SetOf, Part
<1>5. PICK m \in Int : m = NextRowid - 1 /\ m \in ids /\ 0 <= m
  BY <1>4, NextRowidFacts
<1>6. \A x \in ids : x \in Int /\ m >= x
  BY <1>1, <1>2, <1>4, <1>5, NextRowidFacts
<1>7. PICK x : x = CHOOSE z \in ids : \A y \in ids : z >= y
  OBVIOUS
<1>8. x \in ids /\ \A y \in ids : x >= y
  BY <1>5, <1>6, <1>7
<1>9. x = m
  BY <1>5, <1>6, <1>8
<1>10. Promise!Largest(SetOf(rows)) = x
  BY <1>3, <1>7 DEF Promise!Largest, Promise!Max
<1> QED
  BY <1>5, <1>9, <1>10, NextRowidFacts

\* Whether a list is refused, and its row, are those of the promise.
LEMMA ListFollows ==
    ASSUME RowsTyped, RowsInOrder, NEW s \in Statements, s.op = "insert",
           NEW k \in DOMAIN s.lists
    PROVE  /\ Refused(s.lists[k]) <=> Promise!Refused(SetOf(rows), s.lists[k])
           /\ ~Refused(s.lists[k]) =>
                 Promise!RowOf(SetOf(rows), s.lists[k])
                 = [id |-> RowidFor(s.lists[k]), cells |-> Stored(s.lists[k])]
<1>1. PICK list : list = s.lists[k]
  OBVIOUS
<1>2. /\ Promise!IsNull(list.key) <=> IsNull(list.key)
      /\ \A c, aff : Promise!Coerce(c, aff) = Coerce(c, aff)
  BY SameCells
<1>3. \A id : Taken(id) <=> \E row \in SetOf(rows) : row.id = id
  BY DEF Taken, SetOf, Part
<1>4. Refused(list) <=> Promise!Refused(SetOf(rows), list)
  BY <1>2, <1>3 DEF Refused, Promise!Refused
<1>5. ASSUME ~Refused(list)
      PROVE  Promise!RowOf(SetOf(rows), list) = [id |-> RowidFor(list), cells |-> Stored(list)]
  <2>1. RowidFor(list) = IF IsNull(list.key) \/ Coerce(list.key, "INT").n < 0 THEN NextRowid
                         ELSE Coerce(list.key, "INT").n
    BY <1>1, <1>5, RowidFacts
  <2>2. Promise!Largest(SetOf(rows)) + 1 = NextRowid
    BY LargestFacts
  <2>3. Stored(list) = [c \in Columns |-> Promise!Coerce(list.cells[c], Schema[c])]
    BY <1>2 DEF Stored
  <2> QED
    BY <1>2, <2>1, <2>2, <2>3 DEF Promise!RowOf, Promise!Columns, Columns
<1> QED
  BY <1>1, <1>4, <1>5

\* A turn of INSERT: the rows are those after the lists so far.
LEMMA InsertListLoops ==
    ASSUME Kept, Looping, InsertList, ~Refused(stmt.lists[at])
    PROVE  Looping'
<1>1. /\ stmt # Idle /\ stmt.op = "insert" /\ at <= Len(stmt.lists)
      /\ rows' = Placed([id |-> RowidFor(stmt.lists[at]), cells |-> Stored(stmt.lists[at])])
      /\ changes' = changes + 1 /\ at' = at + 1 /\ UNCHANGED <<stmt, before>>
  BY DEF InsertList
<1>2. PICK n \in Nat : n = Len(stmt.lists) /\ DOMAIN stmt.lists = 1..n /\ stmt \in Statements
  BY <1>1, RunningFacts, StatementFacts, ListFacts
<1>3. at \in 1..n /\ at \in DOMAIN stmt.lists
  <2>1. at \in 1..(n + 1)
    BY <1>1, <1>2, RunningFacts
  <2> QED
    BY <1>1, <1>2, <2>1
<1>4. IsTable(before) /\ Inserting
  BY <1>1 DEF Looping
<1> RowsTyped /\ RowsInOrder
  BY KeptFacts
<1>5. PICK row : row = [id |-> RowidFor(stmt.lists[at]), cells |-> Stored(stmt.lists[at])]
  OBVIOUS
<1>6. PICK after : after = After(SetOf(before), stmt.lists)
  OBVIOUS
<1>7. /\ SetOf(rows) = after[at - 1] /\ changes = at - 1 /\ Len(rows) = Len(before) + changes
      /\ \A i \in 1..(at - 1) : ~Promise!Refused(after[i - 1], stmt.lists[i])
  BY <1>4, <1>6 DEF Inserting
<1>8. ~Promise!Refused(after[at - 1], stmt.lists[at]) /\ Promise!RowOf(after[at - 1], stmt.lists[at]) = row
  BY <1>1, <1>2, <1>3, <1>5, <1>7, ListFollows
<1>9. after[at] = after[at - 1] \cup {row}
  BY <1>2, <1>3, <1>6, <1>8, AfterFacts
<1>10. SetOf(rows') = SetOf(rows) \cup {row} /\ Len(rows') = Len(rows) + 1
  <2>1. IsRow(row) /\ \A i \in 1..Len(rows) : rows[i].id # row.id
    BY <1>1, <1>2, <1>3, <1>5, NewRowFacts, RowidFacts
  <2>2. PICK new : new = Placed(row) /\ new = rows'
    BY <1>1, <1>5
  <2>3. /\ Len(new) = Len(rows) + 1
        /\ \A i \in DOMAIN new : new[i] = row \/ \E j \in DOMAIN rows : new[i] = rows[j]
        /\ \E i \in DOMAIN new : new[i] = row
        /\ \A j \in DOMAIN rows : \E i \in DOMAIN new : new[i] = rows[j]
    <3>1. /\ IsList(new) /\ Len(new) = Len(rows) + 1
          /\ \A i \in DOMAIN new : new[i] = row \/ \E j \in DOMAIN rows : new[i] = rows[j]
          /\ \E i \in DOMAIN new : new[i] = row
          /\ \A j \in DOMAIN rows : \E i \in DOMAIN new : new[i] = rows[j]
          /\ \A i, j \in DOMAIN new : i < j => new[i].id < new[j].id
      BY <2>1, <2>2, PlacedInOrder
    <3> QED
      BY <3>1
  <2>4. SetOf(new) = SetOf(rows) \cup {row}
    BY <2>3 DEF SetOf, Part
  <2> QED
    BY <2>2, <2>3, <2>4
<1>11. Len(rows) \in Nat /\ Len(before) \in Nat
  BY <1>4, RowsFacts, TableFacts
<1>12. Inserting'
  <2>0. at' - 1 = at
    BY <1>1, <1>3
  <2>1. after[at' - 1] = SetOf(rows')
    BY <1>7, <1>9, <1>10, <2>0
  <2>2. \A i \in 1..at : ~Promise!Refused(after[i - 1], stmt.lists[i])
    BY <1>3, <1>7, <1>8
  <2>3. changes' = at' - 1 /\ Len(rows') = Len(before) + changes'
    BY <1>1, <1>3, <1>7, <1>10, <1>11
  <2>4. after = After(SetOf(before'), stmt'.lists)
    BY <1>1, <1>6
  <2> QED
    BY <1>1, <2>0, <2>1, <2>2, <2>3, <2>4 DEF Inserting
<1> QED
  BY <1>1, <1>4, <1>12 DEF Looping

\* A loop that begins has done nothing.
LEMMA BeginLoops ==
    ASSUME Kept, Looping, NEW s \in Statements, Begin(s)
    PROVE  Looping'
<1>1. /\ before' = rows /\ rows' = rows /\ found' = <<>> /\ changes' = 0 /\ stmt' = s
      /\ at' = IF s.op = "delete" THEN Len(rows) ELSE 1
  BY DEF Begin
<1>2. PICK n \in Nat : n = Len(rows) /\ DOMAIN rows = 1..n /\ IsTable(rows)
  BY KeptTable, TableFacts
<1>3. \A list, where : Matched(list, where, 1..0) = {} /\ Matched(list, where, (n + 1)..n) = {}
  BY <1>2 DEF Matched
<1>4. Cardinality({}) = 0 /\ \A list : Part(list, {}) = {}
  BY FS_EmptySet DEF Part
<1>5. CASE s.op = "select"
  <2>1. IsTable(<<>>) /\ SetOf(<<>>) = {}
    BY DEF IsTable, IsList, SetOf, Part
  <2>2. at' - 1 = 0
    BY <1>1, <1>5
  <2>3. SetOf(found') = Part(before', Matched(before', stmt'.where, 1..(at' - 1)))
    BY <1>1, <1>3, <1>4, <2>1, <2>2
  <2>4. Selecting'
    BY <1>1, <2>1, <2>3 DEF Selecting
  <2> QED
    BY <1>1, <1>2, <1>5, <2>4, StatementFacts DEF Looping
<1>6. CASE s.op = "update"
  <2>1. Matched(before', stmt'.where, 1..(at' - 1)) = {}
    BY <1>1, <1>3, <1>6
  <2>2. Updating'
    BY <1>1, <1>4, <2>1 DEF Updating
  <2> QED
    BY <1>1, <1>2, <1>6, <2>2, StatementFacts DEF Looping
<1>7. CASE s.op = "delete"
  <2>1. at' = n /\ Len(before') = n /\ Len(rows') = n
    BY <1>1, <1>2, <1>7
  <2>2. (n + 1)..n = {}
    OBVIOUS
  <2>3. Matched(before', stmt'.where, (at' + 1)..Len(before')) = {}
    BY <1>3, <2>1
  <2>4. /\ (at' + 1)..Len(rows') = {}
        /\ ((at' + 1)..Len(before')) \ Matched(before', stmt'.where, (at' + 1)..Len(before')) = {}
    BY <2>1, <2>2
  <2>5. Deleting'
    <3>1. /\ Part(rows', (at' + 1)..Len(rows')) = {}
          /\ Part(before', ((at' + 1)..Len(before'))
                          \ Matched(before', stmt'.where, (at' + 1)..Len(before'))) = {}
      BY <1>4, <2>4
    <3>2. changes' = Cardinality(Matched(before', stmt'.where, (at' + 1)..Len(before')))
      BY <1>1, <1>4, <2>3
    <3>3. at' <= Len(before') /\ \A i \in 1..at' : rows'[i] = before'[i]
      BY <1>1, <2>1
    <3> QED
      BY <3>1, <3>2, <3>3 DEF Deleting
  <2> QED
    BY <1>1, <1>2, <1>7, <2>5, StatementFacts DEF Looping
<1>8. CASE s.op = "insert"
  <2>1. Len(s.lists) \in Nat
    BY <1>8, StatementFacts, ListFacts
  <2>2. After(SetOf(rows), s.lists)[0] = SetOf(rows)
    BY <2>1, AfterFacts
  <2>3. Inserting'
    BY <1>1, <1>2, <1>8, <2>2 DEF Inserting
  <2> QED
    BY <1>1, <1>2, <1>8, <2>3, StatementFacts DEF Looping
<1> QED
  BY <1>5, <1>6, <1>7, <1>8, StatementFacts

\* Every step keeps what the loop has done.
LEMMA StepLoops ==
    ASSUME Kept, Looping, [Next]_vars
    PROVE  Looping'
<1>1. CASE UNCHANGED vars
  BY <1>1 DEF vars, Looping, Selecting, Updating, Deleting, Inserting
<1>2. CASE \E s \in Statements : Begin(s)
  BY <1>2, BeginLoops
<1>3. CASE SelectRow
  BY <1>3, SelectRowLoops
<1>4. CASE UpdateRow
  BY <1>4, UpdateRowLoops
<1>5. CASE DeleteRow
  BY <1>5, DeleteRowLoops
<1>6. CASE InsertList
  <2>1. CASE ~Refused(stmt.lists[at])
    BY <1>6, <2>1, InsertListLoops
  <2>2. CASE Refused(stmt.lists[at])
    BY <1>6, <2>2, EndLoops DEF InsertList
  <2> QED
    BY <2>1, <2>2
<1>7. CASE SelectEnd \/ UpdateEnd \/ DeleteEnd \/ InsertEnd
  BY <1>7, EndLoops DEF SelectEnd, UpdateEnd, DeleteEnd, InsertEnd
<1> QED
  BY <1>1, <1>2, <1>3, <1>4, <1>5, <1>6, <1>7 DEF Next

LEMMA AlwaysLooping == Spec => [](Kept /\ Looping)
<1>1. Init => Looping
  <2> SUFFICES ASSUME Init PROVE Looping
    OBVIOUS
  <2>1. rows = <<>> /\ before = <<>> /\ stmt = Idle
    BY DEF Init
  <2>2. IsTable(<<>>)
    BY DEF IsTable, IsList
  <2> QED
    BY <2>1, <2>2 DEF Looping
<1>2. Kept /\ Looping /\ [Next]_vars => Looping'
  BY StepLoops
<1> QED
  BY <1>1, <1>2, AlwaysKept, PTL DEF Spec

-----------------------------------------------------------------------------
(* The last step of a statement is the promise's step *)

Shown == {Table[i] : i \in DOMAIN Table}

\* What the promise sees of a table: its rows as a set.
LEMMA ShownFacts ==
    /\ stmt # Idle => Shown = SetOf(before)
    /\ stmt = Idle => Shown = SetOf(rows)
    /\ stmt' # Idle => Shown' = SetOf(before')
    /\ stmt' = Idle => Shown' = SetOf(rows')
BY DEF Shown, Table, SetOf, Part

\* The rows the promise chooses are those that row_matches takes.
LEMMA ChosenIs ==
    ASSUME Kept, Looping, stmt # Idle, stmt.op # "insert"
    PROVE  LET M == Matched(before, stmt.where, 1..Len(before))
           IN  /\ Promise!Chosen(stmt.where) = Part(before, M)
               /\ Cardinality(Promise!Chosen(stmt.where)) = Cardinality(M)
               /\ M \in SUBSET (1..Len(before))
<1> DEFINE M == Matched(before, stmt.where, 1..Len(before))
<1>1. IsTable(before) /\ stmt \in Statements /\ IsExpression(stmt.where, Columns)
  BY RunningFacts, StatementFacts DEF Looping
<1>2. \A row : Promise!Value(stmt.where, row) = 2 <=> RowMatches(stmt.where, row)
  BY <1>1, ValueIsTruth DEF RowMatches
<1>3. DOMAIN before = 1..Len(before)
  BY <1>1, TableFacts
<1>4. Promise!Chosen(stmt.where) = {row \in SetOf(before) : RowMatches(stmt.where, row)}
  BY <1>2, ShownFacts DEF Promise!Chosen, Shown
<1>5. Promise!Chosen(stmt.where) = Part(before, M)
  BY <1>3, <1>4 DEF SetOf, Part, Matched
<1>6. M \in SUBSET (1..Len(before))
  BY DEF Matched
<1> HIDE DEF M
<1>7. Cardinality(Part(before, M)) = Cardinality(M)
  BY <1>1, <1>6, ImageCount
<1> QED
  BY <1>5, <1>6, <1>7 DEF M

LEMMA SameCardinality ==
    ASSUME NEW S
    PROVE  Promise!Cardinality(S) = Cardinality(S)
BY DEF Promise!Cardinality, Cardinality

\* The last step of an UPDATE, DELETE, INSERT, each in its turn.
LEMMA UpdateFollows ==
    ASSUME Kept, Looping, UpdateEnd, NEW s, s = stmt
    PROVE  Promise!Update(s)
<1>1. /\ stmt # Idle /\ stmt.op = "update" /\ at > Len(rows)
      /\ answer' = Answer(stmt, TRUE, changes, <<>>)
      /\ stmt' = Idle /\ rows' = rows
  BY DEF UpdateEnd, End
<1>2. Updating /\ IsTable(before)
  BY <1>1 DEF Looping
<1>3. PICK n \in Nat : n = Len(rows) /\ n = Len(before) /\ DOMAIN rows = 1..n /\ DOMAIN before = 1..n
                       /\ at = n + 1
  <2>1. Len(rows) = Len(before)
    BY <1>2 DEF Updating
  <2>2. Len(rows) \in Nat /\ DOMAIN rows = 1..Len(rows) /\ DOMAIN before = 1..Len(before)
    BY <1>2, KeptFacts, RowsFacts, TableFacts
  <2>3. at \in 1..(Len(rows) + 1)
    BY <1>1, RunningFacts
  <2>4. at = Len(rows) + 1
    BY <1>1, <2>2, <2>3
  <2> QED
    BY <2>1, <2>2, <2>4
<1>4. PICK M, C : M = Matched(before, stmt.where, 1..n) /\ C = Promise!Chosen(stmt.where)
  OBVIOUS
<1>5. C = Part(before, M) /\ Cardinality(C) = Cardinality(M) /\ M \in SUBSET (1..n)
  BY <1>1, <1>3, <1>4, ChosenIs
<1>6. /\ changes = Cardinality(M)
      /\ \A i \in 1..n : rows[i] = IF i \in M THEN Promise!Changed(before[i], stmt.sets) ELSE before[i]
  <2>1. at - 1 = n
    BY <1>3
  <2> QED
    BY <1>2, <1>3, <1>4, <2>1 DEF Updating
<1>7. \A i \in 1..n : before[i] \in C <=> i \in M
  <2>1. \A i, j \in 1..n : before[i] = before[j] => i = j
    BY <1>2, <1>3, TableFacts
  <2> QED
    BY <1>5, <2>1 DEF Part
<1>8. SetOf(rows) = (SetOf(before) \ C) \cup {Promise!Changed(row, stmt.sets) : row \in C}
  <2> DEFINE new == {Promise!Changed(row, stmt.sets) : row \in C}
  <2>1. new = {Promise!Changed(before[i], stmt.sets) : i \in M}
    BY <1>5 DEF Part
  <2>2. SetOf(before) \ C = {before[i] : i \in (1..n) \ M}
    BY <1>3, <1>7 DEF SetOf, Part
  <2>3. SetOf(rows) = {rows[i] : i \in M} \cup {rows[i] : i \in (1..n) \ M}
    BY <1>3, <1>5 DEF SetOf, Part
  <2>4. \A i \in M : rows[i] = Promise!Changed(before[i], stmt.sets)
    BY <1>5, <1>6
  <2>5. \A i \in (1..n) \ M : rows[i] = before[i]
    BY <1>6
  <2>6. {rows[i] : i \in M} = {Promise!Changed(before[i], stmt.sets) : i \in M}
    BY <2>4
  <2>7. {rows[i] : i \in (1..n) \ M} = {before[i] : i \in (1..n) \ M}
    BY <2>5
  <2> QED
    BY <2>1, <2>2, <2>3, <2>6, <2>7
<1>9. Shown = SetOf(before) /\ Shown' = SetOf(rows)
  BY <1>1, ShownFacts
<1>10. answer' = Promise!Answer(s, TRUE, Promise!Cardinality(C), <<>>)
  BY <1>1, <1>5, <1>6, SameCardinality DEF Promise!Answer, Answer
<1>11. Shown' = (Shown \ C) \cup {Promise!Changed(row, s.sets) : row \in C}
  BY <1>8, <1>9
<1>12. C = Promise!Chosen(s.where)
  BY <1>4
<1> QED
  BY <1>10, <1>11, <1>12, Zenon DEF Promise!Update, Shown

LEMMA DeleteFollows ==
    ASSUME Kept, Looping, DeleteEnd, NEW s, s = stmt
    PROVE  Promise!Delete(s)
<1>1. /\ stmt # Idle /\ stmt.op = "delete" /\ at = 0
      /\ answer' = Answer(stmt, TRUE, changes, <<>>)
      /\ stmt' = Idle /\ rows' = rows
  BY DEF DeleteEnd, End
<1>2. Deleting /\ IsTable(before)
  BY <1>1 DEF Looping
<1>3. DOMAIN rows = 1..Len(rows) /\ DOMAIN before = 1..Len(before)
  BY <1>2, KeptFacts, RowsFacts, TableFacts
<1>4. PICK M, C : M = Matched(before, stmt.where, 1..Len(before)) /\ C = Promise!Chosen(stmt.where)
  OBVIOUS
<1>5. C = Part(before, M) /\ Cardinality(C) = Cardinality(M) /\ M \in SUBSET (1..Len(before))
  BY <1>1, <1>4, ChosenIs
<1>6. changes = Cardinality(M) /\ SetOf(rows) = Part(before, (1..Len(before)) \ M)
  <2>1. at + 1 = 1
    BY <1>1
  <2> QED
    BY <1>2, <1>3, <1>4, <2>1 DEF Deleting, SetOf
<1>7. \A i \in 1..Len(before) : before[i] \in C <=> i \in M
  <2>1. \A i, j \in 1..Len(before) : before[i] = before[j] => i = j
    BY <1>2, TableFacts
  <2> QED
    BY <1>5, <2>1 DEF Part
<1>8. SetOf(rows) = SetOf(before) \ C
  BY <1>3, <1>6, <1>7 DEF SetOf, Part
<1>9. Shown = SetOf(before) /\ Shown' = SetOf(rows)
  BY <1>1, ShownFacts
<1>10. answer' = Promise!Answer(s, TRUE, Promise!Cardinality(C), <<>>)
  BY <1>1, <1>5, <1>6, SameCardinality DEF Promise!Answer, Answer
<1>11. Shown' = Shown \ C
  BY <1>8, <1>9
<1>12. C = Promise!Chosen(s.where)
  BY <1>4
<1> QED
  BY <1>10, <1>11, <1>12, Zenon DEF Promise!Delete, Shown

\* The lists before the one that is refused, or all of them, are in.
LEMMA WithIs ==
    ASSUME NEW set, NEW lists, NEW n \in Nat, n = Len(lists), NEW k \in 1..(n + 1),
           \A i \in 1..(k - 1) : ~Promise!Refused(After(set, lists)[i - 1], lists[i]),
           k = n + 1 \/ Promise!Refused(After(set, lists)[k - 1], lists[k])
    PROVE  Promise!With(set, lists) = After(set, lists)[k - 1]
<1>1. PICK after : after = After(set, lists)
  OBVIOUS
<1>2. PICK R : R = {i \in 1..n : Promise!Refused(after[i - 1], lists[i])}
  OBVIOUS
<1>3. k \in R \cup {n + 1} /\ \A i \in R \cup {n + 1} : k <= i
  <2>1. \A i \in R : ~(i \in 1..(k - 1))
    BY <1>1, <1>2
  <2>2. \A i \in R : k <= i
    BY <1>2, <2>1
  <2>3. k \in R \cup {n + 1}
    BY <1>1, <1>2
  <2> QED
    BY <2>2, <2>3
<1>4. R \cup {n + 1} \in SUBSET Nat
  BY <1>2
<1>5. PICK m : m = CHOOSE x \in R \cup {n + 1} : \A y \in R \cup {n + 1} : x <= y
  OBVIOUS
<1>6. m = k
  <2>1. m \in R \cup {n + 1} /\ \A y \in R \cup {n + 1} : m <= y
    BY <1>3, <1>5
  <2>2. m \in Nat /\ m <= k /\ k <= m
    BY <1>3, <1>4, <2>1
  <2> QED
    BY <2>2
<1>7. Promise!With(set, lists) = after[m - 1]
  BY <1>1, <1>2, <1>5 DEF Promise!With, Promise!Min, After, IsAfter
<1> QED
  BY <1>1, <1>6, <1>7

LEMMA TableCount ==
    ASSUME NEW list, IsTable(list)
    PROVE  Cardinality(SetOf(list)) = Len(list)
<1>1. PICK n \in Nat : n = Len(list) /\ DOMAIN list = 1..n
  BY TableFacts
<1>2. Cardinality(1..n) = n
  <2>1. Cardinality(1..n) = IF 1 > n THEN 0 ELSE n - 1 + 1
    BY FS_Interval
  <2> QED
    BY <2>1
<1>3. Cardinality(Part(list, 1..n)) = Cardinality(1..n)
  BY <1>1, ImageCount
<1> QED
  BY <1>1, <1>2, <1>3 DEF SetOf

LEMMA InsertFollows ==
    ASSUME Kept, Looping, stmt # Idle, stmt.op = "insert", UNCHANGED rows, stmt' = Idle,
           NEW ok \in BOOLEAN, answer' = Answer(stmt, ok, changes, <<>>),
           NEW s, s = stmt, ok <=> at > Len(stmt.lists), ok \/ Refused(stmt.lists[at])
    PROVE  Promise!Insert(s)
<1>1. IsTable(before) /\ Inserting /\ IsTable(rows) /\ RowsTyped /\ RowsInOrder
  BY KeptTable, KeptFacts DEF Looping
<1>2. PICK n \in Nat : n = Len(stmt.lists) /\ DOMAIN stmt.lists = 1..n /\ stmt \in Statements
  BY RunningFacts, StatementFacts, ListFacts
<1>3. at \in 1..(n + 1)
  BY <1>2, RunningFacts
<1>4. PICK set, after : set = SetOf(before) /\ after = After(set, stmt.lists)
  OBVIOUS
<1>5. /\ SetOf(rows) = after[at - 1] /\ changes = at - 1 /\ Len(rows) = Len(before) + changes
      /\ \A i \in 1..(at - 1) : ~Promise!Refused(after[i - 1], stmt.lists[i])
  BY <1>1, <1>4 DEF Inserting
<1>6. at = n + 1 \/ Promise!Refused(after[at - 1], stmt.lists[at])
  <2>1. CASE at > n
    BY <1>3, <2>1
  <2>2. CASE ~(at > n)
    <3>1. at \in DOMAIN stmt.lists /\ Refused(stmt.lists[at])
      BY <1>2, <1>3, <2>2
    <3> QED
      BY <1>1, <1>2, <1>5, <3>1, ListFollows
  <2> QED
    BY <2>1, <2>2
<1>7. Promise!With(set, stmt.lists) = SetOf(rows)
  <2>1. PICK k, lists : k = at /\ lists = stmt.lists
    OBVIOUS
  <2>2. /\ k \in 1..(n + 1) /\ n = Len(lists)
        /\ \A i \in 1..(k - 1) : ~Promise!Refused(After(set, lists)[i - 1], lists[i])
        /\ k = n + 1 \/ Promise!Refused(After(set, lists)[k - 1], lists[k])
    BY <1>2, <1>3, <1>4, <1>5, <1>6, <2>1
  <2>3. Promise!With(set, lists) = After(set, lists)[k - 1]
    BY <2>2, WithIs
  <2> QED
    BY <1>4, <1>5, <2>1, <2>3
<1>8. Shown = set /\ Shown' = SetOf(rows)
  BY <1>4, ShownFacts
<1>9. Promise!Cardinality(Shown') - Promise!Cardinality(Shown) = at - 1
  <2>1. Promise!Cardinality(Shown') = Len(rows) /\ Promise!Cardinality(Shown) = Len(before)
    BY <1>1, <1>4, <1>8, TableCount, SameCardinality
  <2>2. Len(before) \in Nat /\ Len(rows) \in Nat
    BY <1>1, TableFacts
  <2> QED
    BY <1>3, <1>5, <2>1, <2>2
<1>10. answer' = Promise!Answer(s, at - 1 = Len(s.lists), at - 1, <<>>)
  <2>1. ok = (at - 1 = Len(s.lists))
    BY <1>2, <1>3
  <2> QED
    BY <1>5, <2>1 DEF Answer, Promise!Answer
<1>11. Shown' = Promise!With(Shown, s.lists)
  BY <1>7, <1>8
<1> QED
  BY <1>9, <1>10, <1>11, Zenon DEF Promise!Insert, Shown

-----------------------------------------------------------------------------
(* The order of cells and of rows *)

\* A positive factor keeps the order.
LEMMA TimesOrder ==
    ASSUME NEW a \in Int, NEW b \in Int, NEW d \in Nat \ {0}
    PROVE  a <= b <=> a * d <= b * d
<1>1. CASE a <= b
  <2>1. (b - a) * d >= 0
    <3>1. b - a >= 0 /\ b - a \in Int
      BY <1>1
    <3>2. \A x, y \in Nat : x * y \in Nat
      OBVIOUS
    <3> QED
      BY <3>1, <3>2
  <2>2. (b - a) * d = b * d - a * d
    OBVIOUS
  <2> QED
    BY <1>1, <2>1, <2>2
<1>2. CASE ~(a <= b)
  <2>1. (a - b) * d > 0
    <3>1. a - b \in Nat \ {0}
      BY <1>2
    <3>2. \A x, y \in Nat \ {0} : x * y > 0
      OBVIOUS
    <3> QED
      BY <3>1, <3>2
  <2>2. (a - b) * d = a * d - b * d
    OBVIOUS
  <2>3. a * d \in Int /\ b * d \in Int
    OBVIOUS
  <2> QED
    BY <1>2, <2>1, <2>2, <2>3
<1> QED
  BY <1>1, <1>2

\* Comparing by cross products is transitive, and strictly so.
LEMMA FractionsOrder ==
    ASSUME NEW n1 \in Int, NEW n2 \in Int, NEW n3 \in Int,
           NEW d1 \in Nat \ {0}, NEW d2 \in Nat \ {0}, NEW d3 \in Nat \ {0},
           n1 * d2 <= n2 * d1, n2 * d3 <= n3 * d2
    PROVE  /\ n1 * d3 <= n3 * d1
           /\ n1 * d3 = n3 * d1 => n1 * d2 = n2 * d1 /\ n2 * d3 = n3 * d2
<1>1. PICK x \in Int, y \in Int, z \in Int, w \in Int, u \in Int, v \in Int :
           /\ x = n1 * d2 /\ y = n2 * d1 /\ z = n2 * d3 /\ w = n3 * d2
           /\ u = n1 * d3 /\ v = n3 * d1
  OBVIOUS
<1>2. x * d3 = u * d2 /\ y * d3 = z * d1 /\ w * d1 = v * d2
  BY <1>1
<1>3. /\ x * d3 \in Int /\ y * d3 \in Int /\ w * d1 \in Int
      /\ x * d3 <= y * d3 /\ z * d1 <= w * d1
  BY <1>1, TimesOrder
<1>4. u * d2 <= v * d2
  BY <1>2, <1>3
<1>5. u <= v
  BY <1>4, TimesOrder
<1>6. ASSUME u = v
      PROVE  x = y /\ z = w
  <2>1. y * d3 <= x * d3 /\ w * d1 <= z * d1
    BY <1>2, <1>3, <1>6
  <2>2. y <= x /\ w <= z
    BY <2>1, TimesOrder
  <2> QED
    BY <1>1, <2>2
<1> QED
  BY <1>1, <1>5, <1>6

LEMMA SignFacts ==
    ASSUME NEW n \in Int
    PROVE  /\ Sign(n) \in {-1, 0, 1} /\ Sign(-n) = -Sign(n)
           /\ Sign(n) < 0 <=> n < 0
           /\ Sign(n) = 0 <=> n = 0
           /\ Sign(n) <= 0 <=> n <= 0
BY DEF Sign

\* A text stands among the texts where a fraction stands among the fractions.
Above(c) == IF c.kind = "text" THEN TextRank(c.s) ELSE c.n
Below(c) == IF c.kind = "text" THEN 1 ELSE c.d

\* Cells of one class are compared as fractions: a text as its rank.
LEMMA CompareIs ==
    ASSUME NEW a, IsCell(a), NEW b, IsCell(b)
    PROVE  /\ Above(a) \in Int /\ Below(a) \in Nat \ {0} /\ Class(a) \in 0..2
           /\ Compare(a, b) = IF Class(a) # Class(b) THEN Sign(Class(a) - Class(b))
                              ELSE Sign(Above(a) * Below(b) - Above(b) * Below(a))
<1>1. \A s : TextRank(s) \in Int
  BY TextsAssumption DEF TextRank
<1>2. \A c : IsCell(c) => Above(c) \in Int /\ Below(c) \in Nat \ {0} /\ Class(c) \in 0..2
                          /\ (c.kind = "text" <=> Class(c) = 2)
  BY <1>1, CellParts DEF Above, Below, Class
<1>3. CASE Class(a) # Class(b)
  BY <1>2, <1>3 DEF Compare
<1>4. CASE Class(a) = Class(b) /\ a.kind = "text"
  <2>1. b.kind = "text"
    BY <1>2, <1>4
  <2>2. Above(a) * Below(b) - Above(b) * Below(a) = TextRank(a.s) - TextRank(b.s)
    BY <1>1, <1>4, <2>1 DEF Above, Below
  <2> QED
    BY <1>2, <1>4, <2>2 DEF Compare
<1>5. CASE Class(a) = Class(b) /\ a.kind # "text"
  <2>1. b.kind # "text"
    BY <1>2, <1>5
  <2> QED
    BY <1>2, <1>5, <2>1 DEF Compare, Above, Below
<1> QED
  BY <1>3, <1>4, <1>5

\* cell_cmp puts the cells in an order in which different cells may be equal.
LEMMA CompareOrder ==
    ASSUME NEW a, IsCell(a), NEW b, IsCell(b), NEW c, IsCell(c)
    PROVE  /\ Compare(a, b) \in {-1, 0, 1} /\ Compare(a, a) = 0 /\ Compare(b, a) = -Compare(a, b)
           /\ Compare(a, b) <= 0 /\ Compare(b, c) <= 0 =>
                 /\ Compare(a, c) <= 0
                 /\ Compare(a, c) = 0 => Compare(a, b) = 0 /\ Compare(b, c) = 0
<1>1. PICK n1 \in Int, n2 \in Int, n3 \in Int,
           d1 \in Nat \ {0}, d2 \in Nat \ {0}, d3 \in Nat \ {0},
           k1 \in 0..2, k2 \in 0..2, k3 \in 0..2 :
           /\ n1 = Above(a) /\ n2 = Above(b) /\ n3 = Above(c)
           /\ d1 = Below(a) /\ d2 = Below(b) /\ d3 = Below(c)
           /\ k1 = Class(a) /\ k2 = Class(b) /\ k3 = Class(c)
  BY CompareIs
<1>2. PICK x \in Int, y \in Int, z \in Int, w \in Int, u \in Int, v \in Int :
           /\ x = n1 * d2 /\ y = n2 * d1 /\ z = n2 * d3 /\ w = n3 * d2
           /\ u = n1 * d3 /\ v = n3 * d1
  OBVIOUS
<1>3. /\ Compare(a, b) = IF k1 # k2 THEN Sign(k1 - k2) ELSE Sign(x - y)
      /\ Compare(b, a) = IF k2 # k1 THEN Sign(k2 - k1) ELSE Sign(y - x)
      /\ Compare(b, c) = IF k2 # k3 THEN Sign(k2 - k3) ELSE Sign(z - w)
      /\ Compare(a, c) = IF k1 # k3 THEN Sign(k1 - k3) ELSE Sign(u - v)
      /\ Compare(a, a) = Sign(n1 * d1 - n1 * d1)
  BY <1>1, <1>2, CompareIs
<1>4. Compare(a, a) = 0
  <2>1. n1 * d1 - n1 * d1 = 0
    OBVIOUS
  <2> QED
    BY <1>3, <2>1 DEF Sign
<1>5. Compare(a, b) \in {-1, 0, 1} /\ Compare(b, a) = -Compare(a, b)
  BY <1>3 DEF Sign
<1>6. ASSUME Compare(a, b) <= 0, Compare(b, c) <= 0
      PROVE  /\ Compare(a, c) <= 0
             /\ Compare(a, c) = 0 => Compare(a, b) = 0 /\ Compare(b, c) = 0
  <2>1. CASE k1 = k2 /\ k2 = k3
    <3>1. x <= y /\ z <= w
      BY <1>3, <1>6, <2>1, SignFacts
    <3>2. u <= v /\ (u = v => x = y /\ z = w)
      BY <1>2, <3>1, FractionsOrder
    <3> QED
      BY <1>3, <2>1, <3>2 DEF Sign
  <2>2. CASE ~(k1 = k2 /\ k2 = k3)
    <3>1. k1 <= k2 /\ k2 <= k3
      BY <1>3, <1>6 DEF Sign
    <3>2. k1 < k3
      BY <2>2, <3>1
    <3> QED
      BY <1>3, <3>2 DEF Sign
  <2> QED
    BY <2>1, <2>2
<1> QED
  BY <1>4, <1>5, <1>6

\* Below 0 when key k puts p before q.
By(keys, k, p, q) ==
    LET c == Compare(RowCell(p, keys[k].col), RowCell(q, keys[k].col))
    IN  IF keys[k].desc THEN -c ELSE c

IsKeys(keys) ==
    /\ Len(keys) \in Nat /\ DOMAIN keys = 1..Len(keys)
    /\ \A k \in DOMAIN keys : keys[k].col \in {0} \cup Columns

\* One key: the cells it names, rising or falling.
LEMMA ByOrder ==
    ASSUME NEW keys, IsKeys(keys), NEW k \in DOMAIN keys,
           NEW p, IsRow(p), NEW q, IsRow(q), NEW r, IsRow(r)
    PROVE  /\ By(keys, k, p, q) \in {-1, 0, 1} /\ By(keys, k, p, p) = 0
           /\ By(keys, k, q, p) = -By(keys, k, p, q)
           /\ By(keys, k, p, q) <= 0 /\ By(keys, k, q, r) <= 0 =>
                 /\ By(keys, k, p, r) <= 0
                 /\ By(keys, k, p, r) = 0 => By(keys, k, p, q) = 0 /\ By(keys, k, q, r) = 0
<1>1. keys[k].col \in {0} \cup Columns
  BY DEF IsKeys
<1>2. PICK a, b, c : /\ a = RowCell(p, keys[k].col) /\ IsCell(a)
                     /\ b = RowCell(q, keys[k].col) /\ IsCell(b)
                     /\ c = RowCell(r, keys[k].col) /\ IsCell(c)
  BY <1>1, RowCellCell
<1>3. PICK ab, ba, bc, cb, ac, ca, aa :
           /\ ab = Compare(a, b) /\ ba = Compare(b, a) /\ bc = Compare(b, c)
           /\ cb = Compare(c, b) /\ ac = Compare(a, c) /\ ca = Compare(c, a) /\ aa = Compare(a, a)
  OBVIOUS
<1>4. /\ ab \in {-1, 0, 1} /\ bc \in {-1, 0, 1} /\ ac \in {-1, 0, 1} /\ aa = 0
      /\ ba = -ab /\ cb = -bc /\ ca = -ac
  BY <1>2, <1>3, CompareOrder
<1>5. ab <= 0 /\ bc <= 0 => ac <= 0 /\ (ac = 0 => ab = 0 /\ bc = 0)
  BY <1>2, <1>3, CompareOrder
<1>6. cb <= 0 /\ ba <= 0 => ca <= 0 /\ (ca = 0 => cb = 0 /\ ba = 0)
  BY <1>2, <1>3, CompareOrder
<1>7. CASE keys[k].desc
  <2>1. /\ By(keys, k, p, q) = -ab /\ By(keys, k, q, p) = -ba /\ By(keys, k, p, p) = -aa
        /\ By(keys, k, q, r) = -bc /\ By(keys, k, p, r) = -ac
    BY <1>2, <1>3, <1>7 DEF By
  <2>2. \A x \in {-1, 0, 1} : -x \in {-1, 0, 1} /\ x = -(-x)
    OBVIOUS
  <2>3. ba \in {-1, 0, 1} /\ ab = -ba /\ -aa = 0
    BY <1>4, <2>2
  <2>4. /\ By(keys, k, p, q) = ba /\ By(keys, k, q, p) = -ba /\ By(keys, k, p, p) = 0
        /\ By(keys, k, q, r) = cb /\ By(keys, k, p, r) = ca
    BY <1>4, <2>1, <2>3
  <2> QED
    BY <1>6, <2>3, <2>4
<1>8. CASE ~keys[k].desc
  <2>1. /\ By(keys, k, p, q) = ab /\ By(keys, k, q, p) = ba /\ By(keys, k, p, p) = aa
        /\ By(keys, k, q, r) = bc /\ By(keys, k, p, r) = ac
    BY <1>2, <1>3, <1>8 DEF By
  <2> QED
    BY <1>4, <1>5, <2>1
<1> QED
  BY <1>7, <1>8

\* The first key that tells the rows apart puts p before q, or their rowids do.
Precedes(keys, p, q) ==
    \/ \E k \in DOMAIN keys : By(keys, k, p, q) < 0 /\ \A j \in 1..(k - 1) : By(keys, j, p, q) = 0
    \/ (\A k \in DOMAIN keys : By(keys, k, p, q) = 0) /\ p.id < q.id

\* The promise puts a row before another as row_order_cmp does.
LEMMA BeforeIs ==
    ASSUME NEW keys, IsKeys(keys), NEW p, IsRow(p), NEW q, IsRow(q)
    PROVE  Promise!Before(keys, p, q) <=> Precedes(keys, p, q)
<1> DEFINE by(k) == Promise!Compare(Promise!RowCell(p, keys[k].col), Promise!RowCell(q, keys[k].col))
           lower(k) == IF keys[k].desc THEN by(k) > 0 ELSE by(k) < 0
<1>1. \A k : by(k) = Compare(RowCell(p, keys[k].col), RowCell(q, keys[k].col))
  BY SameCells, SameRowCell
<1>2. \A k : By(keys, k, p, q) = IF keys[k].desc THEN -by(k) ELSE by(k)
  BY <1>1 DEF By
<1>3. \A k \in DOMAIN keys : by(k) \in {-1, 0, 1}
  <2> TAKE k \in DOMAIN keys
  <2>1. keys[k].col \in {0} \cup Columns
    BY DEF IsKeys
  <2>2. PICK a, b : /\ a = RowCell(p, keys[k].col) /\ IsCell(a)
                    /\ b = RowCell(q, keys[k].col) /\ IsCell(b)
    BY <2>1, RowCellCell
  <2>3. Compare(a, b) \in {-1, 0, 1}
    BY <2>2, CompareOrder
  <2>4. by(k) = Compare(a, b)
    BY <1>1, <2>2
  <2> HIDE DEF by
  <2> QED
    BY <2>3, <2>4
<1>4. Promise!Before(keys, p, q)
      <=> \/ \E k \in DOMAIN keys : lower(k) /\ \A j \in 1..(k - 1) : by(j) = 0
          \/ (\A k \in DOMAIN keys : by(k) = 0) /\ p.id < q.id
  BY DEF Promise!Before
<1>5. \A k \in DOMAIN keys : /\ lower(k) <=> By(keys, k, p, q) < 0
                             /\ by(k) = 0 <=> By(keys, k, p, q) = 0
  <2> TAKE k \in DOMAIN keys
  <2>1. PICK x \in {-1, 0, 1} : x = by(k)
    BY <1>3
  <2>2. lower(k) <=> IF keys[k].desc THEN x > 0 ELSE x < 0
    BY <2>1
  <2>3. By(keys, k, p, q) = IF keys[k].desc THEN -x ELSE x
    BY <1>2, <2>1
  <2> HIDE DEF by, lower
  <2> QED
    BY <2>1, <2>2, <2>3
<1>6. \A k \in DOMAIN keys : \A j \in 1..(k - 1) : j \in DOMAIN keys
  BY DEF IsKeys
<1> HIDE DEF by, lower
<1> QED
  BY <1>4, <1>5, <1>6 DEF Precedes

\* The first key that tells two rows apart.
LEMMA FirstApart ==
    ASSUME NEW keys, IsKeys(keys), NEW p, NEW q,
           NEW k \in DOMAIN keys, By(keys, k, p, q) # 0
    PROVE  \E f \in DOMAIN keys : /\ By(keys, f, p, q) # 0
                                  /\ \A j \in DOMAIN keys : By(keys, j, p, q) # 0 => f <= j
                                  /\ \A j \in 1..(f - 1) : By(keys, j, p, q) = 0
<1> DEFINE S == {j \in DOMAIN keys : By(keys, j, p, q) # 0}
<1>1. S \in SUBSET Nat /\ S # {}
  BY DEF IsKeys
<1>2. PICK f \in S : \A j \in S : f <= j
  <2> HIDE DEF S
  <2> QED
    BY <1>1, LeastNumber
<1>3. \A j \in 1..(f - 1) : j \in DOMAIN keys /\ ~(f <= j)
  BY <1>2 DEF IsKeys
<1> QED
  BY <1>2, <1>3

\* row_order_cmp is negative exactly for a row that comes before.
LEMMA RowOrderIs ==
    ASSUME IsKeys(stmt.keys), NEW p, IsRow(p), NEW q, IsRow(q)
    PROVE  RowOrder(p, q) < 0 <=> Precedes(stmt.keys, p, q)
<1> DEFINE by(k) == Compare(RowCell(p, stmt.keys[k].col), RowCell(q, stmt.keys[k].col))
           apart == {k \in DOMAIN stmt.keys : by(k) # 0}
<1>1. PICK keys : keys = stmt.keys /\ IsKeys(keys)
  OBVIOUS
<1>2. \A k \in DOMAIN keys : By(keys, k, p, q) = (IF keys[k].desc THEN -by(k) ELSE by(k))
  BY <1>1 DEF By
<1>3. \A k \in DOMAIN keys : /\ By(keys, k, p, q) \in {-1, 0, 1}
                             /\ by(k) = (IF keys[k].desc THEN -By(keys, k, p, q) ELSE By(keys, k, p, q))
  <2> TAKE k \in DOMAIN keys
  <2>1. By(keys, k, p, q) \in {-1, 0, 1}
    BY <1>1, ByOrder
  <2>2. keys[k].col \in {0} \cup Columns
    BY <1>1 DEF IsKeys
  <2>3. PICK a, b : /\ a = RowCell(p, keys[k].col) /\ IsCell(a)
                    /\ b = RowCell(q, keys[k].col) /\ IsCell(b)
    BY <2>2, RowCellCell
  <2>4. Compare(a, b) \in {-1, 0, 1} /\ by(k) = Compare(a, b)
    BY <1>1, <2>3, CompareOrder
  <2>5. PICK x \in {-1, 0, 1} : x = by(k)
    BY <2>4
  <2> HIDE DEF by
  <2> QED
    BY <1>2, <2>1, <2>5
<1>4. apart = {k \in DOMAIN keys : By(keys, k, p, q) # 0}
  <2>1. \A k \in DOMAIN keys : by(k) # 0 <=> By(keys, k, p, q) # 0
    <3> HIDE DEF by
    <3> QED
      BY <1>3
  <2> HIDE DEF by
  <2> QED
    BY <1>1, <2>1
<1>5. PICK first : first = CHOOSE k \in apart : \A j \in apart : k <= j
  OBVIOUS
<1>6. RowOrder(p, q) = IF apart = {} THEN Sign(p.id - q.id)
                       ELSE IF keys[first].desc THEN -by(first) ELSE by(first)
  BY <1>1, <1>5 DEF RowOrder
<1> HIDE DEF by, apart
<1>7. CASE apart = {}
  <2>1. \A k \in DOMAIN keys : By(keys, k, p, q) = 0
    BY <1>4, <1>7
  <2>2. p.id \in Int /\ q.id \in Int
    BY DEF IsRow
  <2>3. RowOrder(p, q) < 0 <=> p.id < q.id
    BY <1>6, <1>7, <2>2 DEF Sign
  <2> QED
    BY <1>1, <2>1, <2>3 DEF Precedes
<1>8. CASE apart # {}
  <2>1. PICK f \in DOMAIN keys : /\ By(keys, f, p, q) # 0
                                 /\ \A j \in DOMAIN keys : By(keys, j, p, q) # 0 => f <= j
                                 /\ \A j \in 1..(f - 1) : By(keys, j, p, q) = 0
    BY <1>1, <1>4, <1>8, FirstApart
  <2>2. first \in apart /\ \A j \in apart : first <= j
    BY <1>4, <1>5, <2>1
  <2>3. first = f
    BY <1>1, <1>4, <2>1, <2>2 DEF IsKeys
  <2>4. RowOrder(p, q) = By(keys, f, p, q)
    BY <1>2, <1>6, <1>8, <2>3
  <2>5. Precedes(keys, p, q) <=> By(keys, f, p, q) < 0
    <3>1. ASSUME Precedes(keys, p, q)
          PROVE  By(keys, f, p, q) < 0
      <4>1. PICK k \in DOMAIN keys : /\ By(keys, k, p, q) < 0
                                     /\ \A j \in 1..(k - 1) : By(keys, j, p, q) = 0
        BY <2>1, <3>1 DEF Precedes
      <4>2. f <= k
        BY <1>3, <2>1, <4>1
      <4>3. ~(f < k)
        BY <1>1, <2>1, <4>1 DEF IsKeys
      <4>4. f = k
        BY <1>1, <4>2, <4>3 DEF IsKeys
      <4> QED
        BY <4>1, <4>4
    <3> QED
      BY <2>1, <3>1 DEF Precedes
  <2> QED
    BY <1>1, <2>4, <2>5
<1> QED
  BY <1>7, <1>8

\* No row precedes itself, and of two rows one precedes the other.
LEMMA PrecedesOnce ==
    ASSUME NEW keys, IsKeys(keys), NEW p, IsRow(p), NEW q, IsRow(q)
    PROVE  /\ ~Precedes(keys, p, p)
           /\ p.id # q.id => Precedes(keys, p, q) \/ Precedes(keys, q, p)
<1>1. ~Precedes(keys, p, p)
  <2>1. \A k \in DOMAIN keys : By(keys, k, p, p) = 0
    BY ByOrder
  <2>2. p.id \in Int
    BY DEF IsRow
  <2> QED
    BY <2>1, <2>2 DEF Precedes
<1>2. ASSUME p.id # q.id
      PROVE  Precedes(keys, p, q) \/ Precedes(keys, q, p)
  <2>1. \A k \in DOMAIN keys : /\ By(keys, k, p, q) \in {-1, 0, 1}
                               /\ By(keys, k, q, p) = -By(keys, k, p, q)
    BY ByOrder
  <2>2. CASE \A k \in DOMAIN keys : By(keys, k, p, q) = 0
    <3>1. \A k \in DOMAIN keys : By(keys, k, q, p) = 0
      BY <2>1, <2>2
    <3>2. p.id < q.id \/ q.id < p.id
      BY <1>2 DEF IsRow
    <3> QED
      BY <2>2, <3>1, <3>2 DEF Precedes
  <2>3. CASE \E k \in DOMAIN keys : By(keys, k, p, q) # 0
    <3>1. PICK f \in DOMAIN keys : /\ By(keys, f, p, q) # 0
                                   /\ \A j \in 1..(f - 1) : By(keys, j, p, q) = 0
      BY <2>3, FirstApart
    <3>2. \A j \in 1..(f - 1) : j \in DOMAIN keys
      BY DEF IsKeys
    <3>3. \A j \in 1..(f - 1) : By(keys, j, q, p) = 0
      BY <2>1, <3>1, <3>2
    <3>4. By(keys, f, p, q) < 0 \/ By(keys, f, q, p) < 0
      BY <2>1, <3>1
    <3> QED
      BY <3>1, <3>3, <3>4 DEF Precedes
  <2> QED
    BY <2>2, <2>3
<1> QED
  BY <1>1, <1>2

\* What precedes a row that precedes another precedes that one too.
LEMMA PrecedesThrough ==
    ASSUME NEW keys, IsKeys(keys), NEW p, IsRow(p), NEW q, IsRow(q), NEW r, IsRow(r),
           Precedes(keys, p, q), Precedes(keys, q, r)
    PROVE  Precedes(keys, p, r)
<1>1. \A k \in DOMAIN keys :
         /\ By(keys, k, p, q) \in {-1, 0, 1} /\ By(keys, k, q, r) \in {-1, 0, 1}
         /\ By(keys, k, p, r) \in {-1, 0, 1}
         /\ By(keys, k, p, q) <= 0 /\ By(keys, k, q, r) <= 0 =>
               /\ By(keys, k, p, r) <= 0
               /\ By(keys, k, p, r) = 0 => By(keys, k, p, q) = 0 /\ By(keys, k, q, r) = 0
  BY ByOrder
<1>2. \A k \in DOMAIN keys : By(keys, k, p, q) = 0 /\ By(keys, k, q, r) = 0 => By(keys, k, p, r) = 0
  <2> TAKE k \in DOMAIN keys
  <2> HAVE By(keys, k, p, q) = 0 /\ By(keys, k, q, r) = 0
  <2>1. By(keys, k, q, p) = 0 /\ By(keys, k, r, q) = 0
    BY ByOrder
  <2>2. By(keys, k, p, r) <= 0 /\ By(keys, k, r, p) <= 0 /\ By(keys, k, r, p) = -By(keys, k, p, r)
    <3>1. By(keys, k, p, r) <= 0
      BY <1>1
    <3>2. By(keys, k, r, p) <= 0
      BY <2>1, ByOrder
    <3>3. By(keys, k, r, p) = -By(keys, k, p, r)
      BY ByOrder
    <3> QED
      BY <3>1, <3>2, <3>3
  <2> QED
    BY <1>1, <2>2
<1>3. \A k \in DOMAIN keys : By(keys, k, p, q) <= 0 /\ By(keys, k, q, r) <= 0
         /\ (By(keys, k, p, q) < 0 \/ By(keys, k, q, r) < 0) => By(keys, k, p, r) < 0
  BY <1>1
<1>4. \A k \in DOMAIN keys : k \in Nat /\ \A j \in 1..(k - 1) : j \in DOMAIN keys
  BY DEF IsKeys
<1>5. p.id \in Int /\ q.id \in Int /\ r.id \in Int
  BY DEF IsRow
<1>6. CASE (\A k \in DOMAIN keys : By(keys, k, p, q) = 0) /\ p.id < q.id
  <2>1. CASE (\A k \in DOMAIN keys : By(keys, k, q, r) = 0) /\ q.id < r.id
    <3>1. \A k \in DOMAIN keys : By(keys, k, p, r) = 0
      BY <1>2, <1>6, <2>1
    <3>2. p.id < r.id
      BY <1>5, <1>6, <2>1
    <3> QED
      BY <3>1, <3>2 DEF Precedes
  <2>2. ASSUME NEW k \in DOMAIN keys, By(keys, k, q, r) < 0,
               \A j \in 1..(k - 1) : By(keys, j, q, r) = 0
        PROVE  Precedes(keys, p, r)
    <3>1. By(keys, k, p, r) < 0
      BY <1>3, <1>6, <2>2, <1>1
    <3>2. \A j \in 1..(k - 1) : By(keys, j, p, r) = 0
      BY <1>2, <1>4, <1>6, <2>2
    <3> QED
      BY <3>1, <3>2 DEF Precedes
  <2> QED
    BY <2>1, <2>2 DEF Precedes
<1>7. ASSUME NEW k \in DOMAIN keys, By(keys, k, p, q) < 0,
             \A j \in 1..(k - 1) : By(keys, j, p, q) = 0
      PROVE  Precedes(keys, p, r)
  <2>1. CASE (\A i \in DOMAIN keys : By(keys, i, q, r) = 0) /\ q.id < r.id
    <3>1. By(keys, k, p, r) < 0
      BY <1>1, <1>3, <1>7, <2>1
    <3>2. \A j \in 1..(k - 1) : By(keys, j, p, r) = 0
      BY <1>2, <1>4, <1>7, <2>1
    <3> QED
      BY <3>1, <3>2 DEF Precedes
  <2>2. ASSUME NEW i \in DOMAIN keys, By(keys, i, q, r) < 0,
               \A j \in 1..(i - 1) : By(keys, j, q, r) = 0
        PROVE  Precedes(keys, p, r)
    <3>1. PICK m \in DOMAIN keys : m = (IF i < k THEN i ELSE k)
      OBVIOUS
    <3>2. /\ By(keys, m, p, q) <= 0 /\ By(keys, m, q, r) <= 0
          /\ By(keys, m, p, q) < 0 \/ By(keys, m, q, r) < 0
      <4>1. CASE i < k
        <5>1. i \in 1..(k - 1)
          BY <1>4, <4>1 DEF IsKeys
        <5> QED
          BY <1>1, <1>7, <2>2, <3>1, <4>1, <5>1
      <4>2. CASE k < i
        <5>1. k \in 1..(i - 1) /\ m = k
          BY <1>4, <3>1, <4>2 DEF IsKeys
        <5> QED
          BY <1>1, <1>7, <2>2, <4>2, <5>1
      <4>3. CASE k = i
        BY <1>1, <1>7, <2>2, <3>1, <4>3
      <4> QED
        BY <1>4, <4>1, <4>2, <4>3
    <3>3. By(keys, m, p, r) < 0
      BY <1>3, <3>2
    <3>4. \A j \in 1..(m - 1) : j \in 1..(k - 1) /\ j \in 1..(i - 1)
      BY <1>4, <3>1
    <3>5. \A j \in 1..(m - 1) : By(keys, j, p, r) = 0
      BY <1>2, <1>4, <1>7, <2>2, <3>4
    <3> QED
      BY <3>3, <3>5 DEF Precedes
  <2> QED
    BY <2>1, <2>2 DEF Precedes
<1> QED
  BY <1>6, <1>7 DEF Precedes

-----------------------------------------------------------------------------
(* Places: how many rows come before a row *)

RowsBefore(F, keys, p) == {q \in F : Precedes(keys, q, p)}
PlaceOf(F, keys, p) == Cardinality(RowsBefore(F, keys, p))

\* Rows of a table are told apart by their rowids.
LEMMA TableSet ==
    ASSUME NEW list, IsTable(list), NEW F, F = SetOf(list)
    PROVE  /\ IsFiniteSet(F) /\ Cardinality(F) = Len(list)
           /\ \A p \in F : IsRow(p)
           /\ \A p, q \in F : p # q => p.id # q.id
<1>1. DOMAIN list = 1..Len(list) /\ Len(list) \in Nat
  BY TableFacts
<1>2. IsFiniteSet(Part(list, 1..Len(list)))
  BY ImageCount
<1>3. IsFiniteSet(F) /\ Cardinality(F) = Len(list)
  BY <1>1, <1>2, TableCount DEF SetOf
<1>4. \A p \in F : IsRow(p)
  BY DEF IsTable, SetOf, Part
<1> QED
  BY <1>3, <1>4, TableFacts

LEMMA PlaceIs ==
    ASSUME NEW list, IsTable(list), NEW F, F = SetOf(list), NEW keys, IsKeys(keys), NEW p \in F
    PROVE  Promise!Place(F, keys, p) = PlaceOf(F, keys, p)
<1>1. {q \in F : Promise!Before(keys, q, p)} = RowsBefore(F, keys, p)
  BY TableSet, BeforeIs DEF RowsBefore
<1> QED
  BY <1>1, SameCardinality DEF Promise!Place, PlaceOf

\* Places are the numbers from 0 on, one for each row: a row that comes before
\* another has fewer rows before it, and there are as many rows as numbers.
LEMMA PlaceFacts ==
    ASSUME NEW list, IsTable(list), NEW F, F = SetOf(list), NEW keys, IsKeys(keys)
    PROVE  /\ \A p \in F : PlaceOf(F, keys, p) \in 0..(Len(list) - 1)
           /\ \A p, q \in F : PlaceOf(F, keys, p) = PlaceOf(F, keys, q) => p = q
           /\ \A m \in 1..Len(list) : \E p \in F : PlaceOf(F, keys, p) = m - 1
<1>1. /\ IsFiniteSet(F) /\ Cardinality(F) = Len(list)
      /\ \A p \in F : IsRow(p)
      /\ \A p, q \in F : p # q => p.id # q.id
  BY TableSet
<1>2. PICK n \in Nat : n = Len(list)
  BY TableFacts
<1>3. \A p \in F : IsFiniteSet(RowsBefore(F, keys, p)) /\ PlaceOf(F, keys, p) \in Nat
  <2> TAKE p \in F
  <2>1. RowsBefore(F, keys, p) \in SUBSET F
    BY DEF RowsBefore
  <2>2. IsFiniteSet(RowsBefore(F, keys, p))
    BY <1>1, <2>1, FS_Subset
  <2> QED
    BY <2>2, FS_CardinalityType DEF PlaceOf
<1>4. ASSUME NEW p \in F
      PROVE  PlaceOf(F, keys, p) \in 0..(n - 1)
  <2>1. RowsBefore(F, keys, p) \in SUBSET (F \ {p})
    BY <1>1, PrecedesOnce DEF RowsBefore
  <2>2. IsFiniteSet(F \ {p}) /\ Cardinality(F \ {p}) = n - 1
    BY <1>1, <1>2, FS_RemoveElement
  <2>3. PlaceOf(F, keys, p) <= n - 1
    BY <2>1, <2>2, FS_Subset DEF PlaceOf
  <2> QED
    BY <1>2, <1>3, <2>3
<1>5. ASSUME NEW p \in F, NEW q \in F, Precedes(keys, p, q)
      PROVE  PlaceOf(F, keys, p) # PlaceOf(F, keys, q)
  <2>1. RowsBefore(F, keys, p) \in SUBSET RowsBefore(F, keys, q)
    BY <1>1, <1>5, PrecedesThrough DEF RowsBefore
  <2>2. p \in RowsBefore(F, keys, q) /\ p \notin RowsBefore(F, keys, p)
    BY <1>1, <1>5, PrecedesOnce DEF RowsBefore
  <2> QED
    BY <1>3, <2>1, <2>2, FS_Subset DEF PlaceOf
<1>6. ASSUME NEW p \in F, NEW q \in F, PlaceOf(F, keys, p) = PlaceOf(F, keys, q)
      PROVE  p = q
  <2>1. ~Precedes(keys, p, q) /\ ~Precedes(keys, q, p)
    BY <1>5, <1>6
  <2>2. p.id = q.id
    BY <1>1, <2>1, PrecedesOnce
  <2> QED
    BY <1>1, <2>2
<1>7. ASSUME NEW m \in 1..n
      PROVE  \E p \in F : PlaceOf(F, keys, p) = m - 1
  <2> DEFINE T == 0..(n - 1)
             f == [p \in F |-> PlaceOf(F, keys, p)]
  <2>1. f \in Injection(F, T)
    BY <1>4, <1>6 DEF Injection, IsInjective
  <2>2. IsFiniteSet(T) /\ Cardinality(T) = n
    <3>1. n - 1 \in Int /\ (IF 0 > n - 1 THEN 0 ELSE n - 1 - 0 + 1) = n
      BY <1>2
    <3>2. IsFiniteSet(0..(n - 1)) /\ Cardinality(0..(n - 1)) = IF 0 > n - 1 THEN 0 ELSE n - 1 - 0 + 1
      BY <3>1, FS_Interval
    <3> QED
      BY <3>1, <3>2
  <2>3. f \in Surjection(F, T)
    <3> HIDE DEF f, T
    <3> QED
      BY <1>1, <1>2, <2>1, <2>2, FS_Injection
  <2>4. m - 1 \in T
    BY <1>2, <1>7
  <2> QED
    BY <2>3, <2>4 DEF Surjection
<1> QED
  BY <1>2, <1>4, <1>6, <1>7

\* A list that has the rows of F in their places.
Ranked(list, F, keys) ==
    /\ IsList(list)
    /\ \A m \in 1..Len(list) : list[m] \in F /\ PlaceOf(F, keys, list[m]) = m - 1
    /\ \A p \in F : PlaceOf(F, keys, p) \in 0..(Len(list) - 1)
    /\ \A p, q \in F : PlaceOf(F, keys, p) = PlaceOf(F, keys, q) => p = q

LEMMA KeysFacts ==
    ASSUME NEW s \in Statements, s.op = "select"
    PROVE  IsKeys(s.keys)
BY StatementFacts, ListFacts DEF IsKeys

\* qsort, or the order of the table where there is no ORDER BY.
LEMMA SortedRanked ==
    ASSUME IsTable(found), stmt \in Statements, stmt.op = "select"
    PROVE  Ranked(Sorted, SetOf(found), stmt.keys)
<1>1. PICK n, keys, F : /\ n \in Nat /\ n = Len(found) /\ DOMAIN found = 1..n
                        /\ keys = stmt.keys /\ IsKeys(keys) /\ F = SetOf(found)
  BY TableFacts, KeysFacts
<1>2. /\ \A p \in F : PlaceOf(F, keys, p) \in 0..(n - 1)
      /\ \A p, q \in F : PlaceOf(F, keys, p) = PlaceOf(F, keys, q) => p = q
      /\ \A m \in 1..n : \E p \in F : PlaceOf(F, keys, p) = m - 1
  BY <1>1, PlaceFacts
<1>3. \A i \in 1..n : found[i] \in F /\ IsRow(found[i])
  BY <1>1, TableFacts DEF SetOf, Part
<1>4. CASE keys = <<>>
  <2>1. ASSUME NEW m \in 1..n
        PROVE  PlaceOf(F, keys, found[m]) = m - 1
    <3>1. \A q : Precedes(keys, q, found[m]) <=> q.id < found[m].id
      BY <1>4 DEF Precedes
    <3>2. \A i \in 1..n : found[i].id < found[m].id <=> i < m
      <4>1. \A i \in 1..n : found[i].id \in Int
        BY <1>1, TableFacts
      <4>2. \A i, j \in 1..n : i < j => found[i].id < found[j].id
        BY <1>1, TableFacts
      <4> QED
        BY <4>1, <4>2
    <3>3. RowsBefore(F, keys, found[m]) = Part(found, 1..(m - 1))
      BY <1>1, <3>1, <3>2 DEF RowsBefore, SetOf, Part
    <3>4. Cardinality(Part(found, 1..(m - 1))) = Cardinality(1..(m - 1))
      <4>1. 1..(m - 1) \in SUBSET (1..Len(found))
        BY <1>1
      <4> QED
        BY <4>1, ImageCount
    <3>5. Cardinality(1..(m - 1)) = m - 1
      <4>1. m - 1 \in Int /\ (IF 1 > m - 1 THEN 0 ELSE m - 1 - 1 + 1) = m - 1
        OBVIOUS
      <4>2. Cardinality(1..(m - 1)) = IF 1 > m - 1 THEN 0 ELSE m - 1 - 1 + 1
        BY <4>1, FS_Interval
      <4> QED
        BY <4>1, <4>2
    <3> QED
      BY <3>3, <3>4, <3>5 DEF PlaceOf
  <2>2. Sorted = found
    BY <1>1, <1>4 DEF Sorted
  <2>3. IsList(found)
    BY TableFacts
  <2> QED
    BY <1>1, <1>2, <1>3, <2>1, <2>2, <2>3 DEF Ranked
<1>5. CASE keys # <<>>
  <2> DEFINE earlier(i) == {j \in DOMAIN found : RowOrder(found[j], found[i]) < 0}
             ahead(i) == Cardinality(earlier(i))
  <2>1. ASSUME NEW i \in 1..n
        PROVE  ahead(i) = PlaceOf(F, keys, found[i])
    <3>1. earlier(i) \in SUBSET (1..Len(found))
      BY <1>1
    <3>2. \A j \in 1..n : j \in earlier(i) <=> Precedes(keys, found[j], found[i])
      BY <1>1, <1>3, RowOrderIs
    <3> HIDE DEF earlier
    <3>3. Part(found, earlier(i)) = RowsBefore(F, keys, found[i])
      BY <1>1, <3>1, <3>2 DEF RowsBefore, SetOf, Part
    <3>4. Cardinality(Part(found, earlier(i))) = Cardinality(earlier(i))
      BY <3>1, ImageCount
    <3> QED
      BY <3>3, <3>4 DEF PlaceOf
  <2>2. PICK list : list = [m \in 1..n |-> found[CHOOSE i \in DOMAIN found : ahead(i) = m - 1]]
    OBVIOUS
  <2>3. Sorted = list
    BY <1>1, <1>5, <2>2 DEF Sorted
  <2> HIDE DEF ahead
  <2>4. ASSUME NEW m \in 1..n
        PROVE  list[m] \in F /\ PlaceOf(F, keys, list[m]) = m - 1
    <3>1. PICK i \in 1..n : PlaceOf(F, keys, found[i]) = m - 1
      <4>1. PICK p \in F : PlaceOf(F, keys, p) = m - 1
        BY <1>2
      <4> QED
        BY <1>1, <4>1 DEF SetOf, Part
    <3>2. PICK h : h = CHOOSE j \in DOMAIN found : ahead(j) = m - 1
      OBVIOUS
    <3>3. h \in 1..n /\ ahead(h) = m - 1
      BY <1>1, <2>1, <3>1, <3>2
    <3>4. list[m] = found[h]
      BY <2>2, <3>2
    <3> QED
      BY <1>3, <2>1, <3>3, <3>4
  <2>5. IsList(list) /\ Len(list) = n
    <3>1. list = [m \in 1..n |-> list[m]]
      BY <2>2
    <3> QED
      BY <1>1, <3>1, ListIntro
  <2> QED
    BY <1>1, <1>2, <2>3, <2>4, <2>5 DEF Ranked
<1> QED
  BY <1>4, <1>5

\* LIMIT and OFFSET are numbers.
LEMMA CountIsNumber ==
    ASSUME NEW c, IsCell(c)
    PROVE  ToCount(c) \in Int
<1>1. PICK x : x = NumberOf(c) /\ IsCell(x)
  BY NumberOfCell
<1>2. x.n \in Int /\ x.d \in Int \ {0}
  BY <1>1, CellParts
<1> QED
  BY <1>1, <1>2, QuotType DEF ToCount

\* The part of a list that Cut takes: l rows behind the first ones.
CutAt(list, offset, limit, first, last, l) ==
    /\ first = (IF offset > 0 THEN offset ELSE 0)
    /\ last <= Len(list) /\ l = (IF first < last THEN last - first ELSE 0)
    /\ \A m \in 1..Len(list) : m <= last <=> limit < 0 \/ m - 1 < first + limit
    /\ Cut(list) = [i \in 1..l |-> list[first + i]]

\* What OFFSET and LIMIT leave of a list.
LEMMA CutIs ==
    ASSUME NEW list, IsList(list), stmt \in Statements, stmt.op = "select",
           NEW offset, offset = ToCount(stmt.offset), NEW limit, limit = ToCount(stmt.limit)
    PROVE  \E first \in Nat, last \in Int, l \in Nat : CutAt(list, offset, limit, first, last, l)
<1>1. offset \in Int /\ limit \in Int
  BY StatementFacts, CountIsNumber
<1>2. PICK n \in Nat : n = Len(list) /\ DOMAIN list = 1..n
  BY ListFacts
<1>3. PICK first \in Nat : first = IF offset > 0 THEN offset ELSE 0
  BY <1>1
<1>4. PICK last \in Int : last = IF limit < 0 \/ first + limit > n THEN n ELSE first + limit
  BY <1>1
<1>5. PICK l \in Nat : l = IF first < last THEN last - first ELSE 0
  OBVIOUS
<1>6. last <= n /\ \A m \in 1..n : m <= last <=> limit < 0 \/ m - 1 < first + limit
  BY <1>1, <1>4
<1>7. Cut(list) = SubSeq(list, first + 1, last)
  BY <1>2, <1>3, <1>4 DEF Cut
<1>8. PICK cut : cut = SubSeq(list, first + 1, last)
  OBVIOUS
<1>9. PICK a \in Int : a = first + 1
  OBVIOUS
<1>10. /\ IsList(cut) /\ Len(cut) = (IF a <= last THEN last - a + 1 ELSE 0)
       /\ \A i \in 1..(last - a + 1) : cut[i] = list[a + i - 1]
  <2> DEFINE S == {list[i] : i \in 1..n}
  <2>1. \A i \in a..last : list[i] \in S
    BY <1>6, <1>9
  <2> HIDE DEF S
  <2>2. /\ cut \in Seq(S) /\ Len(cut) = (IF a <= last THEN last - a + 1 ELSE 0)
        /\ \A i \in 1..(last - a + 1) : cut[i] = list[a + i - 1]
    BY <1>8, <1>9, <2>1, SubSeqProperties
  <2> QED
    BY <2>2, SeqIsList
<1>11. Len(cut) = l /\ \A i \in 1..l : i \in 1..(last - a + 1) /\ a + i - 1 = first + i
  BY <1>5, <1>9, <1>10
<1>12. cut = [i \in 1..l |-> list[first + i]]
  <2>1. \A i \in 1..l : cut[i] = list[first + i]
    BY <1>10, <1>11
  <2>2. cut = [i \in 1..l |-> cut[i]]
    BY <1>10, <1>11, ListFacts
  <2> QED
    BY <2>1, <2>2
<1>13. CutAt(list, offset, limit, first, last, l)
  BY <1>2, <1>3, <1>5, <1>6, <1>7, <1>8, <1>12 DEF CutAt
<1> QED
  BY <1>13

\* The larger of two numbers, as the promise says it.
LEMMA LargerOfTwo ==
    ASSUME NEW a \in Int, NEW b \in Int
    PROVE  Promise!Max({a, b}) = IF b > a THEN b ELSE a
<1>1. PICK x : x = CHOOSE z \in {a, b} : \A y \in {a, b} : z >= y
  OBVIOUS
<1>2. x \in {a, b} /\ \A y \in {a, b} : x >= y
  <2>1. \E z \in {a, b} : \A y \in {a, b} : z >= y
    <3>1. a >= b \/ b >= a
      OBVIOUS
    <3> QED
      BY <3>1
  <2> QED
    BY <1>1, <2>1
<1> QED
  BY <1>1, <1>2 DEF Promise!Max

\* The part of the sorted rows that OFFSET and LIMIT leave is the answer
\* that the promise gives.
LEMMA CutIsPick ==
    ASSUME IsTable(found), NEW F, F = SetOf(found), stmt \in Statements, stmt.op = "select",
           NEW keys, keys = stmt.keys, NEW list, Ranked(list, F, keys),
           NEW offset, offset = ToCount(stmt.offset), NEW limit, limit = ToCount(stmt.limit)
    PROVE  Cut(list) = Promise!Pick(F, keys, offset, limit)
<1>1. IsKeys(keys) /\ IsList(list)
  BY KeysFacts DEF Ranked
<1>2. PICK n \in Nat : n = Len(list)
  BY <1>1, ListFacts
<1>3. PICK first \in Nat, last \in Int, l \in Nat :
              /\ first = (IF offset > 0 THEN offset ELSE 0)
              /\ last <= n /\ l = (IF first < last THEN last - first ELSE 0)
              /\ \A m \in 1..n : m <= last <=> limit < 0 \/ m - 1 < first + limit
              /\ Cut(list) = [i \in 1..l |-> list[first + i]]
  <2>1. PICK first \in Nat, last \in Int, l \in Nat : CutAt(list, offset, limit, first, last, l)
    BY <1>1, CutIs
  <2> QED
    BY <1>2, <2>1 DEF CutAt
<1>4. Promise!Max({0, offset}) = first
  <2>1. offset \in Int
    BY StatementFacts, CountIsNumber
  <2> QED
    BY <1>3, <2>1, LargerOfTwo
<1>5. /\ \A m \in 1..n : list[m] \in F /\ PlaceOf(F, keys, list[m]) = m - 1
      /\ \A p \in F : PlaceOf(F, keys, p) \in 0..(n - 1)
      /\ \A p, q \in F : PlaceOf(F, keys, p) = PlaceOf(F, keys, q) => p = q
  BY <1>2 DEF Ranked
<1>6. \A p \in F : Promise!Place(F, keys, p) = PlaceOf(F, keys, p)
  BY <1>1, PlaceIs
<1>7. PICK kept : kept = {p \in F : /\ PlaceOf(F, keys, p) >= first
                                    /\ limit < 0 \/ PlaceOf(F, keys, p) < first + limit}
  OBVIOUS
<1>8. \A i \in 1..l : first + i \in 1..n /\ first + i <= last
  BY <1>3
<1>9. \A i \in 1..l : list[first + i] \in kept /\ PlaceOf(F, keys, list[first + i]) = first + i - 1
  <2> TAKE i \in 1..l
  <2>1. PICK m \in 1..n : m = first + i /\ m <= last
    BY <1>8
  <2>2. list[m] \in F /\ PlaceOf(F, keys, list[m]) = m - 1
    BY <1>5
  <2>3. limit < 0 \/ m - 1 < first + limit
    BY <1>3, <2>1
  <2> QED
    BY <1>7, <2>1, <2>2, <2>3
<1>10. ASSUME NEW p \in kept
       PROVE  \E i \in 1..l : p = list[first + i]
  <2>1. PICK m \in 1..n : m = PlaceOf(F, keys, p) + 1
    BY <1>5, <1>7
  <2>2. p = list[m]
    BY <1>5, <1>7, <2>1
  <2>3. m - 1 >= first /\ m <= last
    <3>1. PICK x \in 0..(n - 1) : x = PlaceOf(F, keys, p)
      BY <1>5, <1>7
    <3>2. x = m - 1 /\ x >= first /\ (limit < 0 \/ x < first + limit)
      BY <1>7, <2>1, <3>1
    <3> QED
      BY <1>3, <3>2
  <2>4. PICK i \in 1..l : i = m - first
    <3>1. first < last /\ l = last - first
      BY <1>3, <2>3
    <3> QED
      BY <2>3, <3>1
  <2>5. first + i = m
    BY <2>4
  <2> QED
    BY <2>2, <2>5
<1>11. Cardinality(kept) = l
  <2> DEFINE f == [i \in 1..l |-> list[first + i]]
  <2>1. \A i, j \in 1..l : list[first + i] = list[first + j] => i = j
    <3> TAKE i, j \in 1..l
    <3> HAVE list[first + i] = list[first + j]
    <3>1. first + i - 1 = first + j - 1
      BY <1>9
    <3> QED
      BY <3>1
  <2>2. f \in Bijection(1..l, kept)
    BY <1>9, <1>10, <2>1 DEF Bijection, Injection, Surjection, IsInjective
  <2>3. IsFiniteSet(1..l) /\ Cardinality(1..l) = l
    <3>1. Cardinality(1..l) = (IF 1 > l THEN 0 ELSE l - 1 + 1) /\ IsFiniteSet(1..l)
      BY FS_Interval
    <3> QED
      BY <3>1
  <2>4. ExistsBijection(1..l, kept)
    BY <2>2 DEF ExistsBijection
  <2> QED
    BY <2>3, <2>4, FS_Bijection
<1>12. \A i \in 1..l : list[first + i]
                       = CHOOSE p \in kept : Promise!Place(F, keys, p) = first + i - 1
  <2> TAKE i \in 1..l
  <2>1. PICK p : p = CHOOSE q \in kept : Promise!Place(F, keys, q) = first + i - 1
    OBVIOUS
  <2>2. PICK q : q = list[first + i] /\ q \in kept /\ PlaceOf(F, keys, q) = first + i - 1
    BY <1>9
  <2>3. \A r \in kept : r \in F
    BY <1>7
  <2>4. p \in kept /\ Promise!Place(F, keys, p) = first + i - 1
    BY <1>6, <2>1, <2>2, <2>3
  <2>5. PlaceOf(F, keys, p) = PlaceOf(F, keys, q)
    BY <1>6, <2>2, <2>3, <2>4
  <2> QED
    BY <1>5, <2>1, <2>2, <2>3, <2>4, <2>5
<1>13. kept = {p \in F : /\ Promise!Place(F, keys, p) >= first
                         /\ limit < 0 \/ Promise!Place(F, keys, p) < first + limit}
  BY <1>6, <1>7
<1>14. Promise!Pick(F, keys, offset, limit)
       = [i \in 1..l |-> CHOOSE p \in kept : Promise!Place(F, keys, p) = first + i - 1]
  <2>1. Promise!Cardinality(kept) = l
    BY <1>11, SameCardinality
  <2> DEFINE skip == Promise!Max({0, offset})
             K == {p \in F : /\ Promise!Place(F, keys, p) >= skip
                             /\ limit < 0 \/ Promise!Place(F, keys, p) < skip + limit}
  <2>2. Promise!Pick(F, keys, offset, limit)
        = [i \in 1..Promise!Cardinality(K) |-> CHOOSE p \in K : Promise!Place(F, keys, p) = skip + i - 1]
    BY DEF Promise!Pick
  <2>3. skip = first
    BY <1>4
  <2> HIDE DEF skip
  <2>4. K = kept
    BY <1>13, <2>3
  <2> HIDE DEF K
  <2> QED
    BY <2>1, <2>2, <2>3, <2>4
<1>15. [i \in 1..l |-> list[first + i]]
       = [i \in 1..l |-> CHOOSE p \in kept : Promise!Place(F, keys, p) = first + i - 1]
  BY <1>12
<1> QED
  BY <1>3, <1>14, <1>15

\* The answer of a SELECT is the one the promise gives.
LEMMA SelectFollows ==
    ASSUME Kept, Looping, SelectEnd, NEW s, s = stmt
    PROVE  Promise!Select(s)
<1>1. /\ stmt # Idle /\ stmt.op = "select" /\ at > Len(rows)
      /\ answer' = Answer(stmt, TRUE, changes, Cut(Sorted))
      /\ stmt' = Idle /\ rows' = rows
  BY DEF SelectEnd, End
<1>2. Selecting /\ IsTable(before) /\ stmt \in Statements
  BY <1>1, RunningFacts DEF Looping
<1>3. PICK C : C = Promise!Chosen(stmt.where)
  OBVIOUS
<1>4. C = SetOf(found)
  <2>1. at - 1 = Len(before) /\ rows = before
    <3>1. rows = before /\ at \in 1..(Len(rows) + 1) /\ Len(before) \in Nat
      BY <1>1, <1>2, RunningFacts, TableFacts DEF Selecting
    <3> QED
      BY <1>1, <3>1
  <2> QED
    BY <1>1, <1>2, <1>3, <2>1, ChosenIs DEF Selecting
<1>5. IsTable(found) /\ changes = 0 /\ rows = before
  BY <1>2 DEF Selecting
<1>6. Ranked(Sorted, C, stmt.keys)
  BY <1>1, <1>2, <1>4, <1>5, SortedRanked
<1>7. PICK offset, limit, keys :
         offset = ToCount(stmt.offset) /\ limit = ToCount(stmt.limit) /\ keys = stmt.keys
  OBVIOUS
<1>8. Cut(Sorted) = Promise!Pick(C, keys, offset, limit)
  BY <1>1, <1>2, <1>4, <1>5, <1>6, <1>7, CutIsPick
<1>9. Promise!ToCount(stmt.offset) = offset /\ Promise!ToCount(stmt.limit) = limit
  BY <1>7, SameCells
<1>10. answer' = Promise!Answer(stmt, TRUE, 0, Promise!Pick(C, keys, offset, limit))
  BY <1>1, <1>5, <1>8 DEF Answer, Promise!Answer
<1>11. Shown' = Shown
  BY <1>1, <1>5, ShownFacts
<1>12. answer' = Promise!Answer(s, TRUE, 0,
                    Promise!Pick(Promise!Chosen(s.where), s.keys,
                                 Promise!ToCount(s.offset), Promise!ToCount(s.limit)))
  BY <1>3, <1>7, <1>9, <1>10
<1> QED
  BY <1>11, <1>12, Zenon DEF Promise!Select, Shown

-----------------------------------------------------------------------------
(* Every step is a step of the promise, or changes nothing it shows *)

\* A turn of a loop shows nothing.
LEMMA QuietStep ==
    ASSUME stmt # Idle, UNCHANGED <<stmt, before, answer>>
    PROVE  UNCHANGED Promise!vars
<1>1. Shown' = Shown /\ answer' = answer
  BY ShownFacts
<1> QED
  BY <1>1, Zenon DEF Promise!vars, Shown

LEMMA SameNoAnswer == Promise!NoAnswer = NoAnswer
BY DEF Promise!NoAnswer, NoAnswer, Promise!Answer, Answer

\* A statement that begins is on its way.
LEMMA BeginFollows ==
    ASSUME Kept, NEW s \in Statements, Begin(s)
    PROVE  Promise!Ask
<1>1. stmt = Idle /\ stmt' # Idle /\ before' = rows /\ answer' = NoAnswer
  BY StatementFacts DEF Begin
<1>2. Shown' = Shown
  BY <1>1, ShownFacts
<1>3. answer' = Promise!NoAnswer
  BY <1>1, SameNoAnswer
<1> QED
  BY <1>2, <1>3, Zenon DEF Promise!Ask, Shown

\* A step that answers is a step of the promise.
LEMMA EndFollows ==
    ASSUME Kept, stmt # Idle, NEW s, s = stmt, answer'.to = s,
           \/ s.op = "select" /\ Promise!Select(s)
           \/ s.op = "insert" /\ Promise!Insert(s)
           \/ s.op = "update" /\ Promise!Update(s)
           \/ s.op = "delete" /\ Promise!Delete(s)
    PROVE  Promise!Next
<1>1. s \in Statements
  BY RunningFacts
<1> QED
  BY <1>1 DEF Promise!Next

LEMMA AnswersStatement ==
    ASSUME NEW ok, NEW list, End(ok, list)
    PROVE  answer'.to = stmt /\ answer' = Answer(stmt, ok, changes, list) /\ stmt' = Idle /\ UNCHANGED rows
BY DEF End, Answer

\* Every step is one of the promise or a stutter.
LEMMA StepFollows ==
    ASSUME Kept, Looping, [Next]_vars
    PROVE  Promise!Next \/ UNCHANGED Promise!vars
<1> PICK s : s = stmt
  OBVIOUS
<1>1. CASE UNCHANGED vars
  <2>1. Shown' = Shown /\ answer' = answer
    BY <1>1 DEF vars, Shown, Table
  <2> QED
    BY <2>1, Zenon DEF Promise!vars, Shown
<1>2. CASE \E t \in Statements : Begin(t)
  BY <1>2, BeginFollows DEF Promise!Next
<1>3. CASE SelectRow \/ UpdateRow \/ DeleteRow
  <2>1. stmt # Idle /\ UNCHANGED <<stmt, before, answer>>
    BY <1>3 DEF SelectRow, UpdateRow, DeleteRow
  <2> QED
    BY <2>1, QuietStep
<1>4. CASE SelectEnd
  <2>1. answer'.to = s /\ stmt # Idle /\ s.op = "select"
    BY <1>4, AnswersStatement DEF SelectEnd
  <2> QED
    BY <1>4, <2>1, SelectFollows, EndFollows
<1>5. CASE UpdateEnd
  <2>1. answer'.to = s /\ stmt # Idle /\ s.op = "update"
    BY <1>5, AnswersStatement DEF UpdateEnd
  <2> QED
    BY <1>5, <2>1, UpdateFollows, EndFollows
<1>6. CASE DeleteEnd
  <2>1. answer'.to = s /\ stmt # Idle /\ s.op = "delete"
    BY <1>6, AnswersStatement DEF DeleteEnd
  <2> QED
    BY <1>6, <2>1, DeleteFollows, EndFollows
<1>7. CASE InsertEnd
  <2>1. /\ answer'.to = s /\ stmt # Idle /\ s.op = "insert" /\ at > Len(stmt.lists)
        /\ answer' = Answer(stmt, TRUE, changes, <<>>) /\ stmt' = Idle /\ UNCHANGED rows
    BY <1>7, AnswersStatement DEF InsertEnd
  <2>2. stmt.op = "insert"
    BY <2>1
  <2>3. Promise!Insert(s)
    BY <2>1, <2>2, InsertFollows
  <2> QED
    BY <2>1, <2>3, EndFollows
<1>8. CASE InsertList
  <2>1. stmt # Idle /\ stmt.op = "insert" /\ at <= Len(stmt.lists)
    BY <1>8 DEF InsertList
  <2>2. CASE ~Refused(stmt.lists[at])
    <3>1. UNCHANGED <<stmt, before, answer>>
      BY <1>8, <2>2 DEF InsertList
    <3> QED
      BY <2>1, <3>1, QuietStep
  <2>3. CASE Refused(stmt.lists[at])
    <3>1. /\ answer'.to = s /\ answer' = Answer(stmt, FALSE, changes, <<>>)
          /\ stmt' = Idle /\ UNCHANGED rows
      BY <1>8, <2>3, AnswersStatement DEF InsertList
    <3>2. Len(stmt.lists) \in Nat /\ at \in Nat
      BY <2>1, RunningFacts, StatementFacts, ListFacts
    <3>3. PICK ok \in BOOLEAN : ok = FALSE /\ answer' = Answer(stmt, ok, changes, <<>>)
      BY <3>1, Zenon
    <3>4. ~(at > Len(stmt.lists))
      BY <2>1, <3>2
    <3>5. Promise!Insert(s)
      <4>1. stmt' = Idle /\ UNCHANGED rows
        BY <3>1, Zenon
      <4> QED
        BY <2>1, <2>3, <3>3, <3>4, <4>1, InsertFollows
    <3> QED
      BY <2>1, <3>1, <3>5, EndFollows
  <2> QED
    BY <2>2, <2>3
<1> QED
  BY <1>1, <1>2, <1>3, <1>4, <1>5, <1>6, <1>7, <1>8 DEF Next

\* Each statement is one step on a set of rows: its WHERE is decided row by row
\* by the logic of three values, its rows are taken, changed, sorted and counted
\* as they were when it began, and nothing is seen of the loop (sq_select,
\* sq_insert, sq_update, sq_delete).
THEOREM PromiseKept == Spec => KeepsPromise
<1>1. Init => Promise!Init
  <2> SUFFICES ASSUME Init PROVE Promise!Init
    OBVIOUS
  <2>1. rows = <<>> /\ stmt = Idle /\ answer = NoAnswer
    BY DEF Init
  <2>2. Shown = {}
    BY <2>1, ShownFacts DEF SetOf, Part
  <2> QED
    BY <2>1, <2>2, SameNoAnswer, Zenon DEF Promise!Init, Shown
<1>2. Kept /\ Looping /\ [Next]_vars => [Promise!Next]_Promise!vars
  BY StepFollows
<1> QED
  BY <1>1, <1>2, AlwaysLooping, PTL DEF Spec, KeepsPromise, Promise!Spec

=============================================================================
