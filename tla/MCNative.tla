------------------------------- MODULE MCNative -------------------------------
EXTENDS Native

One == Lit("int", 1)
Two == Lit("int", 2)
X == Var("x")
S == Var("s")
F(args) == Call(Var("f"), args)
Say(e) == Stmt("expr", "", <<Call(Var("print"), <<e>>)>>)
Let(x, e) == Stmt("assign", x, <<e>>)

At_(line, s) == [s EXCEPT !.line = line]
Pro == At_(1, Let("x", One))

\* Expressions two operators deep, to be printed: every pair of levels, on both sides.
Leaves == {X, Lit("int", 3), Lit("int", Least), Lit("bool", 1)}
Ops == {"or", "and", "==", "<", "+", "-", "*", "%"}
Simple == {Bin(op, a, b) : op \in Ops, a \in Leaves, b \in {X, Lit("int", 0)}}
          \cup {Un(op, a) : op \in {"neg", "not"}, a \in Leaves}
Deep == {Bin(op, a, X) : op \in Ops, a \in Simple} \cup {Bin(op, X, a) : op \in Ops, a \in Simple}
        \cup {Un(op, a) : op \in {"neg", "not"}, a \in Simple}
        \cup {Bin("%", Bin("*", a, b), c) : a \in {Two, Lit("int", 3)}, b \in {X, Un("neg", X)},
                                          c \in {Two, Un("neg", Two), Un("neg", Lit("int", 3))}}
        \cup {Call(a, <<X, a>>) : a \in Simple \cup Leaves}
        \cup {Node("index", "", 0, <<a, a>>, <<>>) : a \in Simple \cup Leaves}

\* Statements of every kind, two by two.
Inner(s) == <<At_(9, s)>>
Bare == Stmt("ret", "", <<>>)
List(es) == Node("list", "", 0, es, <<>>)
With(s, bs) == [s EXCEPT !.b = bs]
Kinds ==
    { Let("x", X), Say(X), Stmt("expr", "", <<Un("neg", X)>>), Stmt("expr", "", <<List(<<X, One>>)>>),
      Stmt("expr", "", <<Call(Bin("+", X, X), <<>>)>>), Bare, Stmt("ret", "", <<X>>),
      Stmt("setindex", "", <<X, One, X>>), Stmt("brk", "", <<>>),
      With(Stmt("if", "", <<X>>), <<Inner(Bare)>>),
      With(Stmt("if", "", <<X>>), <<Inner(Say(X)), Inner(Bare)>>),
      With(Stmt("if", "", <<X>>), <<Inner(Say(X)), <<With(Stmt("if", "", <<X>>), <<Inner(Bare)>>)>> >>),
      With(Stmt("for", "i", <<One, X, One>>), <<Inner(Say(X))>>),
      With(Stmt("foreach", "i", <<X>>), <<Inner(Say(X))>>),
      With(Stmt("func", "f", <<X, S>>), <<Inner(Bare)>>),
      With(Stmt("try", "e", <<>>), <<Inner(Say(X)), <<>> >>) }

McPrologues ==
    { [items |-> <<>>, more |-> 3], [items |-> <<Pro>>, more |-> 4] }
    \cup {[items |-> <<Pro, At_(2, Say(e))>>, more |-> 0] : e \in Deep}
    \cup {[items |-> <<Pro, At_(2, s), At_(3, t)>>, more |-> 0] : s \in Kinds, t \in Kinds}

McStatements ==
    { Let("x", Two), Let("x", Bin("+", X, X)), Let("x", Bin("and", X, F(<<X>>))), Let("s", Lit("str", 1)), Let("s", Bin("+", S, X)), Say(X), Say(S),
      Stmt("expr", "", <<F(<<>>)>>), Stmt("brk", "", <<>>), Stmt("cont", "", <<>>),
      Stmt("ret", "", <<X>>) }

McHeads ==
    { Stmt("if", "", <<Bin("==", X, One)>>), Stmt("while", "", <<Bin("<", X, Lit("int", 3))>>),
      Stmt("for", "x", <<Two, Lit("int", 3)>>), Stmt("for", "x", <<X, One, Un("neg", X)>>),
      Stmt("func", "f", <<>>), Stmt("func", "f", <<X>>) }
===============================================================================
