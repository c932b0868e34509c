------------------------------- MODULE Compiler -------------------------------
(***************************************************************************)
(* codegen_llvm.c: the part of the language that `실행' turns into a native  *)
(* program.                                                                 *)
(*                                                                         *)
(* The compiler walks the tree once.  It keeps the slots of the function it  *)
(* is in (one per name, one per loop variable), which of them are assigned   *)
(* for certain (defd), the loop variables that hide outer names (binds), the *)
(* loops it is inside of and whether the code just emitted has ended (term). *)
(* What it emits is here a tree again, with slots for names and static types *)
(* for dynamic ones; module Native gives the instructions their meaning.     *)
(* Anything the compiler is not sure of it refuses (err), and the interpreter *)
(* runs the program instead.                                                *)
(***************************************************************************)
EXTENDS Syntax

CONSTANT MaxNest                \* loops inside one another the compiler takes: 64

ASSUME NestAssumption == MaxNest \in Nat

Builtins == {"print"}

-------------------------------------------------------------------------------
(* prepass: the functions of the program, and shapes it refuses at once. *)

Funcs(prog) == {i \in 1..Len(prog) : prog[i].k = "func"}
Named(prog, x) == CHOOSE i \in Funcs(prog) : prog[i].x = x
Names(prog) == {prog[i].x : i \in Funcs(prog)}

NodesIn(b) == UNION {NodesOf(b[i]) : i \in 1..Len(b)}

RECURSIVE BlockReturns(_)
\* Every way through b ends in 반환 with a value; a loop may make no turn.
BlockReturns(b) ==
    \E i \in 1..Len(b) : \/ b[i].k = "ret" /\ b[i].e # <<>>
                         \/ /\ b[i].k = "if" /\ Len(b[i].b) = 2
                            /\ BlockReturns(b[i].b[1]) /\ BlockReturns(b[i].b[2])

\* The function always has a value: it may be called for it.
RetInt(f) == /\ ~\E n \in NodesIn(f.b[1]) : n.k = "ret" /\ n.e = <<>>
             /\ BlockReturns(f.b[1])

Bindings(nodes) == {n.x : n \in {m \in nodes : m.k \in {"assign", "for"}}}

\* A name the top level may bind is a global; so is a function's.
Globals(prog) ==
    UNION {Bindings(NodesOf(prog[i])) : i \in (1..Len(prog)) \ Funcs(prog)} \cup Names(prog)

Clashes(prog) ==
    \/ \E i, j \in Funcs(prog) : i # j /\ prog[i].x = prog[j].x
    \/ Names(prog) \cap Builtins # {}
    \/ Names(prog) \cap Bindings(NodesIn(prog)) # {}
    \/ \E i \in Funcs(prog) : LET ps == prog[i].e IN
          \/ \E k \in 1..Len(ps) : ps[k].x \in Names(prog)
          \/ \E k, m \in 1..Len(ps) : k # m /\ ps[k].x = ps[m].x

Calls(prog, nodes) ==
    {n.e[1].x : n \in {m \in nodes : m.k = "call" /\ m.e[1].k = "var"}} \cap Names(prog)

RECURSIVE Reach(_, _)
Reach(prog, fs) ==
    LET more == fs \cup UNION {Calls(prog, NodesIn(prog[Named(prog, f)].b[1])) : f \in fs}
    IN  IF more = fs THEN fs ELSE Reach(prog, more)

\* A function exists once its statement has run: no statement may call, even through others,
\* one defined further down.
CallsAhead(prog) ==
    \E k \in (1..Len(prog)) \ Funcs(prog) :
        \E f \in Reach(prog, Calls(prog, NodesOf(prog[k]))) : Named(prog, f) > k

Refused(prog) == Clashes(prog) \/ CallsAhead(prog)

-------------------------------------------------------------------------------
(* The compiler's state, and code: k the instruction, x an operator or a name, n a slot, a number *)
(* or a line, t the static type of its value, e and b as in a node.                               *)

Code(k, x, n, t, e, b) == [k |-> k, x |-> x, n |-> n, t |-> t, e |-> e, b |-> b]
Refusal == Code("refused", "", 0, "bad", <<>>, <<>>)
Bad(c) == c.t = "bad"

Fresh(prog, cur) ==
    [prog |-> prog, cur |-> cur, slots |-> <<>>, defd |-> {}, binds |-> <<>>, depth |-> 0,
     term |-> FALSE, err |-> FALSE, code |-> <<>>]

Refuse(g) == [g EXCEPT !.err = TRUE]
Emit(g, c) == [g EXCEPT !.code = Append(@, c)]

\* lookup: the innermost loop variable of that name, else the function's slot for it, else 0.
Lookup(g, x) ==
    LET bs == {i \in 1..Len(g.binds) : g.binds[i].x = x}
        ss == {i \in 1..Len(g.slots) : g.slots[i].fnlevel /\ g.slots[i].x = x}
    IN  CASE bs # {} -> g.binds[CHOOSE i \in bs : \A j \in bs : j <= i].slot
          [] bs = {} /\ ss # {} -> CHOOSE i \in ss : TRUE
          [] OTHER -> 0

NewSlot(g, x, t, fnlevel, param) ==
    [g EXCEPT !.slots = Append(@, [x |-> x, t |-> t, fnlevel |-> fnlevel, param |-> param])]

\* The text an instruction leaves is its own, to be freed once used: only joining makes one.
Owned(c) == c.t = "str" /\ c.k = "bin"

NumType(t) == t \in {"int", "bool"}

\* emit_bin on two operands: the type of the result, "bad" where the compiler refuses.
BinType(op, a, b) ==
    CASE op \in {"and", "or"} -> IF a = b /\ a # "str" THEN a ELSE "bad"
      [] op = "/" -> "bad"
      [] op = "+" /\ "str" \in {a, b} -> "str"
      [] op \in {"+", "-", "*"} /\ "str" \notin {a, b} -> "int"
      [] op = "%" -> IF a = "int" /\ b = "int" THEN "int" ELSE "bad"
      [] op \in {"==", "!="} -> "bool"
      [] op \in {"<", ">", "<=", ">="} -> IF NumType(a) = NumType(b) THEN "bool" ELSE "bad"
      [] OTHER -> "bad"

RECURSIVE EmitVal(_, _), EmitCond(_, _)

EmitAll(es, g) == [i \in 1..Len(es) |-> EmitVal(es[i], g)]
AnyBad(cs) == \E i \in 1..Len(cs) : Bad(cs[i])

\* call_target and emit_call: only integers are passed.
Target(f, args) ==
    IF Len(args) = Len(f.e) /\ \A i \in 1..Len(args) : args[i].t = "int"
    THEN Code("call", f.x, 0, "int", args, <<>>) ELSE Refusal

EmitCall(e, g) ==
    IF e.e[1].k = "var" /\ e.e[1].x \in Names(g.prog)
    THEN Target(g.prog[Named(g.prog, e.e[1].x)], EmitAll(Tail(e.e), g)) ELSE Refusal

EmitLoad(g, s) ==
    IF s = 0 \/ s \notin g.defd THEN Refusal ELSE Code("load", "", s, g.slots[s].t, <<>>, <<>>)

Operate(op, a, b) ==
    IF Bad(a) \/ Bad(b) THEN Refusal
    ELSE Code(IF op \in {"and", "or"} THEN "choose" ELSE "bin", op, 0, BinType(op, a.t, b.t), <<a, b>>, <<>>)

Invert(c) == IF Bad(c) THEN c ELSE Code("not", "", 0, "bool", <<c>>, <<>>)
Negate(a) == IF NumType(a.t) THEN Code("neg", "", 0, "int", <<a>>, <<>>) ELSE Refusal

\* A call for its value: the function must always have one.
Valued(g, c) == IF ~Bad(c) /\ RetInt(g.prog[Named(g.prog, c.x)]) THEN c ELSE Refusal

EmitVal(e, g) ==
    CASE e.k = "lit" /\ e.x \in {"int", "bool", "str"} -> Code("const", e.x, e.n, e.x, <<>>, <<>>)
      [] e.k = "var" -> EmitLoad(g, Lookup(g, e.x))
      [] e.k = "un" /\ e.x = "not" -> Invert(EmitCond(e.e[1], g))
      [] e.k = "un" /\ e.x = "neg" -> Negate(EmitVal(e.e[1], g))
      [] e.k = "bin"  -> Operate(e.x, EmitVal(e.e[1], g), EmitVal(e.e[2], g))
      [] e.k = "call" -> Valued(g, EmitCall(e, g))
      [] OTHER -> Refusal

Choose(op, a, b) ==
    IF Bad(a) \/ Bad(b) THEN Refusal ELSE Code("choose", op, 0, "bool", <<a, b>>, <<>>)
Truthful(e, v) ==
    IF Bad(v) \/ (e.k = "un" /\ e.x = "not") THEN v ELSE Code("truth", "", 0, "bool", <<v>>, <<>>)

\* Where only the truth matters, and, or and not take any types.
EmitCond(e, g) ==
    IF e.k = "bin" /\ e.x \in {"and", "or"}
    THEN Choose(e.x, EmitCond(e.e[1], g), EmitCond(e.e[2], g)) ELSE Truthful(e, EmitVal(e, g))

-------------------------------------------------------------------------------
(* Statements: each answers the compiler's state, the code in it. *)

RECURSIVE EmitStmt(_, _), EmitBlock(_, _)

EmitBlock(b, g) == IF b = <<>> THEN g ELSE EmitBlock(Tail(b), EmitStmt(b[1], g))

\* A block whose code stands apart.
Inside(b, g) == EmitBlock(b, [g EXCEPT !.code = <<>>])

\* A print, a call whose value nobody wants, or a value thrown away.
Printed(g, args) == IF AnyBad(args) THEN Refuse(g) ELSE Emit(g, Code("print", "", 0, "", args, <<>>))
Dropped(g, v)    == IF Bad(v) THEN Refuse(g) ELSE Emit(g, Code("drop", "", 0, "", <<v>>, <<>>))

EmitExprStmt(e, g) ==
    IF e.k = "call" /\ e.e[1] = Var("print") THEN Printed(g, EmitAll(Tail(e.e), g))
    ELSE Dropped(g, IF e.k = "call" THEN EmitCall(e, g) ELSE EmitVal(e, g))

ToSlot(g, k, v) ==
    IF g.slots[k].t # v.t THEN Refuse(g)
    ELSE Emit([g EXCEPT !.defd = @ \cup {k}], Code("store", "", k, v.t, <<v>>, <<>>))

\* Mutated: an assignment in a function may be to a global.
AssignLocal(x, g, k, v) == ToSlot(g, k, v)

\* An assignment in a function to a name that is its own variable only if no global has it.
Assign(x, g, k, v) ==
    IF g.cur # "" /\ g.slots[k].fnlevel /\ ~g.slots[k].param /\ x \in Globals(g.prog) THEN Refuse(g)
    ELSE ToSlot(g, k, v)

\* A name first met here gets a slot, and the slot its type.
Place(x, g, t) == IF Lookup(g, x) = 0 THEN NewSlot(g, x, t, TRUE, FALSE) ELSE g
Into(x, g, v) == IF Bad(v) THEN Refuse(g) ELSE Assign(x, Place(x, g, v.t), Lookup(Place(x, g, v.t), x), v)

\* The value first.
EmitAssign(s, g) == Into(s.x, g, EmitVal(s.e[1], g))

\* What both ways through assign is assigned after it.
Join(g, c, then, else) ==
    [else EXCEPT !.defd = @ \cap then.defd, !.term = FALSE,
                 !.code = Append(g.code, Code("if", "", 0, "", <<c>>, <<then.code, else.code>>))]

Split(s, g, c, then) ==
    IF Bad(c) THEN Refuse(g)
    ELSE Join(g, c, then, Inside(IF Len(s.b) = 1 THEN <<>> ELSE s.b[2],
                                 [then EXCEPT !.defd = g.defd, !.term = FALSE]))

EmitIf(s, g) == Split(s, g, EmitCond(s.e[1], g), Inside(s.b[1], g))

\* The body of a loop may make no turn: what only it assigns is not assigned after it.
Repeat(g, k, n, cs, body) ==
    IF AnyBad(cs) THEN Refuse(g)
    ELSE [body EXCEPT !.depth = g.depth, !.binds = g.binds, !.defd = g.defd, !.term = FALSE,
                      !.code = Append(g.code, Code(k, "", n, "", cs, <<body.code>>))]

EmitWhile(s, g) ==
    IF g.depth >= MaxNest THEN Refuse(g)
    ELSE Repeat(g, "while", 0, <<EmitCond(s.e[1], g)>>, Inside(s.b[1], [g EXCEPT !.depth = @ + 1]))

\* A hidden counter, and for every turn the loop variable stored anew from it.
ForSlots(s, g, var) ==
    [NewSlot(NewSlot(g, "", "int", FALSE, FALSE), s.x, "int", FALSE, FALSE) EXCEPT
        !.depth = @ + 1, !.defd = @ \cup {var}, !.binds = Append(@, [x |-> s.x, slot |-> var])]

OverRange(s, g, es) ==
    IF g.depth >= MaxNest \/ \E i \in 1..Len(es) : es[i].t # "int" THEN Refuse(g)
    ELSE Repeat(g, "for", Len(g.slots) + 1,
                IF Len(es) = 3 THEN es ELSE Append(es, Code("const", "int", 1, "int", <<>>, <<>>)),
                Inside(s.b[1], ForSlots(s, g, Len(g.slots) + 2)))

EmitFor(s, g) == OverRange(s, g, EmitAll(s.e, g))

Return(g, isInt, v) ==
    IF Bad(v) \/ (isInt /\ v.t # "int") THEN Refuse(g)
    ELSE Emit([g EXCEPT !.term = TRUE], Code("ret", IF isInt THEN "value" ELSE "drop", 0, "", <<v>>, <<>>))

EmitReturn(s, g) ==
    IF s.e = <<>> THEN Emit([g EXCEPT !.term = TRUE], Code("ret", "", 0, "", <<>>, <<>>))
    ELSE Return(g, g.cur # "" /\ RetInt(g.prog[Named(g.prog, g.cur)]), EmitVal(s.e[1], g))

\* Every N_STMT stores its line.
Lines(g, s) == IF s.line = 0 THEN g ELSE Emit(g, Code("line", "", s.line, "", <<>>, <<>>))

EmitKind(s, g) ==
    CASE s.k = "assign" -> EmitAssign(s, g)
      [] s.k = "expr"   -> EmitExprStmt(s.e[1], g)
      [] s.k = "if"     -> EmitIf(s, g)
      [] s.k = "while"  -> EmitWhile(s, g)
      [] s.k = "for"    -> EmitFor(s, g)
      [] s.k = "ret"    -> EmitReturn(s, g)
      [] s.k \in {"brk", "cont"} /\ g.depth > 0 ->
             Emit([g EXCEPT !.term = TRUE], Code(s.k, "", 0, "", <<>>, <<>>))
      [] OTHER -> Refuse(g)

\* emit_stmt: nothing follows what has ended.
EmitStmt(s, g) == IF g.err \/ g.term THEN g ELSE EmitKind(s, Lines(g, s))

RECURSIVE Params(_, _)
Params(ps, g) ==
    IF ps = <<>> THEN g
    ELSE Params(Tail(ps), [NewSlot(g, ps[1].x, "int", TRUE, TRUE) EXCEPT !.defd = @ \cup {Len(g.slots) + 1}])

EmitFunction(prog, f) == EmitBlock(f.b[1], Params(f.e, Fresh(prog, f.x)))

\* emit_main: the definitions were emitted before it, their lines are stored all the same.
RECURSIVE EmitMain(_, _)
EmitMain(b, g) ==
    IF b = <<>> \/ g.err \/ g.term THEN g
    ELSE EmitMain(Tail(b), IF b[1].k = "func" THEN Lines(g, b[1]) ELSE EmitStmt(b[1], g))

\* llvm_emit_module: the code of the program, or that it is not for this compiler.
Link(prog, fns, main) ==
    IF Refused(prog) \/ main.err \/ \E x \in Names(prog) : fns[x].err
    THEN [ok |-> FALSE] ELSE [ok |-> TRUE, fns |-> fns, main |-> main]

Compile(prog) ==
    Link(prog, [x \in Names(prog) |-> EmitFunction(prog, prog[Named(prog, x)])],
         EmitMain(prog, Fresh(prog, "")))
===============================================================================
