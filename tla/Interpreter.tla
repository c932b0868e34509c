----------------------------- MODULE Interpreter -----------------------------
(***************************************************************************)
(* interp.c: what a program means.  Eval answers a value and a state, Exec a *)
(* state; a state whose sig is not "ok" is a long jump on its way to the     *)
(* handler that takes it (멈춤, 계속, 반환, an error).                       *)
(*                                                                         *)
(* A value is an integer, a truth, a text, nothing, or a function; a real    *)
(* only stands for itself (the compiler refuses what makes one).  Texts are  *)
(* sequences of small numbers.                                              *)
(* Turns bounds the turns of loops and the calls a run may make: a run that  *)
(* uses them up is left there, still running.                               *)
(***************************************************************************)
EXTENDS Syntax

CONSTANTS MaxDepth,             \* 700 calls inside one another
          MaxTurns

ASSUME LimitAssumption == MaxDepth \in Nat \ {0} /\ MaxTurns \in Nat

Value(t, n, w, f) == [t |-> t, n |-> n, w |-> w, f |-> f]
Num(n)   == Value("int", n, <<>>, <<>>)
Truth(b) == Value("bool", IF b THEN 1 ELSE 0, <<>>, <<>>)
Str(w)   == Value("str", 0, w, <<>>)
Nil      == Value("nil", 0, <<>>, <<>>)
Real     == Value("real", 0, <<>>, <<>>)
Err(why) == Value(why, 0, <<>>, <<>>)

Errors == {"overflow", "zero", "types", "name", "step", "depth", "args"}

IsNum(v) == v.t \in {"int", "bool"}
Truthy(v) == CASE v.t = "str" -> v.w # <<>>
               [] v.t = "nil" -> FALSE
               [] IsNum(v)    -> v.n # 0
               [] OTHER       -> TRUE

\* v_stringify: digits, 참 or 거짓, the text itself.
Word(v) == CASE v.t = "int"  -> <<v.n>>
             [] v.t = "bool" -> <<Top + 1 + v.n>>
             [] v.t = "str"  -> v.w
             [] OTHER        -> <<Top + 3>>
Letter(n) == Top + 4 + n        \* the characters of the text literals

LitValue(e) ==
    CASE e.x = "int"  -> Num(e.n)
      [] e.x = "bool" -> Truth(e.n = 1)
      [] e.x = "str"  -> Str(IF e.n = 0 THEN <<>> ELSE <<Letter(e.n)>>)
      [] OTHER        -> Nil

\* Integer arithmetic stops where 64 bits end.
Checked(n) == IF n \in Ints THEN Num(n) ELSE Err("overflow")

\* The remainder of C: it takes the sign of a.
Abs(n) == IF n < 0 THEN -n ELSE n
Rem(a, b) == IF a < 0 THEN -(Abs(a) % Abs(b)) ELSE a % Abs(b)

Remainder(a, b) ==
    LET r == IF b = -1 THEN 0 ELSE Rem(a, b)
    IN  IF r # 0 /\ (r < 0) # (b < 0) THEN r + b ELSE r

Equal(a, b) == CASE IsNum(a) /\ IsNum(b) -> a.n = b.n
                 [] a.t # b.t            -> FALSE
                 [] OTHER                -> a.w = b.w /\ a.n = b.n

\* strcmp: the first difference decides, and the shorter text comes first.
Before(u, w) ==
    \E i \in 1..Len(w) : /\ \A j \in 1..(i - 1) : j <= Len(u) /\ u[j] = w[j]
                         /\ i > Len(u) \/ (i <= Len(u) /\ u[i] < w[i])

Lower(a, b) == IF a.t = "str" THEN Before(a.w, b.w) ELSE a.n < b.n

BinOp(op, a, b) ==
    LET nums == IsNum(a) /\ IsNum(b)
        same == nums \/ (a.t = "str" /\ b.t = "str")
    IN  CASE op = "+" /\ "str" \in {a.t, b.t} -> Str(Word(a) \o Word(b))
          [] op = "==" -> Truth(Equal(a, b))
          [] op = "!=" -> Truth(~Equal(a, b))
          [] op \in {"<", ">", "<=", ">="} ->
                 IF ~same THEN Err("types")
                 ELSE Truth(CASE op = "<"  -> Lower(a, b)
                              [] op = ">"  -> Lower(b, a)
                              [] op = "<=" -> ~Lower(b, a)
                              [] OTHER     -> ~Lower(a, b))
          [] ~nums /\ op \in {"+", "-", "*", "/", "%"} -> Err("types")
          [] nums /\ op = "+" /\ "str" \notin {a.t, b.t} -> Checked(a.n + b.n)
          [] nums /\ op = "-" -> Checked(a.n - b.n)
          [] nums /\ op = "*" -> Checked(a.n * b.n)
          [] nums /\ op \in {"/", "%"} ->
                 CASE b.n = 0 -> Err("zero")
                   [] b.n # 0 /\ op = "%" /\ a.t = "int" /\ b.t = "int" -> Num(Remainder(a.n, b.n))
                   [] OTHER -> Real

-------------------------------------------------------------------------------
(***************************************************************************)
(* The state: environments (each with the one it stands in, 0 for none), the *)
(* printed lines, it->cur_line, it->depth, the turns used, the jump under    *)
(* way, why, and the value a 반환 carries.                                   *)
(***************************************************************************)
Empty == [x \in {} |-> Nil]

Start == [env |-> << [up |-> 0, vars |-> Empty] >>, out |-> <<>>, line |-> 0, depth |-> 0,
          turns |-> 0, sig |-> "ok", why |-> "", ret |-> Nil]

Ok(st) == st.sig = "ok"
Jump(st, sig) == [st EXCEPT !.sig = sig]
Fail(st, why) == [st EXCEPT !.sig = "err", !.why = why]
Turn(st) == IF st.turns = MaxTurns THEN Jump(st, "long") ELSE [st EXCEPT !.turns = @ + 1]
\* A value that is an error becomes the jump of one.
Result(v, st) == IF v.t \in Errors THEN [v |-> Nil, s |-> Fail(st, v.t)] ELSE [v |-> v, s |-> st]

\* The innermost environment from i outwards that has x, 0 when none does.
RECURSIVE Holder(_, _, _)
Holder(x, i, st) ==
    IF i = 0 \/ x \in DOMAIN st.env[i].vars THEN i ELSE Holder(x, st.env[i].up, st)

Define(x, v, i, st) ==
    [st EXCEPT !.env[i].vars = [y \in DOMAIN @ \cup {x} |-> IF y = x THEN v ELSE @[y]]]

\* env_set_existing_or_define
Set(x, v, i, st) ==
    LET h == Holder(x, i, st) IN Define(x, v, IF h = 0 THEN i ELSE h, st)

Nested(st, up) == [st EXCEPT !.env = Append(@, [up |-> up, vars |-> Empty])]

RECURSIVE Eval(_, _, _), EvalArgs(_, _, _, _), Exec(_, _, _), ExecBlock(_, _, _),
          While(_, _, _), For(_, _, _), Through(_, _, _, _, _, _)

\* What an expression answers: a value, or nothing and the jump under way.
Gives(v, st) == [v |-> v, s |-> st]
Jumps(st) == Gives(Nil, st)

Fetch(x, h, st) == IF h = 0 THEN Result(Err("name"), st) ELSE Gives(st.env[h].vars[x], st)

Unop(op, a) ==
    CASE ~Ok(a.s) -> a
      [] Ok(a.s) /\ op = "not" -> Gives(Truth(~Truthy(a.v)), a.s)
      [] OTHER -> Result(IF IsNum(a.v) THEN Checked(-a.v.n) ELSE Err("types"), a.s)

Operands(op, a, b) == IF Ok(b.s) THEN Result(BinOp(op, a.v, b.v), b.s) ELSE b

\* 또는 and 그리고 leave their right side alone when the left one decides.
Binary(e, i, a) ==
    CASE ~Ok(a.s) \/ (e.x \in {"and", "or"} /\ Truthy(a.v) = (e.x = "or")) -> a
      [] Ok(a.s) /\ e.x \in {"and", "or"} /\ Truthy(a.v) # (e.x = "or") -> Eval(e.e[2], i, a.s)
      [] OTHER -> Operands(e.x, a, Eval(e.e[2], i, a.s))

\* apply_func: an environment with the parameters, inside the one the function was made in.
Bind(f, vs) ==
    [x \in {f.e[k].x : k \in 1..Len(f.e)} |->
        vs[CHOOSE k \in 1..Len(f.e) : f.e[k].x = x /\ \A m \in (k + 1)..Len(f.e) : f.e[m].x # x]]

Leave(st) == IF st.sig = "ret" THEN Gives(st.ret, Jump(st, "ok")) ELSE Jumps(st)

Enter(f, me, st) == IF st.depth > MaxDepth THEN Fail(st, "depth") ELSE ExecBlock(f.b[1], me, st)

Apply(f, up, vs, st) ==
    Leave([Enter(f, Len(st.env) + 1,
                   Turn([st EXCEPT !.env = Append(@, [up |-> up, vars |-> Bind(f, vs)]), !.depth = @ + 1]))
             EXCEPT !.depth = @ - 1])

Invoke(fn, vs) ==
    CASE ~Ok(fn.s) -> fn
      [] Ok(fn.s) /\ fn.v.t # "fn" -> Result(Err("types"), fn.s)
      [] OTHER -> IF Len(fn.v.f[1].e) # Len(vs) THEN Result(Err("args"), fn.s)
                  ELSE Apply(fn.v.f[1], fn.v.n, vs, fn.s)

\* call_node; b_print: one line for the call.
CallNode(e, i, args) ==
    CASE ~Ok(args.s) -> Jumps(args.s)
      [] Ok(args.s) /\ e.e[1] = Var("print") -> Gives(Nil, [args.s EXCEPT !.out = Append(@, args.v)])
      [] OTHER -> Invoke(Eval(e.e[1], i, args.s), args.v)

Eval(e, i, st) ==
    CASE e.k = "lit"  -> Gives(LitValue(e), st)
      [] e.k = "var"  -> Fetch(e.x, Holder(e.x, i, st), st)
      [] e.k = "un"   -> Unop(e.x, Eval(e.e[1], i, st))
      [] e.k = "bin"  -> Binary(e, i, Eval(e.e[1], i, st))
      [] e.k = "call" -> CallNode(e, i, EvalArgs(Tail(e.e), i, st, <<>>))

Further(es, i, r, vs) == IF Ok(r.s) THEN EvalArgs(es, i, r.s, Append(vs, r.v)) ELSE [v |-> vs, s |-> r.s]
EvalArgs(es, i, st, vs) ==
    IF es = <<>> THEN [v |-> vs, s |-> st] ELSE Further(Tail(es), i, Eval(es[1], i, st), vs)

\* exec_block: every N_STMT leaves its line in cur_line, and nothing takes it back.
ExecBlock(b, i, st) ==
    IF b = <<>> \/ ~Ok(st) THEN st
    ELSE ExecBlock(Tail(b), i,
                   Exec(b[1], i, IF b[1].line = 0 THEN st ELSE [st EXCEPT !.line = b[1].line]))

\* The statement s once its first expression has given r.
ExecWith(s, i, r) ==
    CASE ~Ok(r.s) -> r.s
      [] Ok(r.s) /\ s.k = "assign" -> Set(s.x, r.v, i, r.s)
      [] Ok(r.s) /\ s.k = "expr"   -> r.s
      [] Ok(r.s) /\ s.k = "if"     -> CASE Truthy(r.v)    -> ExecBlock(s.b[1], i, r.s)
                                       [] Len(s.b) = 2 /\ ~Truthy(r.v) -> ExecBlock(s.b[2], i, r.s)
                                       [] OTHER           -> r.s
      [] Ok(r.s) /\ s.k = "ret"    -> [Jump(r.s, "ret") EXCEPT !.ret = r.v]

Exec(s, i, st) ==
    CASE s.k \in {"brk", "cont"} -> Jump(st, s.k)
      [] s.k = "func"  -> Define(s.x, Value("fn", i, <<>>, <<s>>), i, st)
      [] s.k = "while" -> While(s, i, st)
      [] s.k = "for"   -> For(s, i, EvalArgs(s.e, i, st, <<>>))
      [] s.k = "ret" /\ s.e = <<>> -> [Jump(st, "ret") EXCEPT !.ret = Nil]
      [] OTHER -> ExecWith(s, i, Eval(s.e[1], i, st))

\* After a turn: 멈춤 and 계속 come to the innermost loop, whatever function it is in.
EndTurn(b) == IF b.sig \in {"brk", "cont"} THEN Jump(b, "ok") ELSE b

WhileTurn(s, i, b) == IF b.sig \in {"ok", "cont"} THEN While(s, i, EndTurn(b)) ELSE EndTurn(b)

\* The handler of a loop is set for the condition and the body alike.
WhileTest(s, i, c) ==
    CASE ~Ok(c.s) -> WhileTurn(s, i, c.s)
      [] Ok(c.s) /\ Truthy(c.v) -> WhileTurn(s, i, ExecBlock(s.b[1], i, Turn(c.s)))
      [] OTHER -> c.s

While(s, i, st) == WhileTest(s, i, Eval(s.e[1], i, st))

\* A range of integers: every turn has its own environment, and a next value past 64 bits is
\* past the end.  (Ranges of other numbers are not followed: the compiler refuses them.)
ForTurn(s, i, from, to, step, b) ==
    IF b.sig \in {"ok", "cont"} /\ from + step \in Ints
    THEN Through(s, i, from + step, to, step, EndTurn(b)) ELSE EndTurn(b)

Through(s, i, from, to, step, st) ==
    IF (IF step > 0 THEN from > to ELSE from < to) THEN st
    ELSE ForTurn(s, i, from, to, step,
                 ExecBlock(s.b[1], Len(st.env) + 1, Turn(Define(s.x, Num(from), Len(st.env) + 1, Nested(st, i)))))

For(s, i, r) ==
    CASE ~Ok(r.s) -> r.s
      [] Ok(r.s) /\ Len(r.v) = 3 /\ ~IsNum(r.v[3]) -> Fail(r.s, "types")
      [] Ok(r.s) /\ Len(r.v) = 3 /\ r.v[3].n = 0 -> Fail(r.s, "step")
      [] OTHER -> Through(s, i, r.v[1].n, r.v[2].n, IF Len(r.v) = 3 THEN r.v[3].n ELSE 1, r.s)

\* What running it shows: interp_run_source and finish_err.  Each printed line is the words of
\* its values.
Shown(st) == [k \in 1..Len(st.out) |-> [j \in 1..Len(st.out[k]) |-> Word(st.out[k][j])]]

Outcome(st) ==
    LET end == CASE st.sig \in {"ok", "ret"} -> "exit 0"
                 [] st.sig = "err"  -> st.why
                 [] st.sig = "long" -> "still running"
                 [] OTHER -> "break outside a loop"
    IN  [end |-> end, out |-> Shown(st),
         line |-> IF end \in {"exit 0", "still running"} THEN 0 ELSE st.line]

Interpret(b) == Outcome(ExecBlock(b, 1, Start))
===============================================================================
