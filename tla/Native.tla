-------------------------------- MODULE Native --------------------------------
(***************************************************************************)
(* The native program beside the interpreted one (codegen_llvm.c, na_rt.c): *)
(* what the emitted instructions do, and the promise at the head of the      *)
(* compiler, that a program it accepts prints the same, fails with the same  *)
(* words at the same line and exits with the same code as the interpreter.   *)
(*                                                                         *)
(* The variable is a program being written, the open blocks outermost first; *)
(* every program of a prologue and a bounded number of statements more is     *)
(* reached, and judged once its blocks are closed.                          *)
(***************************************************************************)
EXTENDS Parser, Interpreter, Compiler, FiniteSets

CONSTANTS Statements,           \* what Put may write
          Heads,                \* what Open may begin
          Prologues             \* what a program may begin with, and how many more may follow

ASSUME PrologueAssumption == \A p \in Prologues : p.more \in Nat

VARIABLE open

-------------------------------------------------------------------------------
(* The machine: the slots of the function that runs, @na_line, @na_depth, what is printed, the   *)
(* texts allocated and not yet freed.  sig is the branch under way, "ok" when there is none.     *)

Cell == [n |-> 0, w |-> <<>>, held |-> FALSE]       \* an alloca: 0 and a null pointer

Power(fns) == [fns |-> fns, frame |-> <<>>, out |-> <<>>, line |-> 0, depth |-> 0, turns |-> 0, sig |-> "ok",
               why |-> "", ret |-> 0, live |-> 0]

Frame(slots) == [i \in 1..Len(slots) |-> Cell]

Free(st, n) == [st EXCEPT !.live = @ - n]
Owners(cs) == Cardinality({i \in 1..Len(cs) : Owned(cs[i])})

\* The texts the slots of the running function hold.
Held(st) == Cardinality({i \in 1..Len(st.frame) : st.frame[i].held})

Cast(t, n) == IF t = "bool" THEN Truth(n # 0) ELSE Num(n)

\* srem, and the divisor added once when the signs differ; a divisor of -1 counts as 1.
NativeRemainder(a, b) ==
    LET r == Rem(a, IF b = -1 THEN 1 ELSE b)
    IN  IF r # 0 /\ ((r < 0) # (b < 0)) THEN r + b ELSE r

NativeBin(c, a, b) ==
    CASE c.x = "%" -> IF b.n = 0 THEN Err("zero") ELSE Num(NativeRemainder(a.n, b.n))
      [] c.x \in {"==", "!="} /\ (a.t = "str") # (b.t = "str") -> Truth(c.x = "!=")
      [] OTHER -> BinOp(c.x, a, b)

RECURSIVE Load(_, _), LoadAll(_, _, _), Run(_, _), Do(_, _), Loop(_, _), Count(_, _, _, _)

\* The contents of slot m as a value of type t.
Taken(t, m, st) ==
    CASE t # "str" -> Gives(Cast(t, m.n), st)
      [] t = "str" /\ m.held -> Gives(Str(m.w), st)
      [] OTHER -> Jumps(Fail(st, "crash"))

\* One operand.
Apply1(c, a) ==
    CASE ~Ok(a.s) -> a
      [] Ok(a.s) /\ c.k = "truth" -> Gives(Truth(Truthy(a.v)), Free(a.s, Owners(c.e)))
      [] Ok(a.s) /\ c.k = "not"   -> Gives(Truth(a.v.n = 0), a.s)
      [] Ok(a.s) /\ c.k = "neg"   -> Result(Checked(0 - a.v.n), a.s)

\* Two, both computed first.
Apply2(c, r) ==
    IF ~Ok(r.s) THEN Jumps(r.s)
    ELSE Result(NativeBin(c, r.v[1], r.v[2]), Free(r.s, Owners(c.e) - Owners(<<c>>)))

\* and, or: the second is computed when the first does not decide.
LoadRight(c, a) == IF ~Ok(a.s) \/ (a.v.n # 0) = (c.x = "or") THEN a ELSE Load(c.e[2], a.s)

\* A function: its own slots, @na_depth, and at its end the texts its slots hold freed.
Back(st, done) ==
    IF done.sig \in {"ok", "ret"}
    THEN Gives(Num(done.ret),
               [Jump(Free(done, Held(done)), "ok") EXCEPT !.depth = @ - 1, !.frame = st.frame])
    ELSE Jumps(done)

Callee(f, st) == IF st.depth > MaxDepth THEN Fail(st, "depth") ELSE Run(f.code, st)

CallNative(f, st, args) ==
    IF ~Ok(args.s) THEN Jumps(args.s)
    ELSE Back(st, Callee(f, Turn([args.s EXCEPT !.depth = @ + 1, !.ret = 0,
                                  !.frame = [i \in 1..Len(f.slots) |->
                                               IF i > Len(args.v) THEN Cell ELSE [Cell EXCEPT !.n = args.v[i].n]]])))

\* The value of an expression in the frame of st.
Load(c, st) ==
    CASE c.k = "const"  -> Gives(LitValue(Lit(c.x, c.n)), st)
      [] c.k = "load"   -> Taken(c.t, st.frame[c.n], st)
      [] c.k = "choose" -> LoadRight(c, Load(c.e[1], st))
      [] c.k = "bin"    -> Apply2(c, LoadAll(c.e, st, <<>>))
      [] c.k = "call"   -> CallNative(st.fns[c.x], st, LoadAll(c.e, st, <<>>))
      [] OTHER          -> Apply1(c, Load(c.e[1], st))

Onward(cs, r, vs) == IF Ok(r.s) THEN LoadAll(cs, r.s, Append(vs, r.v)) ELSE [v |-> vs, s |-> r.s]
LoadAll(cs, st, vs) ==
    IF cs = <<>> THEN [v |-> vs, s |-> st] ELSE Onward(Tail(cs), Load(cs[1], st), vs)

Run(b, st) == IF b = <<>> \/ ~Ok(st) THEN st ELSE Run(Tail(b), Do(b[1], st))

\* Mutated: a text that is a variable's is not copied.
StoreShares(c, v, st) ==
    IF c.t # "str" THEN [st EXCEPT !.frame[c.n].n = v.n]
    ELSE [Free(st, IF st.frame[c.n].held THEN 1 ELSE 0)
             EXCEPT !.frame[c.n] = [n |-> 0, w |-> v.w, held |-> TRUE]]

\* A slot takes a value; a text is copied unless it is the instruction's own, and the text the
\* slot held is freed.
Store(c, v, st) ==
    IF c.t # "str" THEN [st EXCEPT !.frame[c.n].n = v.n]
    ELSE [Free(st, Owners(c.e) - 1 + (IF st.frame[c.n].held THEN 1 ELSE 0))
             EXCEPT !.frame[c.n] = [n |-> 0, w |-> v.w, held |-> TRUE]]

\* The instruction c once its operands have given the values vs.
DoWith(c, vs, st) ==
    CASE c.k = "store" -> Store(c, vs[1], st)
      [] c.k = "print" -> Free([st EXCEPT !.out = Append(@, vs)], Owners(c.e))
      [] c.k = "drop"  -> Free(st, Owners(c.e))
      [] c.k = "if"    -> Run(c.b[IF vs[1].n # 0 THEN 1 ELSE 2], st)
      [] c.k = "for" /\ vs[3].n = 0 -> Fail(st, "step")
      [] c.k = "for" /\ vs[3].n # 0 -> Count(c, vs[2].n, vs[3].n, [st EXCEPT !.frame[c.n].n = vs[1].n])
      [] c.k = "ret"   -> Jump(IF c.x = "value" THEN [st EXCEPT !.ret = vs[1].n] ELSE Free(st, Owners(c.e)), "ret")

Fed(c, r) == IF Ok(r.s) THEN DoWith(c, r.v, r.s) ELSE r.s

Do(c, st) ==
    CASE c.k = "line"  -> [st EXCEPT !.line = c.n]
      [] c.k \in {"brk", "cont"} -> Jump(st, c.k)
      [] c.k = "while" -> Loop(c, st)
      [] OTHER -> Fed(c, LoadAll(c.e, st, <<>>))

\* A branch out of the body of a while: the condition is outside it.
Again(c, b) == IF b.sig \in {"ok", "cont"} THEN Loop(c, Jump(b, "ok")) ELSE EndTurn(b)
Tested(c, r) == IF ~Ok(r.s) \/ r.v.n = 0 THEN r.s ELSE Again(c, Run(c.b[1], Turn(r.s)))
Loop(c, st) == Tested(c, Load(c.e[1], st))

\* The counter is slot c.n, the loop variable the slot after it.
Counted(c, to, step, b) ==
    IF b.sig \in {"ok", "cont"} /\ b.frame[c.n].n + step \in Ints
    THEN Count(c, to, step, [Jump(b, "ok") EXCEPT !.frame[c.n].n = @ + step]) ELSE EndTurn(b)

Count(c, to, step, st) ==
    LET cur == st.frame[c.n].n
    IN  IF (IF step > 0 THEN cur > to ELSE cur < to) THEN st
        ELSE Counted(c, to, step, Run(c.b[1], Turn([st EXCEPT !.frame[c.n + 1].n = cur])))

Finished(code) == Run(code.main.code, [Power(code.fns) EXCEPT !.frame = Frame(code.main.slots)])

-------------------------------------------------------------------------------
(* Writing a program. *)

Block(head) == [head |-> head, items |-> <<>>]

RECURSIVE Size(_)
Size(b) == IF b = <<>> THEN 0
           ELSE 1 + Size(Tail(b)) + (IF Len(b[1].b) = 0 THEN 0
                                     ELSE Size(b[1].b[1]) + (IF Len(b[1].b) = 1 THEN 0 ELSE Size(b[1].b[2])))

RECURSIVE SizeOpen(_)
SizeOpen(fs) == IF fs = <<>> THEN 0
                ELSE Size(fs[1].items) + 1 + Size(fs[1].head.b[1]) + SizeOpen(Tail(fs))

\* Each statement on a line of its own.
NextLine == SizeOpen(open)

Here == open[Len(open)]

Whole(p) == Node("program", "", Size(p.items) + p.more, <<>>, << <<>> >>)

Init == \E p \in Prologues : open = <<[head |-> Whole(p), items |-> p.items]>>

Room == NextLine <= open[1].head.n

Write(s) == [open EXCEPT ![Len(open)].items = Append(@, [s EXCEPT !.line = NextLine])]

Put == /\ Room
       /\ \E s \in Statements : open' = Write(s)

\* A function is defined at the top: the compiler refuses the others.
Open == /\ Room
        /\ \E h \in Heads : /\ h.k = "func" => Len(open) = 1
                            /\ open' = Append(open, Block([h EXCEPT !.line = NextLine, !.b = << <<>> >>]))

Else == /\ Len(open) > 1 /\ Here.head.k = "if" /\ Here.head.b = << <<>> >> /\ Here.items # <<>>
        /\ Room
        /\ open' = [open EXCEPT ![Len(open)] = [head |-> [Here.head EXCEPT !.b = <<Here.items>>],
                                                items |-> <<>>]]

Close == /\ Len(open) > 1 /\ Here.items # <<>>
         /\ LET h == Here.head
                s == [h EXCEPT !.b = IF @ = << <<>> >> THEN <<Here.items>> ELSE Append(@, Here.items)]
            IN  open' = [SubSeq(open, 1, Len(open) - 1) EXCEPT ![Len(open) - 1].items = Append(@, s)]

Next == Put \/ Open \/ Else \/ Close

Spec == Init /\ [][Next]_open

Program == open[1].items
Complete == Len(open) = 1

-------------------------------------------------------------------------------
(* Properties *)

\* The promise at the head of codegen_llvm.c: what the compiler accepts prints the same lines,
\* stops with the same error at the same line and exits with the same code as the interpreter.
Agrees(code, prog) == code.ok => Outcome(Finished(code)) = Interpret(prog)
SameAnswer == Complete => Agrees(Compile(Program), Program)

\* The compiler's note on texts: a variable always has its own text, every other text is freed
\* once it is used.  A program that runs to its end leaves exactly the texts its variables hold.
Balanced(st) == Ok(st) => st.live = Held(st)
TextsBalance == Complete => LET code == Compile(Program) IN code.ok => Balanced(Finished(code))

\* parser.c reads back the tree a program was written from, each statement with its line, as long
\* as no statement runs on into the next (RunsOn): no token ends a statement.
ReadsBack(t, b) == Parsed(t) = Got([NoStatements EXCEPT !.e = b], Len(t))
ParsesBack == Complete /\ Separate(Program) => ReadsBack(Text(Program), Program)
===============================================================================
