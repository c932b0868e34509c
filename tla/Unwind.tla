------------------------------- MODULE Unwind -------------------------------
(***************************************************************************)
(* The interpreter's control (ganada-c/src/interp.c): the C frames of      *)
(* calls, blocks, loops and 시도, the chain of longjmp handlers they push, *)
(* the call depth, and the environments they hold by reference counts.     *)
(* Functions capture the environment they are made in; the collector       *)
(* (gc.c) frees functions nothing can reach and gives their references     *)
(* back.                                                                   *)
(*                                                                         *)
(* What a program does is left open: at any moment it may enter or leave   *)
(* a construct, make, store, forget or return a function, or throw.        *)
(***************************************************************************)
EXTENDS Integers, Sequences, FiniteSets

CONSTANTS
    Envs,       \* environments: the pool hands them out again
    G,          \* the global one
    NoEnv,
    Funcs,      \* function objects
    NoFunc,
    MaxFrames,  \* bound: frames on the C stack
    MaxCalls    \* the recursion limit (700 in the code)

ASSUME UnwindAssumption ==
    /\ G \in Envs /\ NoEnv \notin Envs /\ NoFunc \notin Funcs
    /\ IsFiniteSet(Envs) /\ IsFiniteSet(Funcs)
    /\ MaxFrames \in Nat /\ MaxCalls \in Nat

Codes == {"err", "ret", "brk", "cont"}          \* GS_ERR, GS_RET, GS_BRK, GS_CONT

\* A frame with a handler: env is the environment it holds a reference on, in
\* the one its caller runs in, prev the handler below, deep says that it is
\* counted in the depth (depth_added), fn is the function being called.
Frame == [kind : {"call", "block", "while", "for", "try", "catch"},
          env : Envs \cup {NoEnv}, in : Envs, prev : Nat, deep : BOOLEAN,
          fn : Funcs \cup {NoFunc}]

VARIABLES
    stack,      \* the frames, innermost last
    top,        \* it->top: the frame whose handler a throw jumps to
    depth,      \* it->depth
    mode,       \* "run", or the code being thrown
    parent, rc, vars,   \* of each environment; rc 0 means it is in the pool
    freeing,    \* the environment env_release is giving back, or NoEnv
    alloc, fenv,        \* the function objects there are, and what they capture
    retval      \* it->retval, when it is a function

control == <<stack, top, depth, mode>>
heap == <<parent, rc, vars, freeing, alloc, fenv, retval>>
vars_ == <<control, heap>>

TypeOK ==
    /\ stack \in Seq(Frame)
    /\ top \in Nat /\ depth \in Nat
    /\ mode \in Codes \cup {"run"}
    /\ parent \in [Envs -> Envs \cup {NoEnv}]
    /\ rc \in [Envs -> Nat]
    /\ vars \in [Envs -> SUBSET Funcs]
    /\ freeing \in Envs \cup {NoEnv}
    /\ alloc \subseteq Funcs
    /\ fenv \in [Funcs -> Envs]
    /\ retval \in Funcs \cup {NoFunc}

Init ==
    /\ stack = <<>> /\ top = 0 /\ depth = 0 /\ mode = "run"
    /\ parent = [e \in Envs |-> NoEnv]
    /\ rc = [e \in Envs |-> IF e = G THEN 1 ELSE 0]
    /\ vars = [e \in Envs |-> {}]
    /\ freeing = NoEnv
    /\ alloc = {} /\ fenv = [f \in Funcs |-> G] /\ retval = NoFunc

-----------------------------------------------------------------------------
Top == stack[Len(stack)]
Popped == SubSeq(stack, 1, Len(stack) - 1)

\* Between two turns of 반복 nothing of the program runs.
Waiting == stack # <<>> /\ Top.kind = "for" /\ Top.env = NoEnv

Running == mode = "run" /\ freeing = NoEnv /\ ~Waiting
RunningIn(kind) == Running /\ stack # <<>> /\ Top.kind = kind
BetweenTurns == mode = "run" /\ freeing = NoEnv /\ Waiting

\* The environment the next statement runs in.
CurEnv == IF stack = <<>> THEN G ELSE IF Top.env = NoEnv THEN Top.in ELSE Top.env

\* The environment e and those its names are looked up in after it.
Chain(e) ==
    {x \in Envs : \A S \in SUBSET Envs :
        (e \in S /\ \A y \in S : parent[y] = NoEnv \/ parent[y] \in S) => x \in S}

\* The functions the program can name.
Visible == UNION {vars[e] : e \in Chain(CurEnv)}

Pooled == {e \in Envs : rc[e] = 0}

\* Bound: the model's pool does not grow, so one environment is set aside for
\* the 잡기 of each 시도 that runs.
Spare == Cardinality(Pooled) > Cardinality({k \in 1 .. Len(stack) : stack[k].kind = "try"})

\* env_new(p): e comes from the pool with one reference, and p has one more; fs
\* are the functions put in its first variables.
EnvNew(e, p, fs) ==
    /\ e \in Pooled
    /\ parent' = [parent EXCEPT ![e] = p]
    /\ rc' = [rc EXCEPT ![e] = 1, ![p] = @ + 1]
    /\ vars' = [vars EXCEPT ![e] = fs]
    /\ UNCHANGED <<alloc, fenv>>

\* env_release(e) begins; ReleaseStep does the rest before anything else runs.
Release(e) ==
    /\ freeing' = e
    /\ UNCHANGED <<parent, rc, vars, alloc, fenv>>

\* One level of env_release: at 0 the environment goes to the pool and its
\* parent is released. What a pooled one still says is set anew by env_new
\* before it is read, so the model forgets it.
ReleaseStep ==
    /\ freeing # NoEnv
    /\ rc' = [rc EXCEPT ![freeing] = @ - 1]
    /\ IF rc[freeing] > 1
       THEN freeing' = NoEnv /\ UNCHANGED <<parent, vars>>
       ELSE /\ freeing' = parent[freeing]
            /\ parent' = [parent EXCEPT ![freeing] = NoEnv]
            /\ vars' = [vars EXCEPT ![freeing] = {}]
    /\ UNCHANGED <<control, alloc, fenv, retval>>

\* PUSH_H and POP_H
Push(kind, e, in, f) ==
    /\ Len(stack) < MaxFrames
    /\ stack' = Append(stack, [kind |-> kind, env |-> e, in |-> in, prev |-> top,
                               deep |-> FALSE, fn |-> f])
    /\ top' = Len(stack) + 1

Pop == stack' = Popped /\ top' = Top.prev

-----------------------------------------------------------------------------
(* Calls *)

\* apply_func: a new environment under the captured one; the arguments that
\* were left out are evaluated in it.
CallBegin(f) ==
    /\ Running /\ Spare /\ f \in Visible
    /\ \E e \in Envs, args \in SUBSET Visible :
           EnvNew(e, fenv[f], args) /\ Push("call", e, e, f)
    /\ UNCHANGED <<depth, mode, freeing, retval>>

\* The body begins: the depth is counted first and then held against the limit.
CallBody ==
    /\ RunningIn("call") /\ ~Top.deep
    /\ depth' = depth + 1
    /\ stack' = [stack EXCEPT ![Len(stack)].deep = TRUE]
    /\ mode' = IF depth + 1 > MaxCalls THEN "err" ELSE "run"
    /\ UNCHANGED <<top, heap>>

CallEnd ==
    /\ RunningIn("call") /\ Top.deep
    /\ depth' = depth - 1
    /\ Pop /\ Release(Top.env)
    /\ UNCHANGED <<mode, retval>>

\* Mutant of CallThrown: the depth goes down only when the function returned.
CallThrownDeep ==
    /\ depth' = IF Top.deep /\ mode = "ret" THEN depth - 1 ELSE depth
    /\ Pop /\ Release(Top.env)
    /\ mode' = IF mode = "ret" THEN "run" ELSE mode
    /\ UNCHANGED retval

\* A throw lands in apply_func: a 반환 ends here, anything else goes on.
CallThrown ==
    /\ depth' = IF Top.deep THEN depth - 1 ELSE depth
    /\ Pop /\ Release(Top.env)
    /\ mode' = IF mode = "ret" THEN "run" ELSE mode
    /\ UNCHANGED retval

-----------------------------------------------------------------------------
(* Blocks, loops and 시도 *)

BlockBegin ==
    /\ Running /\ Spare
    /\ \E e \in Envs : EnvNew(e, CurEnv, {}) /\ Push("block", e, CurEnv, NoFunc)
    /\ UNCHANGED <<depth, mode, freeing, retval>>

\* The end of a block, and of the part of 시도 after 잡기.
ScopeEnd ==
    /\ RunningIn("block") \/ RunningIn("catch")
    /\ Pop /\ Release(Top.env)
    /\ UNCHANGED <<depth, mode, retval>>

ScopeThrown ==
    /\ Pop /\ Release(Top.env)
    /\ UNCHANGED <<depth, mode, retval>>

Begin(kind) ==
    /\ Running /\ (kind = "try" => Spare) /\ Push(kind, NoEnv, CurEnv, NoFunc)
    /\ UNCHANGED <<depth, mode, heap>>

\* 동안 ends on its condition, 반복 between two turns, 시도 without an error.
End(kind) ==
    /\ IF kind = "for" THEN BetweenTurns ELSE RunningIn(kind)
    /\ Pop
    /\ UNCHANGED <<depth, mode, heap>>

\* A turn of 반복 has an environment of its own.
TurnBegin ==
    /\ BetweenTurns /\ Spare
    /\ \E e \in Envs : /\ EnvNew(e, CurEnv, {})
                       /\ stack' = [stack EXCEPT ![Len(stack)].env = e]
    /\ UNCHANGED <<top, depth, mode, freeing, retval>>

TurnEnd ==
    /\ RunningIn("for")
    /\ stack' = [stack EXCEPT ![Len(stack)].env = NoEnv]
    /\ Release(Top.env)
    /\ UNCHANGED <<top, depth, mode, retval>>

WhileThrown ==
    /\ IF mode = "cont" THEN UNCHANGED <<stack, top>> ELSE Pop
    /\ mode' = IF mode \in {"brk", "cont"} THEN "run" ELSE mode
    /\ UNCHANGED <<depth, heap>>

\* Mutants of ForThrown: 계속 leaves the turn's environment held; 멈춤 leaves
\* the handler.
ForThrownLeaks ==
    /\ IF mode = "cont"
       THEN stack' = [stack EXCEPT ![Len(stack)].env = NoEnv] /\ UNCHANGED <<top, heap>>
       ELSE /\ Pop
            /\ Release(Top.env) /\ UNCHANGED retval
    /\ mode' = IF mode \in {"brk", "cont"} THEN "run" ELSE mode
    /\ UNCHANGED depth

ForThrownKeeps ==
    /\ IF mode = "cont"
       THEN stack' = [stack EXCEPT ![Len(stack)].env = NoEnv] /\ UNCHANGED top
       ELSE stack' = Popped /\ top' = IF mode = "brk" THEN top ELSE Top.prev
    /\ mode' = IF mode \in {"brk", "cont"} THEN "run" ELSE mode
    /\ Release(Top.env)
    /\ UNCHANGED <<depth, retval>>

\* The turn's environment goes first, whatever was thrown.
ForThrown ==
    /\ IF mode = "cont"
       THEN stack' = [stack EXCEPT ![Len(stack)].env = NoEnv] /\ UNCHANGED top
       ELSE Pop
    /\ mode' = IF mode \in {"brk", "cont"} THEN "run" ELSE mode
    /\ Release(Top.env)
    /\ UNCHANGED <<depth, retval>>

\* 시도: an error is caught, and 잡기 runs in a scope of its own under a second
\* handler; anything else goes on.
TryThrown ==
    \/ /\ mode # "err" /\ Pop
       /\ UNCHANGED <<depth, mode, heap>>
    \/ /\ mode = "err" /\ mode' = "run"
       /\ \E e \in Envs : /\ EnvNew(e, Top.in, {})
                          /\ stack' = [stack EXCEPT ![Len(stack)] =
                                           [Top EXCEPT !.kind = "catch", !.env = e]]
       /\ UNCHANGED <<top, depth, freeing, retval>>

\* The code after setjmp, by what the frame is.
Land ==
    /\ mode # "run" /\ freeing = NoEnv /\ stack # <<>>
    /\ \/ Top.kind = "call" /\ CallThrown
       \/ Top.kind \in {"block", "catch"} /\ ScopeThrown
       \/ Top.kind = "while" /\ WhileThrown
       \/ Top.kind = "for" /\ ForThrown
       \/ Top.kind = "try" /\ TryThrown

\* g_throw: a longjmp to it->top drops every frame above it.
Throw(code) ==
    /\ Running /\ code # "ret"
    /\ mode' = code
    /\ stack' = SubSeq(stack, 1, top)
    /\ UNCHANGED <<top, depth, heap>>

\* 반환, with a function or with something else.
Return(f) ==
    /\ Running /\ f \in {NoFunc} \cup Visible
    /\ retval' = f
    /\ mode' = "ret"
    /\ stack' = SubSeq(stack, 1, top)
    /\ UNCHANGED <<top, depth, parent, rc, vars, freeing, alloc, fenv>>

\* Nothing on the stack: the program stops, or the REPL reads the next line.
NextLine ==
    /\ mode # "run" /\ freeing = NoEnv /\ stack = <<>>
    /\ mode' = "run"
    /\ UNCHANGED <<stack, top, depth, heap>>

-----------------------------------------------------------------------------
(* Functions as values, and the collector *)

\* 함수 or 람다: the new function holds the current environment and is stored
\* in a variable the program can see.
Make(f, at) ==
    /\ Running /\ f \notin alloc /\ at \in Chain(CurEnv)
    /\ alloc' = alloc \cup {f}
    /\ fenv' = [fenv EXCEPT ![f] = CurEnv]
    /\ rc' = [rc EXCEPT ![CurEnv] = @ + 1]
    /\ vars' = [vars EXCEPT ![at] = @ \cup {f}]
    /\ UNCHANGED <<control, parent, freeing, retval>>

\* The value of a call, or a function the program can name, is stored; a
\* variable is overwritten.
Keep(at, f) ==
    /\ Running /\ at \in Chain(CurEnv)
    /\ f \in Visible \cup ({retval} \ {NoFunc})
    /\ vars' = [vars EXCEPT ![at] = @ \cup {f}]
    /\ UNCHANGED <<control, parent, rc, freeing, alloc, fenv, retval>>

Forget(at, f) ==
    /\ Running /\ at \in Chain(CurEnv) /\ f \in vars[at]
    /\ vars' = [vars EXCEPT ![at] = @ \ {f}]
    /\ UNCHANGED <<control, parent, rc, freeing, alloc, fenv, retval>>

\* What gc.c marks: from the global environment, the stack and retval, up the
\* parents, down the variables, and from a function to what it captured.
HeldEnvs == {G} \cup ({stack[k].env : k \in 1 .. Len(stack)} \ {NoEnv})
                \cup {stack[k].in : k \in 1 .. Len(stack)}

\* Mutant of HeldFuncs: the return value is not one.
HeldFuncsNoRetval == {stack[k].fn : k \in 1 .. Len(stack)} \ {NoFunc}

HeldFuncs == ({retval} \cup {stack[k].fn : k \in 1 .. Len(stack)}) \ {NoFunc}

\* Sets of environments and functions a mark does not leave.
Closed(E, F) ==
    /\ HeldFuncs \subseteq F /\ HeldEnvs \subseteq E
    /\ \A e \in E : /\ parent[e] = NoEnv \/ parent[e] \in E
                    /\ vars[e] \subseteq F
    /\ \A f \in F : fenv[f] \in E

\* The mark is the least of them: f is not in it when one of them leaves f out.
Unmarked(f) == \E F \in SUBSET (Funcs \ {f}), E \in SUBSET Envs : Closed(E, F)

\* A collection frees a function it did not mark (a stale word on the stack
\* may keep any of them for a while).
Sweep(f) ==
    /\ Running /\ f \in alloc /\ Unmarked(f)
    /\ alloc' = alloc \ {f}
    /\ freeing' = fenv[f]
    /\ fenv' = [fenv EXCEPT ![f] = G]
    /\ UNCHANGED <<control, parent, rc, vars, retval>>

Next ==
    \/ ReleaseStep
    \/ \E f \in Funcs : CallBegin(f) \/ Sweep(f)
    \/ CallBody \/ CallEnd
    \/ BlockBegin \/ ScopeEnd
    \/ \E kind \in {"while", "for", "try"} : Begin(kind) \/ End(kind)
    \/ TurnBegin \/ TurnEnd
    \/ Land
    \/ \E code \in Codes : Throw(code)
    \/ \E f \in Funcs \cup {NoFunc} : Return(f)
    \/ NextLine
    \/ \E at \in Envs, f \in Funcs : Keep(at, f) \/ Make(f, at) \/ Forget(at, f)

Spec == Init /\ [][Next]_vars_

-----------------------------------------------------------------------------
(* Properties *)

\* The handler chain is the frames on the stack, on every way in and out: a
\* throw never jumps to a frame that is gone, nor over one that holds something.
ChainIsStack ==
    /\ top = Len(stack)
    /\ \A k \in 1 .. Len(stack) : stack[k].prev = k - 1

\* The depth counts the calls whose body runs, so that neither errors nor
\* 반환 nor 멈춤 wear the recursion limit down.
DepthExact ==
    depth = Cardinality({k \in 1 .. Len(stack) : stack[k].kind = "call" /\ stack[k].deep})

\* An environment's count is the number of frames, children and functions that
\* hold it: it reaches the pool exactly when nothing does.
CountsExact ==
    \A e \in Envs :
        rc[e] = Cardinality({k \in 1 .. Len(stack) : stack[k].env = e})
                + Cardinality({c \in Envs : rc[c] > 0 /\ parent[c] = e})
                + Cardinality({f \in alloc : fenv[f] = e})
                + (IF e = G THEN 1 ELSE 0)
                + (IF e = freeing THEN 1 ELSE 0)

\* What the program can still reach is there: functions not swept, and
\* environments not in the pool.
NothingDangles ==
    freeing = NoEnv =>
        \E F \in SUBSET alloc, E \in SUBSET {e \in Envs : rc[e] > 0} : Closed(E, F)
=============================================================================
