---------------------------- MODULE UnwindProofs ----------------------------
(***************************************************************************)
(* Theorems about Unwind, for any program, any environments and any        *)
(* bounds: the frames, their handlers and the call depth, then the         *)
(* references on environments and what the collector may free.             *)
(***************************************************************************)
EXTENDS Unwind, SequenceTheorems, FiniteSetTheorems, TLAPS

-----------------------------------------------------------------------------
(* Sequences *)

LEMMA PushedFacts ==
    ASSUME NEW S, NEW s \in Seq(S), NEW x \in S
    PROVE  /\ Append(s, x) \in Seq(S)
           /\ Len(s) \in Nat
           /\ Len(Append(s, x)) = Len(s) + 1
           /\ Append(s, x)[Len(s) + 1] = x
           /\ \A k \in 1 .. Len(s) : Append(s, x)[k] = s[k]
OBVIOUS

LEMMA PoppedFacts ==
    ASSUME NEW S, NEW s \in Seq(S), s # <<>>
    PROVE  /\ SubSeq(s, 1, Len(s) - 1) \in Seq(S)
           /\ Len(s) \in Nat \ {0}
           /\ Len(SubSeq(s, 1, Len(s) - 1)) = Len(s) - 1
           /\ \A k \in 1 .. Len(s) - 1 : SubSeq(s, 1, Len(s) - 1)[k] = s[k]
           /\ s[Len(s)] \in S
<1>1. Len(s) \in Nat \ {0} /\ \A k \in 1 .. Len(s) : s[k] \in S
  OBVIOUS
<1>2. PICK n \in Nat : n = Len(s) - 1
  BY <1>1
<1>3. 1 \in Int /\ n \in Int /\ \A k \in 1 .. n : s[k] \in S
  BY <1>1, <1>2
<1>4. /\ SubSeq(s, 1, n) \in Seq(S)
      /\ Len(SubSeq(s, 1, n)) = IF 1 <= n THEN n - 1 + 1 ELSE 0
      /\ \A k \in 1 .. n - 1 + 1 : SubSeq(s, 1, n)[k] = s[1 + k - 1]
  BY <1>3, SubSeqProperties
<1>5. Len(SubSeq(s, 1, n)) = n /\ n - 1 + 1 = n /\ \A k \in 1 .. n : 1 + k - 1 = k
  BY <1>2, <1>4
<1> QED
  BY <1>1, <1>2, <1>4, <1>5

LEMMA WholeSequence ==
    ASSUME NEW S, NEW s \in Seq(S)
    PROVE  SubSeq(s, 1, Len(s)) = s
OBVIOUS

LEMMA ReplacedFacts ==
    ASSUME NEW S, NEW s \in Seq(S), s # <<>>, NEW x \in S
    PROVE  /\ [s EXCEPT ![Len(s)] = x] \in Seq(S)
           /\ Len([s EXCEPT ![Len(s)] = x]) = Len(s)
           /\ [s EXCEPT ![Len(s)] = x][Len(s)] = x
           /\ \A k \in 1 .. Len(s) : k # Len(s) => [s EXCEPT ![Len(s)] = x][k] = s[k]
OBVIOUS

-----------------------------------------------------------------------------
(* Frames whose body runs *)

IsDeep(f) == f.kind = "call" /\ f.deep

DeepAt(s) == {k \in 1 .. Len(s) : IsDeep(s[k])}

LEMMA DeepFinite ==
    ASSUME NEW s \in Seq(Frame)
    PROVE  IsFiniteSet(DeepAt(s)) /\ Cardinality(DeepAt(s)) \in Nat
<1>1. Len(s) \in Nat
  OBVIOUS
<1>2. IsFiniteSet(1 .. Len(s))
  BY <1>1, FS_Interval
<1>3. DeepAt(s) \subseteq 1 .. Len(s)
  BY DEF DeepAt
<1> QED
  BY <1>2, <1>3, FS_Subset, FS_CardinalityType

LEMMA DeepPushed ==
    ASSUME NEW s \in Seq(Frame), NEW f \in Frame, ~IsDeep(f)
    PROVE  DeepAt(Append(s, f)) = DeepAt(s)
BY PushedFacts DEF DeepAt

LEMMA DeepPopped ==
    ASSUME NEW s \in Seq(Frame), s # <<>>
    PROVE  Cardinality(DeepAt(SubSeq(s, 1, Len(s) - 1))) =
               IF IsDeep(s[Len(s)]) THEN Cardinality(DeepAt(s)) - 1 ELSE Cardinality(DeepAt(s))
<1> DEFINE t == SubSeq(s, 1, Len(s) - 1)
<1>1. /\ Len(s) \in Nat \ {0} /\ Len(t) = Len(s) - 1
      /\ \A k \in 1 .. Len(s) - 1 : t[k] = s[k]
  BY PoppedFacts
<1> HIDE DEF t
<1>2. DeepAt(t) = DeepAt(s) \ {Len(s)}
  BY <1>1 DEF DeepAt
<1>3. Len(s) \in DeepAt(s) <=> IsDeep(s[Len(s)])
  BY <1>1 DEF DeepAt
<1>4. IsFiniteSet(DeepAt(s)) /\ Cardinality(DeepAt(s)) \in Nat
  BY DeepFinite
<1>5. Cardinality(DeepAt(t)) =
          IF Len(s) \in DeepAt(s) THEN Cardinality(DeepAt(s)) - 1 ELSE Cardinality(DeepAt(s))
  BY <1>2, <1>4, FS_RemoveElement
<1> QED
  BY <1>3, <1>5 DEF t

LEMMA DeepReplaced ==
    ASSUME NEW s \in Seq(Frame), s # <<>>, NEW f \in Frame, ~IsDeep(s[Len(s)])
    PROVE  Cardinality(DeepAt([s EXCEPT ![Len(s)] = f])) =
               IF IsDeep(f) THEN Cardinality(DeepAt(s)) + 1 ELSE Cardinality(DeepAt(s))
<1> DEFINE t == [s EXCEPT ![Len(s)] = f]
<1>1. /\ Len(s) \in Nat \ {0} /\ Len(t) = Len(s) /\ t[Len(s)] = f
      /\ \A k \in 1 .. Len(s) : k # Len(s) => t[k] = s[k]
  BY ReplacedFacts, PoppedFacts
<1> HIDE DEF t
<1>2. Len(s) \notin DeepAt(s)
  BY DEF DeepAt
<1>3. DeepAt(t) = IF IsDeep(f) THEN DeepAt(s) \cup {Len(s)} ELSE DeepAt(s)
  BY <1>1, <1>2 DEF DeepAt
<1>4. IsFiniteSet(DeepAt(s)) /\ Cardinality(DeepAt(s)) \in Nat
  BY DeepFinite
<1>5. Cardinality(DeepAt(s) \cup {Len(s)}) = Cardinality(DeepAt(s)) + 1
  BY <1>2, <1>4, FS_AddElement
<1> QED
  BY <1>3, <1>5 DEF t

-----------------------------------------------------------------------------
(* The inductive invariant *)

ControlInv ==
    /\ stack \in Seq(Frame)
    /\ top = Len(stack)
    /\ \A k \in 1 .. Len(stack) : stack[k].prev = k - 1
    /\ depth = Cardinality(DeepAt(stack))

LEMMA FramePushed ==
    ASSUME ControlInv, NEW f \in Frame, ~IsDeep(f), f.prev = top,
           stack' = Append(stack, f), top' = Len(stack) + 1, depth' = depth
    PROVE  ControlInv'
<1>1. /\ stack \in Seq(Frame) /\ Len(stack) \in Nat
      /\ stack' \in Seq(Frame) /\ Len(stack') = Len(stack) + 1
      /\ stack'[Len(stack) + 1] = f /\ \A k \in 1 .. Len(stack) : stack'[k] = stack[k]
  BY PushedFacts DEF ControlInv
<1>2. \A k \in 1 .. Len(stack') : stack'[k].prev = k - 1
  BY <1>1 DEF ControlInv
<1>3. DeepAt(stack') = DeepAt(stack)
  BY <1>1, DeepPushed
<1> QED
  BY <1>1, <1>2, <1>3 DEF ControlInv

LEMMA FramePopped ==
    ASSUME ControlInv, stack # <<>>, Pop,
           depth' = IF IsDeep(Top) THEN depth - 1 ELSE depth
    PROVE  ControlInv'
<1>1. stack' = SubSeq(stack, 1, Len(stack) - 1) /\ top' = stack[Len(stack)].prev
  BY DEF Pop, Popped, Top
<1>2. /\ stack \in Seq(Frame) /\ Len(stack) \in Nat \ {0}
      /\ stack' \in Seq(Frame) /\ Len(stack') = Len(stack) - 1
      /\ \A k \in 1 .. Len(stack) - 1 : stack'[k] = stack[k]
  BY <1>1, PoppedFacts DEF ControlInv
<1>3. top' = Len(stack) - 1
  BY <1>1, <1>2 DEF ControlInv
<1>4. \A k \in 1 .. Len(stack') : stack'[k].prev = k - 1
  BY <1>2 DEF ControlInv
<1>5. depth' = Cardinality(DeepAt(stack'))
  BY <1>1, <1>2, DeepPopped DEF ControlInv, Top
<1> QED
  BY <1>2, <1>3, <1>4, <1>5 DEF ControlInv

LEMMA FrameReplaced ==
    ASSUME ControlInv, stack # <<>>, NEW f \in Frame, f.prev = Top.prev, ~IsDeep(Top),
           stack' = [stack EXCEPT ![Len(stack)] = f], top' = top,
           depth' = IF IsDeep(f) THEN depth + 1 ELSE depth
    PROVE  ControlInv'
<1>1. /\ stack \in Seq(Frame) /\ Len(stack) \in Nat \ {0}
      /\ stack' \in Seq(Frame) /\ Len(stack') = Len(stack) /\ stack'[Len(stack)] = f
      /\ \A k \in 1 .. Len(stack) : k # Len(stack) => stack'[k] = stack[k]
  BY ReplacedFacts, PoppedFacts DEF ControlInv
<1>2. \A k \in 1 .. Len(stack') : stack'[k].prev = k - 1
  BY <1>1 DEF ControlInv, Top
<1>3. depth' = Cardinality(DeepAt(stack'))
  BY <1>1, DeepReplaced DEF ControlInv, Top
<1> QED
  BY <1>1, <1>2, <1>3 DEF ControlInv

LEMMA TopTyped ==
    ASSUME ControlInv, stack # <<>>
    PROVE  Top \in Frame
BY PoppedFacts DEF ControlInv, Top

LEMMA CurEnvTyped ==
    ASSUME ControlInv
    PROVE  CurEnv \in Envs
<1>1. CASE stack = <<>>
  BY <1>1, UnwindAssumption DEF CurEnv, UnwindAssumption
<1>2. CASE stack # <<>>
  BY <1>2, TopTyped DEF CurEnv, Frame
<1> QED
  BY <1>1, <1>2

\* A throw drops no frame that has a handler.
LEMMA ThrowKeepsFrames ==
    ASSUME ControlInv, stack' = SubSeq(stack, 1, top), UNCHANGED <<top, depth>>
    PROVE  ControlInv'
<1>1. stack' = stack
  BY WholeSequence DEF ControlInv
<1> QED
  BY <1>1 DEF ControlInv

LEMMA PushControl ==
    ASSUME ControlInv, NEW kind \in {"call", "block", "while", "for", "try"},
           NEW e \in Envs \cup {NoEnv}, NEW in \in Envs, NEW f \in Funcs \cup {NoFunc},
           Push(kind, e, in, f), depth' = depth
    PROVE  ControlInv'
<1> DEFINE g == [kind |-> kind, env |-> e, in |-> in, prev |-> top, deep |-> FALSE, fn |-> f]
<1>1. top \in Nat
  BY DEF ControlInv
<1>2. g \in Frame /\ ~IsDeep(g) /\ g.prev = top
  BY <1>1 DEF Frame, IsDeep
<1>3. stack' = Append(stack, g) /\ top' = Len(stack) + 1
  BY DEF Push
<1> HIDE DEF g
<1> QED
  BY <1>2, <1>3, FramePushed

\* Landing: the code after setjmp in each kind of frame.
LEMMA LandControl ==
    ASSUME ControlInv, Land
    PROVE  ControlInv'
<1>1. stack # <<>> /\ Top \in Frame
  BY TopTyped DEF Land
<1>2. CASE Top.kind = "call" /\ CallThrown
  BY <1>1, <1>2, FramePopped DEF CallThrown, IsDeep
<1>3. CASE Top.kind \in {"block", "catch"} /\ ScopeThrown
  BY <1>1, <1>3, FramePopped DEF ScopeThrown, IsDeep
<1>4. CASE Top.kind = "while" /\ WhileThrown
  <2>1. CASE UNCHANGED <<stack, top, depth>>
    BY <2>1 DEF ControlInv
  <2>2. CASE Pop
    BY <1>1, <1>4, <2>2, FramePopped DEF WhileThrown, IsDeep
  <2> QED
    BY <1>4, <2>1, <2>2 DEF WhileThrown
<1>5. CASE Top.kind = "for" /\ ForThrown
  <2> DEFINE g == [Top EXCEPT !.env = NoEnv]
  <2>1. g \in Frame /\ g.prev = Top.prev /\ ~IsDeep(g) /\ ~IsDeep(Top)
    BY <1>1, <1>5 DEF Frame, IsDeep
  <2>2. CASE stack' = [stack EXCEPT ![Len(stack)].env = NoEnv] /\ UNCHANGED top
    <3>1. stack' = [stack EXCEPT ![Len(stack)] = g]
      BY <2>2 DEF Top
    <3> HIDE DEF g
    <3> QED
      BY <1>1, <1>5, <2>1, <2>2, <3>1, FrameReplaced DEF ForThrown
  <2>3. CASE Pop
    BY <1>1, <1>5, <2>1, <2>3, FramePopped DEF ForThrown
  <2> QED
    BY <1>5, <2>2, <2>3 DEF ForThrown
<1>6. CASE Top.kind = "try" /\ TryThrown
  <2>1. CASE Pop /\ UNCHANGED depth
    BY <1>1, <1>6, <2>1, FramePopped DEF IsDeep
  <2>2. ASSUME NEW e \in Envs, UNCHANGED <<top, depth>>,
               stack' = [stack EXCEPT ![Len(stack)] = [Top EXCEPT !.kind = "catch", !.env = e]]
        PROVE  ControlInv'
    <3> DEFINE g == [Top EXCEPT !.kind = "catch", !.env = e]
    <3>1. g \in Frame /\ g.prev = Top.prev /\ ~IsDeep(g) /\ ~IsDeep(Top)
      BY <1>1, <1>6 DEF Frame, IsDeep
    <3>2. stack' = [stack EXCEPT ![Len(stack)] = g]
      BY <2>2
    <3> HIDE DEF g
    <3> QED
      BY <1>1, <2>2, <3>1, <3>2, FrameReplaced
  <2> QED
    BY <1>6, <2>1, <2>2 DEF TryThrown
<1> QED
  BY <1>2, <1>3, <1>4, <1>5, <1>6 DEF Land

LEMMA ControlStep ==
    ASSUME ControlInv, [Next]_vars_
    PROVE  ControlInv'
<1>1. ASSUME NEW f \in Funcs, CallBegin(f) PROVE ControlInv'
  <2>1. PICK e \in Envs : Push("call", e, e, f)
    BY <1>1 DEF CallBegin
  <2> QED
    BY <1>1, <2>1, PushControl DEF CallBegin
<1>2. ASSUME CallBody PROVE ControlInv'
  <2> DEFINE g == [Top EXCEPT !.deep = TRUE]
  <2>1. stack # <<>> /\ Top \in Frame /\ Top.kind = "call" /\ ~Top.deep
    BY <1>2, TopTyped DEF CallBody, RunningIn
  <2>2. g \in Frame /\ g.prev = Top.prev /\ IsDeep(g) /\ ~IsDeep(Top)
    BY <2>1 DEF Frame, IsDeep
  <2>3. stack' = [stack EXCEPT ![Len(stack)] = g]
    BY <1>2 DEF CallBody, Top
  <2> HIDE DEF g
  <2> QED
    BY <1>2, <2>1, <2>2, <2>3, FrameReplaced DEF CallBody
<1>3. ASSUME CallEnd PROVE ControlInv'
  BY <1>3, FramePopped DEF CallEnd, RunningIn, IsDeep
<1>4. ASSUME BlockBegin PROVE ControlInv'
  <2>1. PICK e \in Envs : Push("block", e, CurEnv, NoFunc)
    BY <1>4 DEF BlockBegin
  <2>2. PICK c \in Envs : c = CurEnv
    BY CurEnvTyped
  <2> QED
    BY <1>4, <2>1, <2>2, PushControl DEF BlockBegin
<1>5. ASSUME ScopeEnd PROVE ControlInv'
  BY <1>5, FramePopped DEF ScopeEnd, RunningIn, IsDeep
<1>6. ASSUME NEW kind \in {"while", "for", "try"}, Begin(kind) PROVE ControlInv'
  BY <1>6, CurEnvTyped, PushControl DEF Begin
<1>7. ASSUME NEW kind \in {"while", "for", "try"}, End(kind) PROVE ControlInv'
  <2>1. stack # <<>> /\ Top.kind = kind
    BY <1>7 DEF End, RunningIn, BetweenTurns, Waiting
  <2> QED
    BY <1>7, <2>1, FramePopped DEF End, IsDeep
<1>8. ASSUME TurnBegin PROVE ControlInv'
  <2>1. stack # <<>> /\ Top \in Frame /\ Top.kind = "for"
    BY <1>8, TopTyped DEF TurnBegin, BetweenTurns, Waiting
  <2>2. PICK e \in Envs : stack' = [stack EXCEPT ![Len(stack)].env = e]
    BY <1>8 DEF TurnBegin
  <2> DEFINE g == [Top EXCEPT !.env = e]
  <2>3. g \in Frame /\ g.prev = Top.prev /\ ~IsDeep(g) /\ ~IsDeep(Top)
    BY <2>1 DEF Frame, IsDeep
  <2>4. stack' = [stack EXCEPT ![Len(stack)] = g]
    BY <2>2 DEF Top
  <2> HIDE DEF g
  <2> QED
    BY <1>8, <2>1, <2>3, <2>4, FrameReplaced DEF TurnBegin
<1>9. ASSUME TurnEnd PROVE ControlInv'
  <2> DEFINE g == [Top EXCEPT !.env = NoEnv]
  <2>1. stack # <<>> /\ Top \in Frame /\ Top.kind = "for"
    BY <1>9, TopTyped DEF TurnEnd, RunningIn
  <2>2. g \in Frame /\ g.prev = Top.prev /\ ~IsDeep(g) /\ ~IsDeep(Top)
    BY <2>1 DEF Frame, IsDeep
  <2>3. stack' = [stack EXCEPT ![Len(stack)] = g]
    BY <1>9 DEF TurnEnd, Top
  <2> HIDE DEF g
  <2> QED
    BY <1>9, <2>1, <2>2, <2>3, FrameReplaced DEF TurnEnd
<1>10. ASSUME Land PROVE ControlInv'
  BY <1>10, LandControl
<1>11. ASSUME NEW code \in Codes, Throw(code) PROVE ControlInv'
  BY <1>11, ThrowKeepsFrames DEF Throw
<1>12. ASSUME NEW f, Return(f) PROVE ControlInv'
  BY <1>12, ThrowKeepsFrames DEF Return
<1>13. CASE UNCHANGED <<stack, top, depth>>
  BY <1>13 DEF ControlInv
<1>14. ASSUME ReleaseStep \/ NextLine \/ (\E f \in Funcs : Sweep(f))
              \/ \E at \in Envs, f \in Funcs : Keep(at, f) \/ Make(f, at) \/ Forget(at, f)
       PROVE  UNCHANGED <<stack, top, depth>>
  BY <1>14 DEF ReleaseStep, NextLine, Sweep, Keep, Make, Forget, control
<1> QED
  BY <1>1, <1>2, <1>3, <1>4, <1>5, <1>6, <1>7, <1>8, <1>9, <1>10, <1>11, <1>12, <1>13, <1>14
     DEF Next, vars_, control

LEMMA ControlInit == Init => ControlInv
<1> SUFFICES ASSUME Init PROVE ControlInv
  OBVIOUS
<1>1. stack = <<>> /\ Len(stack) = 0 /\ top = 0 /\ depth = 0
  BY DEF Init
<1>2. DeepAt(stack) = {}
  BY <1>1 DEF DeepAt
<1>3. Cardinality(DeepAt(stack)) = 0
  BY <1>2, FS_EmptySet
<1>4. stack \in Seq(Frame)
  BY <1>1
<1>5. \A k \in 1 .. Len(stack) : stack[k].prev = k - 1
  BY <1>1
<1> QED
  BY <1>1, <1>3, <1>4, <1>5 DEF ControlInv

LEMMA ControlHolds == Spec => []ControlInv
BY ControlInit, ControlStep, PTL DEF Spec

\* On every way in and out of a call, a block, a loop and a 시도 the chain of
\* handlers is exactly the frames on the stack: no longjmp reaches a frame that
\* is gone, and none passes over one that still holds something.
THEOREM HandlersAreFrames == Spec => []ChainIsStack
<1>1. ControlInv => ChainIsStack
  BY DEF ControlInv, ChainIsStack
<1> QED
  BY <1>1, ControlHolds, PTL

\* The call depth is the number of calls whose body runs, whatever was thrown
\* through them: the recursion limit neither wears down nor drifts up.
THEOREM DepthIsExact == Spec => []DepthExact
<1>1. ControlInv => DepthExact
  BY DEF ControlInv, DepthExact, DeepAt, IsDeep
<1> QED
  BY <1>1, ControlHolds, PTL

-----------------------------------------------------------------------------
(* The inductive invariant of the environments *)

HeapTyped ==
    /\ mode \in Codes \cup {"run"}
    /\ parent \in [Envs -> Envs \cup {NoEnv}]
    /\ rc \in [Envs -> Nat]
    /\ vars \in [Envs -> SUBSET Funcs]
    /\ freeing \in Envs \cup {NoEnv}
    /\ alloc \subseteq Funcs
    /\ fenv \in [Funcs -> Envs]
    /\ retval \in Funcs \cup {NoFunc}

\* What a frame holds: 동안 and 시도 nothing, and the environment that a
\* construct stands in is held by a frame below it, a call's by itself.
FramesSound(s) ==
    /\ \A k \in 1 .. Len(s) : s[k].kind \in {"while", "try"} => s[k].env = NoEnv
    /\ \A k \in 1 .. Len(s) :
          \/ s[k].in = G
          \/ \E j \in 1 .. k : s[j].env = s[k].in /\ (j = k => s[k].kind = "call")

Alive == {e \in Envs : rc[e] > 0}

\* NothingDangles at every moment, the middle of env_release included.
ReachInv == \E F \in SUBSET alloc, E \in SUBSET Alive : Closed(E, F)

UnwindInv == HeapTyped /\ ControlInv /\ FramesSound(stack) /\ CountsExact /\ ReachInv

-----------------------------------------------------------------------------
(* What frames hold *)

FramesOn(s, e) == {k \in 1 .. Len(s) : s[k].env = e}
EnvsOf(s) == ({s[k].env : k \in 1 .. Len(s)} \ {NoEnv}) \cup {s[k].in : k \in 1 .. Len(s)}
FuncsOf(s) == {s[k].fn : k \in 1 .. Len(s)} \ {NoFunc}

\* The frames with one more, and with another innermost one.
Pushed(s, f) == Append(s, f)
Replaced(s, f) == [s EXCEPT ![Len(s)] = f]

\* The references on e that one frame has.
Holds(f, e) == IF f.env = e THEN 1 ELSE 0

LEMMA FramesFinite ==
    ASSUME NEW s \in Seq(Frame), NEW e
    PROVE  IsFiniteSet(FramesOn(s, e)) /\ Cardinality(FramesOn(s, e)) \in Nat
<1>1. Len(s) \in Nat
  OBVIOUS
<1>2. IsFiniteSet(1 .. Len(s))
  BY <1>1, FS_Interval
<1>3. FramesOn(s, e) \subseteq 1 .. Len(s)
  BY DEF FramesOn
<1> QED
  BY <1>2, <1>3, FS_Subset, FS_CardinalityType

LEMMA PushHolds ==
    ASSUME NEW s \in Seq(Frame), NEW f \in Frame, NEW t, t = Pushed(s, f), NEW e
    PROVE  /\ Cardinality(FramesOn(t, e)) = Cardinality(FramesOn(s, e)) + Holds(f, e)
           /\ EnvsOf(t) = EnvsOf(s) \cup {f.in} \cup ({f.env} \ {NoEnv})
           /\ FuncsOf(t) = FuncsOf(s) \cup ({f.fn} \ {NoFunc})
<1>1. /\ Len(s) \in Nat /\ Len(t) = Len(s) + 1 /\ t[Len(s) + 1] = f
      /\ \A k \in 1 .. Len(s) : t[k] = s[k]
  BY PushedFacts DEF Pushed
<1>2. Cardinality(FramesOn(t, e)) = Cardinality(FramesOn(s, e)) + Holds(f, e)
  <2>1. IsFiniteSet(FramesOn(s, e)) /\ Cardinality(FramesOn(s, e)) \in Nat
    BY FramesFinite
  <2>2. Len(s) + 1 \notin FramesOn(s, e)
    BY <1>1 DEF FramesOn
  <2>3. FramesOn(t, e) = IF f.env = e THEN FramesOn(s, e) \cup {Len(s) + 1} ELSE FramesOn(s, e)
    BY <1>1 DEF FramesOn
  <2>4. Cardinality(FramesOn(s, e) \cup {Len(s) + 1}) = Cardinality(FramesOn(s, e)) + 1
    BY <2>1, <2>2, FS_AddElement
  <2>5. CASE f.env = e
    BY <2>3, <2>4, <2>5 DEF Holds
  <2>6. CASE f.env # e
    BY <2>1, <2>3, <2>6 DEF Holds
  <2> QED
    BY <2>5, <2>6
<1>3. 1 .. Len(t) = (1 .. Len(s)) \cup {Len(s) + 1}
  BY <1>1
<1>4. EnvsOf(t) = EnvsOf(s) \cup {f.in} \cup ({f.env} \ {NoEnv})
  BY <1>1, <1>3 DEF EnvsOf
<1>5. FuncsOf(t) = FuncsOf(s) \cup ({f.fn} \ {NoFunc})
  BY <1>1, <1>3 DEF FuncsOf
<1> QED
  BY <1>2, <1>4, <1>5

LEMMA PopHolds ==
    ASSUME NEW s \in Seq(Frame), s # <<>>, NEW t, t = SubSeq(s, 1, Len(s) - 1),
           NEW e
    PROVE  /\ Cardinality(FramesOn(s, e)) = Cardinality(FramesOn(t, e)) + Holds(s[Len(s)], e)
           /\ EnvsOf(t) \subseteq EnvsOf(s) /\ FuncsOf(t) \subseteq FuncsOf(s)
<1>1. /\ Len(s) \in Nat \ {0} /\ Len(t) = Len(s) - 1 /\ t \in Seq(Frame)
      /\ \A k \in 1 .. Len(s) - 1 : t[k] = s[k]
  BY PoppedFacts
<1>2. Cardinality(FramesOn(s, e)) = Cardinality(FramesOn(t, e)) + Holds(s[Len(s)], e)
  <2>1. IsFiniteSet(FramesOn(t, e)) /\ Cardinality(FramesOn(t, e)) \in Nat
    BY <1>1, FramesFinite
  <2>2. Len(s) \notin FramesOn(t, e)
    BY <1>1 DEF FramesOn
  <2>3. FramesOn(s, e) =
            IF s[Len(s)].env = e THEN FramesOn(t, e) \cup {Len(s)} ELSE FramesOn(t, e)
    BY <1>1 DEF FramesOn
  <2>4. Cardinality(FramesOn(t, e) \cup {Len(s)}) = Cardinality(FramesOn(t, e)) + 1
    BY <2>1, <2>2, FS_AddElement
  <2>5. CASE s[Len(s)].env = e
    BY <2>3, <2>4, <2>5 DEF Holds
  <2>6. CASE s[Len(s)].env # e
    BY <2>1, <2>3, <2>6 DEF Holds
  <2> QED
    BY <2>5, <2>6
<1>3. \A k \in 1 .. Len(t) : k \in 1 .. Len(s) /\ t[k] = s[k]
  BY <1>1
<1> QED
  BY <1>2, <1>3 DEF EnvsOf, FuncsOf

LEMMA ReplaceHolds ==
    ASSUME NEW s \in Seq(Frame), s # <<>>, NEW f \in Frame, NEW t, t = Replaced(s, f),
           f.in = s[Len(s)].in, f.fn = s[Len(s)].fn, NEW e
    PROVE  /\ Cardinality(FramesOn(t, e)) + Holds(s[Len(s)], e) =
                  Cardinality(FramesOn(s, e)) + Holds(f, e)
           /\ EnvsOf(t) \subseteq EnvsOf(s) \cup ({f.env} \ {NoEnv})
           /\ FuncsOf(t) = FuncsOf(s)
<1>1. /\ Len(s) \in Nat \ {0} /\ Len(t) = Len(s) /\ t[Len(s)] = f /\ t \in Seq(Frame)
      /\ \A k \in 1 .. Len(s) : k # Len(s) => t[k] = s[k]
  BY ReplacedFacts, PoppedFacts DEF Replaced
<1>2. Len(s) \in 1 .. Len(s)
  <2>1. PICK n \in Nat \ {0} : n = Len(s)
    BY <1>1
  <2>2. n \in 1 .. n
    OBVIOUS
  <2> QED
    BY <2>1, <2>2
<1>3. Cardinality(FramesOn(t, e)) + Holds(s[Len(s)], e) =
          Cardinality(FramesOn(s, e)) + Holds(f, e)
  <2> DEFINE rest == FramesOn(s, e) \ {Len(s)}
  <2>1. IsFiniteSet(rest) /\ Cardinality(rest) \in Nat
    BY FramesFinite, FS_Subset, FS_CardinalityType
  <2>2. Len(s) \notin rest
    OBVIOUS
  <2>3. Cardinality(rest \cup {Len(s)}) = Cardinality(rest) + 1
    <3> HIDE DEF rest
    <3> QED
      BY <2>1, <2>2, FS_AddElement
  <2>4. FramesOn(s, e) = IF s[Len(s)].env = e THEN rest \cup {Len(s)} ELSE rest
    <3>1. Len(s) \in FramesOn(s, e) <=> s[Len(s)].env = e
      BY <1>2 DEF FramesOn
    <3> QED
      BY <3>1
  <2>5. FramesOn(t, e) = IF f.env = e THEN rest \cup {Len(s)} ELSE rest
    <3>1. Len(s) \in FramesOn(t, e) <=> f.env = e
      BY <1>1, <1>2 DEF FramesOn
    <3>2. FramesOn(t, e) \ {Len(s)} = rest
      BY <1>1 DEF FramesOn
    <3> HIDE DEF rest
    <3> QED
      BY <3>1, <3>2
  <2> HIDE DEF rest
  <2> QED
    BY <2>1, <2>3, <2>4, <2>5 DEF Holds
<1>4. \A k \in 1 .. Len(s) : /\ t[k].in = s[k].in /\ t[k].fn = s[k].fn
                             /\ t[k].env = s[k].env \/ t[k].env = f.env
  BY <1>1
<1>5. EnvsOf(t) \subseteq EnvsOf(s) \cup ({f.env} \ {NoEnv})
  <2> SUFFICES ASSUME NEW x \in EnvsOf(t)
               PROVE  x \in EnvsOf(s) \cup ({f.env} \ {NoEnv})
    OBVIOUS
  <2>1. PICK k \in 1 .. Len(t) : (x = t[k].env /\ x # NoEnv) \/ x = t[k].in
    BY DEF EnvsOf
  <2>2. k \in 1 .. Len(s) /\ ((x = s[k].env /\ x # NoEnv) \/ (x = f.env /\ x # NoEnv) \/ x = s[k].in)
    BY <1>1, <1>4, <2>1
  <2> QED
    BY <2>2 DEF EnvsOf
<1>6. FuncsOf(t) = FuncsOf(s)
  <2>1. 1 .. Len(t) = 1 .. Len(s)
    BY <1>1
  <2>2. \A x : x \in FuncsOf(t) <=> x \in FuncsOf(s)
    BY <1>4, <2>1 DEF FuncsOf
  <2> QED
    BY <2>2
<1> QED
  BY <1>3, <1>5, <1>6

\* Frames stay sound.
LEMMA PushSound ==
    ASSUME NEW s \in Seq(Frame), FramesSound(s), NEW f \in Frame, NEW t, t = Pushed(s, f),
           f.kind \in {"while", "try"} => f.env = NoEnv,
           \/ f.in = G \/ (f.kind = "call" /\ f.env = f.in)
           \/ \E j \in 1 .. Len(s) : s[j].env = f.in
    PROVE  FramesSound(t)
<1>1. /\ Len(s) \in Nat /\ Len(t) = Len(s) + 1 /\ t[Len(s) + 1] = f
      /\ \A k \in 1 .. Len(s) : t[k] = s[k]
  BY PushedFacts DEF Pushed
<1>2. ASSUME NEW k \in 1 .. Len(s)
      PROVE  /\ t[k].kind \in {"while", "try"} => t[k].env = NoEnv
             /\ \/ t[k].in = G
                \/ \E j \in 1 .. k : t[j].env = t[k].in /\ (j = k => t[k].kind = "call")
  <2>1. \A j \in 1 .. k : j \in 1 .. Len(s) /\ t[j] = s[j]
    BY <1>1, <1>2
  <2>2. k \in 1 .. k
    BY <1>2
  <2> QED
    BY <1>2, <2>1, <2>2 DEF FramesSound
<1>3. \/ f.in = G
      \/ \E j \in 1 .. Len(s) + 1 : t[j].env = f.in /\ (j = Len(s) + 1 => f.kind = "call")
  BY <1>1
<1>4. ASSUME NEW k \in 1 .. Len(t)
      PROVE  /\ t[k].kind \in {"while", "try"} => t[k].env = NoEnv
             /\ \/ t[k].in = G
                \/ \E j \in 1 .. k : t[j].env = t[k].in /\ (j = k => t[k].kind = "call")
  <2>1. CASE k \in 1 .. Len(s)
    BY <1>2, <2>1
  <2>2. CASE k = Len(s) + 1
    BY <1>1, <1>3, <2>2
  <2> QED
    BY <1>1, <1>4, <2>1, <2>2
<1> QED
  BY <1>4 DEF FramesSound

LEMMA PopSound ==
    ASSUME NEW s \in Seq(Frame), FramesSound(s), s # <<>>, NEW t, t = SubSeq(s, 1, Len(s) - 1)
    PROVE  FramesSound(t)
<1>1. /\ Len(s) \in Nat \ {0} /\ Len(t) = Len(s) - 1
      /\ \A k \in 1 .. Len(s) - 1 : t[k] = s[k]
  BY PoppedFacts
<1>2. ASSUME NEW k \in 1 .. Len(t)
      PROVE  /\ t[k].kind \in {"while", "try"} => t[k].env = NoEnv
             /\ \/ t[k].in = G
                \/ \E j \in 1 .. k : t[j].env = t[k].in /\ (j = k => t[k].kind = "call")
  <2>1. \A j \in 1 .. k : j \in 1 .. Len(s) /\ t[j] = s[j]
    BY <1>1, <1>2
  <2>2. k \in 1 .. k
    BY <1>1, <1>2
  <2> QED
    BY <1>2, <2>1, <2>2 DEF FramesSound
<1> QED
  BY <1>2 DEF FramesSound

\* The innermost frame takes an environment, or lets go of its own.
LEMMA ReplaceSound ==
    ASSUME NEW s \in Seq(Frame), FramesSound(s), s # <<>>, NEW f \in Frame,
           NEW t, t = Replaced(s, f), f.in = s[Len(s)].in,
           f.kind \in {"while", "try"} => f.env = NoEnv,
           \/ f.kind = s[Len(s)].kind /\ f.env = s[Len(s)].env
           \/ s[Len(s)].kind # "call"
    PROVE  FramesSound(t)
<1>1. /\ Len(s) \in Nat \ {0} /\ Len(t) = Len(s) /\ t[Len(s)] = f
      /\ \A k \in 1 .. Len(s) : k # Len(s) => t[k] = s[k]
  BY ReplacedFacts, PoppedFacts DEF Replaced
<1>2. ASSUME NEW k \in 1 .. Len(t)
      PROVE  /\ t[k].kind \in {"while", "try"} => t[k].env = NoEnv
             /\ \/ t[k].in = G
                \/ \E j \in 1 .. k : t[j].env = t[k].in /\ (j = k => t[k].kind = "call")
  <2>1. k \in 1 .. Len(s) /\ t[k].in = s[k].in
    BY <1>1, <1>2
  <2>2. t[k].kind \in {"while", "try"} => t[k].env = NoEnv
    BY <1>1, <2>1 DEF FramesSound
  <2>3. CASE s[k].in # G
    <3>1. PICK j \in 1 .. k : s[j].env = s[k].in /\ (j = k => s[k].kind = "call")
      BY <2>1, <2>3 DEF FramesSound
    <3>2. CASE j = Len(s)
      <4>1. k = Len(s) /\ j = k /\ s[k].kind = "call"
        BY <1>1, <2>1, <3>1, <3>2
      <4>2. t[k] = f /\ f.kind = "call" /\ f.env = s[k].in
        BY <1>1, <3>1, <4>1
      <4> QED
        BY <2>1, <2>2, <4>1, <4>2
    <3>3. CASE j # Len(s)
      <4>1. j \in 1 .. Len(s)
        BY <1>1, <2>1, <3>1
      <4>2. t[j] = s[j]
        BY <1>1, <3>3, <4>1
      <4>3. j = k => t[k].kind = "call"
        BY <3>1, <4>2
      <4>4. t[j].env = t[k].in
        BY <2>1, <3>1, <4>2
      <4> QED
        BY <2>2, <3>1, <4>3, <4>4
    <3> QED
      BY <3>2, <3>3
  <2>4. CASE s[k].in = G
    BY <2>1, <2>2, <2>4
  <2> QED
    BY <2>2, <2>3, <2>4
<1> QED
  BY <1>2 DEF FramesSound

-----------------------------------------------------------------------------
(* Counting *)

Kids(e) == {c \in Envs : rc[c] > 0 /\ parent[c] = e}
Captured(e) == {f \in alloc : fenv[f] = e}

\* CountsExact with its sets by name, in either state.
LEMMA CountOf ==
    ASSUME CountsExact, NEW e \in Envs
    PROVE  rc[e] = Cardinality(FramesOn(stack, e)) + Cardinality(Kids(e))
                   + Cardinality(Captured(e))
                   + (IF e = G THEN 1 ELSE 0) + (IF e = freeing THEN 1 ELSE 0)
BY DEF CountsExact, FramesOn, Kids, Captured

LEMMA CountsNext ==
    ASSUME \A e \in Envs :
        rc'[e] = Cardinality(FramesOn(stack', e)) + Cardinality(Kids(e)')
                 + Cardinality(Captured(e)')
                 + (IF e = G THEN 1 ELSE 0) + (IF e = freeing' THEN 1 ELSE 0)
    PROVE  CountsExact'
BY DEF CountsExact, FramesOn, Kids, Captured

LEMMA HoldersFinite ==
    ASSUME HeapTyped, ControlInv, NEW e \in Envs
    PROVE  /\ IsFiniteSet(FramesOn(stack, e)) /\ Cardinality(FramesOn(stack, e)) \in Nat
           /\ IsFiniteSet(Kids(e)) /\ Cardinality(Kids(e)) \in Nat
           /\ IsFiniteSet(Captured(e)) /\ Cardinality(Captured(e)) \in Nat
<1>1. Kids(e) \subseteq Envs /\ Captured(e) \subseteq Funcs
  BY DEF Kids, Captured, HeapTyped
<1>2. IsFiniteSet(Kids(e)) /\ IsFiniteSet(Captured(e))
  BY <1>1, UnwindAssumption, FS_Subset
<1>3. stack \in Seq(Frame)
  BY DEF ControlInv
<1> QED
  BY <1>2, <1>3, FramesFinite, FS_CardinalityType

\* An environment in the pool is held by nothing.
LEMMA PooledUnheld ==
    ASSUME HeapTyped, ControlInv, CountsExact, NEW e \in Pooled
    PROVE  /\ FramesOn(stack, e) = {} /\ Kids(e) = {} /\ Captured(e) = {}
           /\ e # G /\ e # freeing /\ e \in Envs
<1>1. e \in Envs /\ rc[e] = 0
  BY DEF Pooled
<1>2. /\ Cardinality(FramesOn(stack, e)) = 0 /\ Cardinality(Kids(e)) = 0
      /\ Cardinality(Captured(e)) = 0 /\ e # G /\ e # freeing
  BY <1>1, CountOf, HoldersFinite
<1> QED
  BY <1>1, <1>2, HoldersFinite, FS_EmptySet

\* The last reference is the one env_release is giving back.
LEMMA LastUnheld ==
    ASSUME HeapTyped, ControlInv, CountsExact, freeing # NoEnv, rc[freeing] <= 1
    PROVE  /\ FramesOn(stack, freeing) = {} /\ Kids(freeing) = {} /\ Captured(freeing) = {}
           /\ freeing # G /\ rc[freeing] = 1
<1>1. freeing \in Envs /\ rc[freeing] \in Nat
  BY DEF HeapTyped
<1>2. PICK e \in Envs : e = freeing
  BY <1>1
<1>3. /\ Cardinality(FramesOn(stack, e)) = 0 /\ Cardinality(Kids(e)) = 0
      /\ Cardinality(Captured(e)) = 0 /\ e # G /\ rc[e] = 1
  BY <1>1, <1>2, CountOf, HoldersFinite
<1> QED
  BY <1>2, <1>3, HoldersFinite, FS_EmptySet

-----------------------------------------------------------------------------
(* Reaching *)

LEMMA HeldForm ==
    /\ HeldEnvs = {G} \cup EnvsOf(stack)
    /\ HeldFuncs = ({retval} \ {NoFunc}) \cup FuncsOf(stack)
BY DEF HeldEnvs, HeldFuncs, EnvsOf, FuncsOf

LEMMA HeldFormNext ==
    /\ HeldEnvs' = {G} \cup EnvsOf(stack')
    /\ HeldFuncs' = ({retval'} \ {NoFunc}) \cup FuncsOf(stack')
BY DEF HeldEnvs, HeldFuncs, EnvsOf, FuncsOf

\* What runs and what it can name lies in every set a mark does not leave.
LEMMA NamesReached ==
    ASSUME ControlInv, NEW E \in SUBSET Envs, NEW F, Closed(E, F)
    PROVE  CurEnv \in E /\ Chain(CurEnv) \subseteq E /\ Visible \subseteq F
<1>1. HeldEnvs \subseteq E
  BY DEF Closed
<1>2. CurEnv \in E
  <2>1. CASE stack = <<>>
    BY <1>1, <2>1 DEF CurEnv, HeldEnvs
  <2>2. CASE stack # <<>>
    <3>1. Len(stack) \in 1 .. Len(stack) /\ Top \in Frame
      BY <2>2, PoppedFacts DEF ControlInv, Top
    <3>2. Top.in \in HeldEnvs /\ (Top.env # NoEnv => Top.env \in HeldEnvs)
      BY <3>1 DEF HeldEnvs, Top
    <3> QED
      BY <1>1, <2>2, <3>2 DEF CurEnv
  <2> QED
    BY <2>1, <2>2
<1>3. \A y \in E : parent[y] = NoEnv \/ parent[y] \in E
  BY DEF Closed
<1>4. Chain(CurEnv) \subseteq E
  BY <1>2, <1>3 DEF Chain
<1>5. Visible \subseteq F
  BY <1>4 DEF Visible, Closed
<1> QED
  BY <1>2, <1>4, <1>5

\* The environments keep their references but for the one a frame hands over to
\* env_release.
LEMMA KeepStep ==
    ASSUME UnwindInv, UNCHANGED <<parent, rc, alloc, fenv>>,
           \A e \in Envs :
              Cardinality(FramesOn(stack', e)) + (IF e = freeing' THEN 1 ELSE 0) =
                  Cardinality(FramesOn(stack, e)) + (IF e = freeing THEN 1 ELSE 0),
           ControlInv', EnvsOf(stack') \subseteq EnvsOf(stack) \cup {CurEnv},
           FuncsOf(stack') \subseteq FuncsOf(stack),
           retval' \in {retval, NoFunc} \cup Visible,
           mode' \in Codes \cup {"run"}, freeing' \in Envs \cup {NoEnv},
           vars' \in [Envs -> SUBSET Funcs],
           \A e \in Envs : vars'[e] \subseteq vars[e] \cup Visible \cup ({retval} \ {NoFunc})
    PROVE  HeapTyped' /\ CountsExact' /\ ReachInv'
<1> USE DEF UnwindInv
<1>1. PICK F \in SUBSET alloc, E \in SUBSET Alive : Closed(E, F)
  BY DEF ReachInv
<1>2. CurEnv \in E /\ Visible \subseteq F
  BY <1>1, NamesReached DEF Alive
<1>3. HeldEnvs \subseteq E /\ HeldFuncs \subseteq F
  BY <1>1 DEF Closed
<1>4. HeldEnvs' \subseteq E /\ HeldFuncs' \subseteq F
  BY <1>2, <1>3, HeldForm, HeldFormNext
<1>5. \A e \in E : vars'[e] \subseteq F
  BY <1>1, <1>2, <1>3, HeldForm DEF Closed, Alive
<1>6. Closed(E, F)'
  BY <1>1, <1>4, <1>5 DEF Closed
<1>7. ReachInv'
  BY <1>1, <1>6 DEF ReachInv, Alive
<1>8. HeapTyped'
  BY <1>1, <1>2 DEF HeapTyped
<1>9. ASSUME NEW e \in Envs
      PROVE  rc'[e] = Cardinality(FramesOn(stack', e)) + Cardinality(Kids(e)')
                      + Cardinality(Captured(e)')
                      + (IF e = G THEN 1 ELSE 0) + (IF e = freeing' THEN 1 ELSE 0)
  <2>1. Kids(e)' = Kids(e) /\ Captured(e)' = Captured(e)
    BY DEF Kids, Captured
  <2>2. stack' \in Seq(Frame)
    BY DEF ControlInv
  <2>3. Cardinality(FramesOn(stack', e)) \in Nat
    BY <2>2, FramesFinite
  <2> QED
    BY <2>1, <2>3, CountOf, HoldersFinite
<1> QED
  BY <1>7, <1>8, <1>9, CountsNext

\* env_new: one frame takes an environment from the pool, under one that the
\* program can reach.
LEMMA NewStep ==
    ASSUME UnwindInv, NEW e, NEW p \in Envs, NEW fs, EnvNew(e, p, fs), fs \subseteq Visible,
           p = CurEnv \/ (\E f \in Visible : p = fenv[f]),
           UNCHANGED <<freeing, retval>>, mode' \in Codes \cup {"run"},
           \A x \in Envs : Cardinality(FramesOn(stack', x)) =
                               Cardinality(FramesOn(stack, x)) + (IF x = e THEN 1 ELSE 0),
           EnvsOf(stack') \subseteq EnvsOf(stack) \cup {e, CurEnv},
           FuncsOf(stack') \subseteq FuncsOf(stack) \cup Visible
    PROVE  HeapTyped' /\ CountsExact' /\ ReachInv'
<1> USE DEF UnwindInv
<1>1. PICK F \in SUBSET alloc, E \in SUBSET Alive : Closed(E, F)
  BY DEF ReachInv
<1>2. CurEnv \in E /\ Visible \subseteq F
  BY <1>1, NamesReached DEF Alive
<1>3. HeldEnvs \subseteq E /\ HeldFuncs \subseteq F
  BY <1>1 DEF Closed
<1>4. p \in E /\ p \in Alive
  BY <1>1, <1>2 DEF Closed
<1>5. /\ FramesOn(stack, e) = {} /\ Kids(e) = {} /\ Captured(e) = {}
      /\ e # G /\ e # freeing /\ e \in Envs /\ rc[e] = 0
  BY PooledUnheld DEF EnvNew, Pooled
<1>6. p # e /\ e \notin E
  BY <1>1, <1>4, <1>5 DEF Alive
<1>7. /\ parent' \in [Envs -> Envs \cup {NoEnv}] /\ parent'[e] = p
      /\ \A x \in Envs : x # e => parent'[x] = parent[x]
  BY <1>5 DEF EnvNew, HeapTyped
<1>8. /\ rc' \in [Envs -> Nat] /\ rc'[e] = 1 /\ rc'[p] = rc[p] + 1
      /\ \A x \in Envs : x # e /\ x # p => rc'[x] = rc[x]
  BY <1>5, <1>6 DEF EnvNew, HeapTyped
<1>9. /\ vars' \in [Envs -> SUBSET Funcs] /\ vars'[e] = fs
      /\ \A x \in Envs : x # e => vars'[x] = vars[x]
  BY <1>1, <1>2, <1>5 DEF EnvNew, HeapTyped
<1>10. alloc' = alloc /\ fenv' = fenv
  BY DEF EnvNew
<1>11. HeapTyped'
  BY <1>7, <1>8, <1>9, <1>10 DEF HeapTyped
<1>12. ReachInv'
  <2>1. E \cup {e} \in SUBSET Alive'
    BY <1>1, <1>4, <1>5, <1>8 DEF Alive, HeapTyped
  <2>2. HeldEnvs' \subseteq E \cup {e} /\ HeldFuncs' \subseteq F
    BY <1>2, <1>3, HeldForm, HeldFormNext
  <2>3. \A x \in E \cup {e} : /\ parent'[x] = NoEnv \/ parent'[x] \in E \cup {e}
                              /\ vars'[x] \subseteq F
    BY <1>1, <1>2, <1>4, <1>6, <1>7, <1>9 DEF Closed, Alive
  <2>4. \A f \in F : fenv'[f] \in E \cup {e}
    BY <1>1, <1>10 DEF Closed
  <2>5. Closed(E \cup {e}, F)'
    BY <2>2, <2>3, <2>4 DEF Closed
  <2>6. F \in SUBSET alloc'
    BY <1>1, <1>10
  <2> QED
    BY <2>1, <2>5, <2>6 DEF ReachInv
<1>13. ASSUME NEW x \in Envs
       PROVE  rc'[x] = Cardinality(FramesOn(stack', x)) + Cardinality(Kids(x)')
                       + Cardinality(Captured(x)')
                       + (IF x = G THEN 1 ELSE 0) + (IF x = freeing' THEN 1 ELSE 0)
  <2>1. Captured(x)' = Captured(x)
    BY <1>10 DEF Captured
  <2>2. Kids(x)' = IF x = p THEN Kids(x) \cup {e} ELSE Kids(x)
    <3>1. \A c \in Envs : c # e => (rc'[c] > 0 <=> rc[c] > 0)
      BY <1>4, <1>8 DEF Alive, HeapTyped
    <3> QED
      BY <1>5, <1>7, <1>8, <3>1 DEF Kids
  <2>3. e \notin Kids(x)
    BY <1>5 DEF Kids
  <2>4. /\ IsFiniteSet(Kids(x)) /\ Cardinality(Kids(x)) \in Nat
        /\ Cardinality(FramesOn(stack, x)) \in Nat /\ Cardinality(Captured(x)) \in Nat
    BY HoldersFinite
  <2>5. Cardinality(Kids(x) \cup {e}) = Cardinality(Kids(x)) + 1
    BY <2>3, <2>4, FS_AddElement
  <2>6. rc[x] = Cardinality(FramesOn(stack, x)) + Cardinality(Kids(x))
                + Cardinality(Captured(x))
                + (IF x = G THEN 1 ELSE 0) + (IF x = freeing THEN 1 ELSE 0)
    BY CountOf
  <2>7. CASE x = p
    BY <1>6, <1>8, <2>1, <2>2, <2>4, <2>5, <2>6, <2>7
  <2>8. CASE x = e
    BY <1>5, <1>6, <1>8, <2>1, <2>2, <2>4, <2>6, <2>8
  <2>9. CASE x # p /\ x # e
    BY <1>8, <2>1, <2>2, <2>4, <2>6, <2>9
  <2> QED
    BY <2>7, <2>8, <2>9
<1> QED
  BY <1>11, <1>12, <1>13, CountsNext

\* No frame stands in an environment that no frame holds, but for the global one.
LEMMA UnheldUnused ==
    ASSUME FramesSound(stack), ControlInv, NEW e \in Envs, e # G, FramesOn(stack, e) = {}
    PROVE  e \notin HeldEnvs
<1>1. \A k \in 1 .. Len(stack) : stack[k].env # e
  BY DEF FramesOn
<1>2. Len(stack) \in Nat
  BY DEF ControlInv
<1>3. ASSUME NEW k \in 1 .. Len(stack) PROVE stack[k].in # e
  <2>1. CASE stack[k].in = G
    BY <2>1
  <2>2. CASE stack[k].in # G
    <3>1. PICK j \in 1 .. k : stack[j].env = stack[k].in
      BY <2>2 DEF FramesSound
    <3>2. j \in 1 .. Len(stack)
      BY <1>2
    <3> QED
      BY <1>1, <3>1, <3>2
  <2> QED
    BY <2>1, <2>2
<1> QED
  BY <1>1, <1>3, HeldForm DEF EnvsOf

\* One level of env_release.
LEMMA FreedStep ==
    ASSUME UnwindInv, ReleaseStep
    PROVE  HeapTyped' /\ CountsExact' /\ ReachInv'
<1> USE DEF UnwindInv
<1>1. PICK r \in Envs : r = freeing
  BY DEF ReleaseStep, HeapTyped
<1>2. /\ rc \in [Envs -> Nat] /\ rc' = [rc EXCEPT ![r] = @ - 1]
      /\ stack' = stack /\ mode' = mode /\ alloc' = alloc /\ fenv' = fenv /\ retval' = retval
  BY <1>1 DEF ReleaseStep, control, HeapTyped
<1>3. /\ rc'[r] = rc[r] - 1
      /\ \A x \in Envs : x # r => rc'[x] = rc[x]
  BY <1>2
<1>4. PICK F \in SUBSET alloc, E \in SUBSET Alive : Closed(E, F)
  BY DEF ReachInv
<1>5. HeldFuncs' = HeldFuncs /\ HeldEnvs' = HeldEnvs
  BY <1>2, HeldForm, HeldFormNext
<1>6. ASSUME NEW x \in Envs
      PROVE  /\ IsFiniteSet(Kids(x)) /\ Cardinality(Kids(x)) \in Nat
             /\ Cardinality(FramesOn(stack, x)) \in Nat /\ Cardinality(Captured(x)) \in Nat
             /\ Captured(x)' = Captured(x)
             /\ rc[x] = Cardinality(FramesOn(stack, x)) + Cardinality(Kids(x))
                        + Cardinality(Captured(x))
                        + (IF x = G THEN 1 ELSE 0) + (IF x = r THEN 1 ELSE 0)
  BY <1>1, <1>2, HoldersFinite, CountOf DEF Captured
<1>7. CASE rc[r] > 1
  <2>1. freeing' = NoEnv /\ parent' = parent /\ vars' = vars
    BY <1>1, <1>7 DEF ReleaseStep
  <2>2. rc' \in [Envs -> Nat]
    BY <1>2, <1>7
  <2>3. HeapTyped'
    BY <1>2, <2>1, <2>2 DEF HeapTyped
  <2>4. \A x \in Envs : rc'[x] > 0 <=> rc[x] > 0
    BY <1>2, <1>3, <1>7
  <2>5. ReachInv'
    <3>1. E \in SUBSET Alive' /\ F \in SUBSET alloc'
      BY <1>2, <1>4, <2>4 DEF Alive
    <3>2. Closed(E, F)'
      BY <1>2, <1>4, <1>5, <2>1 DEF Closed
    <3> QED
      BY <3>1, <3>2 DEF ReachInv
  <2>6. ASSUME NEW x \in Envs
        PROVE  rc'[x] = Cardinality(FramesOn(stack', x)) + Cardinality(Kids(x)')
                        + Cardinality(Captured(x)')
                        + (IF x = G THEN 1 ELSE 0) + (IF x = freeing' THEN 1 ELSE 0)
    <3>1. Kids(x)' = Kids(x)
      BY <2>1, <2>4 DEF Kids
    <3>2. x # freeing'
      BY <2>1, UnwindAssumption DEF UnwindAssumption
    <3> QED
      BY <1>2, <1>3, <1>6, <3>1, <3>2
  <2> QED
    BY <2>3, <2>5, <2>6, CountsNext
<1>8. CASE rc[r] <= 1
  <2>1. /\ FramesOn(stack, r) = {} /\ Kids(r) = {} /\ Captured(r) = {}
        /\ r # G /\ rc[r] = 1
    <3>1. freeing # NoEnv /\ rc[freeing] <= 1
      BY <1>1, <1>8 DEF ReleaseStep
    <3> QED
      BY <1>1, <3>1, LastUnheld
  <2>2. PICK p \in Envs \cup {NoEnv} : p = parent[r]
    BY DEF HeapTyped
  <2>3. /\ freeing' = p /\ parent' = [parent EXCEPT ![r] = NoEnv]
        /\ vars' = [vars EXCEPT ![r] = {}]
    BY <1>1, <1>8, <2>1, <2>2 DEF ReleaseStep
  <2>4. p # r
    BY <2>1, <2>2 DEF Kids
  <2>5. rc' \in [Envs -> Nat] /\ rc'[r] = 0
    BY <1>2, <1>3, <2>1
  <2>6. /\ parent' \in [Envs -> Envs \cup {NoEnv}]
        /\ \A x \in Envs : x # r => parent'[x] = parent[x]
    BY <2>3 DEF HeapTyped
  <2>7. vars' \in [Envs -> SUBSET Funcs] /\ \A x \in Envs : x # r => vars'[x] = vars[x]
    BY <2>3 DEF HeapTyped
  <2>8. HeapTyped'
    BY <1>2, <2>2, <2>3, <2>5, <2>6, <2>7 DEF HeapTyped
  <2>9. ReachInv'
    <3>1. r \notin HeldEnvs
      BY <2>1, UnheldUnused
    <3>2. F \in SUBSET alloc' /\ E \ {r} \in SUBSET Alive'
      BY <1>2, <1>3, <1>4 DEF Alive
    <3>3. HeldEnvs' \subseteq E \ {r} /\ HeldFuncs' \subseteq F
      BY <1>4, <1>5, <3>1 DEF Closed
    <3>4. \A x \in E : parent[x] # r
      BY <1>4, <2>1 DEF Kids, Alive
    <3>5. \A x \in E \ {r} : /\ parent'[x] = NoEnv \/ parent'[x] \in E \ {r}
                             /\ vars'[x] \subseteq F
      BY <1>4, <2>6, <2>7, <3>4 DEF Closed, Alive
    <3>6. \A f \in F : fenv'[f] \in E \ {r}
      BY <1>2, <1>4, <2>1 DEF Closed, Captured
    <3>7. Closed(E \ {r}, F)'
      BY <3>3, <3>5, <3>6 DEF Closed
    <3> QED
      BY <3>2, <3>7 DEF ReachInv
  <2>10. ASSUME NEW x \in Envs
         PROVE  rc'[x] = Cardinality(FramesOn(stack', x)) + Cardinality(Kids(x)')
                         + Cardinality(Captured(x)')
                         + (IF x = G THEN 1 ELSE 0) + (IF x = freeing' THEN 1 ELSE 0)
    <3>1. Kids(x)' = Kids(x) \ {r}
      BY <1>3, <2>5, <2>6 DEF Kids
    <3>2. r \in Kids(x) <=> x = p
      BY <2>1, <2>2 DEF Kids
    <3>3. Cardinality(Kids(x) \ {r}) =
              IF r \in Kids(x) THEN Cardinality(Kids(x)) - 1 ELSE Cardinality(Kids(x))
      BY <1>6, FS_RemoveElement
    <3>4. CASE x = r
      <4>1. Kids(x)' = {} /\ Captured(x)' = {} /\ FramesOn(stack', x) = {}
        BY <1>2, <1>6, <2>1, <3>1, <3>4
      <4>2. rc'[x] = 0 /\ x # G /\ x # freeing'
        BY <2>1, <2>3, <2>4, <2>5, <3>4
      <4> QED
        BY <4>1, <4>2, FS_EmptySet
    <3>5. CASE x # r /\ x = p
      BY <1>2, <1>3, <1>6, <2>3, <3>1, <3>2, <3>3, <3>5
    <3>6. CASE x # r /\ x # p
      BY <1>2, <1>3, <1>6, <2>3, <3>1, <3>2, <3>3, <3>6
    <3> QED
      BY <3>4, <3>5, <3>6
  <2> QED
    BY <2>8, <2>9, <2>10, CountsNext
<1>9. rc[r] > 1 \/ rc[r] <= 1
  BY <1>2
<1> QED
  BY <1>7, <1>8, <1>9

\* A new function holds the environment it is made in.
LEMMA MadeStep ==
    ASSUME UnwindInv, NEW f \in Funcs, NEW at, Make(f, at)
    PROVE  HeapTyped' /\ CountsExact' /\ ReachInv'
<1> USE DEF UnwindInv
<1>1. PICK F \in SUBSET alloc, E \in SUBSET Alive : Closed(E, F)
  BY DEF ReachInv
<1>2. PICK c \in Envs : c = CurEnv
  BY CurEnvTyped
<1>3. c \in E /\ rc[c] > 0 /\ at \in E /\ at \in Envs
  BY <1>1, <1>2, NamesReached DEF Alive, Make
<1>4. /\ f \notin alloc /\ alloc' = alloc \cup {f} /\ fenv' = [fenv EXCEPT ![f] = c]
      /\ rc' = [rc EXCEPT ![c] = @ + 1] /\ vars' = [vars EXCEPT ![at] = @ \cup {f}]
      /\ stack' = stack /\ mode' = mode /\ parent' = parent
      /\ freeing' = freeing /\ retval' = retval
  BY <1>2 DEF Make, control
<1>5. /\ rc' \in [Envs -> Nat] /\ rc'[c] = rc[c] + 1
      /\ \A x \in Envs : x # c => rc'[x] = rc[x]
  BY <1>3, <1>4 DEF HeapTyped
<1>6. /\ fenv' \in [Funcs -> Envs] /\ fenv'[f] = c
      /\ \A g \in Funcs : g # f => fenv'[g] = fenv[g]
  BY <1>4 DEF HeapTyped
<1>7. /\ vars' \in [Envs -> SUBSET Funcs]
      /\ \A x \in Envs : vars'[x] \subseteq vars[x] \cup {f}
  BY <1>3, <1>4 DEF HeapTyped
<1>8. HeapTyped'
  BY <1>4, <1>5, <1>6, <1>7 DEF HeapTyped
<1>9. \A x \in Envs : rc'[x] > 0 <=> rc[x] > 0
  BY <1>3, <1>5 DEF HeapTyped
<1>10. ReachInv'
  <2>1. HeldEnvs' = HeldEnvs /\ HeldFuncs' = HeldFuncs
    BY <1>4, HeldForm, HeldFormNext
  <2>2. E \in SUBSET Alive' /\ F \cup {f} \in SUBSET alloc'
    BY <1>1, <1>4, <1>9 DEF Alive
  <2>3. \A x \in E : vars'[x] \subseteq F \cup {f}
    BY <1>1, <1>7 DEF Closed, Alive
  <2>4. \A g \in F \cup {f} : fenv'[g] \in E
    BY <1>1, <1>3, <1>6 DEF Closed, HeapTyped
  <2>5. Closed(E, F \cup {f})'
    BY <1>1, <1>4, <2>1, <2>3, <2>4 DEF Closed
  <2> QED
    BY <2>2, <2>5 DEF ReachInv
<1>11. ASSUME NEW x \in Envs
       PROVE  rc'[x] = Cardinality(FramesOn(stack', x)) + Cardinality(Kids(x)')
                       + Cardinality(Captured(x)')
                       + (IF x = G THEN 1 ELSE 0) + (IF x = freeing' THEN 1 ELSE 0)
  <2>1. Kids(x)' = Kids(x)
    BY <1>4, <1>9 DEF Kids
  <2>2. Captured(x)' = IF x = c THEN Captured(x) \cup {f} ELSE Captured(x)
    BY <1>4, <1>6 DEF Captured, HeapTyped
  <2>3. f \notin Captured(x)
    BY <1>4 DEF Captured
  <2>4. /\ IsFiniteSet(Captured(x)) /\ Cardinality(Captured(x)) \in Nat
        /\ Cardinality(FramesOn(stack, x)) \in Nat /\ Cardinality(Kids(x)) \in Nat
    BY HoldersFinite
  <2>5. Cardinality(Captured(x) \cup {f}) = Cardinality(Captured(x)) + 1
    BY <2>3, <2>4, FS_AddElement
  <2>6. rc[x] = Cardinality(FramesOn(stack, x)) + Cardinality(Kids(x))
                + Cardinality(Captured(x))
                + (IF x = G THEN 1 ELSE 0) + (IF x = freeing THEN 1 ELSE 0)
    BY CountOf
  <2>7. CASE x = c
    BY <1>4, <1>5, <2>1, <2>2, <2>4, <2>5, <2>6, <2>7
  <2>8. CASE x # c
    BY <1>4, <1>5, <2>1, <2>2, <2>6, <2>8
  <2> QED
    BY <2>7, <2>8
<1> QED
  BY <1>8, <1>10, <1>11, CountsNext

\* The collector frees a function that some set a mark does not leave is without,
\* and gives back the environment it captured.
LEMMA SweptStep ==
    ASSUME UnwindInv, NEW f \in Funcs, Sweep(f)
    PROVE  HeapTyped' /\ CountsExact' /\ ReachInv'
<1> USE DEF UnwindInv
<1>1. PICK F \in SUBSET alloc, E \in SUBSET Alive : Closed(E, F)
  BY DEF ReachInv
<1>2. PICK F1 \in SUBSET (Funcs \ {f}), E1 \in SUBSET Envs : Closed(E1, F1)
  BY DEF Sweep, Unmarked
<1>3. PICK c \in Envs : c = fenv[f]
  BY DEF HeapTyped
<1>4. /\ f \in alloc /\ alloc' = alloc \ {f} /\ fenv' = [fenv EXCEPT ![f] = G]
      /\ stack' = stack /\ mode' = mode /\ parent' = parent /\ rc' = rc /\ vars' = vars
      /\ freeing = NoEnv /\ freeing' = c /\ retval' = retval
  BY <1>3 DEF Sweep, Running, control
<1>5. /\ fenv' \in [Funcs -> Envs]
      /\ \A g \in Funcs : g # f => fenv'[g] = fenv[g]
  BY <1>4, UnwindAssumption DEF HeapTyped, UnwindAssumption
<1>6. HeapTyped'
  BY <1>4, <1>5 DEF HeapTyped
<1>7. ReachInv'
  <2>1. HeldEnvs' = HeldEnvs /\ HeldFuncs' = HeldFuncs
    BY <1>4, HeldForm, HeldFormNext
  <2>2. E \cap E1 \in SUBSET Alive' /\ F \cap F1 \in SUBSET alloc'
    BY <1>1, <1>2, <1>4 DEF Alive
  <2>3. HeldEnvs' \subseteq E \cap E1 /\ HeldFuncs' \subseteq F \cap F1
    BY <1>1, <1>2, <2>1 DEF Closed
  <2>4. \A x \in E \cap E1 : /\ parent'[x] = NoEnv \/ parent'[x] \in E \cap E1
                             /\ vars'[x] \subseteq F \cap F1
    BY <1>1, <1>2, <1>4 DEF Closed
  <2>5. \A g \in F \cap F1 : fenv'[g] \in E \cap E1
    BY <1>1, <1>2, <1>5 DEF Closed
  <2>6. Closed(E \cap E1, F \cap F1)'
    BY <2>3, <2>4, <2>5 DEF Closed
  <2> QED
    BY <2>2, <2>6 DEF ReachInv
<1>8. ASSUME NEW x \in Envs
      PROVE  rc'[x] = Cardinality(FramesOn(stack', x)) + Cardinality(Kids(x)')
                      + Cardinality(Captured(x)')
                      + (IF x = G THEN 1 ELSE 0) + (IF x = freeing' THEN 1 ELSE 0)
  <2>1. Kids(x)' = Kids(x)
    BY <1>4 DEF Kids
  <2>2. Captured(x)' = Captured(x) \ {f}
    BY <1>4, <1>5 DEF Captured, HeapTyped
  <2>3. f \in Captured(x) <=> x = c
    BY <1>3, <1>4 DEF Captured
  <2>4. /\ IsFiniteSet(Captured(x)) /\ Cardinality(Captured(x)) \in Nat
        /\ Cardinality(FramesOn(stack, x)) \in Nat /\ Cardinality(Kids(x)) \in Nat
    BY HoldersFinite
  <2>5. Cardinality(Captured(x) \ {f}) =
            IF f \in Captured(x) THEN Cardinality(Captured(x)) - 1 ELSE Cardinality(Captured(x))
    BY <2>4, FS_RemoveElement
  <2>6. rc[x] = Cardinality(FramesOn(stack, x)) + Cardinality(Kids(x))
                + Cardinality(Captured(x)) + (IF x = G THEN 1 ELSE 0)
    BY <1>4, <2>4, CountOf, UnwindAssumption DEF UnwindAssumption
  <2>7. CASE x = c
    BY <1>4, <2>1, <2>2, <2>3, <2>4, <2>5, <2>6, <2>7
  <2>8. CASE x # c
    BY <1>4, <2>1, <2>2, <2>3, <2>4, <2>5, <2>6, <2>8
  <2> QED
    BY <2>7, <2>8
<1> QED
  BY <1>6, <1>7, <1>8, CountsNext

-----------------------------------------------------------------------------
(* The steps, by what they do to the frames *)

LEMMA Frames ==
    ASSUME UnwindInv, stack # <<>>
    PROVE  /\ Len(stack) \in 1 .. Len(stack) /\ Top \in Frame
           /\ Top.kind \in {"while", "try"} => Top.env = NoEnv
<1>1. Len(stack) \in 1 .. Len(stack) /\ Top \in Frame
  BY PoppedFacts DEF UnwindInv, ControlInv, Top
<1> QED
  BY <1>1 DEF UnwindInv, FramesSound, Top

LEMMA CurEnvHeld ==
    ASSUME UnwindInv
    PROVE  CurEnv = G \/ \E j \in 1 .. Len(stack) : stack[j].env = CurEnv
<1>1. CASE stack = <<>>
  BY <1>1 DEF CurEnv
<1>2. CASE stack # <<>>
  <2>1. Len(stack) \in 1 .. Len(stack)
    BY <1>2, Frames
  <2>2. CASE Top.env # NoEnv
    BY <1>2, <2>1, <2>2 DEF CurEnv, Top
  <2>3. CASE Top.env = NoEnv /\ Top.in # G
    <3>1. PICK j \in 1 .. Len(stack) : stack[j].env = Top.in
      BY <2>1, <2>3 DEF UnwindInv, FramesSound, Top
    <3> QED
      BY <1>2, <2>3, <3>1 DEF CurEnv
  <2>4. CASE Top.env = NoEnv /\ Top.in = G
    BY <1>2, <2>4 DEF CurEnv
  <2> QED
    BY <2>2, <2>3, <2>4
<1> QED
  BY <1>1, <1>2

\* The frames stay as they are.
LEMMA StayStep ==
    ASSUME UnwindInv, ControlInv', stack' = stack, UNCHANGED <<parent, rc, freeing, alloc, fenv>>,
           retval' \in {retval, NoFunc} \cup Visible, mode' \in Codes \cup {"run"},
           vars' \in [Envs -> SUBSET Funcs],
           \A e \in Envs : vars'[e] \subseteq vars[e] \cup Visible \cup ({retval} \ {NoFunc})
    PROVE  UnwindInv'
<1>1. freeing' \in Envs \cup {NoEnv} /\ FramesSound(stack')
  BY DEF UnwindInv, HeapTyped
<1>2. HeapTyped' /\ CountsExact' /\ ReachInv'
  BY <1>1, KeepStep
<1> QED
  BY <1>1, <1>2 DEF UnwindInv

\* The innermost frame goes, and the environment it holds is given back.
LEMMA PopStep ==
    ASSUME UnwindInv, ControlInv', stack # <<>>, stack' = Popped, freeing = NoEnv,
           freeing' = Top.env, UNCHANGED <<parent, rc, vars, alloc, fenv, retval>>,
           mode' \in Codes \cup {"run"}
    PROVE  UnwindInv'
<1>1. stack \in Seq(Frame) /\ stack' = SubSeq(stack, 1, Len(stack) - 1) /\ Top = stack[Len(stack)]
  BY DEF UnwindInv, ControlInv, Popped, Top
<1>2. Top \in Frame
  BY Frames
<1>3. FramesSound(stack')
  BY <1>1, PopSound DEF UnwindInv
<1>4. /\ \A e : Cardinality(FramesOn(stack, e)) =
                    Cardinality(FramesOn(stack', e)) + Holds(Top, e)
      /\ EnvsOf(stack') \subseteq EnvsOf(stack) /\ FuncsOf(stack') \subseteq FuncsOf(stack)
  <2>1. ASSUME NEW e
        PROVE  Cardinality(FramesOn(stack, e)) =
                   Cardinality(FramesOn(stack', e)) + Holds(stack[Len(stack)], e)
    BY <1>1, PopHolds
  <2>2. EnvsOf(stack') \subseteq EnvsOf(stack) /\ FuncsOf(stack') \subseteq FuncsOf(stack)
    BY <1>1, PopHolds
  <2> QED
    BY <1>1, <2>1, <2>2
<1>5. \A e \in Envs : e # NoEnv
  BY UnwindAssumption DEF UnwindAssumption
<1>6. ASSUME NEW e \in Envs
      PROVE  Cardinality(FramesOn(stack', e)) + (IF e = freeing' THEN 1 ELSE 0) =
                 Cardinality(FramesOn(stack, e)) + (IF e = freeing THEN 1 ELSE 0)
  <2>1. Cardinality(FramesOn(stack', e)) \in Nat
    BY FramesFinite DEF ControlInv
  <2> QED
    BY <1>4, <1>5, <2>1 DEF Holds
<1>7. /\ freeing' \in Envs \cup {NoEnv} /\ vars' \in [Envs -> SUBSET Funcs]
      /\ \A e \in Envs : vars'[e] \subseteq vars[e]
  BY <1>2 DEF UnwindInv, HeapTyped, Frame
<1>8. HeapTyped' /\ CountsExact' /\ ReachInv'
  BY <1>4, <1>6, <1>7, KeepStep
<1> QED
  BY <1>3, <1>8 DEF UnwindInv

\* The innermost frame changes, and keeps its environment or gives it back.
LEMMA SwapStep ==
    ASSUME UnwindInv, ControlInv', stack # <<>>, NEW g \in Frame,
           stack' = Replaced(stack, g), freeing = NoEnv,
           g.kind = Top.kind, g.in = Top.in, g.fn = Top.fn,
           \/ g.env = Top.env /\ freeing' = NoEnv
           \/ g.env = NoEnv /\ freeing' = Top.env /\ Top.kind # "call",
           UNCHANGED <<parent, rc, vars, alloc, fenv, retval>>, mode' \in Codes \cup {"run"}
    PROVE  UnwindInv'
<1>1. stack \in Seq(Frame) /\ Top = stack[Len(stack)]
  BY DEF UnwindInv, ControlInv, Top
<1>2. Top \in Frame /\ (Top.kind \in {"while", "try"} => Top.env = NoEnv)
  BY Frames
<1>3. FramesSound(stack')
  BY <1>1, <1>2, ReplaceSound DEF UnwindInv
<1>4. /\ \A e : Cardinality(FramesOn(stack', e)) + Holds(Top, e) =
                    Cardinality(FramesOn(stack, e)) + Holds(g, e)
      /\ EnvsOf(stack') \subseteq EnvsOf(stack) \cup ({g.env} \ {NoEnv})
      /\ FuncsOf(stack') = FuncsOf(stack)
  <2>1. g.in = stack[Len(stack)].in /\ g.fn = stack[Len(stack)].fn
    BY <1>1
  <2>2. ASSUME NEW e
        PROVE  Cardinality(FramesOn(stack', e)) + Holds(stack[Len(stack)], e) =
                   Cardinality(FramesOn(stack, e)) + Holds(g, e)
    BY <1>1, <2>1, ReplaceHolds
  <2>3. /\ EnvsOf(stack') \subseteq EnvsOf(stack) \cup ({g.env} \ {NoEnv})
        /\ FuncsOf(stack') = FuncsOf(stack)
    BY <1>1, <2>1, ReplaceHolds
  <2> QED
    BY <1>1, <2>2, <2>3
<1>5. \A e \in Envs : e # NoEnv
  BY UnwindAssumption DEF UnwindAssumption
<1>6. ASSUME NEW e \in Envs
      PROVE  Cardinality(FramesOn(stack', e)) + (IF e = freeing' THEN 1 ELSE 0) =
                 Cardinality(FramesOn(stack, e)) + (IF e = freeing THEN 1 ELSE 0)
  <2>1. Cardinality(FramesOn(stack', e)) \in Nat
    BY FramesFinite DEF ControlInv
  <2>2. Cardinality(FramesOn(stack, e)) \in Nat
    BY <1>1, FramesFinite
  <2>3. Cardinality(FramesOn(stack', e)) + (IF Top.env = e THEN 1 ELSE 0) =
            Cardinality(FramesOn(stack, e)) + (IF g.env = e THEN 1 ELSE 0)
    BY <1>4 DEF Holds
  <2>4. e # NoEnv
    BY <1>5
  <2>5. CASE g.env = Top.env /\ freeing' = NoEnv
    BY <2>1, <2>2, <2>3, <2>4, <2>5
  <2>6. CASE g.env = NoEnv /\ freeing' = Top.env
    BY <2>1, <2>2, <2>3, <2>4, <2>6
  <2> QED
    BY <2>5, <2>6
<1>7. /\ freeing' \in Envs \cup {NoEnv} /\ vars' \in [Envs -> SUBSET Funcs]
      /\ \A e \in Envs : vars'[e] \subseteq vars[e]
  BY <1>2 DEF UnwindInv, HeapTyped, Frame
<1>8. EnvsOf(stack') \subseteq EnvsOf(stack) \cup {CurEnv}
  <2>1. g.env \in {NoEnv, CurEnv}
    BY DEF CurEnv
  <2> QED
    BY <1>4, <2>1
<1>9. HeapTyped' /\ CountsExact' /\ ReachInv'
  BY <1>4, <1>6, <1>7, <1>8, KeepStep
<1> QED
  BY <1>3, <1>9 DEF UnwindInv

\* A frame is pushed on an environment that is new to it.
LEMMA PushNewStep ==
    ASSUME UnwindInv, ControlInv', NEW kind \in {"call", "block"}, NEW e \in Envs,
           NEW p \in Envs, NEW fs, EnvNew(e, p, fs), fs \subseteq Visible,
           p = CurEnv \/ (\E h \in Visible : p = fenv[h]),
           NEW in \in Envs, in = CurEnv \/ (in = e /\ kind = "call"),
           NEW f \in Funcs \cup {NoFunc}, f = NoFunc \/ f \in Visible,
           Push(kind, e, in, f), UNCHANGED <<mode, freeing, retval>>
    PROVE  UnwindInv'
<1>1. PICK g : g = [kind |-> kind, env |-> e, in |-> in, prev |-> top, deep |-> FALSE, fn |-> f]
  OBVIOUS
<1>2. stack \in Seq(Frame) /\ top \in Nat
  BY DEF UnwindInv, ControlInv
<1>3. g \in Frame /\ g.kind = kind /\ g.env = e /\ g.in = in /\ g.fn = f
  BY <1>1, <1>2 DEF Frame
<1>4. stack' = Pushed(stack, g)
  BY <1>1 DEF Push, Pushed
<1>5. FramesSound(stack')
  <2>1. \/ g.in = G \/ (g.kind = "call" /\ g.env = g.in)
        \/ \E j \in 1 .. Len(stack) : stack[j].env = g.in
    BY <1>3, CurEnvHeld
  <2> QED
    BY <1>2, <1>3, <1>4, <2>1, PushSound DEF UnwindInv
<1>6. ASSUME NEW x
      PROVE  Cardinality(FramesOn(stack', x)) = Cardinality(FramesOn(stack, x)) + Holds(g, x)
  BY <1>2, <1>3, <1>4, PushHolds
<1>7. /\ EnvsOf(stack') = EnvsOf(stack) \cup {g.in} \cup ({g.env} \ {NoEnv})
      /\ FuncsOf(stack') = FuncsOf(stack) \cup ({g.fn} \ {NoFunc})
  BY <1>2, <1>3, <1>4, PushHolds
<1>8. EnvsOf(stack') \subseteq EnvsOf(stack) \cup {e, CurEnv}
  BY <1>3, <1>7
<1>9. FuncsOf(stack') \subseteq FuncsOf(stack) \cup Visible
  BY <1>3, <1>7
<1>10. \A x \in Envs : Cardinality(FramesOn(stack', x)) =
                           Cardinality(FramesOn(stack, x)) + (IF x = e THEN 1 ELSE 0)
  BY <1>3, <1>6 DEF Holds
<1>11. mode' \in Codes \cup {"run"}
  BY DEF UnwindInv, HeapTyped
<1>12. HeapTyped' /\ CountsExact' /\ ReachInv'
  BY <1>8, <1>9, <1>10, <1>11, NewStep
<1> QED
  BY <1>5, <1>12 DEF UnwindInv

\* The innermost frame, which holds none, takes an environment under the one it
\* stands in.
LEMMA SwapNewStep ==
    ASSUME UnwindInv, ControlInv', stack # <<>>, NEW e \in Envs, EnvNew(e, Top.in, {}),
           Top.env = NoEnv, Top.kind # "call", NEW g \in Frame, g.kind \notin {"while", "try"},
           g.env = e, g.in = Top.in, g.fn = Top.fn, stack' = Replaced(stack, g),
           UNCHANGED <<freeing, retval>>, mode' \in Codes \cup {"run"}
    PROVE  UnwindInv'
<1>1. stack \in Seq(Frame) /\ Top = stack[Len(stack)]
  BY DEF UnwindInv, ControlInv, Top
<1>2. Top \in Frame
  BY Frames
<1>3. PICK c \in Envs : c = CurEnv /\ c = Top.in
  BY <1>2 DEF CurEnv, Frame
<1>4. g.in = stack[Len(stack)].in /\ g.fn = stack[Len(stack)].fn
  BY <1>1
<1>5. FramesSound(stack')
  BY <1>1, <1>4, ReplaceSound DEF UnwindInv
<1>11. ASSUME NEW x
       PROVE  Cardinality(FramesOn(stack', x)) + Holds(stack[Len(stack)], x) =
                  Cardinality(FramesOn(stack, x)) + Holds(g, x)
  BY <1>1, <1>4, ReplaceHolds
<1>6. ASSUME NEW x \in Envs
      PROVE  Cardinality(FramesOn(stack', x)) =
                 Cardinality(FramesOn(stack, x)) + (IF x = e THEN 1 ELSE 0)
  <2>1. Cardinality(FramesOn(stack', x)) + Holds(stack[Len(stack)], x) =
            Cardinality(FramesOn(stack, x)) + Holds(g, x)
    BY <1>11
  <2>2. Holds(stack[Len(stack)], x) = 0
    BY <1>1, UnwindAssumption DEF Holds, UnwindAssumption
  <2>3. Holds(g, x) = IF x = e THEN 1 ELSE 0
    BY DEF Holds
  <2>4. Cardinality(FramesOn(stack', x)) \in Nat /\ Cardinality(FramesOn(stack, x)) \in Nat
    <3>1. stack' \in Seq(Frame)
      BY DEF ControlInv
    <3> QED
      BY <1>1, <3>1, FramesFinite
  <2> QED
    BY <2>1, <2>2, <2>3, <2>4
<1>7. /\ EnvsOf(stack') \subseteq EnvsOf(stack) \cup ({g.env} \ {NoEnv})
      /\ FuncsOf(stack') = FuncsOf(stack)
  BY <1>1, <1>4, ReplaceHolds
<1>8. PICK fs : fs = {}
  OBVIOUS
<1>9. /\ EnvsOf(stack') \subseteq EnvsOf(stack) \cup {e, CurEnv}
      /\ FuncsOf(stack') \subseteq FuncsOf(stack) \cup Visible
  BY <1>7
<1>10. HeapTyped' /\ CountsExact' /\ ReachInv'
  <2>1. \A x \in Envs : Cardinality(FramesOn(stack', x)) =
                            Cardinality(FramesOn(stack, x)) + (IF x = e THEN 1 ELSE 0)
    BY <1>6
  <2>2. EnvNew(e, c, fs) /\ c = CurEnv /\ fs \subseteq Visible
    BY <1>3, <1>8
  <2> QED
    BY <1>9, <2>1, <2>2, NewStep
<1> QED
  BY <1>5, <1>10 DEF UnwindInv

\* A loop or a 시도 is entered: its frame holds nothing.
LEMMA BeginStep ==
    ASSUME UnwindInv, ControlInv', NEW kind \in {"while", "for", "try"}, Begin(kind)
    PROVE  UnwindInv'
<1>1. PICK c \in Envs : c = CurEnv
  BY CurEnvTyped DEF UnwindInv
<1>2. PICK g : g = [kind |-> kind, env |-> NoEnv, in |-> c, prev |-> top, deep |-> FALSE,
                    fn |-> NoFunc]
  OBVIOUS
<1>3. stack \in Seq(Frame) /\ top \in Nat
  BY DEF UnwindInv, ControlInv
<1>4. g \in Frame /\ g.kind = kind /\ g.env = NoEnv /\ g.in = c /\ g.fn = NoFunc
  BY <1>2, <1>3 DEF Frame
<1>5. stack' = Pushed(stack, g) /\ UNCHANGED <<mode, parent, rc, vars, freeing, alloc, fenv, retval>>
  BY <1>1, <1>2 DEF Begin, Push, Pushed, heap
<1>6. FramesSound(stack')
  <2>1. g.in = G \/ \E j \in 1 .. Len(stack) : stack[j].env = g.in
    BY <1>1, <1>4, CurEnvHeld
  <2> QED
    BY <1>3, <1>4, <1>5, <2>1, PushSound DEF UnwindInv
<1>7. ASSUME NEW x
      PROVE  Cardinality(FramesOn(stack', x)) = Cardinality(FramesOn(stack, x)) + Holds(g, x)
  BY <1>3, <1>4, <1>5, PushHolds
<1>8. /\ EnvsOf(stack') = EnvsOf(stack) \cup {g.in} \cup ({g.env} \ {NoEnv})
      /\ FuncsOf(stack') = FuncsOf(stack) \cup ({g.fn} \ {NoFunc})
  BY <1>3, <1>4, <1>5, PushHolds
<1>9. ASSUME NEW x \in Envs
      PROVE  Cardinality(FramesOn(stack', x)) + (IF x = freeing' THEN 1 ELSE 0) =
                 Cardinality(FramesOn(stack, x)) + (IF x = freeing THEN 1 ELSE 0)
  <2>1. g.env # x /\ Cardinality(FramesOn(stack, x)) \in Nat
    BY <1>3, <1>4, FramesFinite, UnwindAssumption DEF UnwindAssumption
  <2> QED
    BY <1>5, <1>7, <2>1 DEF Holds
<1>10. /\ EnvsOf(stack') \subseteq EnvsOf(stack) \cup {CurEnv}
       /\ FuncsOf(stack') \subseteq FuncsOf(stack)
  BY <1>1, <1>4, <1>8
<1>11. /\ mode' \in Codes \cup {"run"} /\ freeing' \in Envs \cup {NoEnv}
       /\ vars' \in [Envs -> SUBSET Funcs]
  BY <1>5 DEF UnwindInv, HeapTyped
<1>12. HeapTyped' /\ CountsExact' /\ ReachInv'
  BY <1>5, <1>9, <1>10, <1>11, KeepStep
<1> QED
  BY <1>6, <1>12 DEF UnwindInv

\* 반복 gives its turn's environment back and waits for the next.
LEMMA TurnOver ==
    ASSUME UnwindInv, ControlInv', stack # <<>>, Top.kind = "for",
           stack' = [stack EXCEPT ![Len(stack)].env = NoEnv], freeing = NoEnv,
           freeing' = Top.env, UNCHANGED <<parent, rc, vars, alloc, fenv, retval>>,
           mode' \in Codes \cup {"run"}
    PROVE  UnwindInv'
<1>1. PICK g : g = [Top EXCEPT !.env = NoEnv]
  OBVIOUS
<1>2. /\ g \in Frame /\ g.kind = Top.kind /\ g.in = Top.in /\ g.fn = Top.fn
      /\ g.env = NoEnv /\ Top.kind # "call"
  BY <1>1, Frames DEF Frame
<1>3. stack' = Replaced(stack, g)
  BY <1>1 DEF Replaced, Top
<1> QED
  BY <1>2, <1>3, SwapStep

LEMMA LandStep ==
    ASSUME UnwindInv, ControlInv', Land
    PROVE  UnwindInv'
<1>1. /\ stack # <<>> /\ freeing = NoEnv /\ Top \in Frame
      /\ Top.kind \in {"while", "try"} => Top.env = NoEnv
  BY Frames DEF Land
<1>2. mode \in Codes \cup {"run"}
  BY DEF UnwindInv, HeapTyped
<1>3. CASE Top.kind = "call" /\ CallThrown
  <2>1. mode' \in Codes \cup {"run"}
    BY <1>2, <1>3 DEF CallThrown
  <2>2. /\ stack' = Popped /\ freeing' = Top.env
        /\ UNCHANGED <<parent, rc, vars, alloc, fenv, retval>>
    BY <1>3 DEF CallThrown, Pop, Release
  <2> QED
    BY <1>1, <2>1, <2>2, PopStep
<1>4. CASE Top.kind \in {"block", "catch"} /\ ScopeThrown
  <2>1. /\ stack' = Popped /\ freeing' = Top.env /\ mode' = mode
        /\ UNCHANGED <<parent, rc, vars, alloc, fenv, retval>>
    BY <1>4 DEF ScopeThrown, Pop, Release
  <2> QED
    BY <1>1, <1>2, <2>1, PopStep
<1>5. CASE Top.kind = "while" /\ WhileThrown
  <2>1. /\ mode' \in Codes \cup {"run"}
        /\ UNCHANGED <<parent, rc, vars, freeing, alloc, fenv, retval>>
    BY <1>2, <1>5 DEF WhileThrown, heap
  <2>2. CASE stack' = stack
    BY <2>1, <2>2, StayStep DEF UnwindInv, HeapTyped
  <2>3. CASE Pop
    <3>1. stack' = Popped /\ freeing' = Top.env
      BY <1>1, <1>5, <2>1, <2>3 DEF Pop
    <3> QED
      BY <1>1, <2>1, <3>1, PopStep
  <2> QED
    BY <1>5, <2>2, <2>3 DEF WhileThrown
<1>6. CASE Top.kind = "for" /\ ForThrown
  <2>1. /\ mode' \in Codes \cup {"run"} /\ freeing' = Top.env
        /\ UNCHANGED <<parent, rc, vars, alloc, fenv, retval>>
    BY <1>2, <1>6 DEF ForThrown, Release
  <2>2. CASE stack' = [stack EXCEPT ![Len(stack)].env = NoEnv]
    BY <1>1, <1>6, <2>1, <2>2, TurnOver
  <2>3. CASE Pop
    <3>1. stack' = Popped
      BY <2>3 DEF Pop
    <3> QED
      BY <1>1, <2>1, <3>1, PopStep
  <2> QED
    BY <1>6, <2>2, <2>3 DEF ForThrown
<1>7. CASE Top.kind = "try" /\ TryThrown
  <2>1. CASE Pop /\ UNCHANGED <<depth, mode, heap>>
    <3>1. /\ stack' = Popped /\ freeing' = Top.env /\ mode' = mode
          /\ UNCHANGED <<parent, rc, vars, alloc, fenv, retval>>
      BY <1>1, <1>7, <2>1 DEF Pop, heap
    <3> QED
      BY <1>1, <1>2, <3>1, PopStep
  <2>2. ASSUME NEW e \in Envs, EnvNew(e, Top.in, {}), mode' = "run", UNCHANGED <<freeing, retval>>,
               stack' = [stack EXCEPT ![Len(stack)] = [Top EXCEPT !.kind = "catch", !.env = e]]
        PROVE  UnwindInv'
    <3>1. PICK g : g = [Top EXCEPT !.kind = "catch", !.env = e]
      OBVIOUS
    <3>2. /\ g \in Frame /\ g.kind = "catch" /\ g.env = e /\ g.in = Top.in /\ g.fn = Top.fn
      BY <1>1, <3>1 DEF Frame
    <3>3. stack' = Replaced(stack, g)
      BY <2>2, <3>1 DEF Replaced
    <3>4. g.kind \notin {"while", "try"} /\ Top.kind # "call" /\ Top.env = NoEnv
      BY <1>1, <1>7, <3>2
    <3> QED
      BY <1>1, <2>2, <3>2, <3>3, <3>4, SwapNewStep
  <2> QED
    BY <1>7, <2>1, <2>2 DEF TryThrown
<1> QED
  BY <1>3, <1>4, <1>5, <1>6, <1>7 DEF Land

LEMMA UnwindNext ==
    ASSUME UnwindInv, [Next]_vars_
    PROVE  UnwindInv'
<1>1. ControlInv'
  BY ControlStep DEF UnwindInv
<1>2. /\ HeapTyped /\ stack \in Seq(Frame) /\ mode \in Codes \cup {"run"}
      /\ SubSeq(stack, 1, top) = stack
  BY WholeSequence DEF UnwindInv, HeapTyped, ControlInv
<1>3. CASE UNCHANGED vars_
  <2>1. stack' = stack /\ mode' = mode /\ UNCHANGED <<parent, rc, vars, freeing, alloc, fenv, retval>>
    BY <1>3 DEF vars_, control, heap
  <2> QED
    BY <1>1, <1>2, <2>1, StayStep DEF HeapTyped
<1>4. CASE ReleaseStep
  <2>1. HeapTyped' /\ CountsExact' /\ ReachInv'
    BY <1>4, FreedStep
  <2>2. stack' = stack
    BY <1>4 DEF ReleaseStep, control
  <2> QED
    BY <1>1, <2>1, <2>2 DEF UnwindInv
<1>5. ASSUME NEW f \in Funcs, CallBegin(f) PROVE UnwindInv'
  <2>1. PICK e \in Envs, args \in SUBSET Visible :
            EnvNew(e, fenv[f], args) /\ Push("call", e, e, f)
    BY <1>5 DEF CallBegin
  <2>2. f \in Visible /\ UNCHANGED <<mode, freeing, retval>>
    BY <1>5 DEF CallBegin
  <2>3. PICK p \in Envs : p = fenv[f]
    BY <1>2 DEF HeapTyped
  <2>4. PICK k \in {"call", "block"} : k = "call"
    OBVIOUS
  <2>5. EnvNew(e, p, args) /\ Push(k, e, e, f) /\ args \subseteq Visible
    BY <2>1, <2>3, <2>4
  <2> QED
    BY <1>1, <2>2, <2>3, <2>4, <2>5, PushNewStep
<1>6. ASSUME NEW f \in Funcs, Sweep(f) PROVE UnwindInv'
  <2>1. HeapTyped' /\ CountsExact' /\ ReachInv'
    BY <1>6, SweptStep
  <2>2. stack' = stack
    BY <1>6 DEF Sweep, control
  <2> QED
    BY <1>1, <2>1, <2>2 DEF UnwindInv
<1>7. CASE CallBody
  <2>1. stack # <<>> /\ Top \in Frame /\ freeing = NoEnv
    BY <1>7, Frames DEF CallBody, RunningIn, Running
  <2>2. PICK g : g = [Top EXCEPT !.deep = TRUE]
    OBVIOUS
  <2>3. /\ g \in Frame /\ g.kind = Top.kind /\ g.in = Top.in /\ g.fn = Top.fn /\ g.env = Top.env
    BY <2>1, <2>2 DEF Frame
  <2>4. stack' = Replaced(stack, g)
    BY <1>7, <2>2 DEF CallBody, Replaced, Top
  <2>5. /\ mode' \in Codes \cup {"run"} /\ freeing' = NoEnv
        /\ UNCHANGED <<parent, rc, vars, alloc, fenv, retval>>
    BY <1>7, <2>1 DEF CallBody, heap, Codes
  <2> QED
    BY <1>1, <2>1, <2>3, <2>4, <2>5, SwapStep
<1>8. CASE CallEnd \/ ScopeEnd
  <2>1. /\ stack # <<>> /\ freeing = NoEnv /\ stack' = Popped /\ freeing' = Top.env /\ mode' = mode
        /\ UNCHANGED <<parent, rc, vars, alloc, fenv, retval>>
    BY <1>8 DEF CallEnd, ScopeEnd, RunningIn, Running, Pop, Release
  <2> QED
    BY <1>1, <1>2, <2>1, PopStep
<1>9. CASE BlockBegin
  <2>1. PICK e \in Envs : EnvNew(e, CurEnv, {}) /\ Push("block", e, CurEnv, NoFunc)
    BY <1>9 DEF BlockBegin
  <2>2. PICK c \in Envs : c = CurEnv
    BY CurEnvTyped DEF UnwindInv
  <2>3. PICK k \in {"call", "block"} : k = "block"
    OBVIOUS
  <2>4. PICK fs : fs = {}
    OBVIOUS
  <2>5. PICK f \in Funcs \cup {NoFunc} : f = NoFunc
    OBVIOUS
  <2>6. EnvNew(e, c, fs) /\ Push(k, e, c, f) /\ fs \subseteq Visible
    BY <2>1, <2>2, <2>3, <2>4, <2>5
  <2>7. UNCHANGED <<mode, freeing, retval>>
    BY <1>9 DEF BlockBegin
  <2> QED
    BY <1>1, <2>2, <2>5, <2>6, <2>7, PushNewStep
<1>10. ASSUME NEW kind \in {"while", "for", "try"}, Begin(kind) PROVE UnwindInv'
  BY <1>1, <1>10, BeginStep
<1>11. ASSUME NEW kind \in {"while", "for", "try"}, End(kind) PROVE UnwindInv'
  <2>1. stack # <<>> /\ freeing = NoEnv /\ Top.env = NoEnv
    <3>1. CASE kind = "for"
      BY <1>11, <3>1 DEF End, BetweenTurns, Waiting
    <3>2. CASE kind # "for"
      BY <1>11, <3>2, Frames DEF End, RunningIn, Running
    <3> QED
      BY <3>1, <3>2
  <2>2. /\ stack' = Popped /\ freeing' = Top.env /\ mode' = mode
        /\ UNCHANGED <<parent, rc, vars, alloc, fenv, retval>>
    BY <1>11, <2>1 DEF End, Pop, heap
  <2> QED
    BY <1>1, <1>2, <2>1, <2>2, PopStep
<1>12. CASE TurnBegin
  <2>1. stack # <<>> /\ Top \in Frame /\ Top.kind = "for" /\ Top.env = NoEnv
    BY <1>12, Frames DEF TurnBegin, BetweenTurns, Waiting
  <2>2. PICK e \in Envs : /\ EnvNew(e, CurEnv, {})
                          /\ stack' = [stack EXCEPT ![Len(stack)].env = e]
    BY <1>12 DEF TurnBegin
  <2>3. PICK g : g = [Top EXCEPT !.env = e]
    OBVIOUS
  <2>4. /\ g \in Frame /\ g.kind = "for" /\ g.in = Top.in /\ g.fn = Top.fn /\ g.env = e
    BY <2>1, <2>3 DEF Frame
  <2>5. stack' = Replaced(stack, g) /\ EnvNew(e, Top.in, {})
    BY <2>1, <2>2, <2>3 DEF Replaced, Top, CurEnv
  <2>6. UNCHANGED <<freeing, retval>> /\ mode' = mode
    BY <1>12 DEF TurnBegin
  <2>7. g.kind \notin {"while", "try"} /\ Top.kind # "call"
    BY <2>1, <2>4
  <2> QED
    BY <1>1, <1>2, <2>1, <2>4, <2>5, <2>6, <2>7, SwapNewStep
<1>13. CASE TurnEnd
  <2>1. /\ stack # <<>> /\ Top.kind = "for" /\ freeing = NoEnv /\ freeing' = Top.env
        /\ stack' = [stack EXCEPT ![Len(stack)].env = NoEnv] /\ mode' = mode
        /\ UNCHANGED <<parent, rc, vars, alloc, fenv, retval>>
    BY <1>13 DEF TurnEnd, RunningIn, Running, Release
  <2> QED
    BY <1>1, <1>2, <2>1, TurnOver
<1>14. CASE Land
  BY <1>1, <1>14, LandStep
<1>15. ASSUME NEW code \in Codes, Throw(code) PROVE UnwindInv'
  <2>1. stack' = stack /\ mode' = code /\ UNCHANGED <<parent, rc, vars, freeing, alloc, fenv, retval>>
    BY <1>2, <1>15 DEF Throw, heap
  <2> QED
    BY <1>1, <1>2, <2>1, StayStep DEF HeapTyped
<1>16. ASSUME NEW f \in Funcs \cup {NoFunc}, Return(f) PROVE UnwindInv'
  <2>1. /\ stack' = stack /\ mode' = "ret" /\ retval' \in {NoFunc} \cup Visible
        /\ UNCHANGED <<parent, rc, vars, freeing, alloc, fenv>>
    BY <1>2, <1>16 DEF Return
  <2>2. mode' \in Codes \cup {"run"}
    BY <2>1 DEF Codes
  <2> QED
    BY <1>1, <1>2, <2>1, <2>2, StayStep DEF HeapTyped
<1>17. CASE NextLine
  <2>1. stack' = stack /\ mode' = "run" /\ UNCHANGED <<parent, rc, vars, freeing, alloc, fenv, retval>>
    BY <1>17 DEF NextLine, heap
  <2> QED
    BY <1>1, <1>2, <2>1, StayStep DEF HeapTyped
<1>18. ASSUME NEW at \in Envs, NEW f \in Funcs, Keep(at, f) \/ Forget(at, f) PROVE UnwindInv'
  <2>1. stack' = stack /\ mode' = mode /\ UNCHANGED <<parent, rc, freeing, alloc, fenv, retval>>
    BY <1>18 DEF Keep, Forget, control
  <2>2. vars' \in [Envs -> SUBSET Funcs]
    <3>1. PICK W \in SUBSET Funcs : vars' = [vars EXCEPT ![at] = W]
      BY <1>2, <1>18 DEF Keep, Forget, HeapTyped
    <3> QED
      BY <1>2, <3>1 DEF HeapTyped
  <2>3. \A e \in Envs : vars'[e] \subseteq vars[e] \cup Visible \cup ({retval} \ {NoFunc})
    BY <1>2, <1>18 DEF Keep, Forget, HeapTyped
  <2> QED
    BY <1>1, <1>2, <2>1, <2>2, <2>3, StayStep
<1>19. ASSUME NEW at \in Envs, NEW f \in Funcs, Make(f, at) PROVE UnwindInv'
  <2>1. HeapTyped' /\ CountsExact' /\ ReachInv'
    BY <1>19, MadeStep
  <2>2. stack' = stack
    BY <1>19 DEF Make, control
  <2> QED
    BY <1>1, <2>1, <2>2 DEF UnwindInv
<1> QED
  BY <1>3, <1>4, <1>5, <1>6, <1>7, <1>8, <1>9, <1>10, <1>11, <1>12, <1>13, <1>14, <1>15, <1>16,
     <1>17, <1>18, <1>19 DEF Next

LEMMA UnwindInit == Init => UnwindInv
<1> SUFFICES ASSUME Init PROVE UnwindInv
  OBVIOUS
<1>1. /\ stack = <<>> /\ parent = [e \in Envs |-> NoEnv] /\ freeing = NoEnv /\ alloc = {}
      /\ rc = [e \in Envs |-> IF e = G THEN 1 ELSE 0] /\ vars = [e \in Envs |-> {}]
      /\ fenv = [f \in Funcs |-> G] /\ retval = NoFunc /\ mode = "run"
  BY DEF Init
<1>2. G \in Envs /\ NoEnv \notin Envs
  BY UnwindAssumption DEF UnwindAssumption
<1>3. HeapTyped
  BY <1>1, <1>2 DEF HeapTyped
<1>4. ControlInv
  BY ControlInit
<1>5. FramesSound(stack)
  BY <1>1 DEF FramesSound
<1>6. CountsExact
  <2> SUFFICES ASSUME NEW e \in Envs
               PROVE  rc[e] = Cardinality({k \in 1 .. Len(stack) : stack[k].env = e})
                              + Cardinality({c \in Envs : rc[c] > 0 /\ parent[c] = e})
                              + Cardinality({f \in alloc : fenv[f] = e})
                              + (IF e = G THEN 1 ELSE 0) + (IF e = freeing THEN 1 ELSE 0)
    BY DEF CountsExact
  <2>1. /\ {k \in 1 .. Len(stack) : stack[k].env = e} = {}
        /\ {c \in Envs : rc[c] > 0 /\ parent[c] = e} = {}
        /\ {f \in alloc : fenv[f] = e} = {}
    BY <1>1, <1>2
  <2>2. rc[e] = (IF e = G THEN 1 ELSE 0) /\ e # freeing
    BY <1>1, <1>2
  <2>3. rc[e] = 0 + 0 + 0 + (IF e = G THEN 1 ELSE 0) + (IF e = freeing THEN 1 ELSE 0)
    BY <2>2
  <2>4. Cardinality({}) = 0
    BY FS_EmptySet
  <2> QED
    BY <2>1, <2>3, <2>4
<1>7. ReachInv
  <2>1. HeldEnvs = {G} /\ HeldFuncs = {}
    BY <1>1 DEF HeldEnvs, HeldFuncs
  <2>2. {G} \in SUBSET Alive
    BY <1>1, <1>2 DEF Alive
  <2>3. Closed({G}, {})
    BY <1>1, <1>2, <2>1 DEF Closed
  <2> QED
    BY <2>2, <2>3 DEF ReachInv
<1> QED
  BY <1>3, <1>4, <1>5, <1>6, <1>7 DEF UnwindInv

LEMMA UnwindHolds == Spec => []UnwindInv
BY UnwindInit, UnwindNext, PTL DEF Spec

-----------------------------------------------------------------------------
(* What follows *)

\* The model's environments, functions, frames and counts keep their types for
\* every program: no count is ever taken below nothing.
THEOREM UnwindTyped == Spec => []TypeOK
<1>1. UnwindInv => TypeOK
  <2> SUFFICES ASSUME UnwindInv PROVE TypeOK
    OBVIOUS
  <2>1. top \in Nat /\ depth \in Nat /\ stack \in Seq(Frame)
    BY DeepFinite DEF UnwindInv, ControlInv
  <2> QED
    BY <2>1 DEF UnwindInv, HeapTyped, TypeOK
<1> QED
  BY <1>1, UnwindHolds, PTL

\* Whatever is thrown through whatever is open, an environment's count is the
\* number of frames, children and functions that hold it, at every moment, the
\* middle of an env_release that climbs the parents included: nothing leaks, and
\* nothing is given back twice.
THEOREM EnvironmentsAreCounted == Spec => []CountsExact
<1>1. UnwindInv => CountsExact
  BY DEF UnwindInv
<1> QED
  BY <1>1, UnwindHolds, PTL

\* Neither env_release nor the collector takes an environment or a function that
\* the program can still reach from a frame, from the value being returned or
\* from the global environment.
THEOREM ReachableIsThere == Spec => []NothingDangles
<1>1. UnwindInv => NothingDangles
  BY DEF UnwindInv, ReachInv, Alive, NothingDangles
<1> QED
  BY <1>1, UnwindHolds, PTL

=============================================================================
