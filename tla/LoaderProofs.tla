---------------------------- MODULE LoaderProofs ----------------------------
(***************************************************************************)
(* Theorems about Loader, for any files, directories and bounds.           *)
(***************************************************************************)
EXTENDS Loader, SequenceTheorems, FiniteSetTheorems, TLAPS

LEMMA PoppedFacts ==
    ASSUME NEW S, NEW s \in Seq(S), s # <<>>
    PROVE  /\ SubSeq(s, 1, Len(s) - 1) \in Seq(S)
           /\ Len(s) \in Nat \ {0}
           /\ Len(SubSeq(s, 1, Len(s) - 1)) = Len(s) - 1
           /\ \A k \in 1 .. Len(s) - 1 : SubSeq(s, 1, Len(s) - 1)[k] = s[k]
           /\ s[Len(s)] \in S
<1>1. Len(s) \in Nat \ {0} /\ \A k \in 1 .. Len(s) : s[k] \in S
  OBVIOUS
<1>2. PICK n \in Nat : n = Len(s) - 1
  BY <1>1
<1>3. 1 \in Int /\ n \in Int /\ \A k \in 1 .. n : s[k] \in S
  BY <1>1, <1>2
<1>4. /\ SubSeq(s, 1, n) \in Seq(S)
      /\ Len(SubSeq(s, 1, n)) = IF 1 <= n THEN n - 1 + 1 ELSE 0
      /\ \A k \in 1 .. n - 1 + 1 : SubSeq(s, 1, n)[k] = s[1 + k - 1]
  BY <1>3, SubSeqProperties
<1>5. Len(SubSeq(s, 1, n)) = n /\ n - 1 + 1 = n /\ \A k \in 1 .. n : 1 + k - 1 = k
  BY <1>2, <1>4
<1> QED
  BY <1>1, <1>2, <1>4, <1>5

\* A frame that loads a file has the fields of one.
LEMMA FrameKinds ==
    ASSUME NEW f \in LoadFrame \cup GuardFrame
    PROVE  /\ f.kind \in {"import", "module"} => f \in LoadFrame
           /\ f.kind \in {"call", "try"} => f \in GuardFrame
           /\ f.kind \in {"import", "module", "call", "try"}
BY DEF LoadFrame, GuardFrame

LEMMA ResolveFacts ==
    ASSUME base \in Dirs, NEW n \in Names
    PROVE  Resolve[<<base, n>>] \in Paths
BY LoaderAssumption DEF LoaderAssumption

LEMMA EnvFacts == Global \in Envs /\ MaxRuns \in Nat /\ \A e \in Envs : e \in Nat
BY LoaderAssumption DEF LoaderAssumption, Envs, Global

\* What Run does to the typed state.
LEMMA RunTyped ==
    ASSUME TypeOK, NEW kind \in {"import", "module"}, NEW p \in Paths, NEW e \in Envs,
           Run(kind, p, e)
    PROVE  /\ base' \in Dirs
           /\ stack' \in Seq(LoadFrame \cup GuardFrame)
           /\ mode' = mode
           /\ lost' = FALSE
<1> DEFINE f == [kind |-> kind, path |-> p, env |-> e, prev |-> base, lost |-> lost]
<1>1. f \in LoadFrame
  BY DEF TypeOK, LoadFrame
<1>2. stack' = Append(stack, f)
  BY DEF Run
<1> HIDE DEF f
<1>3. stack' \in Seq(LoadFrame \cup GuardFrame)
  BY <1>1, <1>2 DEF TypeOK
<1>4. base' \in Dirs
  BY LoaderAssumption DEF LoaderAssumption, Run
<1> QED
  BY <1>3, <1>4 DEF Run

-----------------------------------------------------------------------------
\* The top frame, when there is one, and what is left without it.
LEMMA TopFacts ==
    ASSUME TypeOK, stack # <<>>
    PROVE  /\ Popped \in Seq(LoadFrame \cup GuardFrame)
           /\ Top \in LoadFrame \cup GuardFrame
           /\ Top.kind \in {"import", "module"} =>
                  Top \in LoadFrame /\ Top.path \in Paths /\ Top.env \in Envs
                  /\ Top.prev \in Dirs /\ Top.lost \in BOOLEAN
<1>1. stack \in Seq(LoadFrame \cup GuardFrame)
  BY DEF TypeOK
<1>2. Popped \in Seq(LoadFrame \cup GuardFrame) /\ Top \in LoadFrame \cup GuardFrame
  BY <1>1, PoppedFacts DEF Popped, Top
<1> QED
  BY <1>2, FrameKinds DEF LoadFrame

\* A module that ends is entered in the cache under its own environment.
LEMMA EnteredTyped ==
    ASSUME TypeOK, stack # <<>>, Top.kind = "module"
    PROVE  Append(mods, [path |-> Top.path, env |-> Top.env]) \in Seq([path : Paths, env : Envs])
<1>1. [path |-> Top.path, env |-> Top.env] \in [path : Paths, env : Envs]
  BY TopFacts
<1> QED
  BY <1>1 DEF TypeOK

LEMMA TypeStep ==
    ASSUME TypeOK, [Next]_vars
    PROVE  TypeOK'
<1>1. ASSUME NEW n \in Names, ImportAgain(n) PROVE TypeOK'
  BY <1>1 DEF ImportAgain, vars, TypeOK
<1>2. ASSUME NEW n \in Names, Import(n) PROVE TypeOK'
  <2> DEFINE p == Resolve[<<base, n>>]
  <2>1. p \in Paths
    BY ResolveFacts DEF TypeOK
  <2>2. imported' = imported \cup {p} /\ UNCHANGED <<mods, made, twice, given>>
    BY <1>2 DEF Import
  <2>3. CASE Fails /\ UNCHANGED ran
    BY <2>1, <2>2, <2>3 DEF Fails, TypeOK
  <2>4. CASE Run("import", p, Global) /\ ran' = [ran EXCEPT ![p] = @ + 1]
    <3>1. /\ base' \in Dirs /\ stack' \in Seq(LoadFrame \cup GuardFrame)
          /\ mode' = mode /\ lost' = FALSE
      BY <2>1, <2>4, RunTyped, EnvFacts
    <3>2. ran' \in [Paths -> Nat]
      BY <2>1, <2>4 DEF TypeOK
    <3> QED
      BY <2>1, <2>2, <3>1, <3>2 DEF TypeOK
  <2> QED
    BY <1>2, <2>3, <2>4 DEF Import
<1>3. ASSUME ImportEnd PROVE TypeOK'
  BY <1>3, TopFacts DEF ImportEnd, TypeOK
<1>4. ASSUME NEW n \in Names, ModuleAgain(n) PROVE TypeOK'
  <2>1. PICK e \in Envs : given' = given \cup {<<Resolve[<<base, n>>], e>>}
    BY <1>4 DEF ModuleAgain
  <2> QED
    BY <1>4, <2>1, ResolveFacts DEF ModuleAgain, TypeOK
<1>5. ASSUME NEW n \in Names, Module(n) PROVE TypeOK'
  <2> DEFINE p == Resolve[<<base, n>>]
  <2>1. p \in Paths
    BY ResolveFacts DEF TypeOK
  <2>2. UNCHANGED <<imported, mods, ran, given>> /\ made < MaxRuns
    BY <1>5 DEF Module
  <2>3. CASE Fails /\ UNCHANGED <<made, twice>>
    BY <2>2, <2>3 DEF Fails, TypeOK
  <2>4. CASE /\ Run("module", p, made + 1) /\ made' = made + 1
             /\ twice' = IF IsRunning(p) THEN twice \cup {p} ELSE twice
    <3>1. made + 1 \in Envs
      BY <2>2, EnvFacts DEF TypeOK, Envs, Global
    <3>2. /\ base' \in Dirs /\ stack' \in Seq(LoadFrame \cup GuardFrame)
          /\ mode' = mode /\ lost' = FALSE
      BY <2>1, <2>4, <3>1, RunTyped
    <3>3. twice' \subseteq Paths
      BY <2>1, <2>4 DEF TypeOK
    <3>4. made' \in Envs /\ UNCHANGED <<imported, mods, ran, given>>
      BY <2>2, <2>4, <3>1
    <3> QED
      BY <3>2, <3>3, <3>4 DEF TypeOK
  <2> QED
    BY <1>5, <2>3, <2>4 DEF Module
<1>6. ASSUME ModuleEnd PROVE TypeOK'
  <2>1. given' \in SUBSET (Paths \X Envs)
    BY <1>6, TopFacts DEF ModuleEnd, TypeOK
  <2>2. mods' \in Seq([path : Paths, env : Envs])
    BY <1>6, EnteredTyped DEF ModuleEnd
  <2> QED
    BY <1>6, <2>1, <2>2, TopFacts DEF ModuleEnd, TypeOK
<1>7. ASSUME UnwindModule \/ UnwindImport PROVE TypeOK'
  BY <1>7, TopFacts DEF UnwindModule, UnwindImport, loaded, TypeOK
<1>8. ASSUME NEW kind \in {"call", "try"}, GuardBegin(kind) PROVE TypeOK'
  <2>1. [kind |-> kind] \in LoadFrame \cup GuardFrame
    BY DEF GuardFrame
  <2>2. stack' \in Seq(LoadFrame \cup GuardFrame)
    BY <1>8, <2>1 DEF GuardBegin, TypeOK
  <2> QED
    BY <1>8, <2>2 DEF GuardBegin, loaded, TypeOK
<1>9. ASSUME GuardEnd \/ Catch PROVE TypeOK'
  BY <1>9, TopFacts DEF GuardEnd, Catch, loaded, TypeOK
<1>10. ASSUME NextLine PROVE TypeOK'
  BY <1>10 DEF NextLine, loaded, TypeOK
<1>11. ASSUME NEW what \in {"error", "return"}, Throw(what) PROVE TypeOK'
  BY <1>11 DEF Throw, loaded, TypeOK
<1>12. ASSUME UNCHANGED vars PROVE TypeOK'
  BY <1>12 DEF vars, TypeOK
<1> QED
  BY <1>1, <1>2, <1>3, <1>4, <1>5, <1>6, <1>7, <1>8, <1>9, <1>10, <1>11, <1>12 DEF Next

LEMMA TypeInit == Init => TypeOK
<1> SUFFICES ASSUME Init PROVE TypeOK
  OBVIOUS
<1>1. base \in Dirs /\ made \in Envs
  BY LoaderAssumption, EnvFacts DEF Init, LoaderAssumption, Global
<1>2. stack \in Seq(LoadFrame \cup GuardFrame) /\ mods \in Seq([path : Paths, env : Envs])
  BY DEF Init
<1>3. ran \in [Paths -> Nat]
  BY DEF Init
<1> QED
  BY <1>1, <1>2, <1>3 DEF Init, TypeOK

\* The loader's variables keep their types: base_dir is a directory, the frames
\* are well formed, and environments are numbered within the bound.
THEOREM TypeCorrect == Spec => []TypeOK
BY TypeInit, TypeStep, PTL DEF Spec

-----------------------------------------------------------------------------
(* 가져오기 runs a file once *)

\* A path that is not recorded was never run.
RanIsRecorded ==
    \A p \in Paths : ran[p] <= 1 /\ (p \notin imported => ran[p] = 0)

\* 가져오기 runs each file at most once, whoever asks for it and whatever it
\* does to the interpreter: the path is recorded before the file is read.
THEOREM ImportsRunOnce == Spec => []ImportedOnce
<1>1. Init => RanIsRecorded
  BY DEF Init, RanIsRecorded
<1>2. ASSUME TypeOK, RanIsRecorded, [Next]_vars PROVE RanIsRecorded'
  <2>1. ASSUME NEW n \in Names, Import(n) PROVE RanIsRecorded'
    <3> DEFINE p == Resolve[<<base, n>>]
    <3>1. p \in Paths /\ p \notin imported /\ imported' = imported \cup {p}
      BY <1>2, <2>1, ResolveFacts DEF Import, TypeOK
    <3>2. ran' = ran \/ ran' = [ran EXCEPT ![p] = @ + 1]
      BY <2>1 DEF Import
    <3> HIDE DEF p
    <3>3. ran \in [Paths -> Nat] /\ ran[p] = 0
      BY <1>2, <3>1 DEF TypeOK, RanIsRecorded
    <3>4. \A q \in Paths : ran'[q] = ran[q] \/ (q = p /\ ran'[q] = 1)
      BY <3>1, <3>2, <3>3
    <3> QED
      BY <1>2, <3>1, <3>4 DEF RanIsRecorded
  <2>2. CASE UNCHANGED <<ran, imported>>
    BY <1>2, <2>2 DEF RanIsRecorded
  <2> QED
    BY <1>2, <2>1, <2>2 DEF Next, vars, loaded, ImportAgain, ModuleAgain, Module, ImportEnd,
       ModuleEnd, UnwindModule, UnwindImport, GuardBegin, GuardEnd, Catch, NextLine, Throw
<1>3. RanIsRecorded => ImportedOnce
  BY DEF RanIsRecorded, ImportedOnce
<1> QED
  BY <1>1, <1>2, <1>3, TypeCorrect, PTL DEF Spec

-----------------------------------------------------------------------------
(* One dictionary for each module *)

\* What keeps the cache a function of the path: the dictionaries handed out are
\* those the cache finds, and a module that still runs is not in it, but for
\* the files 모듈 ran again while they ran.
CacheIsTheGiven ==
    /\ \A d \in given : d[1] \in twice \/ Found(d[1], d[2])
    /\ \A k \in 1 .. Len(stack) :
           stack[k].kind = "module" => stack[k].path \in twice \/ ~Cached(stack[k].path)
    /\ \A j, k \in 1 .. Len(stack) :
           stack[j].kind = "module" /\ stack[k].kind = "module" /\ stack[j].path = stack[k].path
               => j = k \/ stack[j].path \in twice

LEMMA CacheAppend ==
    ASSUME TypeOK, NEW p \in Paths, NEW e \in Envs,
           mods' = Append(mods, [path |-> p, env |-> e])
    PROVE  /\ ~Cached(p) => Found(p, e)'
           /\ \A q \in Paths, f \in Envs : Found(q, f) => Found(q, f)'
           /\ \A q \in Paths : Cached(q)' => Cached(q) \/ q = p
<1> DEFINE m == [path |-> p, env |-> e]
<1>1. mods \in Seq([path : Paths, env : Envs]) /\ Len(mods) \in Nat
  BY DEF TypeOK
<1>2. m \in [path : Paths, env : Envs]
  OBVIOUS
<1>3. /\ Len(mods') = Len(mods) + 1
      /\ mods'[Len(mods) + 1] = m
      /\ \A k \in 1 .. Len(mods) : mods'[k] = mods[k]
  BY <1>1, <1>2
<1>4. ~Cached(p) => \A k \in 1 .. Len(mods) : mods[k].path # p
  BY DEF Cached
<1>5. ~Cached(p) => Found(p, e)'
  BY <1>1, <1>3, <1>4 DEF Found
<1>6. ASSUME NEW q \in Paths, NEW f \in Envs, Found(q, f) PROVE Found(q, f)'
  BY <1>1, <1>3, <1>6 DEF Found
<1>7. ASSUME NEW q \in Paths, Cached(q)' PROVE Cached(q) \/ q = p
  BY <1>1, <1>3, <1>7 DEF Cached
<1> QED
  BY <1>5, <1>6, <1>7

\* A step that leaves the cache alone and only takes frames away, or adds one
\* that is no module.
LEMMA CacheKept ==
    ASSUME TypeOK, CacheIsTheGiven, UNCHANGED <<mods, given>>, twice \subseteq twice',
           \/ UNCHANGED stack
           \/ stack # <<>> /\ stack' = Popped
           \/ \E f \in LoadFrame \cup GuardFrame : f.kind # "module" /\ stack' = Append(stack, f)
    PROVE  CacheIsTheGiven'
<1>1. stack \in Seq(LoadFrame \cup GuardFrame) /\ Len(stack) \in Nat
  BY DEF TypeOK
<1>2. \A k \in 1 .. Len(stack') :
          stack'[k].kind = "module" => k \in 1 .. Len(stack) /\ stack'[k] = stack[k]
  <2>1. CASE UNCHANGED stack
    BY <2>1
  <2>2. CASE stack # <<>> /\ stack' = Popped
    <3>1. Len(Popped) = Len(stack) - 1 /\ \A k \in 1 .. Len(stack) - 1 : Popped[k] = stack[k]
      BY <1>1, <2>2, PoppedFacts DEF Popped
    <3> QED
      BY <1>1, <2>2, <3>1
  <2>3. ASSUME NEW f \in LoadFrame \cup GuardFrame, f.kind # "module", stack' = Append(stack, f)
        PROVE  \A k \in 1 .. Len(stack') :
                   stack'[k].kind = "module" => k \in 1 .. Len(stack) /\ stack'[k] = stack[k]
    <3>1. /\ Len(stack') = Len(stack) + 1
          /\ stack'[Len(stack) + 1] = f
          /\ \A k \in 1 .. Len(stack) : stack'[k] = stack[k]
      BY <1>1, <2>3
    <3> QED
      BY <1>1, <2>3, <3>1
  <2> QED
    BY <2>1, <2>2, <2>3
<1>3. \A p, e : Found(p, e)' <=> Found(p, e)
  BY DEF Found
<1>4. \A p : Cached(p)' <=> Cached(p)
  BY DEF Cached
<1> QED
  BY <1>2, <1>3, <1>4 DEF CacheIsTheGiven

\* A module that is not in the cache begins.
LEMMA ModuleEntered ==
    ASSUME TypeOK, CacheIsTheGiven, UNCHANGED <<mods, given>>,
           NEW p \in Paths, NEW e \in Envs, ~Cached(p), Run("module", p, e),
           twice' = IF IsRunning(p) THEN twice \cup {p} ELSE twice
    PROVE  CacheIsTheGiven'
<1> DEFINE f == [kind |-> "module", path |-> p, env |-> e, prev |-> base, lost |-> lost]
<1>1. stack \in Seq(LoadFrame \cup GuardFrame) /\ Len(stack) \in Nat
  BY DEF TypeOK
<1>2. stack' = Append(stack, f)
  BY DEF Run
<1>3. f.kind = "module" /\ f.path = p
  OBVIOUS
<1> HIDE DEF f
<1>4. /\ Len(stack') = Len(stack) + 1
      /\ stack'[Len(stack) + 1] = f
      /\ \A k \in 1 .. Len(stack) : stack'[k] = stack[k]
  BY <1>1, <1>2
<1>5. \A k \in 1 .. Len(stack) : stack[k].kind = "module" => stack[k].path # p \/ p \in twice'
  BY DEF IsRunning, Loads
<1>6. \A q, x : Found(q, x)' <=> Found(q, x)
  BY DEF Found
<1>7. \A q : Cached(q)' <=> Cached(q)
  BY DEF Cached
<1>8. ASSUME NEW k \in 1 .. Len(stack')
      PROVE  k \in 1 .. Len(stack) \/ k = Len(stack) + 1
  BY <1>1, <1>4, <1>8
<1>9. twice \subseteq twice'
  OBVIOUS
<1>10. \A k \in 1 .. Len(stack') :
           stack'[k].kind = "module" => stack'[k].path \in twice' \/ ~Cached(stack'[k].path)
  BY <1>3, <1>4, <1>8, <1>9 DEF CacheIsTheGiven
<1>11. \A j, k \in 1 .. Len(stack') :
           stack'[j].kind = "module" /\ stack'[k].kind = "module" /\ stack'[j].path = stack'[k].path
               => j = k \/ stack'[j].path \in twice'
  BY <1>3, <1>4, <1>5, <1>8, <1>9 DEF CacheIsTheGiven
<1>12. \A d \in given' : d[1] \in twice' \/ Found(d[1], d[2])'
  BY <1>6, <1>9 DEF CacheIsTheGiven
<1> QED
  BY <1>7, <1>10, <1>11, <1>12 DEF CacheIsTheGiven

\* The module on top ends.
LEMMA ModuleLeft ==
    ASSUME TypeOK, CacheIsTheGiven, ModuleEnd
    PROVE  CacheIsTheGiven'
<1>1. stack \in Seq(LoadFrame \cup GuardFrame) /\ Len(stack) \in Nat \ {0} /\ Top = stack[Len(stack)]
  BY DEF TypeOK, ModuleEnd, Top
<1>2. PICK p \in Paths, e \in Envs : p = Top.path /\ e = Top.env /\ Top.kind = "module"
  BY TopFacts DEF ModuleEnd
<1>3. p \in twice \/ ~Cached(p)
  BY <1>1, <1>2 DEF CacheIsTheGiven
<1>4. /\ mods' = Append(mods, [path |-> p, env |-> e]) /\ given' = given \cup {<<p, e>>}
      /\ twice' = twice
  BY <1>2 DEF ModuleEnd
<1>5. /\ Len(stack') = Len(stack) - 1
      /\ \A k \in 1 .. Len(stack) - 1 : stack'[k] = stack[k]
  BY <1>1, PoppedFacts DEF ModuleEnd, Popped
<1>6. \A k \in 1 .. Len(stack') :
          stack'[k].kind = "module" => stack'[k].path # p \/ p \in twice
  BY <1>1, <1>2, <1>5 DEF CacheIsTheGiven
<1>7. \A k \in 1 .. Len(stack') : stack'[k].kind = "module" => stack'[k].path \in Paths
  <2>1. \A k \in 1 .. Len(stack) : stack[k] \in LoadFrame \cup GuardFrame
    BY <1>1
  <2> QED
    BY <1>1, <1>5, <2>1, FrameKinds DEF LoadFrame
<1>8. /\ ~Cached(p) => Found(p, e)'
      /\ \A q \in Paths, f \in Envs : Found(q, f) => Found(q, f)'
      /\ \A q \in Paths : Cached(q)' => Cached(q) \/ q = p
  BY <1>2, <1>4, CacheAppend
<1>9. \A d \in given' : d[1] \in twice \/ Found(d[1], d[2])'
  <2>1. \A d \in given : d[1] \in Paths /\ d[2] \in Envs
    BY DEF TypeOK
  <2> QED
    BY <1>3, <1>4, <1>8, <2>1 DEF CacheIsTheGiven
<1>10. \A q \in Paths, k \in 1 .. Len(stack') :
           stack'[k].kind = "module" /\ stack'[k].path = q => q \in twice \/ ~Cached(q)'
  BY <1>1, <1>5, <1>6, <1>7, <1>8 DEF CacheIsTheGiven
<1>11. \A j, k \in 1 .. Len(stack') :
           stack'[j].kind = "module" /\ stack'[k].kind = "module" /\ stack'[j].path = stack'[k].path
               => j = k \/ stack'[j].path \in twice
  BY <1>1, <1>5 DEF CacheIsTheGiven
<1> QED
  BY <1>4, <1>7, <1>9, <1>10, <1>11 DEF CacheIsTheGiven

LEMMA CacheStep ==
    ASSUME TypeOK, CacheIsTheGiven, [Next]_vars
    PROVE  CacheIsTheGiven'
<1>1. ASSUME NEW n \in Names, Import(n) PROVE CacheIsTheGiven'
  <2>1. PICK p \in Paths : Fails \/ Run("import", p, Global)
    BY <1>1, ResolveFacts DEF Import, TypeOK
  <2>2. UNCHANGED <<mods, twice, given>>
    BY <1>1 DEF Import
  <2>3. CASE Fails
    BY <2>2, <2>3, CacheKept DEF Fails
  <2>4. CASE Run("import", p, Global)
    <3> DEFINE f == [kind |-> "import", path |-> p, env |-> Global, prev |-> base, lost |-> lost]
    <3>1. f \in LoadFrame /\ f.kind # "module"
      BY EnvFacts DEF LoadFrame, TypeOK
    <3>2. stack' = Append(stack, f)
      BY <2>4 DEF Run
    <3> QED
      BY <2>2, <3>1, <3>2, CacheKept
  <2> QED
    BY <2>1, <2>3, <2>4
<1>2. ASSUME NEW n \in Names, ModuleAgain(n) PROVE CacheIsTheGiven'
  <2>1. PICK p \in Paths, e \in Envs : Found(p, e) /\ given' = given \cup {<<p, e>>}
    BY <1>2, ResolveFacts DEF ModuleAgain, TypeOK
  <2>2. UNCHANGED <<mods, stack, twice>>
    BY <1>2 DEF ModuleAgain
  <2> QED
    BY <2>1, <2>2 DEF CacheIsTheGiven, Found, Cached
<1>3. ASSUME NEW n \in Names, Module(n) PROVE CacheIsTheGiven'
  <2>1. PICK p \in Paths :
            /\ ~Cached(p)
            /\ \/ Fails /\ UNCHANGED twice
               \/ /\ Run("module", p, made + 1)
                  /\ twice' = IF IsRunning(p) THEN twice \cup {p} ELSE twice
    BY <1>3, ResolveFacts DEF Module, TypeOK
  <2>2. UNCHANGED <<mods, given>> /\ made < MaxRuns
    BY <1>3 DEF Module
  <2>3. PICK e \in Envs : e = made + 1
    BY <2>2, EnvFacts DEF TypeOK, Envs, Global
  <2>4. CASE Fails /\ UNCHANGED twice
    BY <2>2, <2>4, CacheKept DEF Fails
  <2>5. CASE /\ Run("module", p, e)
             /\ twice' = IF IsRunning(p) THEN twice \cup {p} ELSE twice
    BY <2>1, <2>2, <2>5, ModuleEntered
  <2> QED
    BY <2>1, <2>3, <2>4, <2>5
<1>4. ASSUME ModuleEnd PROVE CacheIsTheGiven'
  BY <1>4, ModuleLeft
<1>5. ASSUME ImportEnd \/ UnwindModule \/ UnwindImport \/ GuardEnd \/ Catch PROVE CacheIsTheGiven'
  BY <1>5, CacheKept DEF ImportEnd, UnwindModule, UnwindImport, GuardEnd, Catch, loaded
<1>6. ASSUME NEW kind \in {"call", "try"}, GuardBegin(kind) PROVE CacheIsTheGiven'
  <2>1. [kind |-> kind] \in GuardFrame /\ [kind |-> kind].kind # "module"
    BY DEF GuardFrame
  <2>2. UNCHANGED <<mods, twice, given>> /\ stack' = Append(stack, [kind |-> kind])
    BY <1>6 DEF GuardBegin, loaded
  <2> QED
    BY <2>1, <2>2, CacheKept
<1>7. CASE UNCHANGED <<mods, twice, given, stack>>
  BY <1>7, CacheKept
<1> QED
  BY <1>1, <1>2, <1>3, <1>4, <1>5, <1>6, <1>7
     DEF Next, vars, loaded, ImportAgain, NextLine, Throw

\* 모듈 gives everybody the same dictionary for a path, however modules,
\* imports, errors and returns are nested: only a file loaded again while it
\* still runs can have two.
THEOREM DictionaryIsOne == Spec => []OneDictionary
<1>1. Init => CacheIsTheGiven
  BY DEF Init, CacheIsTheGiven
<1>2. TypeOK /\ CacheIsTheGiven /\ [Next]_vars => CacheIsTheGiven'
  BY CacheStep
<1>3. TypeOK /\ CacheIsTheGiven => OneDictionary
  <2> SUFFICES ASSUME TypeOK, CacheIsTheGiven,
                      NEW a \in given, NEW b \in given, a[1] = b[1], a[1] \notin twice
               PROVE  a = b
    BY DEF OneDictionary
  <2>1. a \in Paths \X Envs /\ b \in Paths \X Envs
    BY DEF TypeOK
  <2>2. PICK j \in 1 .. Len(mods) :
            mods[j] = [path |-> a[1], env |-> a[2]] /\ \A i \in 1 .. j - 1 : mods[i].path # a[1]
    BY DEF CacheIsTheGiven, Found
  <2>3. PICK k \in 1 .. Len(mods) :
            mods[k] = [path |-> b[1], env |-> b[2]] /\ \A i \in 1 .. k - 1 : mods[i].path # b[1]
    BY DEF CacheIsTheGiven, Found
  <2>4. Len(mods) \in Nat
    BY DEF TypeOK
  <2>5. ~(j < k) /\ ~(k < j)
    BY <2>2, <2>3, <2>4
  <2>6. j = k
    BY <2>4, <2>5
  <2>7. a[2] = b[2]
    BY <2>2, <2>3, <2>6
  <2> QED
    BY <2>1, <2>7
<1> QED
  BY <1>1, <1>2, <1>3, TypeCorrect, PTL DEF Spec

-----------------------------------------------------------------------------
(* The directory paths are looked up from *)

LEMMA DirAppend ==
    ASSUME NEW s \in Seq(LoadFrame \cup GuardFrame), NEW f \in LoadFrame \cup GuardFrame, NEW d
    PROVE  /\ f.kind \in {"import", "module"} => CurrentDir(Append(s, f), DirOf[f.path])
           /\ f.kind \in {"call", "try"} => (CurrentDir(Append(s, f), d) <=> CurrentDir(s, d))
<1> DEFINE t == Append(s, f)
<1>1. /\ Len(s) \in Nat /\ Len(t) = Len(s) + 1 /\ t[Len(s) + 1] = f
      /\ \A k \in 1 .. Len(s) : t[k] = s[k]
  OBVIOUS
<1> HIDE DEF t
<1>2. ASSUME f.kind \in {"import", "module"} PROVE CurrentDir(t, DirOf[f.path])
  <2>1. IsInnermost(t, Len(s) + 1)
    BY <1>1, <1>2 DEF IsInnermost, Loads
  <2> QED
    BY <1>1, <2>1 DEF CurrentDir
<1>3. ASSUME f.kind \in {"call", "try"} PROVE CurrentDir(t, d) <=> CurrentDir(s, d)
  <2>1. Loads(t) = Loads(s)
    BY <1>1, <1>3 DEF Loads
  <2>2. \A k : IsInnermost(t, k) <=> IsInnermost(s, k)
    BY <2>1 DEF IsInnermost
  <2>3. \A k : IsInnermost(s, k) => k \in 1 .. Len(s) /\ k \in 1 .. Len(t) /\ t[k] = s[k]
    BY <1>1 DEF IsInnermost, Loads
  <2> QED
    BY <2>1, <2>2, <2>3 DEF CurrentDir
<1> QED
  BY <1>2, <1>3 DEF t

\* CurrentDir for the lowest n frames.
LoadAt(s, k) == s[k].kind \in {"import", "module"}

DirBelow(s, n, d) ==
    \/ (\A k \in 1 .. n : ~LoadAt(s, k)) /\ d = MainDir
    \/ \E k \in 1 .. n : /\ LoadAt(s, k) /\ d = DirOf[s[k].path]
                        /\ \A j \in 1 .. n : LoadAt(s, j) => j <= k

LEMMA DirBelowAll ==
    ASSUME NEW S, NEW s \in Seq(S), NEW d
    PROVE  CurrentDir(s, d) <=> DirBelow(s, Len(s), d)
<1>1. \A k : k \in Loads(s) <=> k \in 1 .. Len(s) /\ LoadAt(s, k)
  BY DEF Loads, LoadAt
<1>2. Loads(s) = {} <=> \A k \in 1 .. Len(s) : ~LoadAt(s, k)
  BY <1>1
<1>3. \A k : IsInnermost(s, k) <=> /\ k \in 1 .. Len(s) /\ LoadAt(s, k)
                                  /\ \A j \in 1 .. Len(s) : LoadAt(s, j) => j <= k
  BY <1>1 DEF IsInnermost
<1> QED
  BY <1>2, <1>3 DEF CurrentDir, DirBelow

LEMMA DirBelowSame ==
    ASSUME NEW n, NEW s, NEW t, NEW d, \A k \in 1 .. n : t[k] = s[k]
    PROVE  DirBelow(t, n, d) <=> DirBelow(s, n, d)
BY DEF DirBelow, LoadAt

\* While lost is FALSE base_dir is the running file's; and so is the one each
\* file will give back, for the file around it.
DirsKept ==
    /\ ~lost => CurrentDir(stack, base)
    /\ \A k \in 1 .. Len(stack) :
           LoadAt(stack, k) /\ ~stack[k].lost => DirBelow(stack, k - 1, stack[k].prev)

LEMMA DirsPushed ==
    ASSUME TypeOK, DirsKept, NEW f \in LoadFrame \cup GuardFrame, stack' = Append(stack, f),
           \/ /\ f.kind \in {"import", "module"}
              /\ base' = DirOf[f.path] /\ f.prev = base /\ f.lost = lost
           \/ f.kind \in {"call", "try"} /\ UNCHANGED <<base, lost>>
    PROVE  DirsKept'
<1>1. stack \in Seq(LoadFrame \cup GuardFrame) /\ Len(stack) \in Nat
  BY DEF TypeOK
<1>2. /\ Len(stack') = Len(stack) + 1 /\ stack'[Len(stack) + 1] = f
      /\ \A k \in 1 .. Len(stack) : stack'[k] = stack[k]
  BY <1>1
<1>3. ~lost' => CurrentDir(stack', base')
  <2>1. /\ f.kind \in {"import", "module"} => CurrentDir(stack', DirOf[f.path])
        /\ f.kind \in {"call", "try"} => (CurrentDir(stack', base) <=> CurrentDir(stack, base))
    BY <1>1, DirAppend
  <2>2. CASE f.kind \in {"import", "module"} /\ base' = DirOf[f.path]
    <3>1. CurrentDir(stack', DirOf[f.path])
      BY <2>1, <2>2
    <3> QED
      BY <2>2, <3>1
  <2>3. CASE f.kind \in {"call", "try"} /\ base' = base /\ lost' = lost
    <3>1. CurrentDir(stack', base) <=> CurrentDir(stack, base)
      BY <2>1, <2>3
    <3> QED
      BY <2>3, <3>1 DEF DirsKept
  <2> QED
    BY <2>2, <2>3
<1>4. ASSUME NEW k \in 1 .. Len(stack'), LoadAt(stack', k), ~stack'[k].lost
      PROVE  DirBelow(stack', k - 1, stack'[k].prev)
  <2>1. \A d : DirBelow(stack', k - 1, d) <=> DirBelow(stack, k - 1, d)
    <3>1. \A j \in 1 .. k - 1 : stack'[j] = stack[j]
      BY <1>1, <1>2, <1>4
    <3> QED
      BY <3>1, DirBelowSame
  <2>2. CASE k \in 1 .. Len(stack)
    BY <1>2, <1>4, <2>1, <2>2 DEF DirsKept, LoadAt
  <2>3. CASE k = Len(stack) + 1
    <3>1. f.prev = base /\ ~lost
      BY <1>2, <1>4, <2>3 DEF LoadAt
    <3>2. DirBelow(stack, Len(stack), base)
      BY <1>1, <3>1, DirBelowAll DEF DirsKept
    <3>3. k - 1 = Len(stack)
      BY <1>1, <2>3
    <3> QED
      BY <1>2, <2>1, <2>3, <3>1, <3>2, <3>3
  <2> QED
    BY <1>1, <1>2, <2>2, <2>3
<1> QED
  BY <1>3, <1>4 DEF DirsKept

LEMMA DirsPopped ==
    ASSUME TypeOK, DirsKept, stack # <<>>, stack' = Popped,
           \/ Top.kind \in {"import", "module"} /\ base' = Top.prev /\ lost' = Top.lost
           \/ Top.kind = "import" /\ lost' = TRUE
           \/ Top.kind \in {"call", "try"} /\ UNCHANGED <<base, lost>>
    PROVE  DirsKept'
<1>1. stack \in Seq(LoadFrame \cup GuardFrame) /\ Len(stack) \in Nat \ {0} /\ Top = stack[Len(stack)]
  BY DEF TypeOK, Top
<1>2. /\ stack' \in Seq(LoadFrame \cup GuardFrame)
      /\ Len(stack') = Len(stack) - 1
      /\ \A k \in 1 .. Len(stack) - 1 : stack'[k] = stack[k]
  BY <1>1, PoppedFacts DEF Popped
<1>3. \A d : DirBelow(stack', Len(stack'), d) <=> DirBelow(stack, Len(stack) - 1, d)
  BY <1>2, DirBelowSame
<1>4. \A d : CurrentDir(stack', d) <=> DirBelow(stack, Len(stack) - 1, d)
  BY <1>2, <1>3, DirBelowAll
<1>5. ~lost' => CurrentDir(stack', base')
  <2>1. CASE Top.kind \in {"import", "module"} /\ base' = Top.prev /\ lost' = Top.lost
    <3>1. Len(stack) \in 1 .. Len(stack) /\ LoadAt(stack, Len(stack))
      BY <1>1, <2>1 DEF LoadAt
    <3>2. ~lost' => DirBelow(stack, Len(stack) - 1, base')
      BY <1>1, <2>1, <3>1 DEF DirsKept
    <3> QED
      BY <1>4, <3>2
  <2>2. CASE Top.kind \in {"call", "try"} /\ UNCHANGED <<base, lost>>
    <3>1. ASSUME ~lost PROVE DirBelow(stack, Len(stack) - 1, base)
      <4>1. DirBelow(stack, Len(stack), base)
        BY <1>1, <3>1, DirBelowAll DEF DirsKept
      <4>2. ~LoadAt(stack, Len(stack))
        BY <1>1, <2>2 DEF LoadAt
      <4> QED
        BY <1>1, <4>1, <4>2 DEF DirBelow
    <3> QED
      BY <1>4, <2>2, <3>1
  <2> QED
    BY <2>1, <2>2
<1>6. ASSUME NEW k \in 1 .. Len(stack'), LoadAt(stack', k), ~stack'[k].lost
      PROVE  DirBelow(stack', k - 1, stack'[k].prev)
  <2>1. k \in 1 .. Len(stack) /\ stack'[k] = stack[k] /\ \A j \in 1 .. k - 1 : stack'[j] = stack[j]
    BY <1>1, <1>2, <1>6
  <2>2. DirBelow(stack, k - 1, stack[k].prev)
    BY <1>6, <2>1 DEF DirsKept, LoadAt
  <2> QED
    BY <2>1, <2>2, DirBelowSame
<1> QED
  BY <1>5, <1>6 DEF DirsKept

\* Whatever a file loads, and however what it loads comes back, base_dir is its
\* own directory again, unless an imported file was left by an error while it
\* ran; and then the harm ends with it.
THEOREM DirectoriesRestored == Spec => []DamageEnds
<1>1. Init => DirsKept
  BY DEF Init, DirsKept, CurrentDir, Loads
<1>2. ASSUME TypeOK, DirsKept, [Next]_vars PROVE DirsKept'
  <2>1. ASSUME NEW n \in Names, Import(n) PROVE DirsKept'
    <3>1. PICK p \in Paths : Fails \/ Run("import", p, Global)
      BY <1>2, <2>1, ResolveFacts DEF Import, TypeOK
    <3>2. CASE Fails
      BY <1>2, <3>2 DEF Fails, DirsKept
    <3>3. CASE Run("import", p, Global)
      <4> DEFINE f == [kind |-> "import", path |-> p, env |-> Global, prev |-> base, lost |-> lost]
      <4>1. /\ f \in LoadFrame /\ f.kind = "import" /\ f.path = p
            /\ f.prev = base /\ f.lost = lost
        BY <1>2, EnvFacts DEF LoadFrame, TypeOK
      <4>2. stack' = Append(stack, f) /\ base' = DirOf[p]
        BY <3>3 DEF Run
      <4> HIDE DEF f
      <4> QED
        BY <1>2, <4>1, <4>2, DirsPushed
    <3> QED
      BY <3>1, <3>2, <3>3
  <2>2. ASSUME NEW n \in Names, Module(n) PROVE DirsKept'
    <3>1. PICK p \in Paths : Fails \/ Run("module", p, made + 1)
      BY <1>2, <2>2, ResolveFacts DEF Module, TypeOK
    <3>2. CASE Fails
      BY <1>2, <3>2 DEF Fails, DirsKept
    <3>3. CASE Run("module", p, made + 1)
      <4> DEFINE f == [kind |-> "module", path |-> p, env |-> made + 1, prev |-> base, lost |-> lost]
      <4>1. /\ f \in LoadFrame /\ f.kind = "module" /\ f.path = p
            /\ f.prev = base /\ f.lost = lost
        BY <1>2, <2>2, EnvFacts DEF LoadFrame, TypeOK, Module, Envs, Global
      <4>2. stack' = Append(stack, f) /\ base' = DirOf[p]
        BY <3>3 DEF Run
      <4> HIDE DEF f
      <4> QED
        BY <1>2, <4>1, <4>2, DirsPushed
    <3> QED
      BY <3>1, <3>2, <3>3
  <2>3. ASSUME ImportEnd \/ ModuleEnd \/ UnwindModule \/ UnwindImport \/ GuardEnd \/ Catch
        PROVE  DirsKept'
    BY <1>2, <2>3, DirsPopped DEF ImportEnd, ModuleEnd, UnwindModule, UnwindImport, GuardEnd, Catch
  <2>4. ASSUME NEW kind \in {"call", "try"}, GuardBegin(kind) PROVE DirsKept'
    <3>1. [kind |-> kind] \in GuardFrame /\ [kind |-> kind].kind \in {"call", "try"}
      BY DEF GuardFrame
    <3>2. UNCHANGED <<base, lost>> /\ stack' = Append(stack, [kind |-> kind])
      BY <2>4 DEF GuardBegin
    <3> QED
      BY <1>2, <3>1, <3>2, DirsPushed
  <2>5. CASE UNCHANGED <<base, stack, lost>>
    BY <1>2, <2>5 DEF DirsKept
  <2> QED
    BY <1>2, <2>1, <2>2, <2>3, <2>4, <2>5
       DEF Next, vars, loaded, ImportAgain, ModuleAgain, NextLine, Throw
<1>3. DirsKept => DamageEnds
  BY DEF DirsKept, DamageEnds
<1> QED
  BY <1>1, <1>2, <1>3, TypeCorrect, PTL DEF Spec

=============================================================================
