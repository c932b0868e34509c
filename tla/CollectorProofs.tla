-------------------------- MODULE CollectorProofs --------------------------
(***************************************************************************)
(* The collector is safe, for any heap, any environments and any number of *)
(* stray words on the stack: what the program can reach is never freed.    *)
(***************************************************************************)
EXTENDS Collector, TLAPS

-----------------------------------------------------------------------------
(* The inductive invariant *)

\* What is held is there, and what is there names what is there.  Only the
\* variables of an environment may name a freed object, and only while it is
\* itself about to be released.
HeapInv ==
    /\ held \cup kept \subseteq alloc /\ frames \cup {G} \subseteq used
    /\ \A o \in alloc :
          /\ kids[o] \subseteq alloc
          /\ IF kind[o] = "func" THEN kids[o] = {} /\ fenv[o] \in used
                                 ELSE fenv[o] = NoEnv
    /\ \A e \in used : parent[e] \in used \cup {NoEnv}

\* Nothing is counted that nobody holds, but for what is being released.
HolderInv == \A e \in used : IsHeld(e) \/ e \in freeing

\* Parents do not go round in a circle: of any environments, one is the parent
\* of none of them.
TreeInv == \A C \in SUBSET used : C # {} => \E c \in C : \A d \in C : parent[d] # c

\* The environments of d hang on nothing but each other and releases to come;
\* the variables of the others name what is there.
Doomed(d) ==
    /\ d \subseteq used /\ d \cap Here = {}
    /\ \A o \in alloc : fenv[o] \notin d
    /\ \A e \in used : parent[e] \in d => e \in d
    /\ \A e \in used \ d : vals[e] \subseteq alloc

ValsInv == \E d \in SUBSET used : Doomed(d)

\* The stamp of the next round is on nothing yet: the epoch has not come round.
Stamp == 0 .. Wrap - 1
Old(s) == s = 0 \/ s \in 2 .. epoch

EpochInv ==
    /\ epoch = IF rounds = Wrap - 1 THEN 1 ELSE rounds + 1
    /\ pc \in Marking => rounds > 0
    /\ rounds < Wrap - 1 => /\ \A n \in Nodes : Old(mark[n])
                            /\ \A e \in Envs : Old(gcmark[e])

Stamped == {n \in Nodes : mark[n] = epoch}
Climbed == {e \in Envs : gcmark[e] = epoch}

\* A round has reached nothing but what is there.
TouchInv ==
    /\ Stamped \cap Objs \subseteq alloc /\ gray \cap Objs \subseteq alloc
    /\ climb \in used \cup {NoEnv}

\* What is stamped and off the gray stack leads only to what is stamped, or to
\* the environment mark_env is at.
ColorInv ==
    /\ \A o \in (Stamped \cap Objs) \ gray :
          kids[o] \subseteq Stamped /\ fenv[o] \in Climbed \cup {NoEnv, climb}
    /\ \A e \in (Stamped \cap used) \ gray : e \in Climbed \cup {climb}
    /\ \A e \in Climbed :
          vals[e] \subseteq Stamped /\ parent[e] \in Climbed \cup {NoEnv, climb}

RootInv ==
    /\ kept \subseteq Stamped /\ G \in Climbed \cup {climb}
    /\ pc = "drain" => held \cup frames \subseteq Stamped

MarkInv ==
    IF pc \in Marking
    THEN freeing = {} /\ TouchInv /\ ColorInv /\ RootInv
    ELSE climb = NoEnv

CollectorInv ==
    TypeOK /\ HeapInv /\ HolderInv /\ TreeInv /\ ValsInv /\ EpochInv /\ MarkInv

-----------------------------------------------------------------------------
(* Types *)

LEMMA TypeInit == Init => TypeOK
BY EnvAssumption, WrapAssumption DEF Init, TypeOK, Nodes, Marking

LEMMA NextEpochType ==
    ASSUME epoch \in 1 .. Wrap - 1
    PROVE  NextEpoch \in 1 .. Wrap - 1
BY WrapAssumption DEF NextEpoch

\* Marking stamps with the epoch of the round.
LEMMA MarkHdrsType ==
    ASSUME TypeOK, NEW ns \in SUBSET Nodes, NEW rest \in SUBSET Nodes,
           MarkHdrs(ns, rest)
    PROVE  mark' \in [Nodes -> Stamp] /\ gray' \subseteq Nodes
BY WrapAssumption DEF TypeOK, MarkHdrs, Stamp

\* The environments env_new takes for a parent.
Parents == Here \cup {fenv[f] : f \in {f \in held : kind[f] = "func"}}

LEMMA ParentsType == ASSUME TypeOK PROVE Parents \subseteq Envs \cup {NoEnv}
BY EnvAssumption DEF TypeOK, Parents, Here

LEMMA ProgramType == ASSUME TypeOK, Program PROVE TypeOK'
<1> USE DEF TypeOK
<1>1. ASSUME NEW o \in Objs, NEW k \in {"data", "func"}, Alloc(o, k) PROVE TypeOK'
  <2>1. PICK ks \in SUBSET held : kids' = [kids EXCEPT ![o] = ks]
    BY <1>1 DEF Alloc
  <2>2. PICK e \in Envs \cup {NoEnv} : fenv' = [fenv EXCEPT ![o] = e]
    BY <1>1, EnvAssumption DEF Alloc, Here
  <2> QED
    BY <1>1, <2>1, <2>2, WrapAssumption DEF Alloc, envs, Nodes
<1>2. ASSUME NEW x \in Objs, Store(x) PROVE TypeOK'
  <2>1. /\ kids' \in [Objs -> SUBSET Objs] /\ vals' \in [Envs -> SUBSET Objs]
    BY <1>2 DEF Store
  <2> QED
    BY <1>2, <2>1 DEF Store, stack, marks
<1>3. ASSUME NEW x \in Objs, Load(x) PROVE TypeOK'
  BY <1>3 DEF Load, heap, envs, marks
<1>4. ASSUME NEW x \in Objs, Drop(x) PROVE TypeOK'
  BY <1>4 DEF Drop, heap, envs, marks
<1>5. ASSUME NEW e \in Envs, Enter(e) PROVE TypeOK'
  <2>1. PICK p \in Envs \cup {NoEnv} : parent' = [parent EXCEPT ![e] = p]
    BY <1>5, ParentsType DEF Enter, Parents
  <2> QED
    BY <1>5, <2>1 DEF Enter, heap, marks
<1>6. ASSUME NEW e \in Envs, Leave(e) PROVE TypeOK'
  BY <1>6 DEF Leave, heap, envs, marks
<1> QED
  BY <1>1, <1>2, <1>3, <1>4, <1>5, <1>6 DEF Program

LEMMA CollectType == ASSUME TypeOK, HeapInv, Collect PROVE TypeOK'
<1>1. ASSUME Begin PROVE TypeOK'
  <2>1. epoch' \in 1 .. Wrap - 1
    BY <1>1, NextEpochType DEF Begin, TypeOK
  <2>2. mark' \in [Nodes -> Stamp] /\ gray' \subseteq Nodes
    BY <1>1, <2>1, WrapAssumption DEF Begin, TypeOK, Stamp, Nodes
  <2>3. rounds' \in 0 .. MaxRounds
    BY <1>1, WrapAssumption DEF Begin, TypeOK
  <2> QED
    BY <1>1, <2>1, <2>2, <2>3, EnvAssumption DEF Begin, TypeOK, Stamp, heap, envs, stack, Marking
<1>2. ASSUME MarkEnv PROVE TypeOK'
  <2>1. CASE gcmark[climb] = epoch
    BY <1>2, <2>1 DEF MarkEnv, TypeOK, heap, envs, stack
  <2>2. CASE gcmark[climb] # epoch
    <3>1. climb \in Envs /\ vals[climb] \subseteq Nodes /\ gray \subseteq Nodes
      BY <1>2 DEF MarkEnv, TypeOK, Nodes
    <3>2. mark' \in [Nodes -> Stamp] /\ gray' \subseteq Nodes
      BY <1>2, <2>2, <3>1, MarkHdrsType DEF MarkEnv
    <3>3. gcmark' \in [Envs -> Stamp] /\ climb' \in Envs \cup {NoEnv}
      BY <1>2, <2>2, <3>1, WrapAssumption DEF MarkEnv, TypeOK, Stamp
    <3> QED
      BY <1>2, <3>2, <3>3 DEF MarkEnv, TypeOK, Stamp, heap, envs, stack
  <2> QED
    BY <2>1, <2>2
<1>3. ASSUME ScanStack PROVE TypeOK'
  <2>1. PICK noise \in SUBSET (alloc \cup Envs) : MarkHdrs(held \cup frames \cup noise, gray)
    BY <1>3 DEF ScanStack
  <2>2. held \cup frames \cup noise \subseteq Nodes /\ gray \subseteq Nodes
    BY DEF TypeOK, Nodes
  <2>3. mark' \in [Nodes -> Stamp] /\ gray' \subseteq Nodes
    BY <2>1, <2>2, MarkHdrsType
  <2> QED
    BY <1>3, <2>3 DEF ScanStack, TypeOK, Stamp, heap, envs, stack, Marking
<1>4. ASSUME Drain PROVE TypeOK'
  <2>1. PICK n \in gray :
          IF n \in Envs
          THEN /\ climb' = IF n \in used THEN n ELSE NoEnv
               /\ gray' = gray \ {n} /\ UNCHANGED mark
          ELSE /\ climb' = IF kind[n] = "func" THEN fenv[n] ELSE NoEnv
               /\ MarkHdrs(IF kind[n] = "data" THEN kids[n] ELSE {}, gray \ {n})
    BY <1>4 DEF Drain
  <2>2. CASE n \in Envs
    BY <1>4, <2>1, <2>2 DEF Drain, TypeOK, heap, envs, stack
  <2>3. CASE n \notin Envs
    <3>1. n \in Objs /\ gray \ {n} \subseteq Nodes
      BY <2>3 DEF TypeOK, Nodes
    <3>2. (IF kind[n] = "data" THEN kids[n] ELSE {}) \subseteq Nodes
      BY <3>1 DEF TypeOK, Nodes
    <3>3. mark' \in [Nodes -> Stamp] /\ gray' \subseteq Nodes
      BY <2>1, <2>3, <3>1, <3>2, MarkHdrsType
    <3>4. climb' \in Envs \cup {NoEnv}
      BY <2>1, <2>3, <3>1 DEF TypeOK
    <3> QED
      BY <1>4, <3>3, <3>4 DEF Drain, TypeOK, Stamp, heap, envs, stack
  <2> QED
    BY <2>2, <2>3
<1>5. ASSUME Sweep PROVE TypeOK'
  <2> DEFINE dead == {o \in alloc : mark[o] # epoch}
  <2>1. /\ alloc' = alloc \ dead
        /\ kind' \in [Objs -> {"data", "func"}] /\ kids' \in [Objs -> SUBSET Objs]
        /\ fenv' \in [Objs -> Envs \cup {NoEnv}]
        /\ mark' = [n \in Nodes |-> IF n \in dead THEN 0 ELSE mark[n]]
        /\ freeing' = {fenv[o] : o \in {o \in dead : kind[o] = "func"}}
    BY <1>5 DEF Sweep, TypeOK
  <2>2. freeing' \subseteq Envs
    BY <2>1 DEF TypeOK, HeapInv
  <2>3. mark' \in [Nodes -> Stamp]
    BY <2>1, WrapAssumption DEF TypeOK, Stamp
  <2> QED
    BY <1>5, <2>1, <2>2, <2>3 DEF Sweep, TypeOK, Stamp, envs, stack
<1> QED
  BY <1>1, <1>2, <1>3, <1>4, <1>5 DEF Collect

LEMMA ReleaseType == ASSUME TypeOK, Release PROVE TypeOK'
<1>1. used' \subseteq used /\ freeing' \subseteq freeing \cup ({parent[e] : e \in freeing} \ {NoEnv})
  BY DEF Release
<1>2. used' \subseteq Envs /\ freeing' \subseteq Envs
  BY <1>1 DEF TypeOK
<1> QED
  BY <1>2 DEF Release, TypeOK, heap, stack, marks

-----------------------------------------------------------------------------
(* The heap between the steps of the collector *)

\* Marking moves nothing of what the invariants of the heap speak of.
LEMMA MarkingMovesNothing ==
    ASSUME HeapInv, HolderInv, TreeInv, ValsInv, UNCHANGED <<heap, envs, stack, freeing>>
    PROVE  HeapInv' /\ HolderInv' /\ TreeInv' /\ ValsInv'
<1> USE DEF heap, envs, stack, Here
<1>1. HeapInv'
  BY DEF HeapInv
<1>2. HolderInv'
  BY DEF HolderInv, IsHeld
<1>3. TreeInv'
  BY DEF TreeInv
<1>4. ValsInv'
  BY DEF ValsInv, Doomed
<1> QED
  BY <1>1, <1>2, <1>3, <1>4

\* Once nothing is left to release, every variable names what is there: of the
\* environments that are doomed none has a holder outside, and one has none inside.
LEMMA WholeAtRest ==
    ASSUME HeapInv, HolderInv, TreeInv, ValsInv, freeing = {}
    PROVE  \A e \in used : vals[e] \subseteq alloc
<1>1. PICK d \in SUBSET used : Doomed(d)
  BY DEF ValsInv
<1>2. d = {}
  <2> SUFFICES ASSUME d # {} PROVE FALSE
    OBVIOUS
  <2>1. PICK c \in d : \A x \in d : parent[x] # c
    BY DEF TreeInv
  <2>2. IsHeld(c)
    BY DEF HolderInv
  <2>3. c \notin Here /\ \A f \in alloc : fenv[f] # c
    BY <1>1 DEF Doomed
  <2>4. \A x \in used : parent[x] # c
    BY <1>1, <2>1 DEF Doomed
  <2> QED
    BY <2>2, <2>3, <2>4 DEF IsHeld
<1> QED
  BY <1>1, <1>2 DEF Doomed

LEMMA WholeIsEnough ==
    ASSUME \A e \in used' : vals'[e] \subseteq alloc'
    PROVE  ValsInv'
<1>1. Doomed({})'
  BY DEF Doomed
<1> QED
  BY <1>1 DEF ValsInv

\* What sweep finds: the stamped objects and the environments mark_env was at
\* hold all roots and lead only to each other.
RoundClosed ==
    /\ held \cup kept \subseteq Stamped /\ Here \subseteq Climbed
    /\ \A o \in Stamped \cap Objs :
          kids[o] \subseteq Stamped /\ fenv[o] \in Climbed \cup {NoEnv}
    /\ \A e \in Climbed : vals[e] \subseteq Stamped /\ parent[e] \in Climbed \cup {NoEnv}

LEMMA DrainedIsClosed ==
    ASSUME TypeOK, HeapInv, MarkInv, pc = "drain", climb = NoEnv, gray = {}
    PROVE  RoundClosed
<1>1. ColorInv /\ RootInv
  BY DEF MarkInv, Marking
<1>2. \A e \in Stamped \cap used : e \in Climbed
  BY <1>1, EnvAssumption DEF ColorInv, TypeOK
<1>3. G \in Climbed /\ held \cup kept \cup frames \subseteq Stamped
  BY <1>1, EnvAssumption DEF RootInv
<1>4. Here \subseteq Climbed
  BY <1>2, <1>3 DEF Here, HeapInv
<1>5. /\ \A o \in Stamped \cap Objs :
            kids[o] \subseteq Stamped /\ fenv[o] \in Climbed \cup {NoEnv}
      /\ \A e \in Climbed : vals[e] \subseteq Stamped /\ parent[e] \in Climbed \cup {NoEnv}
  BY <1>1 DEF ColorInv
<1> QED
  BY <1>3, <1>4, <1>5 DEF RoundClosed

Dead == {o \in alloc : mark[o] # epoch}

\* Zenon and SMT see the effect of a sweep through this lemma.
LEMMA SweepEffect ==
    ASSUME TypeOK, Sweep
    PROVE  /\ pc = "drain" /\ climb = NoEnv /\ gray = {} /\ pc' = "run"
           /\ alloc' = alloc \cap Stamped /\ Dead = alloc \ Stamped
           /\ \A o \in alloc' : /\ kind'[o] = kind[o] /\ kids'[o] = kids[o]
                                /\ fenv'[o] = fenv[o]
           /\ \A o \in Dead : kind[o] = "func" => fenv[o] \in freeing'
           /\ UNCHANGED <<envs, stack, epoch, rounds, gcmark, gray, climb>>
           /\ \A n \in Nodes : mark'[n] \in {0, mark[n]}
<1>1. Dead = alloc \ Stamped /\ alloc \subseteq Objs
  BY DEF Dead, Stamped, TypeOK, Nodes
<1>2. /\ alloc' = alloc \ Dead
      /\ kind' = [o \in Objs |-> IF o \in Dead THEN "data" ELSE kind[o]]
      /\ kids' = [o \in Objs |-> IF o \in Dead THEN {} ELSE kids[o]]
      /\ fenv' = [o \in Objs |-> IF o \in Dead THEN NoEnv ELSE fenv[o]]
      /\ mark' = [n \in Nodes |-> IF n \in Dead THEN 0 ELSE mark[n]]
      /\ freeing' = {fenv[o] : o \in {o \in Dead : kind[o] = "func"}}
  BY DEF Sweep, Dead
<1>3. alloc' = alloc \cap Stamped
  BY <1>1, <1>2
<1>4. \A o \in alloc' : kind'[o] = kind[o] /\ kids'[o] = kids[o] /\ fenv'[o] = fenv[o]
  BY <1>1, <1>2
<1>5. \A o \in Dead : kind[o] = "func" => fenv[o] \in freeing'
  BY <1>2
<1>6. \A n \in Nodes : mark'[n] \in {0, mark[n]}
  BY <1>2
<1> QED
  BY <1>1, <1>3, <1>4, <1>5, <1>6 DEF Sweep

LEMMA HeapStep ==
    ASSUME TypeOK, HeapInv, ValsInv, MarkInv, Program \/ Release \/ Sweep
    PROVE  HeapInv'
<1> USE DEF HeapInv
<1>0. alloc \subseteq Objs /\ used \subseteq Envs
  BY DEF TypeOK
<1>1. ASSUME NEW o \in Objs, NEW k \in {"data", "func"}, Alloc(o, k) PROVE HeapInv'
  <2>1. PICK ks \in SUBSET held : kids' = [kids EXCEPT ![o] = ks] /\ (k = "func" => ks = {})
    BY <1>1 DEF Alloc
  <2>2. PICK e \in IF k = "func" THEN Here ELSE {NoEnv} : fenv' = [fenv EXCEPT ![o] = e]
    BY <1>1 DEF Alloc
  <2>3. kind' = [kind EXCEPT ![o] = k] /\ alloc' = alloc \cup {o} /\ held' = held \cup {o}
        /\ UNCHANGED <<used, parent, frames, kept>> /\ o \notin alloc
    BY <1>1 DEF Alloc, envs
  <2>4. \A x \in alloc : kind'[x] = kind[x] /\ kids'[x] = kids[x] /\ fenv'[x] = fenv[x]
    BY <2>1, <2>2, <2>3 DEF TypeOK
  <2>5. kind'[o] = k /\ kids'[o] = ks /\ fenv'[o] = e
    BY <2>1, <2>2, <2>3 DEF TypeOK
  <2>6. k = "func" => e \in used
    BY <2>2 DEF Here
  <2> QED
    BY <2>1, <2>2, <2>3, <2>4, <2>5, <2>6
<1>2. ASSUME NEW x \in Objs, Store(x) PROVE HeapInv'
  <2>1. UNCHANGED <<alloc, kind, fenv, used, parent, held, kept, frames>>
    BY <1>2 DEF Store, stack
  <2>2. \A o \in alloc : /\ kids'[o] \subseteq kids[o] \cup held
                         /\ kind[o] = "func" => kids'[o] \subseteq kids[o]
    BY <1>2 DEF Store, TypeOK
  <2> QED
    BY <2>1, <2>2
<1>3. ASSUME NEW x \in Objs, Load(x) PROVE HeapInv'
  <2>1. x \in alloc
    <3>1. PICK d \in SUBSET used : Doomed(d)
      BY DEF ValsInv
    <3>2. \A e \in Here : vals[e] \subseteq alloc
      BY <3>1 DEF Doomed, Here
    <3>3. \A l \in held : kids[l] \subseteq alloc
      OBVIOUS
    <3>4. \/ \E l \in held : x \in kids[l]
          \/ \E e \in Here : x \in vals[e]
          \/ x \in kept
      <4>1. \/ x \in UNION {kids[l] : l \in held}
            \/ x \in UNION {vals[e] : e \in Here}
            \/ x \in kept
        BY <1>3 DEF Load
      <4>2. x \in UNION {kids[l] : l \in held} => \E l \in held : x \in kids[l]
        OBVIOUS
      <4>3. x \in UNION {vals[e] : e \in Here} => \E e \in Here : x \in vals[e]
        OBVIOUS
      <4> QED
        BY <4>1, <4>2, <4>3, Zenon
    <3> QED
      BY <3>2, <3>3, <3>4
  <2> QED
    BY <1>3, <2>1 DEF Load, heap, envs
<1>4. ASSUME NEW x \in Objs, Drop(x) PROVE HeapInv'
  BY <1>4 DEF Drop, heap, envs
<1>5. ASSUME NEW e \in Envs, Enter(e) PROVE HeapInv'
  <2>1. PICK p \in Parents : parent' = [parent EXCEPT ![e] = p]
    BY <1>5 DEF Enter, Parents
  <2>2. p \in used
    BY DEF Parents, Here
  <2>3. used' = used \cup {e} /\ frames' = frames \cup {e} /\ UNCHANGED <<heap, held, kept>>
    BY <1>5 DEF Enter
  <2>4. \A c \in used' : parent'[c] \in used' \cup {NoEnv}
    BY <1>0, <2>1, <2>2, <2>3 DEF TypeOK
  <2> QED
    BY <2>3, <2>4 DEF heap
<1>6. ASSUME NEW e \in Envs, Leave(e) PROVE HeapInv'
  BY <1>6 DEF Leave, heap, envs
<1>7. ASSUME Release PROVE HeapInv'
  <2>1. PICK e \in freeing : IF IsHeld(e) THEN used' = used ELSE used' = used \ {e}
    BY <1>7 DEF Release
  <2>2. UNCHANGED <<heap, parent, vals, stack>>
    BY <1>7 DEF Release
  <2>3. CASE ~IsHeld(e)
    BY <2>1, <2>2, <2>3 DEF IsHeld, Here, heap, stack
  <2> QED
    BY <2>1, <2>2, <2>3 DEF heap, stack
<1>8. ASSUME Sweep PROVE HeapInv'
  <2>1. RoundClosed
    BY <1>8, DrainedIsClosed, SweepEffect
  <2>2. /\ alloc' = alloc \cap Stamped /\ UNCHANGED <<envs, stack>>
        /\ \A o \in alloc' : kind'[o] = kind[o] /\ kids'[o] = kids[o] /\ fenv'[o] = fenv[o]
    BY <1>8, SweepEffect
  <2>3. \A o \in alloc' : kids[o] \subseteq alloc'
    BY <1>0, <2>1, <2>2 DEF RoundClosed
  <2>4. held \cup kept \subseteq alloc'
    BY <2>1, <2>2 DEF RoundClosed
  <2> QED
    BY <2>2, <2>3, <2>4 DEF envs, stack
<1> QED
  BY <1>1, <1>2, <1>3, <1>4, <1>5, <1>6, <1>7, <1>8 DEF Program

LEMMA HolderStep ==
    ASSUME TypeOK, HeapInv, HolderInv, MarkInv, Program \/ Release \/ Sweep
    PROVE  HolderInv'
<1>0. alloc \subseteq Objs /\ used \subseteq Envs
  BY DEF TypeOK
<1>1. ASSUME NEW o \in Objs, NEW k \in {"data", "func"}, Alloc(o, k) PROVE HolderInv'
  <2>1. /\ alloc' = alloc \cup {o} /\ o \notin alloc
        /\ UNCHANGED <<used, parent, frames, freeing>>
    BY <1>1 DEF Alloc, envs
  <2>2. \A x \in alloc : kind'[x] = kind[x] /\ fenv'[x] = fenv[x]
    BY <1>1, <2>1 DEF Alloc, TypeOK
  <2> QED
    BY <2>1, <2>2 DEF HolderInv, IsHeld, Here
<1>2. ASSUME NEW x \in Objs, Store(x) \/ Load(x) \/ Drop(x) PROVE HolderInv'
  <2>1. UNCHANGED <<alloc, kind, fenv, used, parent, frames, freeing>>
    BY <1>2 DEF Store, Load, Drop, heap, envs, stack
  <2> QED
    BY <2>1 DEF HolderInv, IsHeld, Here
<1>3. ASSUME NEW e \in Envs, Enter(e) PROVE HolderInv'
  <2>1. /\ used' = used \cup {e} /\ e \notin used /\ frames' = frames \cup {e}
        /\ UNCHANGED <<alloc, kind, fenv, freeing>>
    BY <1>3 DEF Enter, heap
  <2>2. \A c \in used : parent'[c] = parent[c]
    BY <1>0, <1>3, <2>1 DEF Enter, TypeOK
  <2> QED
    BY <2>1, <2>2 DEF HolderInv, IsHeld, Here
<1>4. ASSUME NEW e \in Envs, Leave(e) PROVE HolderInv'
  <2>1. /\ freeing = {} /\ freeing' = {e} /\ frames' = frames \ {e}
        /\ UNCHANGED <<alloc, kind, fenv, used, parent>>
    BY <1>4 DEF Leave, Running, heap, envs
  <2> QED
    BY <2>1 DEF HolderInv, IsHeld, Here
<1>5. ASSUME Release PROVE HolderInv'
  <2>1. PICK e \in freeing :
            IF IsHeld(e)
            THEN freeing' = freeing \ {e} /\ UNCHANGED used
            ELSE /\ used' = used \ {e}
                 /\ freeing' = (freeing \ {e}) \cup ({parent[e]} \ {NoEnv})
    BY <1>5 DEF Release
  <2>2. UNCHANGED <<alloc, kind, fenv, parent, frames>>
    BY <1>5 DEF Release, heap, stack
  <2>3. CASE IsHeld(e)
    BY <2>1, <2>2, <2>3 DEF HolderInv, IsHeld, Here
  <2>4. CASE ~IsHeld(e)
    <3> SUFFICES ASSUME NEW x \in used, x # e PROVE IsHeld(x)' \/ x \in freeing'
      BY <2>1, <2>4 DEF HolderInv
    <3>1. x # NoEnv
      BY <1>0, EnvAssumption
    <3>2. CASE \E c \in used : parent[c] = x
      <4>1. PICK c \in used : parent[c] = x
        BY <3>2
      <4> QED
        BY <2>1, <2>2, <2>4, <3>1, <4>1 DEF IsHeld
    <3>3. CASE ~\E c \in used : parent[c] = x
      BY <2>1, <2>2, <2>4, <3>3 DEF HolderInv, IsHeld, Here
    <3> QED
      BY <3>2, <3>3
  <2> QED
    BY <2>3, <2>4
<1>6. ASSUME Sweep PROVE HolderInv'
  <2>1. /\ Dead = alloc \ alloc' /\ alloc' \subseteq alloc /\ UNCHANGED <<envs, stack>>
        /\ \A o \in alloc' : kind'[o] = kind[o] /\ fenv'[o] = fenv[o]
        /\ \A o \in Dead : kind[o] = "func" => fenv[o] \in freeing'
    BY <1>6, SweepEffect
  <2>2. freeing = {}
    BY <1>6 DEF Sweep, MarkInv, Marking
  <2> QED
    BY <2>1, <2>2 DEF HolderInv, IsHeld, Here, envs, stack
<1> QED
  BY <1>1, <1>2, <1>3, <1>4, <1>5, <1>6 DEF Program

LEMMA TreeStep ==
    ASSUME TypeOK, HeapInv, TreeInv, Program \/ Release \/ Sweep
    PROVE  TreeInv'
<1>1. ASSUME NEW e \in Envs, Enter(e) PROVE TreeInv'
  <2>1. PICK p \in Parents : parent' = [parent EXCEPT ![e] = p]
    BY <1>1 DEF Enter, Parents
  <2>2. p \in used /\ e \notin used /\ used' = used \cup {e}
    BY <1>1 DEF Enter, Parents, Here, HeapInv
  <2>3. parent'[e] = p /\ \A c \in used : parent'[c] = parent[c]
    BY <2>1, <2>2 DEF TypeOK
  <2> SUFFICES ASSUME NEW C \in SUBSET used', C # {}
               PROVE  \E c \in C : \A d \in C : parent'[d] # c
    BY DEF TreeInv
  <2>4. CASE e \in C
    <3>1. e # NoEnv
      BY EnvAssumption
    <3>2. \A d \in C : parent'[d] # e
      BY <2>2, <2>3, <3>1 DEF HeapInv
    <3> QED
      BY <2>4, <3>2
  <2>5. CASE e \notin C
    <3>1. C \in SUBSET used
      BY <2>2, <2>5
    <3>2. PICK c \in C : \A d \in C : parent[d] # c
      BY <3>1 DEF TreeInv
    <3> QED
      BY <2>3, <3>1, <3>2
  <2> QED
    BY <2>4, <2>5
<1>2. CASE used' \subseteq used /\ parent' = parent
  BY <1>2 DEF TreeInv
<1>3. ASSUME NEW o \in Objs, NEW k \in {"data", "func"}, Alloc(o, k) PROVE TreeInv'
  BY <1>2, <1>3 DEF Alloc, envs
<1>4. ASSUME NEW x \in Objs, Store(x) \/ Load(x) \/ Drop(x) PROVE TreeInv'
  BY <1>2, <1>4 DEF Store, Load, Drop, envs
<1>5. ASSUME NEW e \in Envs, Leave(e) PROVE TreeInv'
  BY <1>2, <1>5 DEF Leave, envs
<1>6. ASSUME Release \/ Sweep PROVE TreeInv'
  BY <1>2, <1>6 DEF Release, Sweep, envs
<1> QED
  BY <1>1, <1>3, <1>4, <1>5, <1>6 DEF Program

LEMMA ValsStep ==
    ASSUME TypeOK, HeapInv, HolderInv, TreeInv, ValsInv, MarkInv, Program \/ Release \/ Sweep
    PROVE  ValsInv'
<1>0. alloc \subseteq Objs /\ used \subseteq Envs
  BY DEF TypeOK
<1>1. ASSUME Program PROVE ValsInv'
  <2>1. \A e \in used : vals[e] \subseteq alloc
    BY <1>1, WholeAtRest
       DEF Program, Alloc, Store, Load, Drop, Enter, Leave, Running
  <2>2. \A e \in used' : vals'[e] \subseteq alloc'
    <3>1. ASSUME NEW o \in Objs, NEW k \in {"data", "func"}, Alloc(o, k)
          PROVE  \A e \in used' : vals'[e] \subseteq alloc'
      BY <2>1, <3>1 DEF Alloc, envs
    <3>2. ASSUME NEW x \in Objs, Store(x)
          PROVE  \A e \in used' : vals'[e] \subseteq alloc'
      <4>1. UNCHANGED <<alloc, used>> /\ held \subseteq alloc
        BY <3>2 DEF Store, HeapInv
      <4>2. \A e \in used : vals'[e] \subseteq vals[e] \cup held
        BY <1>0, <3>2 DEF Store, TypeOK
      <4> QED
        BY <2>1, <4>1, <4>2
    <3>3. ASSUME NEW x \in Objs, Load(x) \/ Drop(x)
          PROVE  \A e \in used' : vals'[e] \subseteq alloc'
      BY <2>1, <3>3 DEF Load, Drop, heap, envs
    <3>4. ASSUME NEW e \in Envs, Enter(e)
          PROVE  \A c \in used' : vals'[c] \subseteq alloc'
      BY <1>0, <2>1, <3>4 DEF Enter, heap, TypeOK
    <3>5. ASSUME NEW e \in Envs, Leave(e)
          PROVE  \A c \in used' : vals'[c] \subseteq alloc'
      BY <2>1, <3>5 DEF Leave, heap, envs
    <3> QED
      BY <1>1, <3>1, <3>2, <3>3, <3>4, <3>5 DEF Program
  <2> QED
    BY <2>2, WholeIsEnough
<1>2. ASSUME Release PROVE ValsInv'
  <2>1. PICK e \in freeing : IF IsHeld(e) THEN used' = used ELSE used' = used \ {e}
    BY <1>2 DEF Release
  <2>2. UNCHANGED <<alloc, fenv, parent, vals, frames>> /\ used' \subseteq used
    BY <1>2 DEF Release, heap, stack
  <2>3. PICK d \in SUBSET used : Doomed(d)
    BY DEF ValsInv
  <2>4. PICK c \in SUBSET used' : c = d \cap used'
    OBVIOUS
  <2>5. \A x \in used' : parent[x] \in c => x \in c
    BY <2>2, <2>3, <2>4 DEF Doomed
  <2>6. c \cap Here = {} /\ \A x \in used' \ c : vals[x] \subseteq alloc
    BY <2>2, <2>3, <2>4 DEF Doomed
  <2>7. Doomed(c)'
    BY <2>2, <2>3, <2>4, <2>5, <2>6 DEF Doomed, Here
  <2> QED
    BY <2>7 DEF ValsInv
<1>3. ASSUME Sweep PROVE ValsInv'
  <2>1. RoundClosed
    BY <1>3, DrainedIsClosed, SweepEffect
  <2>2. /\ alloc' = alloc \cap Stamped /\ UNCHANGED <<envs, stack>>
        /\ \A o \in alloc' : fenv'[o] = fenv[o]
    BY <1>3, SweepEffect
  <2>3. \A e \in used : vals[e] \subseteq alloc
    BY <1>3, WholeAtRest DEF Sweep, MarkInv, Marking
  <2>4. PICK d \in SUBSET used : d = used \ Climbed
    OBVIOUS
  <2>5. d \cap Here = {} /\ \A e \in used \ d : vals[e] \subseteq alloc'
    BY <2>1, <2>2, <2>3, <2>4 DEF RoundClosed
  <2>6. NoEnv \notin used
    BY <1>0, EnvAssumption
  <2>7. \A o \in alloc' : fenv'[o] \notin d
    BY <1>0, <2>1, <2>2, <2>4, <2>6 DEF RoundClosed
  <2>8. \A e \in used : parent[e] \in d => e \in d
    BY <2>1, <2>4, <2>6 DEF RoundClosed
  <2>9. Doomed(d)' /\ d \in SUBSET used'
    BY <2>2, <2>5, <2>7, <2>8 DEF Doomed, envs, stack, Here
  <2> QED
    BY <2>9 DEF ValsInv
<1> QED
  BY <1>1, <1>2, <1>3

-----------------------------------------------------------------------------
(* A round *)

\* A step that stamps with the epoch of the round, or takes stamps off.
LEMMA SameRound ==
    ASSUME TypeOK, EpochInv, UNCHANGED <<epoch, rounds>>, pc' \in Marking => rounds > 0,
           \A n \in Nodes : \/ mark'[n] \in {0, mark[n]}
                            \/ rounds > 0 /\ mark'[n] = epoch,
           \A e \in Envs : \/ gcmark'[e] = gcmark[e]
                           \/ rounds > 0 /\ gcmark'[e] = epoch
    PROVE  EpochInv'
<1>1. rounds > 0 /\ rounds < Wrap - 1 => Old(epoch)
  BY WrapAssumption DEF EpochInv, Old, TypeOK
<1> QED
  BY <1>1 DEF EpochInv, Old

LEMMA EpochStep ==
    ASSUME TypeOK, EpochInv, MarkInv, Program \/ Release \/ Collect
    PROVE  EpochInv'
<1>1. ASSUME NEW o \in Objs, NEW k \in {"data", "func"}, Alloc(o, k) PROVE EpochInv'
  <2>1. \A n \in Nodes : mark'[n] \in {0, mark[n]}
    BY <1>1 DEF Alloc, TypeOK
  <2> QED
    BY <1>1, <2>1, SameRound DEF Alloc, EpochInv
<1>2. ASSUME UNCHANGED <<pc, epoch, rounds, mark, gcmark>> PROVE EpochInv'
  BY <1>2 DEF EpochInv, Old
<1>3. ASSUME NEW x \in Objs, Store(x) \/ Load(x) \/ Drop(x) PROVE EpochInv'
  BY <1>2, <1>3 DEF Store, Load, Drop, marks
<1>4. ASSUME Release \/ \E e \in Envs : Enter(e) \/ Leave(e) PROVE EpochInv'
  BY <1>2, <1>4 DEF Release, Enter, Leave, marks
<1>5. ASSUME Begin PROVE EpochInv'
  <2>1. rounds < Wrap - 1 /\ rounds' = rounds + 1 /\ epoch' = NextEpoch /\ epoch = rounds + 1
    BY <1>5, WrapAssumption DEF Begin, EpochInv, TypeOK
  <2>2. epoch' = IF rounds' = Wrap - 1 THEN 1 ELSE rounds' + 1
    BY <2>1, WrapAssumption DEF NextEpoch, TypeOK
  <2>3. rounds' < Wrap - 1 => /\ epoch' = epoch + 1
                              /\ \A n \in Nodes : mark'[n] \in {mark[n], epoch'}
                              /\ \A e \in Envs : gcmark'[e] = gcmark[e]
    BY <1>5, <2>1, <2>2 DEF Begin
  <2>4. rounds' < Wrap - 1 => \A s \in Stamp : Old(s) \/ s = epoch' => Old(s)'
    BY <2>1, <2>3 DEF Old, Stamp, TypeOK
  <2>5. epoch' \in Stamp /\ \A n \in Nodes : mark[n] \in Stamp
    BY <2>1, NextEpochType DEF Stamp, TypeOK
  <2>6. \A e \in Envs : gcmark[e] \in Stamp
    BY DEF Stamp, TypeOK
  <2>7. rounds' < Wrap - 1 => /\ \A n \in Nodes : Old(mark[n])
                              /\ \A e \in Envs : Old(gcmark[e])
    BY <2>1 DEF EpochInv
  <2> QED
    BY <2>1, <2>2, <2>3, <2>4, <2>5, <2>6, <2>7 DEF EpochInv, Old, TypeOK
<1>6. ASSUME MarkEnv \/ ScanStack \/ Drain, pc \in Marking PROVE EpochInv'
  <2>1. rounds > 0 /\ UNCHANGED <<epoch, rounds>> /\ pc' \in Marking
    BY <1>6 DEF EpochInv, MarkEnv, ScanStack, Drain, Marking
  <2>2. \A n \in Nodes : mark'[n] \in {mark[n], epoch}
    BY <1>6 DEF MarkEnv, ScanStack, Drain, MarkHdrs
  <2>3. \A e \in Envs : gcmark'[e] \in {gcmark[e], epoch}
    BY <1>6 DEF MarkEnv, ScanStack, Drain, TypeOK
  <2> QED
    BY <2>1, <2>2, <2>3, SameRound
<1>7. ASSUME Sweep PROVE EpochInv'
  <2>1. UNCHANGED <<epoch, rounds, gcmark>> /\ pc' = "run" /\ \A n \in Nodes : mark'[n] \in {0, mark[n]}
    BY <1>7, SweepEffect
  <2> QED
    BY <2>1, SameRound DEF Marking
<1>8. MarkEnv \/ ScanStack \/ Drain => pc \in Marking
  BY DEF MarkEnv, ScanStack, Drain, MarkInv, Marking
<1> QED
  BY <1>1, <1>3, <1>4, <1>5, <1>6, <1>7, <1>8 DEF Program, Collect

LEMMA MarkHdrsEffect ==
    ASSUME NEW ns \in SUBSET Nodes, NEW rest, MarkHdrs(ns, rest), UNCHANGED epoch
    PROVE  Stamped' = Stamped \cup ns /\ gray' = rest \cup (ns \ Stamped)
BY DEF MarkHdrs, Stamped

\* The roots that are known exactly: nothing but them has the new stamp.
LEMMA BeginMarks ==
    ASSUME TypeOK, HeapInv, EpochInv, Begin
    PROVE  MarkInv'
<1>1. rounds < Wrap - 1 /\ epoch = rounds + 1 /\ epoch' = NextEpoch
  BY WrapAssumption DEF Begin, EpochInv, TypeOK
<1>2. epoch' # 0 /\ (epoch' = 1 \/ epoch' = epoch + 1)
  BY <1>1, WrapAssumption DEF NextEpoch, TypeOK
<1>3. ~Old(epoch')
  BY <1>1, <1>2, WrapAssumption DEF Old, TypeOK
<1>4. \A n \in Nodes : mark[n] # epoch'
  BY <1>1, <1>3 DEF EpochInv
<1>5. \A e \in Envs : gcmark[e] # epoch'
  BY <1>1, <1>3 DEF EpochInv
<1>6. kept \subseteq Nodes /\ kept \subseteq alloc /\ G \in used
  BY DEF HeapInv, TypeOK, Nodes
<1>7. gray' = kept
  BY <1>4, <1>6 DEF Begin
<1>8. Stamped' = kept
  BY <1>4, <1>6 DEF Begin, Stamped
<1>9. Climbed' = {}
  BY <1>5 DEF Begin, Climbed
<1>10. climb' = G /\ pc' = "stack" /\ freeing' = {} /\ UNCHANGED <<heap, envs, stack>>
  BY DEF Begin, Running
<1>11. TouchInv'
  BY <1>6, <1>7, <1>8, <1>10 DEF TouchInv, heap, envs
<1>12. ColorInv'
  BY <1>7, <1>8, <1>9 DEF ColorInv
<1>13. RootInv'
  BY <1>8, <1>10 DEF RootInv, stack
<1> QED
  BY <1>10, <1>11, <1>12, <1>13 DEF MarkInv, Marking

LEMMA MarkEnvMarks ==
    ASSUME TypeOK, HeapInv, HolderInv, TreeInv, ValsInv, MarkInv, MarkEnv
    PROVE  MarkInv'
<1>1. pc \in Marking /\ freeing = {} /\ TouchInv /\ ColorInv /\ RootInv /\ climb # NoEnv
  BY DEF MarkInv, MarkEnv
<1>2. climb \in used /\ climb \in Envs /\ vals[climb] \subseteq Nodes
  BY <1>1 DEF TouchInv, TypeOK, Nodes
<1>3. UNCHANGED <<heap, envs, stack, pc, epoch, freeing>>
  BY DEF MarkEnv
<1> USE DEF heap, envs, stack
<1>4. CASE gcmark[climb] = epoch
  <2>1. climb' = NoEnv /\ UNCHANGED <<gcmark, mark, gray>>
    BY <1>4 DEF MarkEnv
  <2>2. climb \in Climbed
    BY <1>2, <1>4 DEF Climbed
  <2>3. Stamped' = Stamped /\ Climbed' = Climbed
    BY <1>3, <2>1 DEF Stamped, Climbed
  <2>4. TouchInv'
    BY <1>1, <1>3, <2>1, <2>3 DEF TouchInv
  <2>5. ColorInv'
    BY <1>1, <1>3, <2>1, <2>2, <2>3 DEF ColorInv
  <2>6. RootInv'
    BY <1>1, <1>3, <2>1, <2>2, <2>3 DEF RootInv
  <2> QED
    BY <1>1, <1>3, <2>4, <2>5, <2>6 DEF MarkInv
<1>5. CASE gcmark[climb] # epoch
  <2>1. MarkHdrs(vals[climb], gray) /\ climb' = parent[climb] /\ gcmark' = [gcmark EXCEPT ![climb] = epoch]
    BY <1>5 DEF MarkEnv
  <2>2. Stamped' = Stamped \cup vals[climb] /\ gray' = gray \cup (vals[climb] \ Stamped)
    BY <1>2, <1>3, <2>1, MarkHdrsEffect
  <2>3. Climbed' = Climbed \cup {climb}
    BY <1>2, <1>3, <2>1 DEF Climbed, TypeOK
  <2>4. vals[climb] \subseteq alloc
    BY <1>1, <1>2, WholeAtRest
  <2>5. parent[climb] \in used \cup {NoEnv}
    BY <1>2 DEF HeapInv
  <2>6. TouchInv'
    BY <1>1, <1>3, <2>1, <2>2, <2>4, <2>5 DEF TouchInv
  <2>7. ColorInv'
    BY <1>1, <1>3, <2>1, <2>2, <2>3 DEF ColorInv
  <2>8. RootInv'
    BY <1>1, <1>3, <2>2, <2>3 DEF RootInv
  <2> QED
    BY <1>1, <1>3, <2>6, <2>7, <2>8 DEF MarkInv
<1> QED
  BY <1>4, <1>5

LEMMA ScanStackMarks ==
    ASSUME TypeOK, HeapInv, MarkInv, ScanStack
    PROVE  MarkInv'
<1>1. pc \in Marking /\ freeing = {} /\ TouchInv /\ ColorInv /\ RootInv /\ climb = NoEnv
  BY DEF MarkInv, ScanStack, Marking
<1>2. PICK noise \in SUBSET (alloc \cup Envs) : MarkHdrs(held \cup frames \cup noise, gray)
  BY DEF ScanStack
<1>3. PICK ns \in SUBSET Nodes : ns = held \cup frames \cup noise
  BY DEF TypeOK, Nodes
<1>4. UNCHANGED <<heap, envs, stack, epoch, gcmark, climb, freeing>> /\ pc' = "drain"
  BY DEF ScanStack
<1>5. Stamped' = Stamped \cup ns /\ gray' = gray \cup (ns \ Stamped)
  BY <1>2, <1>3, <1>4, MarkHdrsEffect
<1>6. Climbed' = Climbed
  BY <1>4 DEF Climbed
<1>7. ns \cap Objs \subseteq alloc
  BY <1>3, ApartAssumption DEF HeapInv, TypeOK
<1> USE DEF heap, envs, stack
<1>8. TouchInv'
  BY <1>1, <1>4, <1>5, <1>7 DEF TouchInv
<1>9. ColorInv'
  BY <1>1, <1>4, <1>5, <1>6 DEF ColorInv
<1>10. RootInv'
  BY <1>1, <1>3, <1>4, <1>5, <1>6 DEF RootInv
<1> QED
  BY <1>1, <1>4, <1>8, <1>9, <1>10 DEF MarkInv, Marking

LEMMA DrainMarks ==
    ASSUME TypeOK, HeapInv, MarkInv, Drain
    PROVE  MarkInv'
<1>1. pc \in Marking /\ freeing = {} /\ TouchInv /\ ColorInv /\ RootInv /\ climb = NoEnv
  BY DEF MarkInv, Drain, Marking
<1>2. PICK n \in gray :
          IF n \in Envs
          THEN /\ climb' = IF n \in used THEN n ELSE NoEnv
               /\ gray' = gray \ {n} /\ UNCHANGED mark
          ELSE /\ climb' = IF kind[n] = "func" THEN fenv[n] ELSE NoEnv
               /\ MarkHdrs(IF kind[n] = "data" THEN kids[n] ELSE {}, gray \ {n})
  BY DEF Drain
<1>3. UNCHANGED <<heap, envs, stack, pc, epoch, gcmark, freeing>> /\ Climbed' = Climbed
  BY DEF Drain, Climbed
<1> USE DEF heap, envs, stack
<1>4. NoEnv \notin used /\ used \subseteq Envs /\ NoEnv \notin Climbed
  BY EnvAssumption DEF TypeOK, Climbed
<1>5. CASE n \in Envs
  <2>1. n \notin Objs
    BY <1>5, ApartAssumption
  <2>2. /\ climb' = IF n \in used THEN n ELSE NoEnv
        /\ gray' = gray \ {n} /\ Stamped' = Stamped
    BY <1>2, <1>3, <1>5 DEF Stamped
  <2>3. TouchInv'
    BY <1>1, <1>3, <2>2 DEF TouchInv
  <2>4. ColorInv'
    BY <1>1, <1>3, <1>4, <2>1, <2>2 DEF ColorInv
  <2>5. RootInv'
    BY <1>1, <1>3, <1>4, <2>2, EnvAssumption DEF RootInv
  <2> QED
    BY <1>1, <1>3, <2>3, <2>4, <2>5 DEF MarkInv
<1>6. CASE n \notin Envs
  <2>1. n \in Objs /\ n \in alloc
    BY <1>1, <1>6 DEF TouchInv, TypeOK, Nodes
  <2>2. kids[n] \subseteq alloc /\ kids[n] \subseteq Nodes /\ kind[n] \in {"data", "func"}
    BY <2>1 DEF HeapInv, TypeOK, Nodes
  <2>3. IF kind[n] = "func" THEN kids[n] = {} /\ fenv[n] \in used ELSE fenv[n] = NoEnv
    BY <2>1 DEF HeapInv
  <2>4. climb' = fenv[n] /\ fenv[n] \in used \cup {NoEnv} /\ MarkHdrs(kids[n], gray \ {n})
    BY <1>2, <1>6, <2>2, <2>3
  <2>5. Stamped' = Stamped \cup kids[n] /\ gray' = (gray \ {n}) \cup (kids[n] \ Stamped)
    BY <1>3, <2>2, <2>4, MarkHdrsEffect
  <2>6. TouchInv'
    BY <1>1, <1>3, <2>2, <2>4, <2>5 DEF TouchInv
  <2>7. ColorInv'
    <3>1. n \notin used
      BY <1>4, <1>6
    <3>2. \A o \in (Stamped' \cap Objs) \ gray' : o = n \/ o \in (Stamped \cap Objs) \ gray
      BY <2>5
    <3>3. \A e \in (Stamped' \cap used) \ gray' : e \in (Stamped \cap used) \ gray
      BY <2>5, <3>1
    <3>4. \A o \in (Stamped' \cap Objs) \ gray' :
              kids[o] \subseteq Stamped' /\ fenv[o] \in Climbed \cup {NoEnv, climb'}
      BY <1>1, <2>4, <2>5, <3>2 DEF ColorInv
    <3>5. \A e \in (Stamped' \cap used) \ gray' : e \in Climbed \cup {climb'}
      BY <1>1, <1>4, <3>3 DEF ColorInv
    <3>6. \A e \in Climbed : /\ vals[e] \subseteq Stamped'
                             /\ parent[e] \in Climbed \cup {NoEnv, climb'}
      BY <1>1, <2>5 DEF ColorInv
    <3> QED
      BY <1>3, <3>4, <3>5, <3>6 DEF ColorInv
  <2>8. RootInv'
    BY <1>1, <1>3, <2>5, EnvAssumption DEF RootInv
  <2> QED
    BY <1>1, <1>3, <2>6, <2>7, <2>8 DEF MarkInv
<1> QED
  BY <1>5, <1>6

LEMMA OtherMarks ==
    ASSUME TypeOK, MarkInv, Program \/ Release \/ Sweep
    PROVE  MarkInv'
<1>1. ASSUME Program PROVE pc = "run" /\ UNCHANGED <<pc, climb>>
  BY <1>1 DEF Program, Alloc, Store, Load, Drop, Enter, Leave, Running, marks
<1>2. ASSUME Release PROVE pc \notin Marking /\ UNCHANGED <<pc, climb>>
  BY <1>2 DEF Release, MarkInv, marks
<1>3. ASSUME Sweep PROVE climb' = NoEnv /\ pc' = "run"
  BY <1>3, SweepEffect
<1> QED
  BY <1>1, <1>2, <1>3 DEF MarkInv, Marking

-----------------------------------------------------------------------------
(* The theorems *)

LEMMA CollectorInit == Init => CollectorInv
<1> SUFFICES ASSUME Init PROVE CollectorInv
  OBVIOUS
<1> USE DEF Init
<1>1. TypeOK
  BY TypeInit
<1>2. HeapInv
  BY EnvAssumption DEF HeapInv
<1>3. HolderInv
  BY DEF HolderInv, IsHeld, Here
<1>4. TreeInv
  BY EnvAssumption DEF TreeInv
<1>5. ValsInv
  <2>1. Doomed({})
    BY EnvAssumption DEF Doomed
  <2> QED
    BY <2>1 DEF ValsInv
<1>6. EpochInv
  BY WrapAssumption DEF EpochInv, Old, Marking
<1>7. MarkInv
  BY DEF MarkInv, Marking
<1> QED
  BY <1>1, <1>2, <1>3, <1>4, <1>5, <1>6, <1>7 DEF CollectorInv

LEMMA CollectorStep == CollectorInv /\ [Next]_vars => CollectorInv'
<1> SUFFICES ASSUME CollectorInv, [Next]_vars PROVE CollectorInv'
  OBVIOUS
<1>1. TypeOK /\ HeapInv /\ HolderInv /\ TreeInv /\ ValsInv /\ EpochInv /\ MarkInv
  BY DEF CollectorInv
<1>2. ASSUME Program \/ Release \/ Sweep PROVE CollectorInv'
  <2>1. TypeOK'
    BY <1>1, <1>2, ProgramType, ReleaseType, CollectType DEF Collect
  <2>2. HeapInv' /\ HolderInv'
    BY <1>1, <1>2, HeapStep, HolderStep
  <2>3. TreeInv' /\ ValsInv'
    BY <1>1, <1>2, TreeStep, ValsStep
  <2>4. EpochInv' /\ MarkInv'
    BY <1>1, <1>2, EpochStep, OtherMarks DEF Collect
  <2> QED
    BY <2>1, <2>2, <2>3, <2>4 DEF CollectorInv
<1>3. ASSUME Begin \/ MarkEnv \/ ScanStack \/ Drain PROVE CollectorInv'
  <2>1. TypeOK'
    BY <1>1, <1>3, CollectType DEF Collect
  <2>2. HeapInv' /\ HolderInv' /\ TreeInv' /\ ValsInv'
    BY <1>1, <1>3, MarkingMovesNothing DEF Begin, MarkEnv, ScanStack, Drain
  <2>3. EpochInv'
    BY <1>1, <1>3, EpochStep DEF Collect
  <2>4. MarkInv'
    BY <1>1, <1>3, BeginMarks, MarkEnvMarks, ScanStackMarks, DrainMarks
  <2> QED
    BY <2>1, <2>2, <2>3, <2>4 DEF CollectorInv
<1>4. CASE UNCHANGED vars
  <2>1. UNCHANGED <<heap, envs, stack, pc, marks, freeing>>
    BY <1>4 DEF vars
  <2>2. HeapInv' /\ HolderInv' /\ TreeInv' /\ ValsInv'
    BY <1>1, <2>1, MarkingMovesNothing
  <2>3. TypeOK' /\ EpochInv'
    BY <1>1, <2>1 DEF TypeOK, EpochInv, Old, heap, envs, stack, marks
  <2>4. MarkInv'
    BY <1>1, <2>1 DEF MarkInv, TouchInv, ColorInv, RootInv, Stamped, Climbed,
                      heap, envs, stack, marks
  <2> QED
    BY <2>2, <2>3, <2>4 DEF CollectorInv
<1> QED
  BY <1>2, <1>3, <1>4 DEF Next, Collect

LEMMA CollectorHolds == Spec => []CollectorInv
BY CollectorInit, CollectorStep, PTL DEF Spec

\* Whatever the collector is in the middle of, and whatever the stack names by
\* accident, nothing the program can reach was freed or given to another call
\* (gc_collect, env_release): what is there, less what is doomed, is closed.
THEOREM ReachableIsKept == Spec => []ReachableKept
<1>1. CollectorInv => ReachableKept
  <2> SUFFICES ASSUME CollectorInv PROVE ReachableKept
    OBVIOUS
  <2>1. TypeOK /\ HeapInv
    BY DEF CollectorInv
  <2>2. PICK d \in SUBSET used : Doomed(d)
    BY DEF CollectorInv, ValsInv
  <2> DEFINE S == alloc \cup (used \ d)
  <2>3. S \in SUBSET Nodes
    BY <2>1 DEF TypeOK, Nodes
  <2>4. RootSet \subseteq S
    BY <2>1, <2>2 DEF RootSet, HeapInv, Doomed, Here
  <2>5. ASSUME NEW n \in alloc PROVE Succ(n) \subseteq S
    <3>1. n \notin Envs
      BY <2>1, ApartAssumption DEF TypeOK
    <3>2. kids[n] \subseteq alloc /\ fenv[n] \in (used \ d) \cup {NoEnv}
      BY <2>1, <2>2 DEF HeapInv, Doomed
    <3> QED
      BY <3>1, <3>2 DEF Succ
  <2>6. ASSUME NEW n \in used \ d PROVE Succ(n) \subseteq S
    <3>1. n \in Envs
      BY <2>1 DEF TypeOK
    <3>2. vals[n] \subseteq alloc /\ parent[n] \in (used \ d) \cup {NoEnv}
      BY <2>1, <2>2 DEF HeapInv, Doomed
    <3> QED
      BY <3>1, <3>2 DEF Succ
  <2>7. Closed(S)
    BY <2>4, <2>5, <2>6 DEF Closed
  <2>8. Reach \subseteq S
    BY <2>3, <2>7 DEF Reach
  <2> QED
    BY <2>1, <2>8, ApartAssumption DEF ReachableKept, TypeOK
<1> QED
  BY <1>1, CollectorHolds, PTL

\* A round stamps, and so looks into, nothing but objects that are there:
\* neither a stray word nor a stale slot of the pool leads it to a freed one.
THEOREM OnlyAliveTouched == Spec => []TouchesAlive
<1>1. CollectorInv => TouchesAlive
  <2> SUFFICES ASSUME CollectorInv, pc \in Marking
               PROVE  {o \in Objs : mark[o] = epoch} \subseteq alloc
    BY DEF TouchesAlive
  <2>1. Stamped \cap Objs \subseteq alloc
    BY DEF CollectorInv, MarkInv, TouchInv
  <2> QED
    BY <2>1 DEF Stamped, Nodes
<1> QED
  BY <1>1, CollectorHolds, PTL

\* When a round and the releases it leads to are over, what is left is whole.
THEOREM WhatIsLeftIsWhole == Spec => []LeftWhole
<1>1. CollectorInv => LeftWhole
  <2> SUFFICES ASSUME CollectorInv, Running
               PROVE  /\ \A o \in alloc : /\ kids[o] \subseteq alloc
                                          /\ ({fenv[o]} \ {NoEnv}) \subseteq used
                      /\ \A e \in used : /\ vals[e] \subseteq alloc
                                         /\ ({parent[e]} \ {NoEnv}) \subseteq used
    BY DEF LeftWhole
  <2>1. \A e \in used : vals[e] \subseteq alloc
    BY WholeAtRest DEF CollectorInv, Running
  <2> QED
    BY <2>1 DEF CollectorInv, HeapInv
<1> QED
  BY <1>1, CollectorHolds, PTL
=============================================================================
