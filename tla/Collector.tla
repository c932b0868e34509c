----------------------------- MODULE Collector -----------------------------
(***************************************************************************)
(* The mark and sweep collector (gc.c) under a running program.  Values    *)
(* are objects; environments are found through closures, their children    *)
(* and the C stack, and go back to a pool when nothing counts on them.  The *)
(* stack is scanned word by word, so a word may also name an object or an  *)
(* environment by accident (noise).                                        *)
(*                                                                         *)
(* The count of an environment is taken to be the number of its holders,   *)
(* which module Unwind shows.                                              *)
(***************************************************************************)
EXTENDS Naturals, FiniteSets

CONSTANTS
    Objs,          \* values on the heap
    Envs, G,       \* environments, and the global one
    NoEnv,
    Wrap,          \* the number of epochs: 2^32
    MaxRounds,     \* collections; fewer than there are epochs
    MaxNoise       \* words on the stack that name something by accident

ASSUME EnvAssumption == G \in Envs /\ NoEnv \notin Envs
ASSUME ApartAssumption == Objs \cap (Envs \cup {NoEnv}) = {}
ASSUME WrapAssumption == Wrap \in Nat \ {0, 1} /\ MaxRounds \in 0 .. Wrap - 1
ASSUME NoiseAssumption == MaxNoise \in Nat

VARIABLES
    alloc,         \* objects on g_objs
    kind, kids,    \* data or function; what a list or dictionary holds
    fenv,          \* the environment a function captured
    used,          \* environments that are counted (rc > 0), the rest is pooled
    parent, vals,  \* stale in a pooled environment
    held, frames,  \* objects and environments C frames hold
    kept,          \* retval, ai_model and the module dictionaries
    pc,
    epoch, rounds,
    mark, gcmark,  \* the stamp in an object's header; in an environment
    gray,          \* the explicit stack of drain
    climb,         \* the environment mark_env is at
    freeing        \* environments env_release is called on
heap == <<alloc, kind, kids, fenv>>
envs == <<used, parent, vals>>
stack == <<held, frames, kept>>
marks == <<epoch, rounds, mark, gcmark, gray, climb>>
vars == <<heap, envs, stack, pc, marks, freeing>>

Nodes == Objs \cup Envs
Marking == {"stack", "drain"}

TypeOK ==
    /\ alloc \subseteq Objs /\ kind \in [Objs -> {"data", "func"}]
    /\ kids \in [Objs -> SUBSET Objs] /\ fenv \in [Objs -> Envs \cup {NoEnv}]
    /\ used \subseteq Envs /\ parent \in [Envs -> Envs \cup {NoEnv}]
    /\ vals \in [Envs -> SUBSET Objs]
    /\ held \subseteq Objs /\ kept \subseteq Objs /\ frames \subseteq Envs
    /\ pc \in {"run"} \cup Marking
    /\ epoch \in 1 .. Wrap - 1 /\ rounds \in 0 .. MaxRounds
    /\ mark \in [Nodes -> 0 .. Wrap - 1] /\ gcmark \in [Envs -> 0 .. Wrap - 1]
    /\ gray \subseteq Nodes /\ climb \in Envs \cup {NoEnv}
    /\ freeing \subseteq Envs

Init ==
    /\ alloc = {} /\ kind = [o \in Objs |-> "data"]
    /\ kids = [o \in Objs |-> {}] /\ fenv = [o \in Objs |-> NoEnv]
    /\ used = {G} /\ parent = [e \in Envs |-> NoEnv]
    /\ vals = [e \in Envs |-> {}]
    /\ held = {} /\ frames = {} /\ kept = {}
    /\ pc = "run" /\ epoch = 1 /\ rounds = 0
    /\ mark = [n \in Nodes |-> 0] /\ gcmark = [e \in Envs |-> 0]
    /\ gray = {} /\ climb = NoEnv /\ freeing = {}

----------------------------------------------------------------------------
(* The program.  It reaches what it holds and what that leads to. *)

Running == pc = "run" /\ freeing = {}
Here == frames \cup {G}

\* gc_alloc: a list or dictionary of held values (a string holds none), or a
\* function over an environment in use.
Alloc(o, k) ==
    /\ Running /\ o \notin alloc
    /\ alloc' = alloc \cup {o} /\ kind' = [kind EXCEPT ![o] = k]
    /\ \E ks \in IF k = "data" THEN SUBSET held ELSE {{}} :
          kids' = [kids EXCEPT ![o] = ks]
    /\ \E e \in IF k = "func" THEN Here ELSE {NoEnv} :
          fenv' = [fenv EXCEPT ![o] = e]
    /\ mark' = [mark EXCEPT ![o] = 0]
    /\ held' = held \cup {o}
    /\ UNCHANGED <<envs, frames, kept, pc, epoch, rounds, gcmark, gray, climb, freeing>>

\* A held list or an environment in use gets a held value, or loses one.
Store(x) ==
    /\ Running
    /\ \/ /\ x \in held
          /\ \/ \E l \in held : /\ kind[l] = "data"
                                /\ kids' = [kids EXCEPT ![l] = @ \cup {x}]
                                /\ UNCHANGED vals
             \/ \E e \in Here : /\ vals' = [vals EXCEPT ![e] = @ \cup {x}]
                                /\ UNCHANGED kids
       \/ \E l \in held : kids' = [kids EXCEPT ![l] = @ \ {x}] /\ UNCHANGED vals
       \/ \E e \in Here : vals' = [vals EXCEPT ![e] = @ \ {x}] /\ UNCHANGED kids
    /\ UNCHANGED <<alloc, kind, fenv, used, parent, stack, pc, marks, freeing>>

\* A value is read into a local; a local dies, or its value becomes the one
\* that is returned (retval), from where a caller reads it.
Load(x) ==
    /\ Running
    /\ x \in (UNION {kids[l] : l \in held}) \cup (UNION {vals[e] : e \in Here}) \cup kept
    /\ held' = held \cup {x} /\ kept' = kept \ {x}
    /\ UNCHANGED <<heap, envs, frames, pc, marks, freeing>>

Drop(x) ==
    /\ Running /\ x \in held /\ held' = held \ {x}
    /\ kept' \in {kept, {x}}
    /\ UNCHANGED <<heap, envs, frames, pc, marks, freeing>>

\* env_new under the environment of a frame or of a held function.
Enter(e) ==
    /\ Running /\ e \notin used
    /\ \E p \in Here \cup {fenv[f] : f \in {f \in held : kind[f] = "func"}} :
          parent' = [parent EXCEPT ![e] = p]
    /\ used' = used \cup {e} /\ vals' = [vals EXCEPT ![e] = {}]
    /\ frames' = frames \cup {e}
    /\ UNCHANGED <<heap, held, kept, pc, marks, freeing>>

\* A frame lets go of its environment.
Leave(e) ==
    /\ Running /\ e \in frames
    /\ frames' = frames \ {e} /\ freeing' = {e}
    /\ UNCHANGED <<heap, envs, held, kept, pc, marks>>

\* env_release: an environment nobody holds any more is pooled with all it
\* says, and its parent is released.
IsHeld(e) ==
    \/ e \in Here
    \/ \E f \in alloc : kind[f] = "func" /\ fenv[f] = e
    \/ \E c \in used : parent[c] = e

Release == \E e \in freeing :
    /\ IF IsHeld(e)
       THEN freeing' = freeing \ {e} /\ UNCHANGED used
       ELSE /\ used' = used \ {e}
            /\ freeing' = (freeing \ {e}) \cup ({parent[e]} \ {NoEnv})
    /\ UNCHANGED <<heap, parent, vals, stack, pc, marks>>

----------------------------------------------------------------------------
(* gc_collect *)

NextEpoch == IF epoch + 1 = Wrap THEN 1 ELSE epoch + 1

\* mark_hdr on each of ns.  A string, which the code does not push, is data
\* without kids here: drain finds nothing in it.
MarkHdrs(ns, rest) ==
    /\ mark' = [n \in Nodes |-> IF n \in ns THEN epoch ELSE mark[n]]
    /\ gray' = rest \cup {n \in ns : mark[n] # epoch}

\* mark_env, one environment at a time.
MarkEnv ==
    /\ climb # NoEnv
    /\ IF gcmark[climb] = epoch
       THEN climb' = NoEnv /\ UNCHANGED <<gcmark, mark, gray>>
       ELSE /\ gcmark' = [gcmark EXCEPT ![climb] = epoch]
            /\ MarkHdrs(vals[climb], gray)
            /\ climb' = parent[climb]
    /\ UNCHANGED <<heap, envs, stack, pc, epoch, rounds, freeing>>

\* At any allocation: the budget is spent, GANADA_GC_STRESS, malloc failed.
\* The roots that are known exactly come first.
Begin ==
    /\ Running /\ rounds < MaxRounds
    /\ rounds' = rounds + 1 /\ epoch' = NextEpoch /\ pc' = "stack"
    /\ mark' = [n \in Nodes |-> IF n \in kept THEN epoch' ELSE mark[n]]
    /\ gray' = {n \in kept : mark[n] # epoch'}
    /\ climb' = G
    /\ UNCHANGED <<heap, envs, stack, gcmark, freeing>>

\* Mutated: the registers are not scanned.
ScanFrames ==
    /\ pc = "stack" /\ climb = NoEnv
    /\ \E noise \in SUBSET ((alloc \cup Envs) \ (held \cup frames)) :
          /\ Cardinality(noise) <= MaxNoise
          /\ MarkHdrs(frames \cup noise, gray)
    /\ pc' = "drain"
    /\ UNCHANGED <<heap, envs, stack, epoch, rounds, gcmark, climb, freeing>>

\* scan_words over the registers and the stack.
ScanStack ==
    /\ pc = "stack" /\ climb = NoEnv
    /\ \E noise \in SUBSET ((alloc \cup Envs) \ (held \cup frames)) :
          /\ Cardinality(noise) <= MaxNoise
          /\ MarkHdrs(held \cup frames \cup noise, gray)
    /\ pc' = "drain"
    /\ UNCHANGED <<heap, envs, stack, epoch, rounds, gcmark, climb, freeing>>

\* Mutated: a word that names a pooled environment is followed.
DrainPooled ==
    /\ pc = "drain" /\ climb = NoEnv
    /\ \E n \in gray :
          IF n \in Envs
          THEN /\ climb' = n
               /\ gray' = gray \ {n} /\ UNCHANGED mark
          ELSE /\ climb' = IF kind[n] = "func" THEN fenv[n] ELSE NoEnv
               /\ MarkHdrs(IF kind[n] = "data" THEN kids[n] ELSE {}, gray \ {n})
    /\ UNCHANGED <<heap, envs, stack, pc, epoch, rounds, gcmark, freeing>>

Drain ==
    /\ pc = "drain" /\ climb = NoEnv
    /\ \E n \in gray :
          IF n \in Envs
          THEN /\ climb' = IF n \in used THEN n ELSE NoEnv
               /\ gray' = gray \ {n} /\ UNCHANGED mark
          ELSE /\ climb' = IF kind[n] = "func" THEN fenv[n] ELSE NoEnv
               /\ MarkHdrs(IF kind[n] = "data" THEN kids[n] ELSE {}, gray \ {n})
    /\ UNCHANGED <<heap, envs, stack, pc, epoch, rounds, gcmark, freeing>>

\* Mutated: a function that is freed keeps its environment counted.
SweepKeeps ==
    /\ pc = "drain" /\ climb = NoEnv /\ gray = {}
    /\ LET dead == {o \in alloc : mark[o] # epoch} IN
       /\ alloc' = alloc \ dead
       /\ kind' = [o \in Objs |-> IF o \in dead THEN "data" ELSE kind[o]]
       /\ kids' = [o \in Objs |-> IF o \in dead THEN {} ELSE kids[o]]
       /\ fenv' = [o \in Objs |-> IF o \in dead THEN NoEnv ELSE fenv[o]]
       /\ mark' = [n \in Nodes |-> IF n \in dead THEN 0 ELSE mark[n]]
       /\ UNCHANGED freeing
    /\ pc' = "run"
    /\ UNCHANGED <<envs, stack, epoch, rounds, gcmark, gray, climb>>

\* sweep: what has no stamp of this round is freed, and the functions among it
\* give their environments back.
Sweep ==
    /\ pc = "drain" /\ climb = NoEnv /\ gray = {}
    /\ LET dead == {o \in alloc : mark[o] # epoch} IN
       /\ alloc' = alloc \ dead
       /\ kind' = [o \in Objs |-> IF o \in dead THEN "data" ELSE kind[o]]
       /\ kids' = [o \in Objs |-> IF o \in dead THEN {} ELSE kids[o]]
       /\ fenv' = [o \in Objs |-> IF o \in dead THEN NoEnv ELSE fenv[o]]
       /\ mark' = [n \in Nodes |-> IF n \in dead THEN 0 ELSE mark[n]]
       /\ freeing' = {fenv[o] : o \in {o \in dead : kind[o] = "func"}}
    /\ pc' = "run"
    /\ UNCHANGED <<envs, stack, epoch, rounds, gcmark, gray, climb>>
----------------------------------------------------------------------------
Program ==
    \/ \E o \in Objs : \/ \E k \in {"data", "func"} : Alloc(o, k)
                       \/ Store(o) \/ Load(o) \/ Drop(o)
    \/ \E e \in Envs : Enter(e) \/ Leave(e)
Collect == Begin \/ MarkEnv \/ ScanStack \/ Drain \/ Sweep

Next == Program \/ Release \/ Collect
Spec == Init /\ [][Next]_vars

----------------------------------------------------------------------------
(* What must hold *)

Succ(n) ==
    IF n \in Envs THEN vals[n] \cup ({parent[n]} \ {NoEnv})
    ELSE kids[n] \cup ({fenv[n]} \ {NoEnv})

RootSet == held \cup kept \cup frames \cup {G}
Closed(S) == RootSet \subseteq S /\ \A n \in S : Succ(n) \subseteq S

\* What the program can come to: the least closed set.
Reach == {n \in Nodes : \A S \in SUBSET Nodes : Closed(S) => n \in S}

\* What is reachable is never freed, nor given to another call, whatever the
\* collector is in the middle of (gc.c, line 21).
ReachableKept == Reach \cap Objs \subseteq alloc /\ Reach \cap Envs \subseteq used

\* The collector looks only into objects that are there: neither noise on the
\* stack nor the stale slots of a pooled environment lead it to a freed one.
TouchesAlive == pc \in Marking => {o \in Objs : mark[o] = epoch} \subseteq alloc

\* Every object and environment that is left after a round is whole: what it
\* names is there too, garbage or not.
LeftWhole ==
    Running =>
        /\ \A o \in alloc : kids[o] \subseteq alloc /\ ({fenv[o]} \ {NoEnv}) \subseteq used
        /\ \A e \in used : vals[e] \subseteq alloc /\ ({parent[e]} \ {NoEnv}) \subseteq used
=============================================================================
