------------------------------- MODULE Loader -------------------------------
(***************************************************************************)
(* Loading other files (ganada-c/src): 가져오기 (do_import, interp.c) runs  *)
(* a file in the global environment, once; 모듈 (b_module, builtins.c) runs *)
(* it in an environment of its own and keeps the dictionary of its names.  *)
(* Both look the path up from base_dir, which they move to the directory   *)
(* of the file they run.                                                   *)
(*                                                                         *)
(* What a file does is left open: it may load any file, call functions,    *)
(* guard itself with 시도, return or fail at any moment.  A file may be     *)
(* missing or malformed when it is read, and may be there the next time.   *)
(***************************************************************************)
EXTENDS Naturals, Sequences, FiniteSets

CONSTANTS
    Paths,      \* full, normalised paths
    Dirs,       \* directories
    DirOf,      \* the directory of each path
    Names,      \* the relative paths the program writes
    Resolve,    \* the path a name gives from a directory
    MainDir,    \* the directory of the main file
    MaxDepth,   \* bound: frames on the stack
    MaxRuns     \* bound: module runs

ASSUME LoaderAssumption ==
    /\ DirOf \in [Paths -> Dirs]
    /\ Resolve \in [Dirs \X Names -> Paths]
    /\ MainDir \in Dirs
    /\ MaxDepth \in Nat /\ MaxRuns \in Nat

Global == 0                 \* it->g; a module's environment is its run number
Envs == Global .. MaxRuns

\* A running file: what it runs in and the base_dir to go back to.  lost is
\* auxiliary: base_dir was already wrong when it began.
LoadFrame == [kind : {"import", "module"}, path : Paths, env : Envs, prev : Dirs, lost : BOOLEAN]

\* A function call stops 반환; 시도 stops an error.
GuardFrame == [kind : {"call", "try"}]

VARIABLES
    base,       \* it->base_dir
    imported,   \* it->imported
    mods,       \* it->mod_paths and it->mod_dicts, in order
    stack,      \* the C frames, innermost last
    mode,       \* "run", "error" or "return"
    made,       \* how many module environments there are
    lost,       \* auxiliary: an import was unwound since this file began
    ran,        \* auxiliary: how often 가져오기 ran each path
    twice,      \* auxiliary: paths 모듈 ran while an earlier 모듈 still ran them
    given       \* auxiliary: <<path, env>>: 모듈 returned that dictionary

vars == <<base, imported, mods, stack, mode, made, lost, ran, twice, given>>
loaded == <<imported, mods, made, ran, twice, given>>

TypeOK ==
    /\ base \in Dirs
    /\ imported \subseteq Paths
    /\ mods \in Seq([path : Paths, env : Envs])
    /\ stack \in Seq(LoadFrame \cup GuardFrame)
    /\ mode \in {"run", "error", "return"}
    /\ made \in Envs
    /\ lost \in BOOLEAN
    /\ ran \in [Paths -> Nat]
    /\ given \subseteq Paths \X Envs
    /\ twice \subseteq Paths

Init ==
    /\ base = MainDir
    /\ imported = {} /\ mods = <<>> /\ made = 0
    /\ stack = <<>> /\ mode = "run" /\ lost = FALSE
    /\ ran = [p \in Paths |-> 0]
    /\ twice = {} /\ given = {}

-----------------------------------------------------------------------------
Top == stack[Len(stack)]
Popped == SubSeq(stack, 1, Len(stack) - 1)

Loads(s) == {k \in 1 .. Len(s) : s[k].kind \in {"import", "module"}}

\* The innermost running file of a stack is the one at position k.
IsInnermost(s, k) == k \in Loads(s) /\ \A j \in Loads(s) : j <= k

\* The directory of the running file.
CurrentDir(s, d) ==
    \/ Loads(s) = {} /\ d = MainDir
    \/ \E k \in 1 .. Len(s) : IsInnermost(s, k) /\ d = DirOf[s[k].path]

Fails == mode' = "error" /\ UNCHANGED <<base, stack, lost>>

Run(kind, p, e) ==
    /\ stack' = Append(stack, [kind |-> kind, path |-> p, env |-> e, prev |-> base, lost |-> lost])
    /\ base' = DirOf[p]
    /\ lost' = FALSE
    /\ UNCHANGED mode

\* 가져오기: nothing for a path already recorded; else the path is recorded
\* first, and the file, when it can be read and parsed, runs in it->g.
ImportAgain(n) ==
    LET p == Resolve[<<base, n>>] IN
    /\ mode = "run" /\ p \in imported
    /\ UNCHANGED vars

\* Mutant of Import: the path is not recorded.
ImportForgets(n) ==
    LET p == Resolve[<<base, n>>] IN
    /\ mode = "run" /\ p \notin imported /\ Len(stack) < MaxDepth
    /\ Run("import", p, Global) /\ ran' = [ran EXCEPT ![p] = @ + 1]
    /\ UNCHANGED <<imported, mods, made, twice, given>>

Import(n) ==
    LET p == Resolve[<<base, n>>] IN
    /\ mode = "run" /\ p \notin imported /\ Len(stack) < MaxDepth
    /\ imported' = imported \cup {p}
    /\ \/ Fails /\ UNCHANGED ran
       \/ Run("import", p, Global) /\ ran' = [ran EXCEPT ![p] = @ + 1]
    /\ UNCHANGED <<mods, made, twice, given>>

ImportEnd ==
    /\ mode = "run" /\ stack # <<>> /\ Top.kind = "import"
    /\ base' = Top.prev /\ lost' = Top.lost
    /\ stack' = Popped
    /\ UNCHANGED <<imported, mods, mode, made, ran, twice, given>>

\* The dictionary 모듈 finds for a path is the first one entered.
Found(p, e) ==
    \E k \in 1 .. Len(mods) :
        /\ mods[k] = [path |-> p, env |-> e]
        /\ \A j \in 1 .. k - 1 : mods[j].path # p

Cached(p) == \E k \in 1 .. Len(mods) : mods[k].path = p

ModuleAgain(n) ==
    LET p == Resolve[<<base, n>>] IN
    /\ mode = "run"
    /\ \E e \in Envs : Found(p, e) /\ given' = given \cup {<<p, e>>}
    /\ UNCHANGED <<base, imported, mods, stack, mode, made, lost, ran, twice>>

IsRunning(p) == \E k \in Loads(stack) : stack[k].kind = "module" /\ stack[k].path = p

\* 모듈 of a path that is not in the cache: the file runs in a new environment.
Module(n) ==
    LET p == Resolve[<<base, n>>] IN
    /\ mode = "run" /\ ~Cached(p) /\ Len(stack) < MaxDepth /\ made < MaxRuns
    /\ \/ Fails /\ UNCHANGED <<made, twice>>
       \/ /\ Run("module", p, made + 1) /\ made' = made + 1
          /\ twice' = IF IsRunning(p) THEN twice \cup {p} ELSE twice
    /\ UNCHANGED <<imported, mods, ran, given>>

\* Mutant of ModuleEnd: nothing is entered in the cache.
ModuleEndForgets ==
    /\ mode = "run" /\ stack # <<>> /\ Top.kind = "module"
    /\ base' = Top.prev /\ lost' = Top.lost
    /\ stack' = Popped
    /\ given' = given \cup {<<Top.path, Top.env>>}
    /\ UNCHANGED <<imported, mods, mode, made, ran, twice>>

\* It ran to its end: only now is it in the cache.
ModuleEnd ==
    /\ mode = "run" /\ stack # <<>> /\ Top.kind = "module"
    /\ base' = Top.prev /\ lost' = Top.lost
    /\ stack' = Popped
    /\ mods' = Append(mods, [path |-> Top.path, env |-> Top.env])
    /\ given' = given \cup {<<Top.path, Top.env>>}
    /\ UNCHANGED <<imported, mode, made, ran, twice>>

\* Mutant of UnwindModule: base_dir stays.
UnwindModuleStays ==
    /\ mode # "run" /\ stack # <<>> /\ Top.kind = "module"
    /\ lost' = Top.lost
    /\ stack' = Popped
    /\ UNCHANGED <<base, mode, loaded>>

\* Something was thrown in a module: b_module's handler puts base_dir back.
UnwindModule ==
    /\ mode # "run" /\ stack # <<>> /\ Top.kind = "module"
    /\ base' = Top.prev /\ lost' = Top.lost
    /\ stack' = Popped
    /\ UNCHANGED <<mode, loaded>>

\* In an imported file: do_import has no handler.
UnwindImport ==
    /\ mode # "run" /\ stack # <<>> /\ Top.kind = "import"
    /\ lost' = TRUE
    /\ stack' = Popped
    /\ UNCHANGED <<base, mode, loaded>>

GuardBegin(kind) ==
    /\ mode = "run" /\ Len(stack) < MaxDepth
    /\ stack' = Append(stack, [kind |-> kind])
    /\ UNCHANGED <<base, mode, lost, loaded>>

GuardEnd ==
    /\ mode = "run" /\ stack # <<>> /\ Top.kind \in {"call", "try"}
    /\ stack' = Popped
    /\ UNCHANGED <<base, mode, lost, loaded>>

Catch ==
    /\ mode # "run" /\ stack # <<>> /\ Top.kind \in {"call", "try"}
    /\ mode' = IF (Top.kind = "try") = (mode = "error") THEN "run" ELSE mode
    /\ stack' = Popped
    /\ UNCHANGED <<base, lost, loaded>>

Throw(what) ==
    /\ mode = "run"
    /\ mode' = what
    /\ UNCHANGED <<base, stack, lost, loaded>>

\* The REPL prints what was thrown and reads the next line.
NextLine ==
    /\ mode # "run" /\ stack = <<>>
    /\ mode' = "run"
    /\ UNCHANGED <<base, stack, lost, loaded>>

Next ==
    \/ \E n \in Names : ImportAgain(n) \/ Import(n) \/ ModuleAgain(n) \/ Module(n)
    \/ ImportEnd \/ ModuleEnd \/ UnwindModule \/ UnwindImport
    \/ \E kind \in {"call", "try"} : GuardBegin(kind)
    \/ GuardEnd \/ Catch \/ NextLine
    \/ \E what \in {"error", "return"} : Throw(what)

Spec == Init /\ [][Next]_vars

-----------------------------------------------------------------------------
(* Properties *)

\* What a failed import does to base_dir ends with the file it failed in:
\* whatever ran inside, the file around it gets its own directory back.
DamageEnds == ~lost => CurrentDir(stack, base)

\* 가져오기 runs each file at most once, also when files import each other.
ImportedOnce == \A p \in Paths : ran[p] <= 1

\* 모듈 gives every caller the same dictionary for one path, whatever failed
\* before; only a file that 모듈 ran again while it still ran is excepted, for it
\* is not in the cache yet.
OneDictionary == \A a, b \in given : a[1] = b[1] /\ a[1] \notin twice => a = b
=============================================================================
