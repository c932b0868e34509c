# Verification of the 가나다 (ganada) implementation

TLA+ models of the C implementation of the 가나다 language
(`src/ganada-c/src/`), the TLC runs that check them on small instances, and
theorems about them that the TLA+ proof system checks for every value of the
constants.  The models are translated from the C source; `PROJECT.json` names,
for each definition, the lines it stands for.

## 1. The system

The process is one thread of C.  The interpreter calls a builtin, and the
builtin may call back into the interpreter (거래, 서버, 모듈, map and filter).
Errors, 반환, 멈춤 and 계속 are `longjmp`s to the innermost `Handler`; whoever
pushed state on the way must take it back when it is passed through.  The
collector runs inside any allocation and finds its roots in the interpreter's
state and on the C stack.  The database is global state shared by all handles;
its files outlive the process.  The command line first has clang build a native
program and falls back to the interpreter; it shares SIGINT with its children.

| component | source | state it keeps | operations | what makes it correct |
|---|---|---|---|---|
| tables, SQL effects | builtins.c 2253-2423, 3256-3689 | columns, rows in rowid order, `seq`, `autoinc` | CREATE, DROP, INSERT, UPDATE, DELETE | AUTOINCREMENT never gives a number twice |
| SQL expressions, SELECT | builtins.c 2160-2252, 3040-3689 | the row whose turn it is | conversion, comparison, arithmetic, the row loops, ORDER BY, LIMIT | each row is judged and changed by itself, all at once |
| handles, files, 거래 | builtins.c 2264-2680, 3706-3960 | `g_dbs`, `g_dbseq`; per image path, tables, copy, depth, references; the files | 자료열기, 자료닫기, 실행, 저장소, 넣기, 고치기, 빼기, 거래 | one image per file, exact references, a 거래 happens or does not |
| interpreter | interp.c, ganada.h | handler chain, call depth, environments with counts, `retval` | evaluation, calls, blocks, loops, 시도, the throws | all of it is what it was, on every way out |
| loader | interp.c 685-753, builtins.c 1640-1717 | `base_dir`, imported paths, module cache | 가져오기, 모듈 | a file runs once, relative to its own directory |
| collector | gc.c | objects, epoch, gray stack, pool | allocate, mark, sweep | what can be reached is not freed |
| HTTP server | builtins.c 4000-4392 | sockets, connection, stop flag, signal actions | accept, read, route, answer, stop | every request has one answer, nothing taken is kept |
| command line | main.c | work directory, noted signal, child | run, build, translate, REPL | a program runs at most once, nothing is left behind, the status is true |
| dictionaries | value.c | entries and an index by open addressing | set, get, clear | probing ends and finds what was entered |
| lexer, parser | lexer.c, parser.c | tokens, tree | text to tree | the tree is the one that was written |
| native code generator | codegen_llvm.c, na_rt.c | slots, assigned slots, loops; code | tree to LLVM | what it accepts does what the interpreter does |

`PROJECT.json` lists the hazards of this code, each at its line, with the
properties that would catch it going wrong.

## 2. Modules

### Database

* `Tables` — rows, `seq` and the three kinds of table (`plain`, `pk`, `auto`),
  and `SqlRun`, the effect of one statement: the tables it leaves, whether it
  succeeded and whether it marked the database changed.  A row is its rowid and
  one value.  The order inside `sql_run` is kept: the statement runs first, the
  rest of the text is read afterwards.
* `Database` — images (`img`, `dbseq`), files (`disk`), the C frames with
  handlers (`stack`) and what is being thrown (`mode`).  One action per builtin,
  the save being part of the action that makes it; `TxBegin`, `TxEnd` and
  `TxAbort` are the three parts of `b_transaction` around the call of its
  function, `GuardBegin`, `GuardEnd` and `Catch` are 시도 and loops, `Stop` ends
  the process.  It may also die inside a save, in any action that saves: `mode`
  is then `"dead"`, only `Stop` follows, and the file holds one of `Torn`, what
  the next `db_load` makes of a first part of the text: a refusal, or a database
  with the last tables, columns or rows missing and numbers cut short
  (`Remains`).  `open`, `shut`, `held`, `kept` and a frame's `entry` are auxiliary.
* `AutocommitStore` — the abstract specification: each file has a durable
  content, a view and, while a 거래 runs, the content a rollback brings back.
  `End` leaves every file as committed; `Die` harms one file, the one whose new
  content was being written.  `DatabaseRefinement` — the mapping.
* `Cells` — NULL, integers, reals, texts: affinity, `cell_cmp`, arithmetic with
  its overflow, three-valued logic, the value of an expression for a row.  An
  expression is the list of its nodes, operands before what takes them, so its
  value is a function on a prefix of the list and the prover can reason about it.
  Fractions stand for doubles; `NumberIn` is what `text_as_num` reads in a text,
  `Spelling` what a number is printed as, `Texts` the texts in the order of
  `memcmp`.
* `Sql` — the loops of SELECT, INSERT, UPDATE and DELETE, one turn a step, over
  a table that UPDATE and DELETE change while they go through it.
* `RowSet` — what a statement promises: the table is a set of rows, and a
  statement takes or changes those its condition is true of.  It shares `Cells`'
  operations on two values with `Sql`; the logic of conditions, the order and
  the loops it states by itself.

### Language

* `Unwind` — the interpreter's control, whatever program runs.  `stack` holds
  one frame per construct with a `Handler`, `top` is `it->top`, `depth` is
  `it->depth`, `mode` the code on its way; `parent`, `rc`, `vars` are the
  environments, `alloc` and `fenv` the function objects, `freeing` where
  `env_release` has got to.  Each construct has a beginning, an end and what its
  code after `setjmp` does; `Sweep` is what a collection may free.
* `Loader` — `do_import` and `b_module`: `base`, `imported`, `mods`, and the
  files that run as frames on `stack`, between frames of calls and 시도.
* `Collector` — `gc_collect` under a program that allocates, stores, loads and
  drops.  A round is `Begin`, `MarkEnv`, `ScanStack`, `Drain`, `Sweep`, with the
  stamps (`mark`, `gcmark`), the explicit stack (`gray`) and the epoch, which
  comes round after `Wrap`.  A word on the C stack may name an object or an
  environment by accident.  `Release` is `env_release` of what a sweep gives back.
* `Syntax` — the tree of a program and its text as tokens.  `Parser` — parser.c,
  one operator per function; a rule is given the node built so far and builds
  on.  `Interpreter` — interp.c on the fragment the compiler may accept: `Eval`,
  `Exec`, `Apply`, the loops, with the line, the depth and the jumps.
  `Compiler` — codegen_llvm.c: what it refuses and the code it emits, with
  slots, the assigned slots (`defd`), loop variables, static types.  `Native` —
  what that code does, text ownership included, and the state machine that
  writes programs statement by statement.
* `Dictionary` — entries and index of value.c; probing one slot at a time is the
  operator `Probe`, `Rehash` and `Enter` are steps of their own.  `Equal` is
  what `v_eq` accepts and `Hash` is `key_hash`; neither need follow the other,
  and keys that are equal and hash alike are `Alike`.  `OrderedMap` — its
  abstract specification: a key may be taken for an entry it equals, and a key
  alike to an entry is never taken for new.

### Process

* `Launcher` — main.c from the call to the exit status, one action per system
  call that matters: translating, the work directory, `fork`, `exec`, `waitpid`,
  the handlers, what is decided after clang and after the program, the fallback.
  `child` is the child process; a signal strikes the launcher, the child or both.
* `Server` — `b_server`, `srv_one`, `srv_read_request`: signal actions, listener,
  accept, reading with its timeout, the route with its handler, the answer.
  Peers send pieces, drip (keep each read short of its five seconds), fall silent
  (`PeerFallsSilent`, after which the read times out), hang up or do not read;
  Ctrl-C comes at any step.  `cut` says what ended a connection early; `"slip"`
  is an error that flies past `b_server` and leaves the connection open.

`MC...` modules hold the values of the instances.  `DatabaseProofs`, `SqlProofs`,
`UnwindProofs`, `LoaderProofs`, `CollectorProofs`, `DictionaryProofs`,
`LauncherProofs` and `ServerProofs` hold the theorems.

An operator whose comment begins with "Mutated" is a plausible wrong form of the
definition that follows it; `PROJECT.json` says which property notices.

## 3. Runs

| run | asks | bounds |
|---|---|---|
| `db_transactions` | one image per file, references, ids, depth of 거래, nothing early, rollback | a path and `:memory:`, 2 images, 2 references, 3 frames |
| `db_rows` | numbers of AUTOINCREMENT under every statement and failure | rowids to 2, handles closed twice, death in a save |
| `db_promise` | `Database` implements `AutocommitStore`; the file is current | 2 files, rowids to 1, 1 statement and the store calls, 거래 nested to 2, death in a save |
| `db_nested` | violation: an inner 거래 that fails empties the database | 1 image, 2 frames |
| `sql` | each statement does what `RowSet` promises; columns hold their type | integers of 3 bits, 20 texts, some 250 conditions, 3 statements |
| `unwind` | handlers, depth, counts, reachability | 3 environments, 2 functions, 3 frames, recursion limit 1 |
| `loader` | one run per import, one dictionary, base directories | 2 directories with a file each, 4 frames, 3 module runs |
| `collector` | nothing reachable is freed, nothing freed is touched, what is left is whole | 2 objects, 2 environments, 2 rounds of 3 epochs, 1 stray word |
| `dictionary` | probing ends and finds; one entry for keys that are alike; it is an `OrderedMap` | index of 2 that grows twice, 4 entries, 6 keys that collide |
| `native` | compiler against interpreter; text ownership; parser against the tree | see below |
| `launcher` | at most one start, nothing left, true status; it ends | every mode, source and ending, 2 signals |
| `server` | answers, what is given back, Ctrl-C; nobody waits for ever | 2 connections, backlog 2, 2 calls of 서버, 1 Ctrl-C |

Why the bounds are enough.

* Database: no operation looks at two tables, and the properties tell apart
  which rows exist and `seq`: one table, one value.  Three frames give a 거래
  inside a 시도 inside a 거래; two images and two references give every order of
  two handles on one file and on two.  With rowids to 2 an insert can be above,
  at and below `seq`, and the largest row can go and come back.
  `Failures` names the misfortunes an instance considers: a statement or a save
  that fails, a death inside a save, a failure in a nested 거래, a handle closed
  twice.  `db_rows` and `db_transactions` have all those under which their
  properties are true (`"nested"` is left to `db_nested`); `db_promise`, whose
  properties hold when no statement and no save fails, has deaths in a save.
* `sql`: three bits hold an overflow of every operation, the smallest integer
  and its negation.  The table meets inserted keys that collide, are negative or
  are given as text, an UPDATE whose right side reads a column it assigns, a DELETE of
  neighbours, NULLs and mixed types in ORDER BY.
* `loader`: a file that loads itself and two that load each other; each relative
  name means another file from the other directory.  Four frames allow a module
  in an import in a 시도 in a module.
* `unwind`: a closure that outlives its call, two that share an environment or
  hold each other, an error from a call in a loop in a 시도, the recursion limit
  (700 in the code).
* `collector`: an object reached only through a closure's environment, a cycle,
  a pooled environment with stale slots named by the stray word, and a second
  round that meets the stamps of the first.  Fewer rounds than epochs are
  assumed, as in the code: a stamp a whole turn old would keep its object.
* `dictionary`: keys whose hash is the last slot probe past the end; two growths
  re-enter keys that collided.  1 and 1.0 are alike, 참 equals both and hashes
  elsewhere, a NaN equals nothing, two keys are ordinary.
* `native`: programs are reached statement by statement: up to four from a list
  with every kind of statement, under the heads 만약, 동안, 반복 and 함수, after
  a first assignment.  Beside them stand single prints of some 1,400
  expressions that pair every two operators on both sides, and every two
  statements of sixteen shapes one after the other.  Integers have three bits;
  700 calls and 64 loops are 2.  A run that uses up four turns is compared as
  far as it got.
* `launcher`: two signals are one for the build and one for the program, or two
  for one of them.  `server`: while one connection is served another waits.

The model of the interpreter and that of the native code both leave a run that
uses up `MaxTurns`; they count the same turns.

Deadlock is checked but where the system stops: `launcher` (it has ended),
`server` (the process died), `native` (the program is as long as it may be),
`sql` (all statements are done).

Fairness.  `Launcher`: the system runs both processes, and clang and a program
that does not loop come to an end (`WF` on `LauncherSteps`, `ChildSteps`,
`Endable`); signals need never come.  `Server`: the thread runs, and the
kernel returns from a read in which five seconds were silent (`WF` on `Own`);
nothing is asked of peers, not even that they ever fall silent, of Ctrl-C or of
a route that loops.  The liveness properties name the three ways the service can
be held up for good (`Blocked`): a peer that does not read its answer (writes
have no timeout), a peer that drips, whose byte within every five seconds keeps
each read from timing out (builtins.c:4379-4381), and a route that never ends.
A peer that drips is not counted by `Limit`: 16 MB of single bytes would end it
only after years, which is taken as never.  The other modules state safety only.

Restrictions of the models.

* The program does not close the last handle of a database inside that
  database's own 거래 (the code then uses freed memory).
* A save fails in two ways: the file cannot be opened, or the process dies between
  `fopen` and the end of `fclose`.  `Torn` leaves open in which order the
  tables stand in the file (the code writes them as they were made).  A row whose
  rowid is cut to that of an earlier row takes its place here and is a second row
  in the code.  A table that lost columns is `"cut"`: it takes no INSERT, UPDATE
  or store handle here; in the code one that lost only its last column's flags,
  or a column a statement does not name, still would.  Making the file of a new
  database writes no byte and cannot be torn.
* `Sql`: reals are exact fractions; the text of a statement, column lists,
  aliases and `?` are left out.
* `Loader`: path text is a lookup table; a malformed module throws as it starts.
* `Unwind`: a function inside a list counts as held by the variable that holds
  the list.  The pool does not grow; one environment is set aside for each 시도.
  `Sweep` takes any of the unmarked functions: that the collector marks what it
  must is shown by `Collector`, which in turn takes the counts from `Unwind`.
* `Collector`: address ranges and thresholds are left out, a collection may
  begin at any allocation.
* `Dictionary`: whether two keys are equal does not change while they are keys,
  so lists and dictionaries, which are compared by content and hashed by
  address, are left out as keys that change.
* `Parser`: no dictionaries, slices, lambdas, default parameters, destructuring,
  compound assignment or 가져오기.  `ParsesBack` excludes texts in which one
  statement runs on into the next (`RunsOn`).
* `Interpreter`: lists, dictionaries, 시도 and 모두 are outside the compiler's
  fragment; a real only stands for itself.  `MaxDepth` is the recursion limit of
  700; that `apply_func` also stops when the C stack runs low (interp.c:580) is
  left out.
* `Native`: `TextsBalance` counts the texts that instructions and variables own,
  not the temporary ones made and freed within one joining.
* `Launcher`: a `waitpid` that fails for another reason than a signal
  (main.c:409; with a child of its own, only when SIGCHLD was inherited as
  ignored) is left out: after clang the code then goes on as when clang failed,
  after the program it ends with 1.
* `Server`: header text, routing patterns and static files are not followed.

## 4. What is proved

Every theorem holds for all values of the constants that satisfy the modules'
assumptions: any number of files, rows, frames, objects, environments, keys,
peers and signals.  Those about `Database` name the failures they exclude.
`PROJECT.json` lists them with the property each states.

Assumptions on constants.  Marks such as `Free`, `Absent` and `NoEnv` are no
values of what they mark; bounds are numbers.  Those a reader should weigh:
`Limit` (16 MB in the code) and `InitCap` (16) are at least 1; there are fewer
rounds of the collector than epochs (`WrapAssumption`; section 3).  Of keys
nothing is assumed but that equality is a relation on them and a hash a number.

### Database

`DatabaseProofs` first states what the operators of `Tables` return and that
they only move `seq` on (`Onward`), then proves
`Spec => [](TypeOK /\ FramesAlive)`: every 거래 frame names an open image,
without which the depth arithmetic of `TxEnd` has no type.  On it build:

* `IdsStayClosed`: ids above `dbseq` are free and no step lowers `dbseq`.
* `ReferencesExact`: counts move together with `open` and `kept` (no handle is
  closed twice).
* `OneImage`: when `FileOf` is injective (`OneName`), an image of another id on
  the same path stops `db_open` from making a second one.
* `DepthCounted`: needs that nothing is thrown while an image's depth is above 1;
  then `TxAbort` setting the depth to 0 is exact.
* `RollbackIsExact`: the copy of an image at depth 1 or more is the entry of its
  outermost frame.
* `NothingIsEarly`: only an image at depth 0 is saved, and with one image per
  file no other image writes that file.
* `AutocommitHolds`: the file is the tables at depth 0 and the copy above it (no
  statement and no save fails).
* `RowidsStayCovered`, `RowidsStayUsed`: under every failure; a statement that
  fails half-way leaves tables that were moved on as well.
* `DatabaseIsAutocommitStore`: the refinement, from the invariant of
  `AutocommitHolds` and under its conditions.  A file's view and copy are those
  of the one image that keeps it (`OneShown`, `OneFreed`), so each action is
  read off from the image it replaces: a call of 실행 is a `Write` at depth 0
  and a `Change` above it, the inner 거래 are stutters.  A death in a save is
  `Die` of that file with the tables being saved (what the 거래 commits, or the
  call's own change): no other file changes, and with nothing open afterwards
  `Stop` is a stutter.

### SQL

`SqlProofs` shows that `Sql`, which goes through the table row by row, implements
`RowSet`, where a statement is one step on a set of rows: for every width of the
integers, every schema, and every statement the parser can make.  Assumed are
that the width is positive, that a text spells a number or nothing
(`NumberInAssumption`), that texts have integer ranks, and that statements are
well formed (`StatementsAssumption`: columns of the table, operands before their
node).

* Two invariants.  `Kept` is `TypeOK`, `StoredConverted` and `RowsInOrder`
  together: a rowid that no row has can only be put in its place when the rows are in
  order, and an expression is only a cell for a row of cells.  `Looping` says
  what each loop has done when it comes to row `at` of the rows the statement
  began with: UPDATE has changed those before it and none behind; DELETE has judged
  those behind, and those up to it still stand where they stood; SELECT has found
  those before it, in their order; INSERT has the rows after the lists before it,
  none of them refused.
* `SqlTyped`, `KeptConverted`, `KeptInOrder` follow from `Kept`; the `sql` run
  checks the second, and sees the other two through the promise.  `KeptConverted`
  rests on `CoerceCell`: what `cell_coerce` gives, it does not change again.
* `PromiseKept` is the refinement.  Turns of a loop are stutters, for the table is shown
  as it was when the statement began; the last turn is the promise's step.
  `ValueIsTruth` says that what `ex_eval` makes of a condition, with its early
  ends at AND and OR, is true exactly where the logic of three values says so.
  For SELECT, `CompareOrder` says that `cell_cmp` is a weak order of all cells
  (numbers are exact fractions here; in the code large ones are compared as doubles);
  `PrecedesOnce` and `PrecedesThrough`, that the keys and the rowid make of it a
  strict order of the rows; `PlaceFacts`, that counting the rows before each
  numbers them from 0 without a gap, so that sorting, OFFSET and LIMIT on a list
  and picking by place from a set give the same answer (`CutIsPick`).

Induction over the nodes of an expression and the lists of an INSERT is by the
least number that fails (`LeastNumber`, `StepByStep`), for sets and not for
formulas.

### Language

`UnwindProofs` has one inductive invariant in two layers.  `ControlInv`: the
frames are typed, `top` is their number, each handler's `prev` is the frame
below, `depth` is the cardinality of the set of calls whose body runs.
`UnwindInv` adds the types of environments and functions, `FramesSound` (what
each kind of frame holds and which frame's environment it runs in),
`CountsExact` itself and `ReachInv`, which is `NothingDangles` without its
hypothesis: also while `env_release` climbs, some set of environments with a
count and of functions that are there is closed.  Counts are cardinalities over
frames, children and functions; a step changes one of the three sets by one
element.  A sweep keeps the closed set because it takes unmarked functions only; an
environment whose count reaches 0 can be left out of it, for whatever would
lead there would be counted.

`LoaderProofs`:

* `ImportsRunOnce`: a path that is not recorded was never run.
* `DictionaryIsOne`: the dictionaries handed out for a path that was not loaded
  again while it ran are the one the cache finds; a module that is entered and
  one that is left each keep that.
* `DirectoriesRestored`: the directory each frame will give back is that of the
  file around it, in every file in which no import was unwound.  The proof
  follows the frames below the top as a sequence that is pushed and popped.

`CollectorProofs`: in `CollectorInv`, `HeapInv`, `HolderInv` and `TreeInv`
describe the heap, `EpochInv` says that no stamp of a coming round is on
anything, and while a round marks `TouchInv`, `ColorInv` and `RootInv` say that
the stamps stay inside the heap, that what is stamped and off the gray stack
leads to what is stamped, and that the roots are.  When the stack is empty the
stamped nodes are closed, so the sweep takes nothing they lead to.  What makes
it hard is what follows the sweep: a freed closure's environment is given back
later, and until then its variables name what was freed.  `Doomed` is the set of
these environments; nothing else hangs on them, and it is empty again when
nothing is left to release, which is `LeftWhole`.  `TreeInv` is needed there:
environments that no one holds are given back only if parents do not go round.

`DictionaryProofs`: `ProbingEnds` counts, the slots in use map one to one into
fewer entries.  `EntriesAreFound` needs that no two slots point to one entry
(`PlacedInv`), that probing from a hash comes to every slot, and that a slot
once taken is not freed; each entry has a least number of steps.
`AlikeEnterOnce` (`OneEntry`) follows: a key alike to an entry is probed along
the same slots, so the search comes to that entry or stops before it at one it
equals too, and appends nothing.  `DictionaryIsOrderedMap` is the refinement of
`OrderedMap`: growth and the first of the two steps of an insertion are
stutters.  No theorem uses that equal keys hash alike, nor that equality is an
equivalence.

### Process

`LauncherProofs`: `LauncherInv` says, beside the types, that the launcher leaves
SIGTERM alone (`TermLeft`), which child there can be at each place
(`PlaceInv`), when the work directory may hold something (`WorkInv`), where the
program can have been begun (`StartInv`), what a noted signal says of what was
run (`NotedInv`) and which status is known where (`StatusInv`).  None of the
four safety properties is inductive without these; each part has its own step
lemma, one step per action.  `StatusIsTrue` is proved beside the invariant.

`ServerProofs`: in `ServerInv`, `HeldInv` says what is open at each place (an
error that slips past `b_server` leaves its port taken, so at most one does),
`SignalInv` what the signal actions are and which are remembered, `QueueInv`
that nobody waits twice, `PeerInv` how far each connection's request and answer
are, `SlipInv` that a connection stays open unserved exactly when its route's
value had no response, and that it was then not answered, `LateInv` that the
flag is up when the one late connection is served.

### Model-checked only

* `Ends` of `Launcher`, `NobodyWaitsForEver` and `StopIsHeard` of `Server`:
  liveness under fairness is outside the proof system.
* `SameAnswer`, `TextsBalance` and `ParsesBack` of `Native`: programs are trees,
  the evaluators and the parser are recursive operators, and each of these says
  something of what they compute for every tree.  That is induction over data.

`db_nested` is a counterexample; `RollbackIsExact` proves the same property where
no nested 거래 fails.

## 5. Seen while modelling

`db_nested` shows the one disagreement with the repository's words that a run
states.  The following were met on the way; the runs' properties are stated
around them.

Database: a statement that fails outside 거래 leaves memory and file different
until the next save (builtins.c:3734; README.md:171).  Closing a handle twice
gives back another handle's reference (3766; the comment at 3763 says "closing
twice is fine"): with `"reclose"` in `Failures`, `RefsExact` fails at the second
`Close` while another handle is open.  Images are found
by path text, two spellings are two images (2582).  CREATE TABLE IF NOT EXISTS
on a table that exists leaves its column list unread, and it is a syntax error
(3267).  A comparison applies the left column's affinity to both sides, so
`a = b` and `b = a` differ for a TEXT and an INTEGER column (3140).  A negative
key is replaced by the next rowid (3414).  An integer and a real are compared as
doubles, no order beyond 2^53 (2234).  LIMIT NULL gives no rows.

Loader: `base_dir` stays in the imported file's directory after an error in it
(interp.c:751).  A module loaded again while it runs is run twice and has two
dictionaries (builtins.c:1714; README.md:271).  가져오기 in a module defines in
the global environment (interp.c:750; README.md:149).  `..` above a relative
base is dropped (interp.c:690).

Language: 멈춤 and 계속 in a function without a loop act on the caller's loop
(interp.c:591); the compiler refuses such a program.  모두 reads the length once
(interp.c:880).  참 and 1 are equal but hash differently, as do integers beyond
2^53 and the doubles they round to: whether a dictionary holds both or takes one
for the other depends on where their probes meet (value.c:180), and `OrderedMap`
leaves that open.
The REPL counts braces inside comments (main.c 163-180).

Command line: a signal between installing the handlers and `fork` is noted but
reaches no child.  SIGTERM, and SIGINT outside the waiting, leave the work
directory.  A failed `exec` is status 127 and a failed `fork` status 1, both
without a word.  `fputs` and `fclose` of the .ll file are not checked (main.c
505).

Server: an error while a route's result is turned into an answer slips past
`srv_one`'s handler: the request is never answered, and the listener, the
connection and the signal actions stay taken (builtins.c:4310).  An `accept` that fails for another reason than a signal
ends the service silently (4372).  A truncated body is handed over as whole
(4188).  A 서버 inside a route shares the stop flag (4364).  Writes have no
timeout (4089).

## 6. Not modelled

* REPL: a line loop around the interpreter, whose state is the interpreter's.
* Other builtins (text, lists, JSON, files, HTTP client, AI): pure functions of
  their arguments or one I/O call each.
* Tables of names and messages (tables.h): constants.
* The lexer, SQL's tokens and the reading of SQL expressions: text to tokens
  without state worth a model; the parser and the loops over rows are modelled.
* The reference implementation in Python, ganada-os (a self-hosted compiler and
  assembly seeds, a toolchain of its own), tests, tools, examples.

Worth doing next: the hazards that no property covers yet (`PROJECT.json`, those
without properties): 자료닫기 on a handle closed before, 자료닫기 of the last handle inside
its own 거래, a store handle whose table was dropped and made again, a save that
finds the disk full.
