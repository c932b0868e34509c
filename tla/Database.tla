------------------------------ MODULE Database ------------------------------
(***************************************************************************)
(* The database part of ganada-c/src/builtins.c as one running process     *)
(* sees it: database images in memory and the handles that name them       *)
(* (자료열기, 자료닫기, 저장소), statements and store calls (실행, 넣기,   *)
(* 고치기, 빼기), the file a change is written to, and 거래, whose         *)
(* function may call anything, fail, and be caught by a 시도 around it.    *)
(*                                                                         *)
(* The process is single threaded: a builtin runs to its end or throws.    *)
(* What interleaves is the order of the program's calls, the unwinding of  *)
(* the frames they left on the C stack, and the end of the process, which  *)
(* may come at any moment, also while a file is being written.             *)
(***************************************************************************)
EXTENDS Tables, Sequences, FiniteSets

CONSTANTS
    Paths,      \* path strings the program passes
    Memory,     \* ":memory:", which may be one of them
    Files,      \* files on the disk
    FileOf,     \* the file each path string names
    Absent,     \* there is no such file
    Garbage,    \* a file that is not a database
    Free,       \* no open database has this id
    Stmts,      \* the SQL statements the program sends
    Failures,   \* which of FailureKinds this instance considers
    MaxImages,  \* bound: databases opened by one process
    MaxRefs,    \* bound: references to one database
    MaxDepth    \* bound: frames on the stack

FailureKinds ==
    {"statement",     \* a statement fails after it changed something
     "save",          \* the file cannot be opened for writing
     "torn",          \* the process dies after truncating it, writing
     "nested",        \* a 거래 inside a 거래 on the same database fails
     "reclose"}       \* a handle is closed a second time

ASSUME DatabaseAssumption ==
    /\ FileOf \in [Paths \ {Memory} -> Files]
    /\ {Absent, Garbage} \cap Tabs = {}
    /\ Stmts \subseteq Statements
    /\ Failures \subseteq FailureKinds
    /\ MaxImages \in Nat \ {0} /\ MaxRefs \in Nat \ {0} /\ MaxDepth \in Nat \ {0}

ImageIds == 1 .. MaxImages

\* Db: path, tables, rollback copy, 거래 depth, open references.
Image == [path : Paths, tabs : Tabs, snap : Tabs, tx : Int, refs : Nat]

ASSUME FreeAssumption == Free \notin Image

\* A C frame with a handler: a running 거래, a 시도, or a loop that takes the
\* break and continue signals.  entry is auxiliary: the tables when 거래 began.
TxFrame == [kind : {"tx"}, db : ImageIds, entry : Tabs]
GuardFrame == [kind : {"try", "loop"}]

Disks == [Files -> Tabs \cup {Absent, Garbage}]

Thrown == {"error", "signal"}

VARIABLES
    img,        \* g_dbs: the image of each id, or Free
    dbseq,      \* g_dbseq: the last id given out
    disk,       \* what each file holds
    stack,      \* the frames the running calls left, innermost last
    mode,       \* "run", what is being thrown ("error", "signal"), or "dead"
    open,       \* auxiliary: handles of 자료열기 the program has not closed
    shut,       \* auxiliary: images of which some handle was closed
    held,       \* auxiliary: store handles the program was given
    kept        \* auxiliary: references 저장소 took (nothing gives them back)

vars == <<img, dbseq, disk, stack, mode, open, shut, held, kept>>
program == <<open, shut, held, kept>>

TypeOK ==
    /\ img \in [ImageIds -> Image \cup {Free}]
    /\ dbseq \in 0 .. MaxImages
    /\ disk \in Disks
    /\ stack \in Seq(TxFrame \cup GuardFrame)
    /\ mode \in {"run", "dead"} \cup Thrown
    /\ open \in [ImageIds -> Nat]
    /\ shut \subseteq ImageIds
    /\ held \subseteq ImageIds \X Names
    /\ kept \in [ImageIds -> Nat]

\* A fresh process: no image, no frame, no handle.
Fresh ==
    /\ img = [i \in ImageIds |-> Free]
    /\ dbseq = 0
    /\ stack = <<>>
    /\ mode = "run"
    /\ open = [i \in ImageIds |-> 0]
    /\ shut = {}
    /\ held = {}
    /\ kept = [i \in ImageIds |-> 0]

Init == Fresh /\ disk \in [Files -> {Absent, Garbage}]

-----------------------------------------------------------------------------
Alive(i) == img[i] # Free

Top == stack[Len(stack)]
Popped == SubSeq(stack, 1, Len(stack) - 1)

IsTxOf(frame, i) == frame.kind = "tx" /\ frame.db = i

FramesOf(i) == {k \in 1 .. Len(stack) : IsTxOf(stack[k], i)}
Running(i) == FramesOf(i) # {}

\* The program holds some handle that names the image.
Named(i) == open[i] > 0 \/ i \in shut \/ \E n \in Names : <<i, n>> \in held

\* Something may be thrown here.  Unless "nested" failures are considered, the
\* program throws nothing while a 거래 runs inside another on one database.
MayThrow ==
    "nested" \in Failures \/ \A i \in ImageIds : Alive(i) => img[i].tx <= 1

\* Mutant of DbSave: it also writes inside a nested 거래.
DbSaveInside(im, dk) ==
    IF im.path = Memory \/ im.tx > 1
    THEN disk' = dk /\ mode' = "run"
    ELSE disk' = [dk EXCEPT ![FileOf[im.path]] = im.tabs] /\ mode' = "run"

\* What the next process finds of a file that was not written to its end: its
\* first part, which db_load reads as a smaller database or refuses.
Torn(tabs) == Remains(tabs) \cup {Garbage}

\* db_save of image im over the files dk: nothing for ":memory:" or inside a
\* 거래; else the whole file is rewritten, or cannot be opened, which throws, or
\* the process dies while it writes.
DbSave(im, dk) ==
    IF im.path = Memory \/ im.tx # 0
    THEN disk' = dk /\ mode' = "run"
    ELSE \/ disk' = [dk EXCEPT ![FileOf[im.path]] = im.tabs] /\ mode' = "run"
         \/ "save" \in Failures /\ MayThrow /\ disk' = dk /\ mode' = "error"
         \/ /\ "torn" \in Failures /\ mode' = "dead"
            /\ \E part \in Torn(im.tabs) : disk' = [dk EXCEPT ![FileOf[im.path]] = part]

-----------------------------------------------------------------------------
(* Handles *)

\* Mutant of Opened: an image whose 거래 runs is not looked at.
OpenedIdle(p) == {i \in ImageIds : Alive(i) /\ img[i].path = p /\ img[i].tx = 0}

Opened(p) == {i \in ImageIds : Alive(i) /\ img[i].path = p}

\* What db_open finds: an image of the same path string, else the file.
Content(p) == IF p = Memory \/ disk[FileOf[p]] = Absent THEN NoTabs ELSE disk[FileOf[p]]

NewImage(p) == [path |-> p, tabs |-> Content(p), snap |-> NoTabs, tx |-> 0, refs |-> 1]

\* Mutant of OpenId: the first free id is taken.
OpenIdReuse(p) ==
    IF p # Memory /\ Opened(p) # {} THEN CHOOSE i \in Opened(p) : TRUE
    ELSE CHOOSE i \in 1 .. dbseq + 1 :
            /\ i = dbseq + 1 \/ ~Alive(i)
            /\ \A j \in 1 .. i - 1 : Alive(j)

\* db_open(p): the id and the image it returns.
OpenId(p) ==
    IF p # Memory /\ Opened(p) # {} THEN CHOOSE i \in Opened(p) : TRUE ELSE dbseq + 1

\* Mutant of OpenImage: a second handle is not counted.
OpenImageUncounted(p) ==
    IF p # Memory /\ Opened(p) # {} THEN img[OpenId(p)] ELSE NewImage(p)

OpenImage(p) ==
    IF p # Memory /\ Opened(p) # {}
    THEN [img[OpenId(p)] EXCEPT !.refs = @ + 1] ELSE NewImage(p)

CanOpen(p) ==
    /\ OpenId(p) \in ImageIds
    /\ open[OpenId(p)] + kept[OpenId(p)] < MaxRefs
    /\ Content(p) = Garbage => p # Memory /\ Opened(p) # {}

\* The files after db_open: the file is created empty when there was none.
Created(p) ==
    IF p # Memory /\ Opened(p) = {} /\ disk[FileOf[p]] = Absent
    THEN [disk EXCEPT ![FileOf[p]] = NoTabs] ELSE disk

Seen(i) == IF i > dbseq THEN i ELSE dbseq

\* 자료열기
Open(p) ==
    /\ mode = "run" /\ CanOpen(p)
    /\ img' = [img EXCEPT ![OpenId(p)] = OpenImage(p)]
    /\ dbseq' = Seen(OpenId(p))
    /\ open' = [open EXCEPT ![OpenId(p)] = @ + 1]
    /\ disk' = Created(p)
    /\ UNCHANGED <<stack, mode, shut, held, kept>>

\* The table 저장소 makes when there is none of the name.
WithStore(im, n) ==
    IF im.tabs[n] = NoTable THEN [im EXCEPT !.tabs[n] = NewTable("auto")] ELSE im

\* 저장소: opens the database, and makes the table or checks its shape.  The
\* reference is taken first and kept whatever comes after.
OpenStore(p, n) ==
    LET i == OpenId(p)
        im == OpenImage(p)
    IN  /\ mode = "run" /\ CanOpen(p)
        /\ img' = [img EXCEPT ![i] = WithStore(im, n)]
        /\ dbseq' = Seen(i)
        /\ kept' = [kept EXCEPT ![i] = @ + 1]
        /\ \/ im.tabs[n] = NoTable /\ DbSave(WithStore(im, n), Created(p))
           \/ /\ im.tabs[n] # NoTable /\ im.tabs[n].kind \notin {"plain", "cut"}
              /\ disk' = Created(p) /\ mode' = "run"
           \/ /\ im.tabs[n] # NoTable /\ im.tabs[n].kind \in {"plain", "cut"} /\ MayThrow
              /\ disk' = Created(p) /\ mode' = "error"
        /\ held' = IF mode' = "run" THEN held \cup {<<i, n>>} ELSE held
        /\ UNCHANGED <<stack, open, shut>>

\* db_close: the last reference frees the image.  Freeing one whose 거래 is on
\* the stack leaves that frame a dangling pointer; the program does not do it.
WithoutRef(i) == IF img[i].refs > 1 THEN [img[i] EXCEPT !.refs = @ - 1] ELSE Free

\* 자료닫기 of a handle not closed before, or of one that was ("again").
Close(i, again) ==
    /\ mode = "run" /\ Alive(i)
    /\ Running(i) => img[i].refs > 1
    /\ IF again
       THEN "reclose" \in Failures /\ i \in shut /\ UNCHANGED open
       ELSE open[i] > 0 /\ open' = [open EXCEPT ![i] = @ - 1]
    /\ shut' = shut \cup {i}
    /\ img' = [img EXCEPT ![i] = WithoutRef(i)]
    /\ UNCHANGED <<dbseq, disk, stack, mode, held, kept>>

-----------------------------------------------------------------------------
(* Statements and store calls *)

\* The image i gets new tables and is saved.
Write(i, tabs) ==
    LET im == [img[i] EXCEPT !.tabs = tabs]
    IN  img' = [img EXCEPT ![i] = im] /\ DbSave(im, disk)

\* 실행: a statement that fails throws before the save, and what it had
\* already changed stays in memory.
Exec(i, s) ==
    LET res == SqlRun(img[i].tabs, s)
    IN  /\ mode = "run" /\ Alive(i) /\ (open[i] > 0 \/ i \in shut)
        /\ StatementFits(img[i].tabs, s)
        /\ \/ res.ok /\ res.mutated /\ Write(i, res.tabs)
           \/ /\ ~res.ok /\ MayThrow
              /\ res.tabs # img[i].tabs => "statement" \in Failures
              /\ img' = [img EXCEPT ![i].tabs = res.tabs]
              /\ mode' = "error"
              /\ UNCHANGED disk
        /\ UNCHANGED <<dbseq, stack, program>>

\* 넣기, 고치기, 빼기 through the store handle <<i, n>>.
StoreCall(i, n) ==
    /\ mode = "run" /\ <<i, n>> \in held /\ Alive(i) /\ img[i].tabs[n] # NoTable
    /\ UNCHANGED <<dbseq, stack, program>>

Put(i, n, v) ==
    LET t == img[i].tabs[n] IN
    /\ StoreCall(i, n) /\ Fits(t)
    /\ Write(i, [img[i].tabs EXCEPT ![n] = TabInsert(t, NextRowid(t), v)])

Fix(i, n, r, v) ==
    LET t == img[i].tabs[n] IN
    /\ StoreCall(i, n) /\ Has(t, r)
    /\ Write(i, [img[i].tabs EXCEPT ![n] = TabUpdate(t, {r}, v)])

Remove(i, n, r) ==
    LET t == img[i].tabs[n] IN
    /\ StoreCall(i, n) /\ Has(t, r)
    /\ Write(i, [img[i].tabs EXCEPT ![n] = TabRemove(t, {r})])

Call(i) ==
    \/ \E s \in Stmts : Exec(i, s)
    \/ \E n \in Names, v \in Vals : Put(i, n, v)
    \/ \E n \in Names, r \in RowIds, v \in Vals : Fix(i, n, r, v)
    \/ \E n \in Names, r \in RowIds : Remove(i, n, r)

-----------------------------------------------------------------------------
(* 거래, and the handlers around it *)

\* Mutant of TxBegin: every 거래 takes the copy, also a nested one.
TxBeginCopies(i) ==
    LET im == [img[i] EXCEPT !.snap = img[i].tabs]
    IN  /\ mode = "run" /\ Alive(i) /\ Named(i) /\ Len(stack) < MaxDepth
        /\ img' = [img EXCEPT ![i] = [im EXCEPT !.tx = @ + 1]]
        /\ stack' = Append(stack, [kind |-> "tx", db |-> i, entry |-> img[i].tabs])
        /\ UNCHANGED <<dbseq, disk, mode, program>>

\* b_transaction up to the call of the function: the copy is taken only when
\* the depth is 0.
TxBegin(i) ==
    LET im == IF img[i].tx = 0 THEN [img[i] EXCEPT !.snap = img[i].tabs] ELSE img[i]
    IN  /\ mode = "run" /\ Alive(i) /\ Named(i) /\ Len(stack) < MaxDepth
        /\ img' = [img EXCEPT ![i] = [im EXCEPT !.tx = @ + 1]]
        /\ stack' = Append(stack, [kind |-> "tx", db |-> i, entry |-> img[i].tabs])
        /\ UNCHANGED <<dbseq, disk, mode, program>>

\* Mutant of TxEnd: the outermost 거래 returns without a save.
TxEndUnsaved ==
    LET i == Top.db
        n == img[i].tx - 1
        im == [img[i] EXCEPT !.tx = n, !.snap = IF n = 0 THEN NoTabs ELSE @]
    IN  /\ mode = "run" /\ stack # <<>> /\ Top.kind = "tx"
        /\ img' = [img EXCEPT ![i] = im]
        /\ stack' = Popped
        /\ UNCHANGED <<dbseq, disk, mode, program>>

\* The function returned: the depth goes down, and at 0 the copy is dropped and
\* the tables are saved.
TxEnd ==
    LET i == Top.db
        n == img[i].tx - 1
        im == [img[i] EXCEPT !.tx = n, !.snap = IF n = 0 THEN NoTabs ELSE @]
    IN  /\ mode = "run" /\ stack # <<>> /\ Top.kind = "tx"
        /\ img' = [img EXCEPT ![i] = im]
        /\ stack' = Popped
        /\ IF n = 0 THEN DbSave(im, disk) ELSE UNCHANGED <<disk, mode>>
        /\ UNCHANGED <<dbseq, program>>

\* Mutants of TxAbort: the depth is not reset; the tables are not put back.
TxAbortDeep ==
    LET i == Top.db IN
    /\ mode \in Thrown /\ stack # <<>> /\ Top.kind = "tx"
    /\ img' = [img EXCEPT ![i] = [img[i] EXCEPT !.tabs = img[i].snap, !.snap = NoTabs]]
    /\ stack' = Popped
    /\ UNCHANGED <<dbseq, disk, mode, program>>

TxAbortKeeps ==
    LET i == Top.db IN
    /\ mode \in Thrown /\ stack # <<>> /\ Top.kind = "tx"
    /\ img' = [img EXCEPT ![i] = [img[i] EXCEPT !.snap = NoTabs, !.tx = 0]]
    /\ stack' = Popped
    /\ UNCHANGED <<dbseq, disk, mode, program>>

\* The function threw: the copy is put back whatever the depth, and the
\* throwing goes on.
TxAbort ==
    LET i == Top.db IN
    /\ mode \in Thrown /\ stack # <<>> /\ Top.kind = "tx"
    /\ img' = [img EXCEPT ![i] =
                 [img[i] EXCEPT !.tabs = img[i].snap, !.snap = NoTabs, !.tx = 0]]
    /\ stack' = Popped
    /\ UNCHANGED <<dbseq, disk, mode, program>>

\* 시도 and the loops put a handler of their own on the stack.
GuardBegin(kind) ==
    /\ mode = "run" /\ Len(stack) < MaxDepth
    /\ stack' = Append(stack, [kind |-> kind])
    /\ UNCHANGED <<img, dbseq, disk, mode, program>>

GuardEnd ==
    /\ mode = "run" /\ stack # <<>> /\ Top.kind # "tx"
    /\ stack' = Popped
    /\ UNCHANGED <<img, dbseq, disk, mode, program>>

\* 시도 stops an error, a loop stops break and continue; each passes on the other.
Catch ==
    /\ mode \in Thrown /\ stack # <<>> /\ Top.kind # "tx"
    /\ mode' = IF (Top.kind = "try") = (mode = "error") THEN "run" ELSE mode
    /\ stack' = Popped
    /\ UNCHANGED <<img, dbseq, disk, program>>

\* The program throws: 발생, any failing builtin, a break or a continue.
Throw(what) ==
    /\ mode = "run" /\ MayThrow
    /\ mode' = what
    /\ UNCHANGED <<img, dbseq, disk, stack, program>>

-----------------------------------------------------------------------------
(* The end of the process: it finishes, stops on an uncaught error or is    *)
(* killed, perhaps in a save; what was only in memory is gone and the next  *)
(* process starts.                                                          *)

ProcessEnd ==
    /\ img' = [i \in ImageIds |-> Free]
    /\ dbseq' = 0
    /\ stack' = <<>>
    /\ mode' = "run"
    /\ open' = [i \in ImageIds |-> 0]
    /\ shut' = {}
    /\ held' = {}
    /\ kept' = [i \in ImageIds |-> 0]

Stop == ProcessEnd /\ UNCHANGED disk

Next ==
    \/ \E p \in Paths : Open(p)
    \/ \E p \in Paths, n \in Names : OpenStore(p, n)
    \/ \E i \in ImageIds :
        \/ \E again \in BOOLEAN : Close(i, again)
        \/ Call(i)
        \/ TxBegin(i)
    \/ TxEnd
    \/ TxAbort
    \/ \E kind \in {"try", "loop"} : GuardBegin(kind)
    \/ GuardEnd
    \/ Catch
    \/ \E what \in Thrown : Throw(what)
    \/ Stop

Spec == Init /\ [][Next]_vars

-----------------------------------------------------------------------------
(* Properties *)

\* "one file, one image" (db_open): two open databases never keep images of
\* one file, or the later save would undo the other's writes.
OneImagePerFile ==
    \A i, j \in ImageIds :
        Alive(i) /\ Alive(j) /\ i # j /\ Memory \notin {img[i].path, img[j].path}
            => FileOf[img[i].path] # FileOf[img[j].path]

\* The reference count is the number of handles that still count on the image
\* (db_close frees at 0), so a handle that was not closed names an open one.
RefsExact ==
    \A i \in ImageIds :
        open[i] + kept[i] = IF Alive(i) THEN img[i].refs ELSE 0

\* 거래 depth is the number of its frames on the stack: only the outermost
\* call takes the copy, and only its return saves.
DepthIsFrames ==
    \A i \in ImageIds :
        /\ Alive(i) => img[i].tx = Cardinality(FramesOf(i))
        /\ ~Alive(i) => ~Running(i)

\* Autocommit: outside a 거래 the file holds what memory holds, and inside one
\* it holds the copy a rollback would put back, until a process dies in a save.
FileIsCurrent ==
    mode # "dead" => \A i \in ImageIds :
        Alive(i) /\ img[i].path # Memory =>
            disk[FileOf[img[i].path]] = IF img[i].tx = 0 THEN img[i].tabs ELSE img[i].snap

\* AUTOINCREMENT never hands out a rowid again: in memory, in the rollback copy
\* and on the file, seq covers every row.
Covered(tabs) ==
    \A n \in Names : tabs[n] # NoTable => Present(tabs[n]) \subseteq 0 .. tabs[n].seq

SeqCoversRows ==
    /\ \A i \in ImageIds : Alive(i) => Covered(img[i].tabs) /\ Covered(img[i].snap)
    /\ \A f \in Files : disk[f] \notin {Absent, Garbage} => Covered(disk[f])

\* No call lowers a table's seq, the unwinding of 거래 apart: a number that was
\* handed out stays used when its row is deleted.
SeqNeverFalls ==
    [][\A i \in ImageIds, n \in Names :
        Alive(i) /\ img'[i] # Free /\ mode = "run"
        /\ img[i].tabs[n] # NoTable /\ img'[i].tabs[n] # NoTable
            => img[i].tabs[n].seq <= img'[i].tabs[n].seq]_vars

\* What a 거래 writes reaches the file when the outermost 거래 on the database
\* has returned, never while one of its frames is still running.
NothingEarly ==
    [][\A f \in Files : disk'[f] # disk[f] =>
        \A k \in 1 .. Len(stack') :
            LET i == stack'[k].db IN
            stack'[k].kind = "tx" /\ img'[i] # Free =>
                img'[i].path = Memory \/ FileOf[img'[i].path] # f]_vars

\* An outermost 거래 whose function throws leaves the tables as they were when
\* it began, whatever ran inside it.
RollbackRestores ==
    [][stack # <<>> /\ Top.kind = "tx" /\ {mode, mode'} \subseteq Thrown /\ stack' = Popped
        /\ (\A k \in 1 .. Len(Popped) : ~IsTxOf(Popped[k], Top.db))
            => img'[Top.db] # Free /\ img'[Top.db].tabs = Top.entry]_vars

\* "ids are not recycled": an id whose database was closed names no later one
\* in the same process.
IdsNotRecycled ==
    [][\A i \in 1 .. dbseq : ~Alive(i) => img'[i] = Free]_vars
=============================================================================
