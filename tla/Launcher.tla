------------------------------ MODULE Launcher ------------------------------
(***************************************************************************)
(* The command line (main.c): one call of 가나다 on a file.  The launcher   *)
(* translates the program, unpacks the runtime into a work directory, lets *)
(* clang build it, runs the result, and falls back to the interpreter when *)
(* it may.  SIGINT and SIGQUIT reach the launcher and its child at any     *)
(* moment; the launcher lives through them while it waits, to clear the    *)
(* work directory and end the way the program would have.                  *)
(***************************************************************************)
EXTENDS Naturals, FiniteSets

CONSTANTS
    Modes,        \* the ways to be called: a subset of AllModes
    MaxSignals    \* signals sent in one run

AllModes == {"IR", "BUILD", "RUN", "TRY_RUN", "INTERP"}
Sources == {"missing", "broken", "unsupported", "supported"}
Endings == {"ok", "fails", "loops"}
ASSUME BoundsAssumption == Modes \subseteq AllModes /\ MaxSignals \in Nat

Noted == {"INT", "QUIT"}                \* the signals spawn_wait handles
Sigs == Noted \cup {"TERM"}             \* and one it leaves alone
NoSig == "none"
Exit(n) == <<"exit", n>>
BySignal(s) == <<"signal", s>>
Unknown == <<"unknown", 0>>             \* no status: st == -1, or not ended
Statuses == {Exit(n) : n \in {0, 1, 127}} \cup {BySignal(s) : s \in Sigs}

VARIABLES
    mode, src, ending,   \* how it was called, the file, how the program ends
    pc, job,             \* where the launcher is; which child it is about
    hdl,                 \* the launcher's action on each signal
    got,                 \* g_got_sig
    st,                  \* the status waitpid gave
    pend,                \* signals that wait for the worker's mask to be lifted
    work, out,           \* files in the work directory, files the user keeps
    child,               \* the child process
    exit, killed,        \* how the launcher ended; TRUE: a signal ended it
    starts, result,      \* times the program was begun; how it ended itself
    noted,               \* the child a noted signal was waiting for
    signals              \* signals sent so far
vars == <<mode, src, ending, pc, job, hdl, got, st, pend, work, out, child,
          exit, killed, starts, result, noted, signals>>
given == <<mode, src, ending>>

NoChild == [st |-> "none", hdl |-> [s \in Sigs |-> "dfl"], code |-> Unknown]
Steps == {"masked", "cli", "mkdtemp", "writeIR", "runtime", "noteINT",
          "noteQUIT", "fork", "wait", "backINT", "backQUIT", "after",
          "interp", "interpret", "ended"}

Actions == {"dfl", "ign", "note"}
Children == [st : {"none", "fresh", "freshQUIT", "ready", "runs", "gone"},
             hdl : [Sigs -> Actions], code : Statuses \cup {Unknown}]

TypeOK ==
    /\ mode \in Modes /\ src \in Sources /\ ending \in Endings
    /\ pc \in Steps /\ job \in {"cc", "run"}
    /\ hdl \in [Sigs -> Actions]
    /\ got \in Noted \cup {NoSig} /\ pend \subseteq Sigs
    /\ st \in Statuses \cup {Unknown}
    /\ exit \in Statuses \cup {Unknown} /\ result \in Statuses \cup {Unknown}
    /\ work \subseteq {"dir", "prog.ll", "na_rt", "prog"}
    /\ out \subseteq {".ll", ".native"}
    /\ child \in Children
    /\ killed \in BOOLEAN /\ starts \in Nat /\ signals \in 0..MaxSignals
    /\ noted \in {"nobody", "cc", "run"}

Init ==
    /\ mode \in Modes /\ src \in Sources /\ ending \in Endings
    /\ hdl \in {h \in [Sigs -> {"dfl", "ign"}] : h["TERM"] = "dfl"}
    /\ pc = "masked" /\ job = "cc" /\ got = NoSig /\ st = Unknown
    /\ pend = {} /\ work = {} /\ out = {} /\ child = NoChild
    /\ exit = Unknown /\ killed = FALSE /\ starts = 0 /\ result = Unknown
    /\ noted = "nobody" /\ signals = 0

----------------------------------------------------------------------------
(* Ways to leave *)

Finish(status) == pc' = "ended" /\ exit' = status

\* What stops a run on the way to a native program: run_smart falls back to
\* the interpreter, every other mode is over.
GiveUp == IF mode = "TRY_RUN" THEN pc' = "interp" /\ UNCHANGED exit
                              ELSE Finish(Exit(1))

RmWork == work' = {}

\* die_by: the launcher ends by the signal its child or itself received.
DieBy(s) == Finish(BySignal(s))

\* How the program of this run ends when nobody stops it: the runtime and
\* the interpreter exit with 0 or 1.
OwnStatus == IF ending = "ok" THEN Exit(0) ELSE Exit(1)

----------------------------------------------------------------------------
(* main, cli_main, run_smart *)

\* The worker thread lifts the mask it was born with; when it cannot be made
\* the first thread lifts it and goes on.  A signal held back strikes now.
Begin ==
    /\ pc = "masked"
    /\ LET deadly == {s \in pend : hdl[s] = "dfl"} IN
       IF deadly = {}
       THEN pc' = "cli" /\ UNCHANGED <<exit, killed>>
       ELSE \E s \in deadly : Finish(BySignal(s)) /\ killed' = TRUE
    /\ pend' = {}
    /\ UNCHANGED <<given, job, hdl, got, st, work, out, child, starts, result,
                   noted, signals>>

\* Reads, parses and translates.
Translate ==
    /\ pc = "cli"
    /\ CASE mode = "INTERP" -> pc' = "interp" /\ UNCHANGED exit
         [] mode # "INTERP" /\ src # "supported" -> GiveUp
         [] OTHER -> /\ pc' = IF mode = "IR" THEN "writeIR" ELSE "mkdtemp"
                     /\ UNCHANGED exit
    /\ UNCHANGED <<given, job, hdl, got, st, pend, work, out, child, killed,
                   starts, result, noted, signals>>

MakeWork ==
    /\ pc = "mkdtemp"
    /\ \/ work' = {"dir"} /\ pc' = "writeIR" /\ UNCHANGED exit
       \/ UNCHANGED work /\ GiveUp
    /\ UNCHANGED <<given, job, hdl, got, st, pend, out, child, killed, starts,
                   result, noted, signals>>

WriteIR ==
    /\ pc = "writeIR"
    /\ \/ /\ IF mode = "TRY_RUN"
             THEN work' = work \cup {"prog.ll"} /\ UNCHANGED out
             ELSE out' = out \cup {".ll"} /\ UNCHANGED work
          /\ IF mode = "IR" THEN Finish(Exit(0))
                            ELSE pc' = "runtime" /\ UNCHANGED exit
       \/ RmWork /\ UNCHANGED out /\ GiveUp
    /\ UNCHANGED <<given, job, hdl, got, st, pend, child, killed, starts,
                   result, noted, signals>>

WriteRuntime ==
    /\ pc = "runtime"
    /\ \/ work' = work \cup {"na_rt"} /\ pc' = "noteINT" /\ UNCHANGED exit
       \/ RmWork /\ GiveUp
    /\ UNCHANGED <<given, job, hdl, got, st, pend, out, child, killed, starts,
                   result, noted, signals>>

----------------------------------------------------------------------------
(* spawn_wait: the launcher's half *)

\* A signal that was ignored when spawn_wait began stays ignored.
Note(s) == hdl' = [hdl EXCEPT ![s] = IF @ = "ign" THEN "ign" ELSE "note"]
Back(s) == hdl' = [hdl EXCEPT ![s] = IF @ = "ign" THEN "ign" ELSE "dfl"]

NoteInt ==
    /\ pc = "noteINT" /\ got' = NoSig /\ Note("INT") /\ pc' = "noteQUIT"
    /\ UNCHANGED <<given, job, st, pend, work, out, child, exit, killed,
                   starts, result, noted, signals>>

NoteQuit ==
    /\ pc = "noteQUIT" /\ Note("QUIT") /\ pc' = "fork"
    /\ UNCHANGED <<given, job, got, st, pend, work, out, child, exit, killed,
                   starts, result, noted, signals>>

\* Mutated: the parent waits for a child that was never made.
ForkWaits ==
    /\ pc = "fork"
    /\ \/ /\ child' = [st |-> "fresh", hdl |-> hdl, code |-> Unknown]
          /\ pc' = "wait"
       \/ child' = NoChild /\ pc' = "wait"
    /\ st' = Unknown
    /\ UNCHANGED <<given, job, hdl, got, pend, work, out, exit, killed,
                   starts, result, noted, signals>>

\* The child starts with the launcher's handlers.
Fork ==
    /\ pc = "fork"
    /\ \/ /\ child' = [st |-> "fresh", hdl |-> hdl, code |-> Unknown]
          /\ pc' = "wait"
       \/ child' = NoChild /\ pc' = "backINT"
    /\ st' = Unknown
    /\ UNCHANGED <<given, job, hdl, got, pend, work, out, exit, killed,
                   starts, result, noted, signals>>

\* Mutated: waitpid is not called again after EINTR.
WaitOnce ==
    /\ pc = "wait" /\ (child.st = "gone" \/ got # NoSig)
    /\ st' = (IF child.st = "gone" THEN child.code ELSE Unknown)
    /\ pc' = "backINT"
    /\ UNCHANGED <<given, job, hdl, got, pend, work, out, child, exit, killed,
                   starts, result, noted, signals>>

\* waitpid is called again when a signal cut it short.
Wait ==
    /\ pc = "wait" /\ child.st = "gone"
    /\ st' = child.code /\ pc' = "backINT"
    /\ UNCHANGED <<given, job, hdl, got, pend, work, out, child, exit, killed,
                   starts, result, noted, signals>>

BackInt ==
    /\ pc = "backINT" /\ Back("INT") /\ pc' = "backQUIT"
    /\ UNCHANGED <<given, job, got, st, pend, work, out, child, exit, killed,
                   starts, result, noted, signals>>

BackQuit ==
    /\ pc = "backQUIT" /\ Back("QUIT") /\ pc' = "after"
    /\ UNCHANGED <<given, job, got, st, pend, work, out, child, exit, killed,
                   starts, result, noted, signals>>

\* Mutated: the status of clang is looked at before the noted signal.
AfterClangStatusFirst ==
    /\ pc = "after" /\ job = "cc"
    /\ IF st # Exit(0) THEN RmWork /\ GiveUp /\ UNCHANGED job
       ELSE IF got # NoSig
       THEN RmWork /\ Finish(BySignal(got)) /\ UNCHANGED job
       ELSE IF mode = "BUILD" THEN RmWork /\ Finish(Exit(0)) /\ UNCHANGED job
       ELSE pc' = "noteINT" /\ job' = "run" /\ UNCHANGED <<work, exit>>
    /\ UNCHANGED <<given, hdl, got, st, pend, out, child, killed, starts,
                   result, noted, signals>>

\* After clang: a noted signal first, then its status.
AfterClang ==
    /\ pc = "after" /\ job = "cc"
    /\ IF got # NoSig
       THEN RmWork /\ DieBy(got) /\ UNCHANGED job
       ELSE IF st # Exit(0) THEN RmWork /\ GiveUp /\ UNCHANGED job
       ELSE IF mode = "BUILD" THEN RmWork /\ Finish(Exit(0)) /\ UNCHANGED job
       ELSE pc' = "noteINT" /\ job' = "run" /\ UNCHANGED <<work, exit>>
    /\ UNCHANGED <<given, hdl, got, st, pend, out, child, killed, starts,
                   result, noted, signals>>

\* Mutated: a program that failed is taken for a build that failed.
AfterProgramSoft ==
    /\ pc = "after" /\ job = "run"
    /\ RmWork
    /\ IF got = NoSig /\ st # Exit(0) THEN GiveUp
       ELSE Finish(IF got # NoSig THEN BySignal(got) ELSE st)
    /\ UNCHANGED <<given, job, hdl, got, st, pend, out, child, killed, starts,
                   result, noted, signals>>

\* Mutated: wEXITSTATUS is returned without a look at how the program ended.
AfterProgramExit ==
    /\ pc = "after" /\ job = "run"
    /\ RmWork
    /\ Finish(IF got # NoSig THEN BySignal(got)
              ELSE IF st[1] = "exit" THEN st ELSE Exit(0))
    /\ UNCHANGED <<given, job, hdl, got, st, pend, out, child, killed, starts,
                   result, noted, signals>>

\* After the program: its ending is the launcher's own.
AfterProgram ==
    /\ pc = "after" /\ job = "run"
    /\ RmWork
    /\ CASE got # NoSig -> DieBy(got)
         [] got = NoSig /\ st[1] = "signal" -> DieBy(st[2])
         [] OTHER -> Finish(IF st = Unknown THEN Exit(1) ELSE st)
    /\ UNCHANGED <<given, job, hdl, got, st, pend, out, child, killed, starts,
                   result, noted, signals>>

----------------------------------------------------------------------------
(* The child *)

ChildStep(from, to) == child.st = from /\ child' = [child EXCEPT !.st = to]

\* The child takes back the two actions the launcher had before.
ChildBack ==
    /\ \E s \in Noted :
          /\ child.st = IF s = "INT" THEN "fresh" ELSE "freshQUIT"
          /\ child' = [child EXCEPT
                !.st = IF s = "INT" THEN "freshQUIT" ELSE "ready",
                !.hdl = [@ EXCEPT ![s] = IF @ = "ign" THEN "ign" ELSE "dfl"]]
    /\ UNCHANGED <<given, pc, job, hdl, got, st, pend, work, out, exit,
                   killed, starts, result, noted, signals>>

\* execvp: clang may be missing, the program's file system may forbid it.
ChildExec ==
    /\ \/ ChildStep("ready", "runs")
          /\ starts' = starts + (IF job = "run" THEN 1 ELSE 0)
       \/ child.st = "ready" /\ UNCHANGED starts
          /\ child' = [child EXCEPT !.st = "gone", !.code = Exit(127)]
    /\ UNCHANGED <<given, pc, job, hdl, got, st, pend, work, out, exit,
                   killed, result, noted, signals>>

\* clang writes the program and ends, or reports an error.
ClangEnds ==
    /\ job = "cc" /\ child.st = "runs"
    /\ \E n \in {0, 1} :
          /\ child' = [child EXCEPT !.st = "gone", !.code = Exit(n)]
          /\ IF n = 1 THEN UNCHANGED <<work, out>>
             ELSE IF mode = "TRY_RUN"
             THEN work' = work \cup {"prog"} /\ UNCHANGED out
             ELSE out' = out \cup {".native"} /\ UNCHANGED work
    /\ UNCHANGED <<given, pc, job, hdl, got, st, pend, exit, killed, starts,
                   result, noted, signals>>

\* The native program comes to its end.
ProgramEnds ==
    /\ job = "run" /\ child.st = "runs" /\ ending # "loops"
    /\ child' = [child EXCEPT !.st = "gone", !.code = OwnStatus]
    /\ result' = OwnStatus
    /\ UNCHANGED <<given, pc, job, hdl, got, st, pend, work, out, exit,
                   killed, starts, noted, signals>>

----------------------------------------------------------------------------
(* run_file: the interpreter in the launcher's own process *)

Interpret ==
    /\ pc = "interp"
    /\ IF src \in {"missing", "broken"}
       THEN Finish(Exit(1)) /\ UNCHANGED starts
       ELSE pc' = "interpret" /\ starts' = starts + 1 /\ UNCHANGED exit
    /\ UNCHANGED <<given, job, hdl, got, st, pend, work, out, child, killed,
                   result, noted, signals>>

InterpreterEnds ==
    /\ pc = "interpret" /\ ending # "loops"
    /\ Finish(OwnStatus) /\ result' = OwnStatus
    /\ UNCHANGED <<given, job, hdl, got, st, pend, work, out, child, killed,
                   starts, noted, signals>>

----------------------------------------------------------------------------
(* Signals: from the terminal to both processes, from kill to one *)

StrikeLauncher(s) ==
    CASE pc = "ended" -> UNCHANGED <<pend, got, noted, pc, exit, killed>>
      [] pc = "masked" -> /\ pend' = pend \cup {s}
                          /\ UNCHANGED <<got, noted, pc, exit, killed>>
      [] OTHER ->
           /\ UNCHANGED pend
           /\ IF hdl[s] = "note" THEN got' = s /\ noted' = job
                                 ELSE UNCHANGED <<got, noted>>
           /\ IF hdl[s] = "dfl" THEN Finish(BySignal(s)) /\ killed' = TRUE
                                ELSE UNCHANGED <<pc, exit, killed>>

StrikeChild(s) ==
    IF child.st \notin {"none", "gone"} /\ child.hdl[s] = "dfl"
    THEN child' = [child EXCEPT !.st = "gone", !.code = BySignal(s)]
    ELSE UNCHANGED child

Signal(s, targets) ==
    /\ signals < MaxSignals /\ signals' = signals + 1
    /\ IF "launcher" \in targets THEN StrikeLauncher(s)
       ELSE UNCHANGED <<pend, got, noted, pc, exit, killed>>
    /\ IF "child" \in targets THEN StrikeChild(s) ELSE UNCHANGED child
    /\ UNCHANGED <<given, job, hdl, st, work, out, starts, result>>

AnySignal == \E s \in Sigs :
    \E targets \in {{"launcher"}, {"child"}, {"launcher", "child"}} :
       Signal(s, targets)

----------------------------------------------------------------------------
LauncherSteps ==
    \/ Begin \/ Translate \/ MakeWork \/ WriteIR \/ WriteRuntime
    \/ NoteInt \/ NoteQuit \/ Fork \/ Wait \/ BackInt \/ BackQuit
    \/ AfterClang \/ AfterProgram \/ Interpret
ChildSteps == ChildBack \/ ChildExec \/ ClangEnds
Endable == ProgramEnds \/ InterpreterEnds

Next == LauncherSteps \/ ChildSteps \/ Endable \/ AnySignal
Spec == Init /\ [][Next]_vars

\* The system runs both processes, and clang and a program that does not
\* loop come to an end.  Signals need never come.
FairSpec == /\ Spec
            /\ WF_vars(LauncherSteps) /\ WF_vars(ChildSteps)
            /\ WF_vars(Endable)

----------------------------------------------------------------------------
(* What must hold *)

\* run_smart must never run a program a second time, not even when the
\* native run failed or was interrupted: whatever it printed or wrote would
\* be done twice.
StartedOnce == starts <= 1

\* A program whose build was interrupted is not run: clang that died of
\* Ctrl-C is not a reason to fall back (comment at spawn_wait).
NoRunAfterInterrupt == noted = "cc" => starts = 0

\* Whoever ends on its own feet has removed the work directory and has no
\* child left that still uses it.
NothingLeft ==
    pc = "ended" /\ ~killed =>
        work = {} /\ child.st \in {"none", "gone"}

\* The status is true: success means the program came to its end or the file
\* asked for is there, and what the program ended with is what is reported
\* unless a signal was noted while it ran.
StatusIsTrue ==
    pc = "ended" /\ ~killed =>
        /\ exit = Exit(0) =>
              CASE mode = "IR" -> ".ll" \in out
                [] mode = "BUILD" -> ".native" \in out
                [] OTHER -> result = Exit(0)
        /\ result # Unknown /\ noted = "nobody" => exit = result

\* No build and no wait hangs: the launcher ends, or its program is running
\* and never ends.
Ends ==
    <>(\/ pc = "ended"
       \/ ending = "loops" /\ (pc = "interpret" \/ (job = "run" /\ child.st = "runs")))

=============================================================================
