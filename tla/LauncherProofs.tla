--------------------------- MODULE LauncherProofs ---------------------------
(***************************************************************************)
(* Theorems about the command line, for any number of signals and any ways *)
(* to be called.  The invariant follows one call of the launcher: where it *)
(* is says which child there can be, whether the program was begun, what   *)
(* is in the work directory and which status it has seen.                  *)
(***************************************************************************)
EXTENDS Launcher, TLAPS

Watching == {"noteQUIT", "fork", "wait", "backINT", "backQUIT"}
Before == {"noteINT", "noteQUIT", "fork"}
Behind == {"backINT", "backQUIT", "after"}

\* Where the launcher can be, and that a child runs only while it waits.
PlaceInv ==
    /\ job = "run" => pc \in Watching \cup {"noteINT", "after", "ended"}
    /\ mode = "IR" => pc \in {"masked", "cli", "writeIR", "ended"}
    /\ mode = "BUILD" => job = "cc" /\ pc \notin {"interp", "interpret"}
    /\ pc \notin {"wait", "ended"} => child.st \in {"none", "gone"}
    /\ pc = "ended" /\ ~killed => child.st \in {"none", "gone"}

WorkInv ==
    /\ pc \in {"masked", "cli", "mkdtemp", "interp", "interpret"} => work = {}
    /\ mode = "IR" => work = {}
    /\ pc = "ended" /\ ~killed => work = {}

\* The program is begun by the child of the run, or by the interpreter.
StartInv ==
    /\ starts \in {0, 1}
    /\ job = "cc" /\ pc \notin {"interpret", "ended"} => starts = 0
    /\ job = "run" /\ pc \in Before => starts = 0
    /\ job = "run" /\ starts = 1 => child.st \in {"runs", "gone"}

\* A signal is noted only between the two halves of spawn_wait, and one noted
\* during the build is not lost before the launcher dies of it.
NotedInv ==
    /\ pc \notin Watching \cup {"ended"} => hdl["INT"] # "note" /\ hdl["QUIT"] # "note"
    /\ pc = "backQUIT" => hdl["INT"] # "note"
    /\ noted = "nobody" => got = NoSig
    /\ noted = "cc" => /\ job = "cc" /\ starts = 0
                       /\ \/ pc = "ended"
                          \/ got # NoSig /\ pc \in Watching \cup {"after"}

\* What the launcher saw of its child is what became of it.
StatusInv ==
    /\ result \in {Unknown, Exit(0), Exit(1)}
    /\ job = "cc" /\ pc # "ended" => result = Unknown
    /\ job = "run" /\ pc \in Before => result = Unknown
    /\ job = "run" /\ result # Unknown => child.st = "gone" /\ child.code = result
    /\ pc \in Behind => st = child.code
    /\ job = "cc" /\ child.code = Exit(0) /\ mode # "TRY_RUN" => ".native" \in out
    /\ job = "run" /\ pc \in {"wait"} \cup Behind /\ child.code = Exit(0) => result = Exit(0)

\* SIGTERM is never noted.
TermLeft == hdl["TERM"] # "note"

LauncherInv == TypeOK /\ TermLeft /\ PlaceInv /\ WorkInv /\ StartInv /\ NotedInv /\ StatusInv
               /\ StatusIsTrue

-----------------------------------------------------------------------------
(* One step *)

\* The statuses a process of this program can end with.
LEMMA StatusFacts ==
    /\ Exit(0) \in Statuses /\ Exit(1) \in Statuses /\ Exit(127) \in Statuses
    /\ \A s \in Sigs : BySignal(s) \in Statuses
BY DEF Statuses, Sigs, Noted

\* A step keeps the types.
LEMMA TypeStep ==
    ASSUME TypeOK, TermLeft, [Next]_vars
    PROVE  TypeOK'
<1> DEFINE IsStatus(x) == x \in Statuses \cup {Unknown}
<1>0. child \in Children
  BY DEF TypeOK
<1>1. CASE Begin
  <2>1. \/ pc' = "cli" /\ exit' = exit /\ killed' = killed
        \/ \E s \in pend : pc' = "ended" /\ exit' = BySignal(s) /\ killed' = TRUE
    BY <1>1 DEF Begin, Finish
  <2> pend' = {}
    BY <1>1 DEF Begin
  <2>3. pc' \in Steps /\ IsStatus(exit') /\ killed' \in BOOLEAN
    BY <2>1, StatusFacts DEF TypeOK, Steps
  <2>2. UNCHANGED <<given, job, hdl, got, st, work, out, child, starts, result,
                    noted, signals>>
    BY <1>1 DEF Begin
  <2> QED
    BY <2>2, <2>3 DEF TypeOK, given
<1>2. CASE Translate
  <2>1. pc' \in Steps /\ IsStatus(exit')
    BY <1>2, StatusFacts DEF Translate, GiveUp, Finish, TypeOK, Steps
  <2>2. UNCHANGED <<given, job, hdl, got, st, pend, work, out, child, killed,
                    starts, result, noted, signals>>
    BY <1>2 DEF Translate
  <2> QED
    BY <2>1, <2>2 DEF TypeOK, given
<1>3. CASE MakeWork \/ WriteIR \/ WriteRuntime
  <2>1. pc' \in Steps /\ IsStatus(exit')
    BY <1>3, StatusFacts DEF MakeWork, WriteIR, WriteRuntime, GiveUp, Finish,
                             TypeOK, Steps
  <2>2. work' \subseteq {"dir", "prog.ll", "na_rt", "prog"}
    BY <1>3 DEF MakeWork, WriteIR, WriteRuntime, RmWork, TypeOK
  <2>3. out' \subseteq {".ll", ".native"}
    BY <1>3 DEF MakeWork, WriteIR, WriteRuntime, TypeOK
  <2>4. UNCHANGED <<given, job, hdl, got, st, pend, child, killed, starts,
                    result, noted, signals>>
    BY <1>3 DEF MakeWork, WriteIR, WriteRuntime
  <2> QED
    BY <2>1, <2>2, <2>3, <2>4 DEF TypeOK, given
<1>4. CASE NoteInt \/ NoteQuit \/ BackInt \/ BackQuit
  <2>1. hdl' \in [Sigs -> Actions]
    BY <1>4
       DEF NoteInt, NoteQuit, BackInt, BackQuit, Note, Back, TypeOK, Actions
  <2>2. pc' \in Steps /\ got' \in Noted \cup {NoSig}
    BY <1>4 DEF NoteInt, NoteQuit, BackInt, BackQuit, TypeOK, Steps
  <2>3. UNCHANGED <<given, job, st, pend, work, out, child, exit, killed,
                    starts, result, noted, signals>>
    BY <1>4 DEF NoteInt, NoteQuit, BackInt, BackQuit
  <2> QED
    BY <2>1, <2>2, <2>3 DEF TypeOK, given
<1>5. CASE Fork
  <2>1. child' = NoChild \/ child' = [st |-> "fresh", hdl |-> hdl, code |-> Unknown]
    BY <1>5 DEF Fork
  <2>2. child' \in Children
    BY <2>1 DEF NoChild, TypeOK, Children, Actions
  <2>3. pc' \in Steps /\ st' = Unknown
    BY <1>5 DEF Fork, Steps
  <2>4. UNCHANGED <<given, job, hdl, got, pend, work, out, exit, killed,
                    starts, result, noted, signals>>
    BY <1>5 DEF Fork
  <2> QED
    BY <2>2, <2>3, <2>4 DEF TypeOK, given
<1>6. CASE Wait
  <2>1. pc' \in Steps /\ IsStatus(st')
    BY <1>0, <1>6 DEF Wait, Children, Steps
  <2>2. UNCHANGED <<given, job, hdl, got, pend, work, out, child, exit,
                    killed, starts, result, noted, signals>>
    BY <1>6 DEF Wait
  <2> QED
    BY <2>1, <2>2 DEF TypeOK, given
<1>7. CASE AfterClang
  <2>1. pc' \in Steps /\ job' \in {"cc", "run"}
    BY <1>7 DEF AfterClang, DieBy, GiveUp, Finish, Steps, TypeOK
  <2>2. IsStatus(exit')
    BY <1>7, StatusFacts DEF AfterClang, DieBy, GiveUp, Finish, TypeOK, Sigs
  <2>3. work' = {} \/ work' = work
    BY <1>7 DEF AfterClang, RmWork
  <2>4. UNCHANGED <<given, hdl, got, st, pend, out, child, killed, starts,
                    result, noted, signals>>
    BY <1>7 DEF AfterClang
  <2> QED
    BY <2>1, <2>2, <2>3, <2>4 DEF TypeOK, given
<1>8. CASE AfterProgram
  <2>1. ASSUME got = NoSig, st[1] = "signal" PROVE IsStatus(BySignal(st[2]))
    BY <2>1, StatusFacts DEF TypeOK, Statuses, Exit, BySignal, Unknown
  <2>2. pc' \in Steps /\ IsStatus(exit')
    BY <1>8, <2>1, StatusFacts
       DEF AfterProgram, DieBy, Finish, TypeOK, Steps, Sigs
  <2>3. work' = {}
    BY <1>8 DEF AfterProgram, RmWork
  <2>4. UNCHANGED <<given, job, hdl, got, st, pend, out, child, killed,
                    starts, result, noted, signals>>
    BY <1>8 DEF AfterProgram
  <2> QED
    BY <2>2, <2>3, <2>4 DEF TypeOK, given
<1>9. CASE Interpret
  <2>1. pc' \in Steps /\ IsStatus(exit') /\ starts' \in Nat
    BY <1>9, StatusFacts DEF Interpret, Finish, TypeOK, Steps
  <2>2. UNCHANGED <<given, job, hdl, got, st, pend, work, out, child, killed,
                    result, noted, signals>>
    BY <1>9 DEF Interpret
  <2> QED
    BY <2>1, <2>2 DEF TypeOK, given
<1>10. CASE ChildBack \/ ChildExec
  <2>1. ASSUME ChildBack PROVE child' \in Children
    <3>1. PICK s \in Noted, x \in {"freshQUIT", "ready"} :
             child' = [child EXCEPT !.st = x,
                !.hdl = [@ EXCEPT ![s] = IF @ = "ign" THEN "ign" ELSE "dfl"]]
      BY <2>1 DEF ChildBack, Noted
    <3> QED
      BY <1>0, <3>1 DEF Children, Actions, Sigs
  <2>2. ASSUME ChildExec PROVE child' \in Children
    <3>1. \/ child' = [child EXCEPT !.st = "runs"]
          \/ child' = [child EXCEPT !.st = "gone", !.code = Exit(127)]
      BY <2>2 DEF ChildExec, ChildStep
    <3> QED
      BY <1>0, <3>1, StatusFacts DEF Children, Actions
  <2>3. starts' \in Nat
    <3>1. starts' = starts \/ starts' = starts + 1
      <4>1. CASE ChildBack
        BY <4>1 DEF ChildBack
      <4>2. CASE ChildExec
        BY <4>2 DEF ChildExec, TypeOK
      <4> QED
        BY <1>10, <4>1, <4>2
    <3> QED
      BY <3>1 DEF TypeOK
  <2>4. UNCHANGED <<given, pc, job, hdl, got, st, pend, work, out, exit,
                    killed, result, noted, signals>>
    BY <1>10 DEF ChildBack, ChildExec
  <2> QED
    BY <1>10, <2>1, <2>2, <2>3, <2>4 DEF TypeOK, given
<1>11. CASE ClangEnds \/ ProgramEnds
  <2>1. PICK n \in {0, 1} : child' = [child EXCEPT !.st = "gone", !.code = Exit(n)]
    BY <1>11 DEF ClangEnds, ProgramEnds, OwnStatus
  <2>2. child' \in Children
    <3>1. Exit(n) \in Statuses
      BY StatusFacts
    <3> QED
      BY <1>0, <2>1, <3>1 DEF Children
  <2>3. work' \subseteq {"dir", "prog.ll", "na_rt", "prog"}
    BY <1>11 DEF ClangEnds, ProgramEnds, TypeOK
  <2>4. out' \subseteq {".ll", ".native"}
    BY <1>11 DEF ClangEnds, ProgramEnds, TypeOK
  <2>5. IsStatus(result')
    BY <1>11, StatusFacts DEF ClangEnds, ProgramEnds, OwnStatus, TypeOK
  <2>6. UNCHANGED <<given, pc, job, hdl, got, st, pend, exit, killed, starts,
                    noted, signals>>
    BY <1>11 DEF ClangEnds, ProgramEnds
  <2> QED
    BY <2>2, <2>3, <2>4, <2>5, <2>6 DEF TypeOK, given
<1>12. CASE InterpreterEnds
  <2>1. pc' \in Steps /\ IsStatus(exit') /\ IsStatus(result')
    BY <1>12, StatusFacts DEF InterpreterEnds, OwnStatus, Finish, Steps
  <2>2. UNCHANGED <<given, job, hdl, got, st, pend, work, out, child, killed,
                    starts, noted, signals>>
    BY <1>12 DEF InterpreterEnds
  <2> QED
    BY <2>1, <2>2 DEF TypeOK, given
<1>13. ASSUME NEW s \in Sigs, NEW targets, Signal(s, targets) PROVE TypeOK'
  <2>1. pc' \in Steps /\ killed' \in BOOLEAN
    BY <1>13 DEF Signal, StrikeLauncher, Finish, TypeOK, Steps
  <2>2. IsStatus(exit')
    BY <1>13, StatusFacts DEF Signal, StrikeLauncher, Finish, TypeOK
  <2>3. pend' \subseteq Sigs
    BY <1>13 DEF Signal, StrikeLauncher, TypeOK
  <2>4. got' \in Noted \cup {NoSig} /\ noted' \in {"nobody", "cc", "run"}
    <3>1. hdl[s] = "note" => s \in Noted
      BY DEF TermLeft, Sigs
    <3> QED
      BY <1>13, <3>1 DEF Signal, StrikeLauncher, TypeOK
  <2>5. child' = child \/ child' = [child EXCEPT !.st = "gone", !.code = BySignal(s)]
    BY <1>13 DEF Signal, StrikeChild
  <2>6. child' \in Children
    <3>1. BySignal(s) \in Statuses
      BY StatusFacts
    <3>2. [child EXCEPT !.st = "gone", !.code = BySignal(s)] \in Children
      BY <1>0, <3>1 DEF Children
    <3> QED
      BY <1>0, <2>5, <3>2
  <2>7. signals' \in 0..MaxSignals
    BY <1>13, BoundsAssumption DEF Signal, TypeOK, BoundsAssumption
  <2>8. UNCHANGED <<given, job, hdl, st, work, out, starts, result>>
    BY <1>13 DEF Signal
  <2> QED
    BY <2>1, <2>2, <2>3, <2>4, <2>6, <2>7, <2>8 DEF TypeOK, given
<1>14. CASE UNCHANGED vars
  BY <1>14 DEF vars, given, TypeOK
<1> QED
  BY <1>1, <1>2, <1>3, <1>4, <1>5, <1>6, <1>7, <1>8, <1>9, <1>10, <1>11,
     <1>12, <1>13, <1>14
  DEF Next, LauncherSteps, ChildSteps, Endable, AnySignal

\* spawn_wait leaves the action on SIGTERM alone.
LEMMA TermStep ==
    ASSUME TypeOK, TermLeft, [Next]_vars
    PROVE  TermLeft'
<1> USE DEF TypeOK, TermLeft, Children, Actions, Exit, BySignal, Unknown,
           Statuses, Noted, Sigs, NoSig
<1>1. CASE Begin
  BY <1>1 DEF Begin, Finish, given
<1>2. CASE Translate
  BY <1>2 DEF Translate, GiveUp, Finish, given
<1>3. CASE MakeWork
  BY <1>3 DEF MakeWork, GiveUp, Finish, given
<1>4. CASE WriteIR
  BY <1>4 DEF WriteIR, GiveUp, Finish, RmWork, given
<1>5. CASE WriteRuntime
  BY <1>5 DEF WriteRuntime, GiveUp, Finish, RmWork, given
<1>6. CASE NoteInt
  BY <1>6 DEF NoteInt, Note, given
<1>7. CASE NoteQuit
  BY <1>7 DEF NoteQuit, Note, given
<1>8. CASE Fork
  BY <1>8 DEF Fork, NoChild, given
<1>9. CASE Wait
  BY <1>9 DEF Wait, given
<1>10. CASE BackInt
  BY <1>10 DEF BackInt, Back, given
<1>11. CASE BackQuit
  BY <1>11 DEF BackQuit, Back, given
<1>12. CASE AfterClang
  BY <1>12 DEF AfterClang, RmWork, DieBy, GiveUp, Finish, given
<1>13. CASE AfterProgram
  BY <1>13 DEF AfterProgram, RmWork, DieBy, Finish, given
<1>14. CASE Interpret
  BY <1>14 DEF Interpret, Finish, given
<1>15. CASE ChildBack
  BY <1>15 DEF ChildBack, given
<1>16. CASE ChildExec
  BY <1>16 DEF ChildExec, ChildStep, given
<1>17. CASE ClangEnds
  BY <1>17 DEF ClangEnds, given
<1>18. CASE ProgramEnds
  BY <1>18 DEF ProgramEnds, OwnStatus, given
<1>19. CASE InterpreterEnds
  BY <1>19 DEF InterpreterEnds, OwnStatus, Finish, given
<1>20. ASSUME NEW s \in Sigs, NEW targets, Signal(s, targets) PROVE TermLeft'
  BY <1>20 DEF Signal, StrikeLauncher, StrikeChild, Finish, given
<1>21. CASE UNCHANGED vars
  BY <1>21 DEF vars
<1> QED
  BY <1>1, <1>2, <1>3, <1>4, <1>5, <1>6, <1>7, <1>8, <1>9, <1>10, <1>11,
     <1>12, <1>13, <1>14, <1>15, <1>16, <1>17, <1>18, <1>19, <1>20, <1>21
     DEF Next, LauncherSteps, ChildSteps, Endable, AnySignal

\* A step keeps what the place in the code says of the child.
LEMMA PlaceStep ==
    ASSUME TypeOK, PlaceInv, [Next]_vars
    PROVE  PlaceInv'
<1> USE DEF TypeOK, PlaceInv, Watching, Children, Actions, Exit, BySignal,
           Unknown, Statuses, Noted, Sigs, NoSig
<1>1. CASE Begin
  BY <1>1 DEF Begin, Finish, given
<1>2. CASE Translate
  BY <1>2 DEF Translate, GiveUp, Finish, given
<1>3. CASE MakeWork
  BY <1>3 DEF MakeWork, GiveUp, Finish, given
<1>4. CASE WriteIR
  BY <1>4 DEF WriteIR, GiveUp, Finish, RmWork, given
<1>5. CASE WriteRuntime
  BY <1>5 DEF WriteRuntime, GiveUp, Finish, RmWork, given
<1>6. CASE NoteInt
  BY <1>6 DEF NoteInt, Note, given
<1>7. CASE NoteQuit
  BY <1>7 DEF NoteQuit, Note, given
<1>8. CASE Fork
  BY <1>8 DEF Fork, NoChild, given
<1>9. CASE Wait
  BY <1>9 DEF Wait, given
<1>10. CASE BackInt
  BY <1>10 DEF BackInt, Back, given
<1>11. CASE BackQuit
  BY <1>11 DEF BackQuit, Back, given
<1>12. CASE AfterClang
  BY <1>12 DEF AfterClang, RmWork, DieBy, GiveUp, Finish, given
<1>13. CASE AfterProgram
  BY <1>13 DEF AfterProgram, RmWork, DieBy, Finish, given
<1>14. CASE Interpret
  BY <1>14 DEF Interpret, Finish, given
<1>15. CASE ChildBack
  BY <1>15 DEF ChildBack, given
<1>16. CASE ChildExec
  BY <1>16 DEF ChildExec, ChildStep, given
<1>17. CASE ClangEnds
  BY <1>17 DEF ClangEnds, given
<1>18. CASE ProgramEnds
  BY <1>18 DEF ProgramEnds, OwnStatus, given
<1>19. CASE InterpreterEnds
  BY <1>19 DEF InterpreterEnds, OwnStatus, Finish, given
<1>20. ASSUME NEW s \in Sigs, NEW targets, Signal(s, targets) PROVE PlaceInv'
  BY <1>20 DEF Signal, StrikeLauncher, StrikeChild, Finish, given
<1>21. CASE UNCHANGED vars
  BY <1>21 DEF vars
<1> QED
  BY <1>1, <1>2, <1>3, <1>4, <1>5, <1>6, <1>7, <1>8, <1>9, <1>10, <1>11,
     <1>12, <1>13, <1>14, <1>15, <1>16, <1>17, <1>18, <1>19, <1>20, <1>21
     DEF Next, LauncherSteps, ChildSteps, Endable, AnySignal

\* A step keeps what the place says of the work directory.
LEMMA WorkStep ==
    ASSUME TypeOK, PlaceInv, WorkInv, [Next]_vars
    PROVE  WorkInv'
<1> USE DEF TypeOK, PlaceInv, WorkInv, Watching, Children, Actions, Exit,
           BySignal, Unknown, Statuses, Noted, Sigs, NoSig
<1>1. CASE Begin
  BY <1>1 DEF Begin, Finish, given
<1>2. CASE Translate
  BY <1>2 DEF Translate, GiveUp, Finish, given
<1>3. CASE MakeWork
  BY <1>3 DEF MakeWork, GiveUp, Finish, given
<1>4. CASE WriteIR
  BY <1>4 DEF WriteIR, GiveUp, Finish, RmWork, given
<1>5. CASE WriteRuntime
  BY <1>5 DEF WriteRuntime, GiveUp, Finish, RmWork, given
<1>6. CASE NoteInt
  BY <1>6 DEF NoteInt, Note, given
<1>7. CASE NoteQuit
  BY <1>7 DEF NoteQuit, Note, given
<1>8. CASE Fork
  BY <1>8 DEF Fork, NoChild, given
<1>9. CASE Wait
  BY <1>9 DEF Wait, given
<1>10. CASE BackInt
  BY <1>10 DEF BackInt, Back, given
<1>11. CASE BackQuit
  BY <1>11 DEF BackQuit, Back, given
<1>12. CASE AfterClang
  BY <1>12 DEF AfterClang, RmWork, DieBy, GiveUp, Finish, given
<1>13. CASE AfterProgram
  BY <1>13 DEF AfterProgram, RmWork, DieBy, Finish, given
<1>14. CASE Interpret
  BY <1>14 DEF Interpret, Finish, given
<1>15. CASE ChildBack
  BY <1>15 DEF ChildBack, given
<1>16. CASE ChildExec
  BY <1>16 DEF ChildExec, ChildStep, given
<1>17. CASE ClangEnds
  BY <1>17 DEF ClangEnds, given
<1>18. CASE ProgramEnds
  BY <1>18 DEF ProgramEnds, OwnStatus, given
<1>19. CASE InterpreterEnds
  BY <1>19 DEF InterpreterEnds, OwnStatus, Finish, given
<1>20. ASSUME NEW s \in Sigs, NEW targets, Signal(s, targets) PROVE WorkInv'
  BY <1>20 DEF Signal, StrikeLauncher, StrikeChild, Finish, given
<1>21. CASE UNCHANGED vars
  BY <1>21 DEF vars
<1> QED
  BY <1>1, <1>2, <1>3, <1>4, <1>5, <1>6, <1>7, <1>8, <1>9, <1>10, <1>11,
     <1>12, <1>13, <1>14, <1>15, <1>16, <1>17, <1>18, <1>19, <1>20, <1>21
     DEF Next, LauncherSteps, ChildSteps, Endable, AnySignal

\* A step keeps the count of the program's beginnings.
LEMMA StartStep ==
    ASSUME TypeOK, PlaceInv, StartInv, [Next]_vars
    PROVE  StartInv'
<1> USE DEF TypeOK, PlaceInv, StartInv, Watching, Before, Children, Actions,
           Exit, BySignal, Unknown, Statuses, Noted, Sigs, NoSig
<1>1. CASE Begin
  BY <1>1 DEF Begin, Finish, given
<1>2. CASE Translate
  BY <1>2 DEF Translate, GiveUp, Finish, given
<1>3. CASE MakeWork
  BY <1>3 DEF MakeWork, GiveUp, Finish, given
<1>4. CASE WriteIR
  BY <1>4 DEF WriteIR, GiveUp, Finish, RmWork, given
<1>5. CASE WriteRuntime
  BY <1>5 DEF WriteRuntime, GiveUp, Finish, RmWork, given
<1>6. CASE NoteInt
  BY <1>6 DEF NoteInt, Note, given
<1>7. CASE NoteQuit
  BY <1>7 DEF NoteQuit, Note, given
<1>8. CASE Fork
  BY <1>8 DEF Fork, NoChild, given
<1>9. CASE Wait
  BY <1>9 DEF Wait, given
<1>10. CASE BackInt
  BY <1>10 DEF BackInt, Back, given
<1>11. CASE BackQuit
  BY <1>11 DEF BackQuit, Back, given
<1>12. CASE AfterClang
  BY <1>12 DEF AfterClang, RmWork, DieBy, GiveUp, Finish, given
<1>13. CASE AfterProgram
  BY <1>13 DEF AfterProgram, RmWork, DieBy, Finish, given
<1>14. CASE Interpret
  BY <1>14 DEF Interpret, Finish, given
<1>15. CASE ChildBack
  BY <1>15 DEF ChildBack, given
<1>16. CASE ChildExec
  BY <1>16 DEF ChildExec, ChildStep, given
<1>17. CASE ClangEnds
  BY <1>17 DEF ClangEnds, given
<1>18. CASE ProgramEnds
  BY <1>18 DEF ProgramEnds, OwnStatus, given
<1>19. CASE InterpreterEnds
  BY <1>19 DEF InterpreterEnds, OwnStatus, Finish, given
<1>20. ASSUME NEW s \in Sigs, NEW targets, Signal(s, targets) PROVE StartInv'
  BY <1>20 DEF Signal, StrikeLauncher, StrikeChild, Finish, given
<1>21. CASE UNCHANGED vars
  BY <1>21 DEF vars
<1> QED
  BY <1>1, <1>2, <1>3, <1>4, <1>5, <1>6, <1>7, <1>8, <1>9, <1>10, <1>11,
     <1>12, <1>13, <1>14, <1>15, <1>16, <1>17, <1>18, <1>19, <1>20, <1>21
     DEF Next, LauncherSteps, ChildSteps, Endable, AnySignal

\* A step keeps what is known of a noted signal.
LEMMA NotedStep ==
    ASSUME TypeOK, TermLeft, PlaceInv, StartInv, NotedInv, [Next]_vars
    PROVE  NotedInv'
<1> USE DEF TypeOK, PlaceInv, StartInv, NotedInv, Watching, Before, Children,
           Actions, Exit, BySignal, Unknown, Statuses, Noted, Sigs, NoSig
<1>1. CASE Begin
  BY <1>1 DEF Begin, Finish, given
<1>2. CASE Translate
  BY <1>2 DEF Translate, GiveUp, Finish, given
<1>3. CASE MakeWork
  BY <1>3 DEF MakeWork, GiveUp, Finish, given
<1>4. CASE WriteIR
  BY <1>4 DEF WriteIR, GiveUp, Finish, RmWork, given
<1>5. CASE WriteRuntime
  BY <1>5 DEF WriteRuntime, GiveUp, Finish, RmWork, given
<1>6. CASE NoteInt
  BY <1>6 DEF NoteInt, Note, given
<1>7. CASE NoteQuit
  BY <1>7 DEF NoteQuit, Note, given
<1>8. CASE Fork
  BY <1>8 DEF Fork, NoChild, given
<1>9. CASE Wait
  BY <1>9 DEF Wait, given
<1>10. CASE BackInt
  BY <1>10 DEF BackInt, Back, given
<1>11. CASE BackQuit
  BY <1>11 DEF BackQuit, Back, given
<1>12. CASE AfterClang
  BY <1>12 DEF AfterClang, RmWork, DieBy, GiveUp, Finish, given
<1>13. CASE AfterProgram
  BY <1>13 DEF AfterProgram, RmWork, DieBy, Finish, given
<1>14. CASE Interpret
  BY <1>14 DEF Interpret, Finish, given
<1>15. CASE ChildBack
  BY <1>15 DEF ChildBack, given
<1>16. CASE ChildExec
  BY <1>16 DEF ChildExec, ChildStep, given
<1>17. CASE ClangEnds
  BY <1>17 DEF ClangEnds, given
<1>18. CASE ProgramEnds
  BY <1>18 DEF ProgramEnds, OwnStatus, given
<1>19. CASE InterpreterEnds
  BY <1>19 DEF InterpreterEnds, OwnStatus, Finish, given
<1>20. ASSUME NEW s \in Sigs, NEW targets, Signal(s, targets) PROVE NotedInv'
  <2>1. UNCHANGED <<job, hdl, starts>>
    BY <1>20 DEF Signal
  <2>2. pc' = pc \/ pc' = "ended"
    BY <1>20 DEF Signal, StrikeLauncher, Finish
  <2>3. \/ UNCHANGED <<got, noted>>
        \/ /\ pc' = pc /\ pc # "ended" /\ hdl[s] = "note"
           /\ got' = s /\ noted' = job
    BY <1>20 DEF Signal, StrikeLauncher
  <2>4. CASE UNCHANGED <<got, noted>>
    BY <2>1, <2>2, <2>4
  <2>5. CASE /\ pc' = pc /\ pc # "ended" /\ hdl[s] = "note"
             /\ got' = s /\ noted' = job
    <3>1. s \in Noted
      BY <2>5 DEF TermLeft
    <3>2. pc \in Watching
      BY <2>5, <3>1
    <3>3. job = "cc" => starts = 0
      BY <3>2
    <3> QED
      BY <2>1, <2>5, <3>1, <3>2, <3>3
  <2> QED
    BY <2>3, <2>4, <2>5
<1>21. CASE UNCHANGED vars
  BY <1>21 DEF vars
<1> QED
  BY <1>1, <1>2, <1>3, <1>4, <1>5, <1>6, <1>7, <1>8, <1>9, <1>10, <1>11,
     <1>12, <1>13, <1>14, <1>15, <1>16, <1>17, <1>18, <1>19, <1>20, <1>21
     DEF Next, LauncherSteps, ChildSteps, Endable, AnySignal

\* A step keeps what is known of the child's status.
LEMMA StatusStep ==
    ASSUME TypeOK, PlaceInv, StatusInv, [Next]_vars
    PROVE  StatusInv'
<1> USE DEF TypeOK, PlaceInv, StatusInv, Watching, Before, Behind, Children,
           Actions, Exit, BySignal, Unknown, Statuses, Noted, Sigs, NoSig
<1>1. CASE Begin
  BY <1>1 DEF Begin, Finish, given
<1>2. CASE Translate
  BY <1>2 DEF Translate, GiveUp, Finish, given
<1>3. CASE MakeWork
  BY <1>3 DEF MakeWork, GiveUp, Finish, given
<1>4. CASE WriteIR
  BY <1>4 DEF WriteIR, GiveUp, Finish, RmWork, given
<1>5. CASE WriteRuntime
  BY <1>5 DEF WriteRuntime, GiveUp, Finish, RmWork, given
<1>6. CASE NoteInt
  BY <1>6 DEF NoteInt, Note, given
<1>7. CASE NoteQuit
  BY <1>7 DEF NoteQuit, Note, given
<1>8. CASE Fork
  BY <1>8 DEF Fork, NoChild, given
<1>9. CASE Wait
  BY <1>9 DEF Wait, given
<1>10. CASE BackInt
  BY <1>10 DEF BackInt, Back, given
<1>11. CASE BackQuit
  BY <1>11 DEF BackQuit, Back, given
<1>12. CASE AfterClang
  BY <1>12 DEF AfterClang, RmWork, DieBy, GiveUp, Finish, given
<1>13. CASE AfterProgram
  BY <1>13 DEF AfterProgram, RmWork, DieBy, Finish, given
<1>14. CASE Interpret
  BY <1>14 DEF Interpret, Finish, given
<1>15. CASE ChildBack
  BY <1>15 DEF ChildBack, given
<1>16. CASE ChildExec
  <2>1. pc \in {"wait", "ended"} /\ child.st = "ready"
    BY <1>16 DEF ChildExec, ChildStep
  <2>2. child'.st \in {"runs", "gone"} /\ child'.code \in {child.code, Exit(127)}
    <3>1. \/ child' = [child EXCEPT !.st = "runs"]
          \/ child' = [child EXCEPT !.st = "gone", !.code = Exit(127)]
      BY <1>16 DEF ChildExec, ChildStep
    <3>2. child \in Children
      OBVIOUS
    <3> HIDE DEF TypeOK, StatusInv, PlaceInv
    <3> QED
      BY <3>1, <3>2 DEF Children
  <2>3. UNCHANGED <<given, pc, job, st, out, result>>
    BY <1>16 DEF ChildExec
  <2>4. pc = "wait" /\ job = "run" => result = Unknown
    BY <2>1
  <2> QED
    BY <2>1, <2>2, <2>3, <2>4 DEF given
<1>17. CASE ClangEnds
  BY <1>17 DEF ClangEnds, given
<1>18. CASE ProgramEnds
  BY <1>18 DEF ProgramEnds, OwnStatus, given
<1>19. CASE InterpreterEnds
  BY <1>19 DEF InterpreterEnds, OwnStatus, Finish, given
<1>20. ASSUME NEW s \in Sigs, NEW targets, Signal(s, targets) PROVE StatusInv'
  <2>1. \/ child' = child
        \/ /\ child' = [child EXCEPT !.st = "gone", !.code = BySignal(s)]
           /\ child.st \notin {"none", "gone"}
    BY <1>20 DEF Signal, StrikeChild
  <2>2. pc' = pc \/ pc' = "ended"
    BY <1>20 DEF Signal, StrikeLauncher, Finish
  <2>3. UNCHANGED <<given, job, st, out, result>>
    BY <1>20 DEF Signal
  <2>4. CASE child' = child
    BY <2>2, <2>3, <2>4 DEF given
  <2>5. CASE child' # child
    <3>1. child'.st = "gone" /\ child'.code = BySignal(s) /\ child.st \notin {"none", "gone"}
      BY <2>1, <2>5
    <3>2. pc \in {"wait", "ended"} /\ BySignal(s) # Exit(0)
      BY <3>1
    <3>3. job = "run" => result = Unknown
      BY <3>1
    <3> QED
      BY <3>1, <3>2, <3>3, <2>2, <2>3 DEF given
  <2> QED
    BY <2>4, <2>5
<1>21. CASE UNCHANGED vars
  BY <1>21 DEF vars
<1> QED
  BY <1>1, <1>2, <1>3, <1>4, <1>5, <1>6, <1>7, <1>8, <1>9, <1>10, <1>11,
     <1>12, <1>13, <1>14, <1>15, <1>16, <1>17, <1>18, <1>19, <1>20, <1>21
     DEF Next, LauncherSteps, ChildSteps, Endable, AnySignal

\* The step that ends the launcher gives it a true status.
LEMMA TrueStep ==
    ASSUME TypeOK, PlaceInv, NotedInv, StatusInv, StatusIsTrue, [Next]_vars
    PROVE  StatusIsTrue'
<1> USE DEF TypeOK, PlaceInv, NotedInv, StatusInv, StatusIsTrue, Watching,
           Before, Behind, Children, Actions, Exit, BySignal, Unknown,
           Statuses, Noted, Sigs, NoSig
<1>1. CASE Begin
  BY <1>1 DEF Begin, Finish, given
<1>2. CASE Translate
  BY <1>2 DEF Translate, GiveUp, Finish, given
<1>3. CASE MakeWork
  BY <1>3 DEF MakeWork, GiveUp, Finish, given
<1>4. CASE WriteIR
  BY <1>4 DEF WriteIR, GiveUp, Finish, RmWork, given
<1>5. CASE WriteRuntime
  BY <1>5 DEF WriteRuntime, GiveUp, Finish, RmWork, given
<1>6. CASE NoteInt
  BY <1>6 DEF NoteInt, Note, given
<1>7. CASE NoteQuit
  BY <1>7 DEF NoteQuit, Note, given
<1>8. CASE Fork
  BY <1>8 DEF Fork, NoChild, given
<1>9. CASE Wait
  BY <1>9 DEF Wait, given
<1>10. CASE BackInt
  BY <1>10 DEF BackInt, Back, given
<1>11. CASE BackQuit
  BY <1>11 DEF BackQuit, Back, given
<1>12. CASE AfterClang
  BY <1>12 DEF AfterClang, RmWork, DieBy, GiveUp, Finish, given
<1>13. CASE AfterProgram
  BY <1>13 DEF AfterProgram, RmWork, DieBy, Finish, given
<1>14. CASE Interpret
  BY <1>14 DEF Interpret, Finish, given
<1>15. CASE ChildBack
  BY <1>15 DEF ChildBack, given
<1>16. CASE ChildExec
  BY <1>16 DEF ChildExec, ChildStep, given
<1>17. CASE ClangEnds
  BY <1>17 DEF ClangEnds, given
<1>18. CASE ProgramEnds
  BY <1>18 DEF ProgramEnds, OwnStatus, given
<1>19. CASE InterpreterEnds
  BY <1>19 DEF InterpreterEnds, OwnStatus, Finish, given
<1>20. ASSUME NEW s \in Sigs, NEW targets, Signal(s, targets) PROVE StatusIsTrue'
  BY <1>20 DEF Signal, StrikeLauncher, StrikeChild, Finish, given
<1>21. CASE UNCHANGED vars
  BY <1>21 DEF vars
<1> QED
  BY <1>1, <1>2, <1>3, <1>4, <1>5, <1>6, <1>7, <1>8, <1>9, <1>10, <1>11,
     <1>12, <1>13, <1>14, <1>15, <1>16, <1>17, <1>18, <1>19, <1>20, <1>21
     DEF Next, LauncherSteps, ChildSteps, Endable, AnySignal

\* A launcher starts in a state of the invariant.
LEMMA InitInv == Init => LauncherInv
<1> SUFFICES ASSUME Init PROVE LauncherInv
  OBVIOUS
<1>1. NoChild \in Children
  BY DEF NoChild, Children, Actions
<1>2. TypeOK
  <2>1. hdl \in [Sigs -> Actions] /\ pc \in Steps
    BY DEF Init, Actions, Steps
  <2>2. child \in Children
    BY <1>1 DEF Init
  <2>3. /\ mode \in Modes /\ src \in Sources /\ ending \in Endings
        /\ job = "cc" /\ got = NoSig /\ pend = {} /\ st = Unknown
        /\ exit = Unknown /\ result = Unknown /\ work = {} /\ out = {}
        /\ killed = FALSE /\ starts = 0 /\ signals = 0 /\ noted = "nobody"
    BY DEF Init
  <2>4. signals \in 0..MaxSignals
    BY <2>3, BoundsAssumption DEF BoundsAssumption
  <2> QED
    BY <2>1, <2>2, <2>3, <2>4 DEF TypeOK
<1>3. TermLeft /\ NotedInv
  BY DEF Init, TermLeft, NotedInv, Watching, Noted, Sigs, NoSig
<1>4. PlaceInv /\ WorkInv /\ StartInv
  BY DEF Init, PlaceInv, WorkInv, StartInv, NoChild
<1>5. StatusInv /\ StatusIsTrue
  BY DEF Init, StatusInv, StatusIsTrue, NoChild, Unknown, Exit, Before, Behind
<1> QED
  BY <1>2, <1>3, <1>4, <1>5 DEF LauncherInv

\* Every step keeps the invariant.
LEMMA StepInv == LauncherInv /\ [Next]_vars => LauncherInv'
BY TypeStep, TermStep, PlaceStep, WorkStep, StartStep, NotedStep, StatusStep,
   TrueStep DEF LauncherInv

----------------------------------------------------------------------------
(* The theorems *)

\* However a call of the launcher goes and whatever signals strike it and its
\* child, it is in a state its code takes for granted (spawn_wait, run_smart).
THEOREM LauncherHolds == Spec => []LauncherInv
BY InitInv, StepInv, PTL DEF Spec

\* Every variable keeps its type.
THEOREM TypeCorrect == Spec => []TypeOK
<1>1. LauncherInv => TypeOK
  BY DEF LauncherInv
<1> QED
  BY <1>1, LauncherHolds, PTL

\* run_smart begins the program at most once: the fallback to the interpreter
\* is never taken after the native program was begun.
THEOREM BegunAtMostOnce == Spec => []StartedOnce
<1>1. LauncherInv => StartedOnce
  BY DEF LauncherInv, StartInv, StartedOnce
<1> QED
  BY <1>1, LauncherHolds, PTL

\* A program whose build was interrupted by SIGINT or SIGQUIT is not run.
THEOREM InterruptedIsNotRun == Spec => []NoRunAfterInterrupt
<1>1. LauncherInv => NoRunAfterInterrupt
  BY DEF LauncherInv, NotedInv, NoRunAfterInterrupt
<1> QED
  BY <1>1, LauncherHolds, PTL

\* A launcher that ends on its own feet leaves no work directory and no child.
THEOREM NothingIsLeft == Spec => []NothingLeft
<1>1. LauncherInv => NothingLeft
  BY DEF LauncherInv, WorkInv, PlaceInv, NothingLeft
<1> QED
  BY <1>1, LauncherHolds, PTL

\* The exit status is true: 0 says the file is there or the program succeeded,
\* and a program no signal disturbed passes its own status on.
THEOREM ExitStatusIsTrue == Spec => []StatusIsTrue
<1>1. LauncherInv => StatusIsTrue
  BY DEF LauncherInv
<1> QED
  BY <1>1, LauncherHolds, PTL

=============================================================================
