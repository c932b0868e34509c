--------------------------- MODULE AutocommitStore --------------------------
(***************************************************************************)
(* What the database builtins promise a program about each file, whatever  *)
(* handles, images and frames there are: a change made outside 거래 is on  *)
(* the file at once; the changes made inside one reach it together, when   *)
(* the function returns, or not at all; a process that ends leaves every   *)
(* file as it was committed.  One that dies while it rewrites a file       *)
(* leaves a part of what that file was to hold: what was committed in it   *)
(* before may be lost, what is in the other files is not.                  *)
(***************************************************************************)
CONSTANTS
    Files,
    Contents,   \* what a database may hold
    Torn(_),    \* what may be left of a content that is not written to its end
    Empty,      \* the content of a new database
    Absent,     \* there is no such file
    Garbage,    \* the file is not a database
    Closed,     \* the process does not have the file open
    Idle        \* no 거래 runs on the file

VARIABLES
    durable,    \* what the file holds
    view,       \* what the process reads
    saved       \* what a rollback brings back

vars == <<durable, view, saved>>

Init ==
    /\ durable \in [Files -> {Absent, Garbage}]
    /\ view = [f \in Files |-> Closed]
    /\ saved = [f \in Files |-> Idle]

Committed(f) == IF durable[f] = Absent THEN Empty ELSE durable[f]

Open(f) ==
    /\ view[f] = Closed /\ durable[f] # Garbage
    /\ view' = [view EXCEPT ![f] = Committed(f)]
    /\ durable' = [durable EXCEPT ![f] = Committed(f)]
    /\ UNCHANGED saved

\* Outside 거래 a change is committed by the call that makes it, which may be
\* the call that opens the file.
Write(f, c) ==
    /\ saved[f] = Idle /\ durable[f] # Garbage
    /\ view' = [view EXCEPT ![f] = c]
    /\ durable' = [durable EXCEPT ![f] = c]
    /\ UNCHANGED saved

Begin(f) ==
    /\ view[f] # Closed /\ saved[f] = Idle
    /\ saved' = [saved EXCEPT ![f] = view[f]]
    /\ UNCHANGED <<durable, view>>

Change(f, c) ==
    /\ saved[f] # Idle
    /\ view' = [view EXCEPT ![f] = c]
    /\ UNCHANGED <<durable, saved>>

Commit(f) ==
    /\ saved[f] # Idle
    /\ durable' = [durable EXCEPT ![f] = view[f]]
    /\ saved' = [saved EXCEPT ![f] = Idle]
    /\ UNCHANGED view

Rollback(f) ==
    /\ saved[f] # Idle
    /\ view' = [view EXCEPT ![f] = saved[f]]
    /\ saved' = [saved EXCEPT ![f] = Idle]
    /\ UNCHANGED durable

Close(f) ==
    /\ view[f] # Closed /\ saved[f] = Idle
    /\ view' = [view EXCEPT ![f] = Closed]
    /\ UNCHANGED <<durable, saved>>

\* The process ends: every file keeps what was committed.
End ==
    /\ view' = [f \in Files |-> Closed]
    /\ saved' = [f \in Files |-> Idle]
    /\ UNCHANGED durable

\* It dies while it rewrites f with c, which is a change made outside 거래 or
\* what a 거래 commits: the other files keep what was committed.
Die(f, c) ==
    /\ durable[f] # Garbage
    /\ saved[f] # Idle => c = view[f]
    /\ view' = [x \in Files |-> Closed]
    /\ saved' = [x \in Files |-> Idle]
    /\ \E part \in Torn(c) : durable' = [durable EXCEPT ![f] = part]

Next ==
    \/ \E f \in Files : Open(f) \/ Begin(f) \/ Commit(f) \/ Rollback(f) \/ Close(f)
    \/ \E f \in Files, c \in Contents : Write(f, c) \/ Change(f, c) \/ Die(f, c)
    \/ End

Spec == Init /\ [][Next]_vars
=============================================================================
