-------------------------- MODULE DatabaseRefinement ------------------------
(***************************************************************************)
(* Database implements AutocommitStore.  A file is open when an image of   *)
(* it is in g_dbs; its view is that image's tables, and what a rollback    *)
(* brings back is the image's copy while the depth is not 0.  A process    *)
(* that died has no file open.                                             *)
(***************************************************************************)
EXTENDS Database

CONSTANTS Closed, Idle

ASSUME MarksAssumption == {Closed, Idle} \cap Tabs = {} /\ Absent # Garbage

ImagesOf(f) == {i \in ImageIds : Alive(i) /\ img[i].path # Memory /\ FileOf[img[i].path] = f}

view ==
    [f \in Files |-> IF mode = "dead" \/ ImagesOf(f) = {} THEN Closed
                     ELSE img[CHOOSE i \in ImagesOf(f) : TRUE].tabs]

saved ==
    [f \in Files |-> IF mode = "dead" \/ \A i \in ImagesOf(f) : img[i].tx = 0 THEN Idle
                     ELSE img[CHOOSE i \in ImagesOf(f) : TRUE].snap]

Promise == INSTANCE AutocommitStore WITH
    Contents <- Tabs, Empty <- NoTabs, durable <- disk

\* Every behaviour of the database builtins is one of AutocommitStore: what a
\* 거래 wrote reaches its file when the outermost one returns and not before,
\* whatever unwinds inside; a process that ends, in a 거래 or out of it, leaves
\* every file as it was committed; and one that dies in db_save harms no file
\* but the one it was writing, which is left with the first part of what it
\* was to hold (and may so have lost what was committed in it before).
ImplementsAutocommit == Promise!Spec
=============================================================================
