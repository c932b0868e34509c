------------------------------ MODULE MCLoader ------------------------------
(***************************************************************************)
(* Two directories with one file each: n1 names the file of the directory  *)
(* it is looked up from, n2 that of the other directory.  The first name   *)
(* makes a file load itself, the second makes the two load each other.     *)
(***************************************************************************)
EXTENDS Loader, TLC

CONSTANTS d1, d2, p1, p2, n1, n2

Directories == p1 :> d1 @@ p2 :> d2

Lookup == <<d1, n1>> :> p1 @@ <<d1, n2>> :> p2 @@ <<d2, n1>> :> p2 @@ <<d2, n2>> :> p1
=============================================================================
