----------------------------- MODULE OrderedMap -----------------------------
(***************************************************************************)
(* What a dictionary promises: the keys in the order they were first set,  *)
(* and for each of them the last value.  A key may be taken for any entry  *)
(* it equals; a key that is alike to an entry (equal and known to be) is   *)
(* never taken for new.  Where equal keys are all alike, that is a map     *)
(* from keys, told apart by equality, to values.                           *)
(***************************************************************************)
EXTENDS Naturals, Sequences

CONSTANTS Keys, Equal, Alike, Vals, Absent

VARIABLES
    entries,   \* the entries, oldest first
    did        \* the last call, its key, and what it found
vars == <<entries, did>>

Init == entries = <<>> /\ did = <<"clear">>

May(i, k) == <<entries[i].key, k>> \in Equal
New(k) == \A i \in DOMAIN entries : <<entries[i].key, k>> \notin Alike

Put(k, v) ==
    /\ did' = <<"put", k, v>>
    /\ \/ \E i \in DOMAIN entries :
             May(i, k) /\ entries' = [entries EXCEPT ![i].val = v]
       \/ New(k) /\ entries' = Append(entries, [key |-> k, val |-> v])

Get(k) ==
    /\ UNCHANGED entries
    /\ \/ \E i \in DOMAIN entries :
             May(i, k) /\ did' = <<"get", k, entries[i].val>>
       \/ New(k) /\ did' = <<"get", k, Absent>>

Clear == entries' = <<>> /\ did' = <<"clear">>

Next == \/ \E k \in Keys : Get(k) \/ \E v \in Vals : Put(k, v)
        \/ Clear

Spec == Init /\ [][Next]_vars
=============================================================================
