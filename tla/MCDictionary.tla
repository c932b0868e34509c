---------------------------- MODULE MCDictionary ----------------------------
(***************************************************************************)
(* Dictionary with six keys, most of which hash near the end of an index   *)
(* that grows twice, so that probing wraps around.  1 and 1.0 are equal    *)
(* and hash alike, 참 ("true") is equal to both and does not, a NaN is     *)
(* equal to nothing.                                                       *)
(***************************************************************************)
EXTENDS Dictionary

MCKeys == {"1", "1.0", "true", "a", "b", "nan"}
Ones == {"1", "1.0", "true"}
MCEqual == {p \in MCKeys \X MCKeys : \/ p[1] = p[2] /\ p[1] # "nan"
                                     \/ {p[1], p[2]} \subseteq Ones}
MCHash == [k \in MCKeys |-> CASE k \in {"1", "1.0", "a"} -> 3
                              [] k = "b" -> 7
                              [] k \in {"true", "nan"} -> 4]
=============================================================================
