----------------------------- MODULE Dictionary -----------------------------
(***************************************************************************)
(* Dictionaries (value.c): entries in the order they came, and an index    *)
(* that finds an entry by linear probing from the hash of its key.  What   *)
(* equals what (v_eq) and what hashes alike (key_hash) are two relations,  *)
(* and nothing is assumed of one from the other: 1 and 1.0 are equal and   *)
(* hash alike, 참 and 1 are equal and do not, and a NaN is not even equal  *)
(* to itself.                                                              *)
(***************************************************************************)
EXTENDS Naturals, Sequences, FiniteSets

CONSTANTS
    Keys,
    Equal,             \* the pairs of keys v_eq accepts
    Hash,              \* key_hash
    Vals, Absent,
    InitCap,           \* slots of a new index: 16 in the code
    MaxItems           \* bound on the entries of a dictionary

ASSUME KeyAssumption == Equal \subseteq Keys \X Keys /\ Hash \in [Keys -> Nat]
ASSUME CapAssumption == InitCap \in Nat \ {0} /\ MaxItems \in Nat
ASSUME AbsentAssumption == Absent \notin Vals

VARIABLES
    items,      \* the entries
    icap, idx,  \* slots, and what each points to: 0 is free
    moved,      \* entries dict_rehash has placed, or Len(items) at rest
    todo,       \* <<key, value>> that dict_set has still to append, or <<>>
    did         \* the last call that was done, its key and what it found
vars == <<items, icap, idx, moved, todo, did>>

Slots == 0 .. icap - 1
Empty(cap) == [s \in 0 .. cap - 1 |-> 0]

TypeOK ==
    /\ items \in Seq([key : Keys, val : Vals]) /\ Len(items) <= MaxItems
    /\ icap \in Nat \ {0} /\ idx \in [Slots -> 0 .. Len(items)]
    /\ moved \in 0 .. Len(items)
    /\ todo \in {<<>>} \cup (Keys \X Vals)
    /\ did \in {"put", "get"} \X Keys \X (Vals \cup {Absent})
               \cup {<<"clear">>}

Init ==
    /\ items = <<>> /\ icap = InitCap /\ idx = Empty(InitCap)
    /\ moved = 0 /\ todo = <<>> /\ did = <<"clear">>

----------------------------------------------------------------------------
\* The slot n steps on from the one a key hashes to.
Probe(k, n) == (Hash[k] + n) % icap

Stops(k, s) == idx[s] = 0 \/ <<items[idx[s]].key, k>> \in Equal

\* Equal keys that every probe sees in the same slots.
Alike == {p \in Equal : Hash[p[1]] = Hash[p[2]]}

\* Where probing for k comes to rest: at its entry or at a free slot.
RestsAt(k, n) ==
    /\ n \in Slots /\ Stops(k, Probe(k, n))
    /\ \A m \in 0 .. n - 1 : ~Stops(k, Probe(k, m))

\* Mutated: the first slot decides.
FindFirst(k) ==
    LET s == Probe(k, 0) IN
    IF Stops(k, s) THEN idx[s] ELSE 0

\* dict_find: the entry's number, 0 when there is none.
Find(k) == idx[Probe(k, CHOOSE n \in Slots : RestsAt(k, n))]

\* The free slot an entry of key k is entered at.
FreeAt(k, n) ==
    /\ n \in Slots /\ idx[Probe(k, n)] = 0
    /\ \A m \in 0 .. n - 1 : idx[Probe(k, m)] # 0
Free(k) == Probe(k, CHOOSE n \in Slots : FreeAt(k, n))

AtRest == moved = Len(items) /\ todo = <<>>

\* Mutated: the index grows when it is full.
GrowsLate == Len(items) + 1 > icap

\* Seven tenths full with the entry to come.
Grows == (Len(items) + 1) * 10 >= icap * 7

----------------------------------------------------------------------------
\* Mutated: the slot's number is taken for the entry's place counted from 0.
SetNext(k, v) ==
    /\ AtRest /\ Find(k) # 0
    /\ items' = [items EXCEPT ![1 + (Find(k) % Len(items))].val = v]
    /\ did' = <<"put", k, v>>
    /\ UNCHANGED <<icap, idx, moved, todo>>

\* dict_set on a key that is there.
SetOld(k, v) ==
    /\ AtRest /\ Find(k) # 0
    /\ items' = [items EXCEPT ![Find(k)].val = v]
    /\ did' = <<"put", k, v>>
    /\ UNCHANGED <<icap, idx, moved, todo>>

\* dict_set on a new key: the index grows first when it has to.
SetNew(k, v) ==
    /\ AtRest /\ Find(k) = 0 /\ Len(items) < MaxItems
    /\ todo' = <<k, v>>
    /\ IF Grows
       THEN icap' = 2 * icap /\ idx' = Empty(2 * icap) /\ moved' = 0
       ELSE UNCHANGED <<icap, idx, moved>>
    /\ UNCHANGED <<items, did>>

\* Mutated: an entry goes to its slot whether that is free or not.
RehashOver ==
    /\ moved < Len(items)
    /\ moved' = moved + 1
    /\ idx' = [idx EXCEPT ![Probe(items[moved'].key, 0)] = moved']
    /\ UNCHANGED <<items, icap, todo, did>>

\* dict_rehash: the next entry finds its slot in the new index.
Rehash ==
    /\ moved < Len(items)
    /\ moved' = moved + 1
    /\ idx' = [idx EXCEPT ![Free(items[moved'].key)] = moved']
    /\ UNCHANGED <<items, icap, todo, did>>

\* The end of dict_set.
Enter ==
    /\ moved = Len(items) /\ todo # <<>>
    /\ items' = Append(items, [key |-> todo[1], val |-> todo[2]])
    /\ idx' = [idx EXCEPT ![Free(todo[1])] = Len(items')]
    /\ moved' = Len(items') /\ todo' = <<>>
    /\ did' = <<"put", todo[1], todo[2]>>
    /\ UNCHANGED icap

\* dict_get
Get(k) ==
    /\ AtRest
    /\ did' = <<"get", k, IF Find(k) = 0 THEN Absent ELSE items[Find(k)].val>>
    /\ UNCHANGED <<items, icap, idx, moved, todo>>

\* env_clear on a module's dictionary: the slots stay as many as they were.
Clear ==
    /\ AtRest
    /\ items' = <<>> /\ idx' = Empty(icap) /\ moved' = 0
    /\ did' = <<"clear">>
    /\ UNCHANGED <<icap, todo>>

Next == \/ \E k \in Keys : Get(k) \/ \E v \in Vals : SetOld(k, v) \/ SetNew(k, v)
        \/ Rehash \/ Enter \/ Clear

Spec == Init /\ [][Next]_vars

----------------------------------------------------------------------------
(* What must hold *)

\* Every loop of the form while (d->idx[p]) ends: a slot is free whenever the
\* code probes.
FreeSlot == \E s \in Slots : idx[s] = 0

\* Probing finds an entry that was entered: no free slot lies between the
\* hash of its key and the slot that points to it, after growth and over the
\* end of the index too.
Findable ==
    \A i \in 1 .. moved : \E n \in Slots :
        /\ idx[Probe(items[i].key, n)] = i
        /\ \A m \in 0 .. n - 1 : idx[Probe(items[i].key, m)] \notin {0, i}

\* An equal key that hashes alike never gets an entry of its own.  (Equal keys
\* that hash apart, such as 참 and 1, may have one entry or two.)
OneEntry == \A i, j \in DOMAIN items :
    i < j => <<items[i].key, items[j].key>> \notin Alike

\* A dictionary is an ordered map, as far as key_hash follows v_eq.
Map == INSTANCE OrderedMap WITH entries <- items
ImplementsMap == Map!Spec
=============================================================================
