-------------------------- MODULE DictionaryProofs --------------------------
(***************************************************************************)
(* Theorems about Dictionary, for any keys, equality, hashes, capacity and *)
(* number of entries: probing ends, finds what was entered, and the        *)
(* dictionary is the ordered map of OrderedMap.  Nothing is assumed of how *)
(* hashes go with equality.                                                *)
(***************************************************************************)
EXTENDS Dictionary, Integers, FiniteSetTheorems, SequenceTheorems, WellFoundedInduction, TLAPS

-----------------------------------------------------------------------------
(* The inductive invariant *)

\* The index has more slots than entries, the one to come included.
RoomInv ==
    /\ Len(items) < icap
    /\ todo # <<>> => Len(items) + 1 < icap /\ Len(items) < MaxItems

\* A slot points to an entry that was placed, and no two to the same.
PlacedInv ==
    /\ \A s \in Slots : idx[s] <= moved
    /\ \A s, t \in Slots : idx[s] = idx[t] /\ idx[s] # 0 => s = t

\* The key that waits to be appended is alike to no entry.
TodoInv == todo # <<>> =>
    \A i \in DOMAIN items : <<items[i].key, todo[1]>> \notin Alike

DictInv == TypeOK /\ RoomInv /\ PlacedInv /\ TodoInv /\ Findable /\ OneEntry

-----------------------------------------------------------------------------
(* Numbers *)

LEMMA LeastNumber ==
    ASSUME NEW S \in SUBSET Nat, S # {}
    PROVE  \E n \in S : \A m \in 0 .. n - 1 : m \notin S
<1> DEFINE R == {ss \in Nat \X Nat : ss[1] < ss[2]}
<1>1. IsWellFoundedOn(R, Nat)
  BY NatLessThanWellFounded DEF OpToRel
<1>2. PICK n \in S : \A m \in S : <<m, n>> \notin R
  <2> HIDE DEF R
  <2> QED
    BY <1>1, WFMin
<1>3. ASSUME NEW m \in S, m < n
      PROVE  FALSE
  <2>1. <<m, n>> \in Nat \X Nat /\ <<m, n>>[1] = m /\ <<m, n>>[2] = n
    OBVIOUS
  <2>2. <<m, n>> \in R
    BY <1>3, <2>1
  <2> QED
    BY <1>2, <2>2
<1> HIDE DEF R
<1> QED
  BY <1>3

LEMMA RemainderType ==
    ASSUME NEW c \in Nat \ {0}, NEW h \in Nat
    PROVE  h % c \in 0 .. c - 1
OBVIOUS

LEMMA Remainder ==
    ASSUME NEW c \in Nat \ {0}, NEW q \in Nat, NEW s \in 0 .. c - 1
    PROVE  (q * c + s) % c = s
OBVIOUS

\* Steps of one go through all remainders.
LEMMA AllRemainders ==
    ASSUME NEW c \in Nat \ {0}, NEW h \in Nat, NEW s \in 0 .. c - 1
    PROVE  \E n \in 0 .. c - 1 : (h + n) % c = s
<1> DEFINE r == h % c
           q == h \div c
<1>1. h = q * c + r /\ r \in 0 .. c - 1 /\ q \in Nat
  OBVIOUS
<1> HIDE DEF r, q
<1>2. CASE s >= r
  <2>1. h + (s - r) = q * c + s
    BY <1>1
  <2>2. (h + (s - r)) % c = s
    BY <1>1, <2>1, Remainder
  <2> QED
    BY <1>1, <1>2, <2>2
<1>3. CASE s < r
  <2>1. h + (s - r + c) = (q + 1) * c + s
    BY <1>1
  <2>2. (h + (s - r + c)) % c = s
    BY <1>1, <2>1, Remainder
  <2>3. s - r + c \in 0 .. c - 1
    BY <1>1, <1>3
  <2> QED
    BY <2>2, <2>3
<1> QED
  BY <1>1, <1>2, <1>3

-----------------------------------------------------------------------------
(* Probing *)

LEMMA TypeFacts ==
    ASSUME TypeOK
    PROVE  /\ items \in Seq([key : Keys, val : Vals]) /\ Len(items) \in Nat
           /\ DOMAIN items = 1 .. Len(items)
           /\ \A i \in DOMAIN items : items[i].key \in Keys /\ items[i].val \in Vals
           /\ icap \in Nat \ {0} /\ moved \in Nat /\ moved <= Len(items)
           /\ Slots \subseteq Nat
           /\ \A s \in Slots : idx[s] \in 0 .. Len(items)
<1>1. /\ items \in Seq([key : Keys, val : Vals]) /\ icap \in Nat \ {0}
      /\ moved \in 0 .. Len(items) /\ idx \in [Slots -> 0 .. Len(items)]
  BY DEF TypeOK
<1>2. /\ Len(items) \in Nat /\ DOMAIN items = 1 .. Len(items)
      /\ \A i \in DOMAIN items : items[i] \in [key : Keys, val : Vals]
  <2> DEFINE Entry == [key : Keys, val : Vals]
  <2> HIDE DEF Entry
  <2>1. items \in Seq(Entry)
    BY <1>1 DEF Entry
  <2>2. Len(items) \in Nat /\ \A i \in DOMAIN items : items[i] \in Entry
    BY <2>1
  <2> QED
    BY <2>1, <2>2 DEF Entry
<1> QED
  BY <1>1, <1>2 DEF Slots

LEMMA ProbeType ==
    ASSUME TypeOK, NEW k \in Keys, NEW n \in Nat
    PROVE  Probe(k, n) \in Slots
<1>1. Hash[k] \in Nat /\ icap \in Nat \ {0}
  BY KeyAssumption DEF TypeOK
<1>2. Hash[k] + n \in Nat
  BY <1>1
<1> QED
  BY <1>1, <1>2, RemainderType DEF Probe, Slots

LEMMA ProbeReaches ==
    ASSUME TypeOK, NEW k \in Keys, NEW s \in Slots
    PROVE  \E n \in Slots : Probe(k, n) = s
<1>1. Hash[k] \in Nat /\ icap \in Nat \ {0}
  BY KeyAssumption DEF TypeOK
<1> QED
  BY <1>1, AllRemainders DEF Probe, Slots

LEMMA ProbeAlike ==
    ASSUME NEW j \in Keys, NEW k \in Keys, <<j, k>> \in Alike
    PROVE  <<j, k>> \in Equal /\ \A n : Probe(j, n) = Probe(k, n)
<1>1. <<j, k>> \in Equal /\ Hash[j] = Hash[k]
  BY DEF Alike
<1> QED
  BY <1>1 DEF Probe

\* Fewer entries than slots, each pointed to once: a slot is free.
LEMMA SlotIsFree ==
    ASSUME TypeOK, RoomInv, PlacedInv
    PROVE  FreeSlot
<1> SUFFICES ASSUME \A s \in Slots : idx[s] # 0 PROVE FALSE
  BY DEF FreeSlot
<1>1. icap \in Nat \ {0} /\ moved \in Nat /\ moved < icap
  BY TypeFacts DEF RoomInv
<1>2. /\ IsFiniteSet(Slots) /\ Cardinality(Slots) = icap
      /\ IsFiniteSet(1 .. moved) /\ Cardinality(1 .. moved) = moved
  BY <1>1, FS_Interval DEF Slots
<1>3. idx \in [Slots -> 1 .. moved]
  <2>1. \A s \in Slots : idx[s] \in 1 .. moved
    BY <1>1, TypeFacts DEF PlacedInv
  <2> QED
    BY <2>1 DEF TypeOK
<1>4. \E x, y \in Slots : x # y /\ idx[x] = idx[y]
  BY <1>1, <1>2, <1>3, FS_PigeonHole
<1> QED
  BY <1>4 DEF PlacedInv

LEMMA FreeFacts ==
    ASSUME TypeOK, FreeSlot, NEW k \in Keys
    PROVE  \E n \in Slots : FreeAt(k, n) /\ Free(k) = Probe(k, n)
<1> DEFINE S == {n \in Slots : idx[Probe(k, n)] = 0}
<1>1. S # {} /\ S \in SUBSET Nat
  BY ProbeReaches, TypeFacts DEF FreeSlot
<1>2. PICK n \in S : \A m \in 0 .. n - 1 : m \notin S
  BY <1>1, LeastNumber
<1>3. \A m \in 0 .. n - 1 : m \in Slots
  BY <1>2, TypeFacts DEF Slots
<1>4. FreeAt(k, n)
  BY <1>2, <1>3 DEF FreeAt
<1>5. PICK o : o = CHOOSE m \in Slots : FreeAt(k, m)
  OBVIOUS
<1>6. o \in Slots /\ FreeAt(k, o)
  BY <1>2, <1>4, <1>5
<1> QED
  BY <1>5, <1>6 DEF Free

LEMMA FindFacts ==
    ASSUME TypeOK, FreeSlot, NEW k \in Keys
    PROVE  \E n \in Slots : RestsAt(k, n) /\ Find(k) = idx[Probe(k, n)]
<1> DEFINE S == {n \in Slots : Stops(k, Probe(k, n))}
<1>1. S # {} /\ S \in SUBSET Nat
  BY ProbeReaches, TypeFacts DEF FreeSlot, Stops
<1>2. PICK n \in S : \A m \in 0 .. n - 1 : m \notin S
  BY <1>1, LeastNumber
<1>3. \A m \in 0 .. n - 1 : m \in Slots
  BY <1>2, TypeFacts DEF Slots
<1>4. RestsAt(k, n)
  BY <1>2, <1>3 DEF RestsAt
<1>5. PICK o : o = CHOOSE m \in Slots : RestsAt(k, m)
  OBVIOUS
<1>6. o \in Slots /\ RestsAt(k, o)
  BY <1>2, <1>4, <1>5
<1> QED
  BY <1>5, <1>6 DEF Find

\* What dict_find gives back is an entry that equals the key, and it gives one
\* back when there is one alike.
LEMMA FindSome ==
    ASSUME TypeOK, FreeSlot, NEW k \in Keys, Find(k) # 0
    PROVE  Find(k) \in DOMAIN items /\ <<items[Find(k)].key, k>> \in Equal
<1>1. PICK n \in Slots : RestsAt(k, n) /\ Find(k) = idx[Probe(k, n)]
  BY FindFacts
<1>2. Probe(k, n) \in Slots
  BY TypeFacts, ProbeType
<1> QED
  BY <1>1, <1>2, TypeFacts DEF RestsAt, Stops

LEMMA FindNone ==
    ASSUME TypeOK, FreeSlot, Findable, AtRest, NEW k \in Keys, Find(k) = 0
    PROVE  \A i \in DOMAIN items : <<items[i].key, k>> \notin Alike
<1> SUFFICES ASSUME NEW i \in DOMAIN items, <<items[i].key, k>> \in Alike
             PROVE  FALSE
  OBVIOUS
<1>1. i \in 1 .. moved /\ items[i].key \in Keys
  BY TypeFacts DEF AtRest
<1>2. <<items[i].key, k>> \in Equal /\ \A n : Probe(items[i].key, n) = Probe(k, n)
  BY <1>1, ProbeAlike
<1>3. PICK n \in Slots : /\ idx[Probe(k, n)] = i
                         /\ \A m \in 0 .. n - 1 : idx[Probe(k, m)] \notin {0, i}
  BY <1>1, <1>2 DEF Findable
<1>4. PICK o \in Slots : RestsAt(k, o) /\ idx[Probe(k, o)] = 0
  BY FindFacts
<1>5. Stops(k, Probe(k, n)) /\ i # 0
  BY <1>1, <1>2, <1>3 DEF Stops
<1>6. ~(n < o)
  BY <1>4, <1>5, TypeFacts DEF RestsAt
<1>7. ~(o < n)
  BY <1>3, <1>4, TypeFacts
<1>8. o = n
  BY <1>6, <1>7, TypeFacts
<1> QED
  BY <1>3, <1>4, <1>5, <1>8

-----------------------------------------------------------------------------
(* Steps *)

\* The keys and the index stay: dict_get, and dict_set on a key that is there.
LEMMA KeysKept ==
    ASSUME TypeOK, RoomInv, PlacedInv, TodoInv, Findable, OneEntry,
           UNCHANGED <<icap, idx, moved, todo>>, Len(items') = Len(items),
           DOMAIN items' = DOMAIN items,
           \A i \in DOMAIN items : items'[i].key = items[i].key
    PROVE  RoomInv' /\ PlacedInv' /\ TodoInv' /\ Findable' /\ OneEntry'
<1>1. RoomInv' /\ PlacedInv'
  BY DEF RoomInv, PlacedInv, Slots
<1>2. TodoInv' /\ OneEntry'
  BY DEF TodoInv, OneEntry
<1>3. ASSUME NEW i \in 1 .. moved
      PROVE  \E n \in Slots :
                /\ idx'[Probe(items'[i].key, n)] = i
                /\ \A m \in 0 .. n - 1 : idx'[Probe(items'[i].key, m)] \notin {0, i}
  <2>1. items'[i].key = items[i].key
    BY <1>3, TypeFacts
  <2> QED
    BY <1>3, <2>1 DEF Findable
<1>4. Findable'
  BY <1>3 DEF Findable, Probe, Slots
<1> QED
  BY <1>1, <1>2, <1>4

LEMMA SetOldEffect ==
    ASSUME TypeOK, FreeSlot, NEW k \in Keys, NEW v \in Vals, SetOld(k, v)
    PROVE  LET e == Find(k) IN
           /\ e \in DOMAIN items /\ <<items[e].key, k>> \in Equal
           /\ items' = [items EXCEPT ![e].val = v]
           /\ items' \in Seq([key : Keys, val : Vals])
           /\ Len(items') = Len(items) /\ DOMAIN items' = DOMAIN items
           /\ \A i \in DOMAIN items : items'[i].key = items[i].key
           /\ items'[e].val = v
           /\ \A i \in DOMAIN items : i # e => items'[i] = items[i]
<1>1. PICK e : e = Find(k)
  OBVIOUS
<1>2. e \in DOMAIN items /\ <<items[e].key, k>> \in Equal
  BY <1>1, FindSome DEF SetOld
<1> DEFINE Entry == [key : Keys, val : Vals]
           new == [items[e] EXCEPT !.val = v]
<1>3. items' = [items EXCEPT ![e] = new]
  BY <1>1 DEF SetOld
<1>4. items \in Seq(Entry) /\ items[e] \in Entry
  <2> HIDE DEF Entry
  <2>1. items \in Seq(Entry)
    BY DEF TypeOK, Entry
  <2> QED
    BY <1>2, <2>1
<1>5. new \in Entry /\ new.key = items[e].key /\ new.val = v
  BY <1>4
<1> HIDE DEF Entry, new
<1>6. /\ items' \in Seq(Entry)
      /\ Len(items') = Len(items) /\ DOMAIN items' = DOMAIN items
      /\ items'[e] = new
      /\ \A i \in DOMAIN items : i # e => items'[i] = items[i]
  BY <1>2, <1>3, <1>4, <1>5
<1> QED
  BY <1>1, <1>2, <1>3, <1>5, <1>6 DEF Entry, new

\* An entry is entered at the first free slot that probing comes to: it is
\* found there, and so is every other where it was.
LEMMA PlaceEntry ==
    ASSUME TypeOK, FreeSlot, PlacedInv, Findable, NEW k \in Keys,
           idx' = [idx EXCEPT ![Free(k)] = moved + 1],
           moved' = moved + 1, icap' = icap,
           items'[moved + 1].key = k,
           \A i \in 1 .. moved : items'[i].key = items[i].key
    PROVE  /\ PlacedInv' /\ Findable'
           /\ \A s \in Slots : idx'[s] \in 0 .. Len(items) \cup {moved + 1}
           /\ DOMAIN idx' = Slots
<1>1. PICK n \in Slots : FreeAt(k, n) /\ Free(k) = Probe(k, n)
  BY FreeFacts
<1>2. PICK f \in Slots : f = Free(k)
  BY <1>1, TypeFacts, ProbeType
<1>3. idx[f] = 0
  BY <1>1, <1>2 DEF FreeAt
<1>4. /\ DOMAIN idx' = Slots /\ idx'[f] = moved + 1
      /\ \A s \in Slots : s # f => idx'[s] = idx[s]
  BY <1>2 DEF TypeOK
<1>5. moved \in Nat /\ \A s \in Slots : idx[s] \in Nat /\ idx[s] <= moved
  BY TypeFacts DEF PlacedInv
<1>6. PlacedInv'
  <2>1. Slots' = Slots
    BY DEF Slots
  <2>2. \A s \in Slots : idx'[s] <= moved + 1
    BY <1>4, <1>5
  <2>3. \A s, t \in Slots : idx'[s] = idx'[t] /\ idx'[s] # 0 => s = t
    BY <1>4, <1>5 DEF PlacedInv
  <2> QED
    BY <2>1, <2>2, <2>3 DEF PlacedInv
<1>7. ASSUME NEW i \in 1 .. moved
      PROVE  \E m \in Slots :
                /\ idx'[Probe(items'[i].key, m)] = i
                /\ \A l \in 0 .. m - 1 : idx'[Probe(items'[i].key, l)] \notin {0, i}
  <2>1. PICK j \in Keys : j = items[i].key /\ j = items'[i].key
    BY <1>7, TypeFacts
  <2>2. PICK m \in Slots : /\ idx[Probe(j, m)] = i
                           /\ \A l \in 0 .. m - 1 : idx[Probe(j, l)] \notin {0, i}
    BY <1>7, <2>1 DEF Findable
  <2>3. \A l \in 0 .. m : Probe(j, l) \in Slots
    BY ProbeType
  <2>4. m \in Nat /\ m \in 0 .. m /\ \A l \in 0 .. m - 1 : l \in 0 .. m
    BY TypeFacts
  <2>5. \A l \in 0 .. m : idx[Probe(j, l)] # 0
    BY <1>7, <2>2, <2>4
  <2>6. \A l \in 0 .. m : idx'[Probe(j, l)] = idx[Probe(j, l)]
    BY <1>3, <1>4, <2>3, <2>5
  <2> QED
    BY <2>1, <2>2, <2>4, <2>6
<1>8. \E m \in Slots :
         /\ idx'[Probe(k, m)] = moved + 1
         /\ \A l \in 0 .. m - 1 : idx'[Probe(k, l)] \notin {0, moved + 1}
  <2>1. idx'[Probe(k, n)] = moved + 1
    BY <1>1, <1>2, <1>4
  <2>2. n \in Nat /\ \A l \in 0 .. n - 1 : Probe(k, l) \in Slots
    BY ProbeType, TypeFacts
  <2>3. ASSUME NEW l \in 0 .. n - 1
        PROVE  idx'[Probe(k, l)] \notin {0, moved + 1}
    <3>1. idx[Probe(k, l)] # 0
      BY <1>1, <2>3 DEF FreeAt
    <3>2. idx'[Probe(k, l)] = idx[Probe(k, l)]
      BY <1>3, <1>4, <2>2, <2>3, <3>1
    <3>3. idx[Probe(k, l)] <= moved /\ idx[Probe(k, l)] \in Nat
      BY <1>5, <2>2, <2>3
    <3> QED
      BY <1>5, <3>1, <3>2, <3>3
  <2> QED
    BY <2>1, <2>3
<1>9. Findable'
  <2>1. ASSUME NEW i \in 1 .. moved + 1
        PROVE  \E m \in Slots :
                  /\ idx'[Probe(items'[i].key, m)] = i
                  /\ \A l \in 0 .. m - 1 : idx'[Probe(items'[i].key, l)] \notin {0, i}
    <3>1. CASE i \in 1 .. moved
      BY <1>7, <3>1
    <3>2. CASE i = moved + 1
      BY <1>8, <3>2
    <3> QED
      BY <1>5, <2>1, <3>1, <3>2
  <2> QED
    BY <2>1 DEF Findable, Probe, Slots
<1> QED
  BY <1>4, <1>6, <1>9, TypeFacts

LEMMA EmptyIndex ==
    ASSUME NEW c \in Nat \ {0}, NEW n \in Nat
    PROVE  /\ Empty(c) \in [0 .. c - 1 -> 0 .. n]
           /\ \A s \in 0 .. c - 1 : Empty(c)[s] = 0
BY DEF Empty

LEMMA DictInit == Init => DictInv
<1> SUFFICES ASSUME Init PROVE DictInv
  OBVIOUS
<1>1. /\ items = <<>> /\ icap = InitCap /\ idx = Empty(InitCap)
      /\ moved = 0 /\ todo = <<>> /\ did = <<"clear">>
      /\ InitCap \in Nat \ {0} /\ MaxItems \in Nat
  BY CapAssumption DEF Init
<1>2. items \in Seq([key : Keys, val : Vals]) /\ Len(items) = 0 /\ DOMAIN items = {}
  BY <1>1
<1>3. idx \in [Slots -> 0 .. Len(items)] /\ \A s \in Slots : idx[s] = 0
  BY <1>1, <1>2, EmptyIndex DEF Slots
<1>4. TypeOK
  BY <1>1, <1>2, <1>3 DEF TypeOK
<1>5. RoomInv /\ PlacedInv /\ TodoInv
  BY <1>1, <1>2, <1>3 DEF RoomInv, PlacedInv, TodoInv
<1>6. Findable /\ OneEntry
  BY <1>1, <1>2 DEF Findable, OneEntry
<1> QED
  BY <1>4, <1>5, <1>6 DEF DictInv

LEMMA GetStep ==
    ASSUME DictInv, NEW k \in Keys, Get(k)
    PROVE  DictInv'
<1> USE DEF DictInv
<1>1. UNCHANGED <<items, icap, idx, moved, todo>>
  BY DEF Get
<1>2. RoomInv' /\ PlacedInv' /\ TodoInv' /\ Findable' /\ OneEntry'
  BY <1>1, KeysKept
<1>3. Find(k) # 0 => items[Find(k)].val \in Vals
  BY SlotIsFree, FindSome, TypeFacts
<1>5. did' \in {"put", "get"} \X Keys \X (Vals \cup {Absent})
  <2>1. PICK a \in Vals \cup {Absent} : did' = <<"get", k, a>>
    BY <1>3 DEF Get
  <2> QED
    BY <2>1
<1>6. TypeOK'
  BY <1>1, <1>5 DEF TypeOK, Slots
<1> QED
  BY <1>2, <1>6

LEMMA SetOldStep ==
    ASSUME DictInv, NEW k \in Keys, NEW v \in Vals, SetOld(k, v)
    PROVE  DictInv'
<1> USE DEF DictInv
<1>1. /\ items' \in Seq([key : Keys, val : Vals])
      /\ Len(items') = Len(items) /\ DOMAIN items' = DOMAIN items
      /\ \A i \in DOMAIN items : items'[i].key = items[i].key
  BY SlotIsFree, SetOldEffect
<1>2. UNCHANGED <<icap, idx, moved, todo>>
  BY DEF SetOld
<1>3. RoomInv' /\ PlacedInv' /\ TodoInv' /\ Findable' /\ OneEntry'
  BY <1>1, <1>2, KeysKept
<1>4. did' \in {"put", "get"} \X Keys \X (Vals \cup {Absent})
  BY DEF SetOld
<1>5. TypeOK'
  BY <1>1, <1>2, <1>4 DEF TypeOK, Slots
<1> QED
  BY <1>3, <1>5

LEMMA SetNewStep ==
    ASSUME DictInv, NEW k \in Keys, NEW v \in Vals, SetNew(k, v)
    PROVE  DictInv'
<1> USE DEF DictInv
<1>1. /\ AtRest /\ Find(k) = 0 /\ Len(items) < MaxItems /\ todo' = <<k, v>>
      /\ UNCHANGED <<items, did>>
  BY DEF SetNew
<1>2. \A i \in DOMAIN items : <<items[i].key, k>> \notin Alike
  BY <1>1, SlotIsFree, FindNone
<1>3. TodoInv' /\ OneEntry'
  BY <1>1, <1>2 DEF TodoInv, OneEntry
<1>4. Len(items) \in Nat /\ icap \in Nat \ {0} /\ Len(items) < icap
  BY TypeFacts DEF RoomInv
<1>5. todo' \in {<<>>} \cup (Keys \X Vals)
  BY <1>1
<1>6. CASE Grows
  <2>1. icap' = 2 * icap /\ idx' = Empty(icap') /\ moved' = 0
    BY <1>6 DEF SetNew
  <2>2. icap' \in Nat \ {0} /\ Len(items) + 1 < icap'
    BY <1>4, <2>1
  <2>3. /\ idx' \in [0 .. icap' - 1 -> 0 .. Len(items)]
        /\ \A s \in 0 .. icap' - 1 : idx'[s] = 0
    BY <1>4, <2>1, <2>2, EmptyIndex
  <2>4. RoomInv' /\ PlacedInv' /\ Findable'
    BY <1>1, <1>4, <2>1, <2>2, <2>3 DEF RoomInv, PlacedInv, Findable, Slots
  <2>5. TypeOK'
    BY <1>1, <1>4, <1>5, <2>1, <2>2, <2>3 DEF TypeOK, Slots
  <2> QED
    BY <1>3, <2>4, <2>5
<1>7. CASE ~Grows
  <2>1. UNCHANGED <<icap, idx, moved>>
    BY <1>7 DEF SetNew
  <2>2. Len(items) + 1 < icap
    BY <1>4, <1>7 DEF Grows
  <2>3. RoomInv' /\ PlacedInv'
    BY <1>1, <2>1, <2>2 DEF RoomInv, PlacedInv, Slots
  <2>4. Findable'
    BY <1>1, <2>1 DEF Findable, Probe, Slots
  <2>5. TypeOK'
    BY <1>1, <1>5, <2>1 DEF TypeOK, Slots
  <2> QED
    BY <1>3, <2>3, <2>4, <2>5
<1> QED
  BY <1>6, <1>7

LEMMA RehashStep ==
    ASSUME DictInv, Rehash
    PROVE  DictInv'
<1> USE DEF DictInv
<1>1. /\ moved < Len(items) /\ moved' = moved + 1
      /\ idx' = [idx EXCEPT ![Free(items[moved + 1].key)] = moved + 1]
      /\ UNCHANGED <<items, icap, todo, did>>
  BY DEF Rehash
<1>2. moved + 1 \in 1 .. Len(items) /\ moved + 1 \in DOMAIN items /\ moved \in Nat
  BY <1>1, TypeFacts
<1>3. PICK k \in Keys : k = items[moved + 1].key
  BY <1>2, TypeFacts
<1>4. /\ PlacedInv' /\ Findable'
      /\ \A s \in Slots : idx'[s] \in 0 .. Len(items) \cup {moved + 1}
      /\ DOMAIN idx' = Slots
  BY <1>1, <1>2, <1>3, SlotIsFree, PlaceEntry
<1>5. RoomInv' /\ TodoInv' /\ OneEntry'
  BY <1>1 DEF RoomInv, TodoInv, OneEntry
<1>6. idx' \in [Slots -> 0 .. Len(items)]
  <2>1. idx' = [s \in Slots |-> idx'[s]]
    BY <1>1, <1>4 DEF TypeOK
  <2> QED
    BY <1>2, <1>4, <2>1, TypeFacts
<1>7. TypeOK'
  BY <1>1, <1>2, <1>6 DEF TypeOK, Slots
<1> QED
  BY <1>4, <1>5, <1>7

LEMMA EnterEffect ==
    ASSUME DictInv, Enter
    PROVE  /\ todo \in Keys \X Vals /\ moved = Len(items)
           /\ items' = Append(items, [key |-> todo[1], val |-> todo[2]])
           /\ items' \in Seq([key : Keys, val : Vals])
           /\ Len(items') = Len(items) + 1 /\ DOMAIN items' = 1 .. Len(items) + 1
           /\ \A i \in DOMAIN items : items'[i] = items[i]
           /\ items'[Len(items) + 1] = [key |-> todo[1], val |-> todo[2]]
<1> DEFINE Entry == [key : Keys, val : Vals]
           new == [key |-> todo[1], val |-> todo[2]]
<1>1. todo \in Keys \X Vals /\ moved = Len(items)
  BY DEF Enter, DictInv, TypeOK
<1>2. items' = Append(items, new)
  BY DEF Enter
<1>3. new \in Entry
  BY <1>1
<1>4. items \in Seq(Entry)
  BY DEF DictInv, TypeOK
<1> HIDE DEF Entry, new
<1>5. /\ items' \in Seq(Entry) /\ Len(items') = Len(items) + 1
      /\ DOMAIN items' = 1 .. Len(items) + 1
      /\ \A i \in DOMAIN items : items'[i] = items[i]
      /\ items'[Len(items) + 1] = new
  BY <1>2, <1>3, <1>4
<1> QED
  BY <1>1, <1>2, <1>5 DEF Entry, new

LEMMA EnterStep ==
    ASSUME DictInv, Enter
    PROVE  DictInv'
<1> USE DEF DictInv
<1>1. /\ todo # <<>> /\ todo' = <<>> /\ icap' = icap
      /\ idx' = [idx EXCEPT ![Free(todo[1])] = Len(items')] /\ moved' = Len(items')
      /\ did' = <<"put", todo[1], todo[2]>>
  BY DEF Enter
<1>2. PICK k \in Keys, v \in Vals : todo = <<k, v>>
  BY EnterEffect
<1>3. todo[1] = k /\ todo[2] = v
  BY <1>2
<1>4. /\ moved = Len(items) /\ Len(items) \in Nat /\ Len(items') = moved + 1
      /\ DOMAIN items' = 1 .. moved + 1 /\ items'[moved + 1].key = k
      /\ DOMAIN items = 1 .. moved
      /\ \A i \in 1 .. moved : items'[i] = items[i]
  BY <1>3, EnterEffect, TypeFacts
<1>5. /\ PlacedInv' /\ Findable'
      /\ \A s \in Slots : idx'[s] \in 0 .. Len(items) \cup {moved + 1}
      /\ DOMAIN idx' = Slots
  BY <1>1, <1>3, <1>4, SlotIsFree, PlaceEntry
<1>6. RoomInv' /\ TodoInv'
  BY <1>1, <1>4 DEF RoomInv, TodoInv
<1>7. OneEntry'
  <2>1. \A i \in 1 .. moved : <<items'[i].key, k>> \notin Alike
    BY <1>1, <1>3, <1>4 DEF TodoInv
  <2>2. \A i, j \in 1 .. moved : i < j => <<items'[i].key, items'[j].key>> \notin Alike
    BY <1>4 DEF OneEntry
  <2>3. ASSUME NEW i \in 1 .. moved + 1, NEW j \in 1 .. moved + 1, i < j
        PROVE  <<items'[i].key, items'[j].key>> \notin Alike
    <3>1. i \in 1 .. moved
      BY <1>4, <2>3
    <3>2. CASE j = moved + 1
      BY <1>4, <2>1, <3>1, <3>2
    <3>3. CASE j \in 1 .. moved
      BY <2>2, <2>3, <3>1, <3>3
    <3> QED
      BY <1>4, <3>2, <3>3
  <2>4. \A i, j \in DOMAIN items' : i < j => <<items'[i].key, items'[j].key>> \notin Alike
    BY <1>4, <2>3
  <2> QED
    BY <2>4 DEF OneEntry, Alike
<1>8. idx' \in [Slots -> 0 .. Len(items')]
  <2>1. idx' = [s \in Slots |-> idx'[s]]
    BY <1>1, <1>5 DEF TypeOK
  <2>2. \A s \in Slots : idx'[s] \in 0 .. Len(items')
    BY <1>4, <1>5
  <2> QED
    BY <2>1, <2>2
<1>9. did' \in {"put", "get"} \X Keys \X (Vals \cup {Absent})
  BY <1>1, <1>3
<1>10. Len(items') <= MaxItems
  BY <1>1, <1>4, CapAssumption DEF RoomInv
<1>11. TypeOK'
  BY <1>1, <1>4, <1>8, <1>9, <1>10, EnterEffect DEF TypeOK, Slots
<1> QED
  BY <1>5, <1>6, <1>7, <1>11

LEMMA ClearStep ==
    ASSUME DictInv, Clear
    PROVE  DictInv'
<1> USE DEF DictInv
<1>1. /\ items' = <<>> /\ idx' = Empty(icap) /\ moved' = 0
      /\ did' = <<"clear">> /\ UNCHANGED <<icap, todo>> /\ todo = <<>>
  BY DEF Clear, AtRest
<1>2. items' \in Seq([key : Keys, val : Vals]) /\ Len(items') = 0 /\ DOMAIN items' = {}
  BY <1>1
<1>3. icap \in Nat \ {0} /\ MaxItems \in Nat
  BY CapAssumption, TypeFacts
<1>4. idx' \in [Slots -> 0 .. Len(items')] /\ \A s \in Slots : idx'[s] = 0
  BY <1>1, <1>2, <1>3, EmptyIndex DEF Slots
<1>5. TypeOK'
  BY <1>1, <1>2, <1>3, <1>4 DEF TypeOK, Slots
<1>6. RoomInv' /\ PlacedInv' /\ TodoInv'
  BY <1>1, <1>2, <1>3, <1>4 DEF RoomInv, PlacedInv, TodoInv, Slots
<1>7. Findable' /\ OneEntry'
  BY <1>1, <1>2 DEF Findable, OneEntry
<1> QED
  BY <1>5, <1>6, <1>7

LEMMA DictStep == DictInv /\ [Next]_vars => DictInv'
<1> SUFFICES ASSUME DictInv, [Next]_vars PROVE DictInv'
  OBVIOUS
<1>1. CASE UNCHANGED vars
  <2>1. UNCHANGED <<items, icap, idx, moved, todo, did>>
    BY <1>1 DEF vars
  <2>2. RoomInv' /\ PlacedInv' /\ TodoInv' /\ Findable' /\ OneEntry'
    BY <2>1, KeysKept DEF DictInv
  <2> QED
    BY <2>1, <2>2 DEF DictInv, TypeOK, Slots
<1>2. CASE Next
  BY <1>2, GetStep, SetOldStep, SetNewStep, RehashStep, EnterStep, ClearStep DEF Next
<1> QED
  BY <1>1, <1>2

LEMMA DictHolds == Spec => []DictInv
BY DictInit, DictStep, PTL DEF Spec

-----------------------------------------------------------------------------
(* The theorems *)

\* The state of a dictionary is what value.c declares: an entry a slot at most,
\* and no entry number beyond the last.
THEOREM DictionaryTyped == Spec => []TypeOK
<1>1. DictInv => TypeOK
  BY DEF DictInv
<1> QED
  BY <1>1, DictHolds, PTL

\* The loops over the index end: dict_set lets it grow before it is full.
THEOREM ProbingEnds == Spec => []FreeSlot
<1>1. DictInv => FreeSlot
  BY SlotIsFree DEF DictInv
<1> QED
  BY <1>1, DictHolds, PTL

\* Probing comes to every entry that was placed before it comes to a free slot.
THEOREM EntriesAreFound == Spec => []Findable
<1>1. DictInv => Findable
  BY DEF DictInv
<1> QED
  BY <1>1, DictHolds, PTL

\* dict_set on a key that is alike to an entry writes an entry: of keys that are
\* equal and hash alike only the first is ever entered.  참 and 1, or a large
\* integer and the double it rounds to, hash apart: of them nothing is said.
THEOREM AlikeEnterOnce == Spec => []OneEntry
<1>1. DictInv => OneEntry
  BY DEF DictInv
<1> QED
  BY <1>1, DictHolds, PTL

-----------------------------------------------------------------------------
(* The refinement of OrderedMap *)

LEMMA SetOldPuts ==
    ASSUME DictInv, NEW k \in Keys, NEW v \in Vals, SetOld(k, v)
    PROVE  Map!Put(k, v)
<1>1. PICK e : e = Find(k)
  OBVIOUS
<1>2. /\ e \in DOMAIN items /\ <<items[e].key, k>> \in Equal
      /\ items' = [items EXCEPT ![e].val = v]
  BY <1>1, SlotIsFree, SetOldEffect DEF DictInv
<1>3. did' = <<"put", k, v>>
  BY DEF SetOld
<1> QED
  BY <1>2, <1>3 DEF Map!Put, Map!May

LEMMA EnterPuts ==
    ASSUME DictInv, Enter
    PROVE  \E k \in Keys, v \in Vals : Map!Put(k, v)
<1>1. PICK k \in Keys, v \in Vals : todo = <<k, v>>
  BY EnterEffect
<1>2. todo[1] = k /\ todo[2] = v /\ todo # <<>>
  BY <1>1
<1>3. items' = Append(items, [key |-> k, val |-> v]) /\ did' = <<"put", k, v>>
  BY <1>2 DEF Enter
<1>4. \A i \in DOMAIN items : <<items[i].key, k>> \notin Alike
  BY <1>2 DEF DictInv, TodoInv
<1> QED
  BY <1>3, <1>4 DEF Map!Put, Map!New

LEMMA GetGets ==
    ASSUME DictInv, NEW k \in Keys, Get(k)
    PROVE  Map!Get(k)
<1>1. UNCHANGED items /\ AtRest
  BY DEF Get
<1>2. CASE Find(k) # 0
  <2>1. Find(k) \in DOMAIN items /\ <<items[Find(k)].key, k>> \in Equal
    BY <1>2, SlotIsFree, FindSome DEF DictInv
  <2>2. did' = <<"get", k, items[Find(k)].val>>
    BY <1>2 DEF Get
  <2> QED
    BY <1>1, <2>1, <2>2 DEF Map!Get, Map!May
<1>3. CASE Find(k) = 0
  <2>1. \A i \in DOMAIN items : <<items[i].key, k>> \notin Alike
    BY <1>1, <1>3, SlotIsFree, FindNone DEF DictInv
  <2>2. did' = <<"get", k, Absent>>
    BY <1>3 DEF Get
  <2> QED
    BY <1>1, <2>1, <2>2 DEF Map!Get, Map!New
<1> QED
  BY <1>2, <1>3

\* To its callers a dictionary is a map in the order of first insertion: growth
\* and the two steps of an insertion are not seen, a read finds what was last
\* written to an entry that equals the key, and a key alike to an entry (as 1.0
\* is to 1) is that entry.  A key that equals an entry but hashes apart (as 참
\* and 1) may find it or be a key of its own: the map leaves that open.
THEOREM DictionaryIsOrderedMap == Spec => ImplementsMap
<1>1. Init => Map!Init
  BY DEF Init, Map!Init
<1>2. DictInv /\ [Next]_vars => [Map!Next]_(Map!vars)
  <2> SUFFICES ASSUME DictInv, [Next]_vars
               PROVE  Map!Next \/ UNCHANGED <<items, did>>
    BY DEF Map!vars
  <2>1. ASSUME NEW k \in Keys, Get(k)
        PROVE  Map!Next
    BY <2>1, GetGets DEF Map!Next
  <2>2. ASSUME NEW k \in Keys, NEW v \in Vals, SetOld(k, v)
        PROVE  Map!Next
    BY <2>2, SetOldPuts DEF Map!Next
  <2>3. ASSUME NEW k \in Keys, NEW v \in Vals, SetNew(k, v)
        PROVE  UNCHANGED <<items, did>>
    BY <2>3 DEF SetNew
  <2>4. ASSUME Rehash
        PROVE  UNCHANGED <<items, did>>
    BY <2>4 DEF Rehash
  <2>5. ASSUME Enter
        PROVE  Map!Next
    BY <2>5, EnterPuts DEF Map!Next
  <2>6. ASSUME Clear
        PROVE  Map!Next
    BY <2>6 DEF Clear, Map!Next, Map!Clear
  <2>7. ASSUME UNCHANGED vars
        PROVE  UNCHANGED <<items, did>>
    BY <2>7 DEF vars
  <2> QED
    BY <2>1, <2>2, <2>3, <2>4, <2>5, <2>6, <2>7 DEF Next
<1> QED
  BY <1>1, <1>2, DictHolds, PTL DEF Spec, ImplementsMap, Map!Spec

=============================================================================
