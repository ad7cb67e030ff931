------------------------ MODULE ClipboardTablesProofs ------------------------
(***************************************************************************)
(* Theorems about the tables as the clipboard plugin uses them, for any    *)
(* keys, payloads and capacities: in a shard that is only inserted into,   *)
(* through any number of resizes, and in the list of recent entries until  *)
(* it is resized, every entry is found by its key, and each implements     *)
(* what it promises.                                                       *)
(*                                                                         *)
(* A probe stops at the first hit.  As long as entries are never taken out *)
(* of the hash, a change of it leaves no key a new hit before its first,   *)
(* and keeps that one: that is why entries stay where they are found.      *)
(***************************************************************************)
EXTENDS ClipboardTables, ClipboardHashTableProofs

-----------------------------------------------------------------------------
(***************************************************************************)
(* Where probes stop.                                                      *)
(***************************************************************************)
\* A slot at which find_slot stops.
Stops(table, entries, key, s) == table[s] = 0 \/ entries[table[s]].primkey = key

\* The entry at position i is found by its key.
Found(table, cap, entries, i) ==
  LET key == entries[i].primkey
  IN  /\ Hits(table, cap, key, entries) # {}
      /\ table[FindSlot(table, cap, key, entries)] = i

LEMMA HitsAreStops ==
  ASSUME NEW cap \in Nat \ {0}, NEW table, NEW entries, NEW key \in Nat
  PROVE  /\ Hits(table, cap, key, entries) \in SUBSET Nat
         /\ \A d \in 0 .. cap - 1 :
              /\ (key + d) % cap \in 0 .. cap - 1
              /\ d \in Hits(table, cap, key, entries)
                   <=> Stops(table, entries, key, (key + d) % cap)
         /\ Hits(table, cap, key, entries) \subseteq 0 .. cap - 1
<1>1. ASSUME NEW d \in 0 .. cap - 1 PROVE (key + d) % cap \in 0 .. cap - 1
  <2>1. key + d \in Int
    OBVIOUS
  <2> QED
    BY <2>1, DivMod
<1>2. \A d \in 0 .. cap - 1 : d \in Hits(table, cap, key, entries)
                                <=> Stops(table, entries, key, (key + d) % cap)
  BY DEF Hits, Stops
<1>3. Hits(table, cap, key, entries) \subseteq 0 .. cap - 1
  BY DEF Hits
<1> QED
  BY <1>1, <1>2, <1>3

\* The second table gives a key no new hit.
NoNewHits(table, entries, table2, entries2, cap, key) ==
  \A s \in 0 .. cap - 1 : Stops(table2, entries2, key, s) => Stops(table, entries, key, s)

\* Every slot that is used names an entry of the same key as before.
KeysKept(table, cap, entries, entries2) ==
  \A s \in 0 .. cap - 1 :
    table[s] # 0 => entries2[table[s]].primkey = entries[table[s]].primkey

\* The second table names n at one slot.
Filled(table, cap, table2, slot, n) ==
  \A s \in 0 .. cap - 1 : table2[s] = IF s = slot THEN n ELSE table[s]

\* A change that gives a key no new hit and leaves the first one a hit.
LEMMA FirstHitKept ==
  ASSUME NEW cap \in Nat \ {0}, NEW key \in Nat,
         NEW table, NEW entries, NEW table2, NEW entries2,
         Hits(table, cap, key, entries) # {},
         NoNewHits(table, entries, table2, entries2, cap, key),
         Stops(table2, entries2, key, FindSlot(table, cap, key, entries))
  PROVE  /\ Hits(table2, cap, key, entries2) # {}
         /\ FindSlot(table2, cap, key, entries2) = FindSlot(table, cap, key, entries)
<1> DEFINE H == Hits(table, cap, key, entries)
           K == Hits(table2, cap, key, entries2)
<1>1. H \in SUBSET Nat /\ K \in SUBSET Nat /\ H \subseteq 0 .. cap - 1 /\ K \subseteq 0 .. cap - 1
  BY HitsAreStops
<1>2. K \subseteq H
  <2> SUFFICES ASSUME NEW d \in K PROVE d \in H
    OBVIOUS
  <2>1. d \in 0 .. cap - 1 /\ (key + d) % cap \in 0 .. cap - 1
    BY <1>1, HitsAreStops
  <2>2. Stops(table2, entries2, key, (key + d) % cap)
    BY <2>1, HitsAreStops
  <2>3. Stops(table, entries, key, (key + d) % cap)
    BY <2>1, <2>2 DEF NoNewHits
  <2> QED
    BY <2>1, <2>3, HitsAreStops
<1>3. Min(H) \in H /\ \A y \in H : Min(H) <= y
  <2>1. H # {}
    OBVIOUS
  <2> HIDE DEF H
  <2> QED
    BY <2>1, <1>1, LeastElement
<1>4. Min(H) \in K
  <2>1. FindSlot(table, cap, key, entries) = (key + Min(H)) % cap
    BY DEF FindSlot
  <2>2. Min(H) \in 0 .. cap - 1
    BY <1>1, <1>3
  <2> QED
    BY <2>1, <2>2, HitsAreStops
<1>5. Min(K) \in K /\ \A y \in K : Min(K) <= y
  <2> HIDE DEF K
  <2> QED
    BY <1>1, <1>4, LeastElement
<1>6. Min(K) = Min(H)
  <2> DEFINE m == Min(H)  n == Min(K)
  <2>1. m \in Nat /\ n \in Nat /\ n <= m /\ m <= n
    <3> HIDE DEF H, K
    <3> QED
      BY <1>1, <1>2, <1>3, <1>4, <1>5
  <2> HIDE DEF m, n
  <2>2. m = n
    BY <2>1
  <2> QED
    BY <2>2 DEF m, n
<1>7. FindSlot(table2, cap, key, entries2) = (key + Min(K)) % cap
  BY DEF FindSlot
<1>8. FindSlot(table, cap, key, entries) = (key + Min(H)) % cap
  BY DEF FindSlot
<1> QED
  BY <1>4, <1>6, <1>7, <1>8

\* The entries of before that are there are found.
StillFound(table, cap, entries, table2, entries2) ==
  \A i \in Nat \ {0} :
    /\ entries[i].primkey \in Nat /\ entries2[i].primkey = entries[i].primkey
    /\ Found(table, cap, entries, i)
    => Found(table2, cap, entries2, i)

\* An entry goes to an empty slot where the probe of its key has stopped.
LEMMA EmptySlotFilled ==
  ASSUME NEW cap \in Nat \ {0}, NEW table \in [0 .. cap - 1 -> Nat], NEW key \in Nat,
         NEW entries, NEW entries2, NEW n \in Nat \ {0}, NEW slot, NEW table2,
         Hits(table, cap, key, entries) # {},
         slot = FindSlot(table, cap, key, entries), table[slot] = 0,
         Filled(table, cap, table2, slot, n), entries2[n].primkey = key,
         KeysKept(table, cap, entries, entries2)
  PROVE  /\ Found(table2, cap, entries2, n)
         /\ StillFound(table, cap, entries, table2, entries2)
<1>1. slot \in 0 .. cap - 1
  BY FindSlotStops
<1>2. table[slot] = 0
  OBVIOUS
<1>3. \A s \in 0 .. cap - 1 : table2[s] = IF s = slot THEN n ELSE table[s]
  BY DEF Filled
<1>4. ASSUME NEW k PROVE NoNewHits(table, entries, table2, entries2, cap, k)
  <2> SUFFICES ASSUME NEW s \in 0 .. cap - 1, Stops(table2, entries2, k, s)
               PROVE  Stops(table, entries, k, s)
    BY DEF NoNewHits
  <2>1. CASE s = slot
    BY <2>1, <1>2 DEF Stops
  <2>2. CASE s # slot
    <3>1. table2[s] = table[s]
      BY <2>2, <1>3
    <3> QED
      BY <3>1 DEF Stops, KeysKept
  <2> QED
    BY <2>1, <2>2
<1>5. Found(table2, cap, entries2, n)
  <2>1. Stops(table2, entries2, key, slot)
    BY <1>1, <1>3 DEF Stops
  <2>2. /\ Hits(table2, cap, key, entries2) # {}
        /\ FindSlot(table2, cap, key, entries2) = slot
    <3>1. NoNewHits(table, entries, table2, entries2, cap, key)
      BY <1>4
    <3>2. Stops(table2, entries2, key, FindSlot(table, cap, key, entries))
      BY <2>1
    <3> QED
      BY <3>1, <3>2, FirstHitKept
  <2> QED
    BY <2>2, <1>1, <1>3 DEF Found
<1>6. ASSUME NEW i \in Nat \ {0}, entries[i].primkey \in Nat,
             entries2[i].primkey = entries[i].primkey, Found(table, cap, entries, i)
      PROVE  Found(table2, cap, entries2, i)
  <2> DEFINE k == entries[i].primkey
             t == FindSlot(table, cap, k, entries)
  <2>1. Hits(table, cap, k, entries) # {} /\ table[t] = i
    BY <1>6 DEF Found
  <2>2. t \in 0 .. cap - 1
    BY <1>6, <2>1, FindSlotStops
  <2>3. t # slot
    BY <1>2, <2>1
  <2> HIDE DEF t
  <2>4. table2[t] = i
    BY <1>3, <2>1, <2>2, <2>3
  <2>5. Stops(table2, entries2, k, t)
    BY <1>6, <2>4 DEF Stops
  <2>6. /\ Hits(table2, cap, k, entries2) # {}
        /\ FindSlot(table2, cap, k, entries2) = t
    <3>1. Stops(table2, entries2, k, FindSlot(table, cap, k, entries))
      BY <2>5 DEF t
    <3>2. k \in Nat /\ Hits(table, cap, k, entries) # {}
      BY <1>6, <2>1
    <3>3. NoNewHits(table, entries, table2, entries2, cap, k)
      BY <1>4
    <3> HIDE DEF k
    <3> QED
      BY <3>1, <3>2, <3>3, FirstHitKept DEF t
  <2> QED
    BY <1>6, <2>4, <2>6 DEF Found
<1> QED
  BY <1>5, <1>6 DEF StillFound

\* An entry comes to the slot of its key, whether it was empty or the key's,
\* and the slots of the others name their entries at other positions.
SlotsKeep(table, cap, entries, table2, entries2, slot) ==
  \A s \in 0 .. cap - 1 : s # slot =>
    /\ table2[s] = 0 <=> table[s] = 0
    /\ table[s] # 0 => entries2[table2[s]].primkey = entries[table[s]].primkey

\* The keys that had an entry, but for one, are found where they were.
OthersFound(table, cap, entries, table2, entries2, key) ==
  \A k \in Nat :
    /\ k # key /\ Hits(table, cap, k, entries) # {}
    /\ table[FindSlot(table, cap, k, entries)] # 0
    => /\ Hits(table2, cap, k, entries2) # {}
       /\ FindSlot(table2, cap, k, entries2) = FindSlot(table, cap, k, entries)

LEMMA SlotTaken ==
  ASSUME NEW cap \in Nat \ {0}, NEW table \in [0 .. cap - 1 -> Nat], NEW key \in Nat,
         NEW entries, NEW table2, NEW entries2, NEW slot \in 0 .. cap - 1,
         slot = FindSlot(table, cap, key, entries),
         Hits(table, cap, key, entries) # {},
         table2[slot] # 0, entries2[table2[slot]].primkey = key,
         SlotsKeep(table, cap, entries, table2, entries2, slot)
  PROVE  /\ Hits(table2, cap, key, entries2) # {}
         /\ FindSlot(table2, cap, key, entries2) = slot
         /\ OthersFound(table, cap, entries, table2, entries2, key)
<1> USE DEF SlotsKeep
<1>1. Stops(table, entries, key, slot)
  BY FindSlotStops DEF Stops
<1>2. NoNewHits(table, entries, table2, entries2, cap, key)
  BY <1>1 DEF Stops, NoNewHits
<1>3. Stops(table2, entries2, key, slot)
  BY DEF Stops
<1>4. /\ Hits(table2, cap, key, entries2) # {}
      /\ FindSlot(table2, cap, key, entries2) = slot
  BY <1>2, <1>3, FirstHitKept
<1>5. ASSUME NEW k \in Nat, k # key, Hits(table, cap, k, entries) # {},
             table[FindSlot(table, cap, k, entries)] # 0
      PROVE  /\ Hits(table2, cap, k, entries2) # {}
             /\ FindSlot(table2, cap, k, entries2) = FindSlot(table, cap, k, entries)
  <2> DEFINE t == FindSlot(table, cap, k, entries)
  <2>1. t \in 0 .. cap - 1 /\ table[t] # 0 /\ entries[table[t]].primkey = k
    BY <1>5, FindSlotStops
  <2>2. t # slot
    BY <2>1, <1>1, <1>5 DEF Stops
  <2>3. Stops(table2, entries2, k, t)
    <3> HIDE DEF t
    <3> QED
      BY <2>1, <2>2 DEF Stops
  <2>4. NoNewHits(table, entries, table2, entries2, cap, k)
    BY <1>5 DEF Stops, NoNewHits
  <2> QED
    BY <1>5, <2>3, <2>4, FirstHitKept
<1> QED
  BY <1>4, <1>5 DEF OthersFound

-----------------------------------------------------------------------------
(***************************************************************************)
(* A table in which every entry is found.                                  *)
(***************************************************************************)
AllFound(table, cap, entries) ==
  \A i \in 1 .. Len(entries) : Found(table, cap, entries, i)

OneEach(entries) ==
  \A i, j \in 1 .. Len(entries) : entries[i].primkey = entries[j].primkey => i = j

Whole(table, cap, entries, slots) ==
  /\ cap \in Nat \ {0} /\ table \in [0 .. cap - 1 -> Nat]
  /\ entries \in Seq(Entry) /\ slots \in Seq(Nat) /\ Len(slots) = Len(entries)
  /\ Agree(table, cap, slots) /\ AllFound(table, cap, entries)

\* The keys are found each at the slot recorded for its entry.
LEMMA WhereFound ==
  ASSUME NEW table, NEW cap, NEW entries, NEW slots, Whole(table, cap, entries, slots)
  PROVE  /\ OneEach(entries)
         /\ \A i \in 1 .. Len(entries) :
              /\ entries[i] \in Entry /\ entries[i].primkey \in Nat
              /\ slots[i] \in 0 .. cap - 1 /\ table[slots[i]] = i
              /\ Hits(table, cap, entries[i].primkey, entries) # {}
              /\ FindSlot(table, cap, entries[i].primkey, entries) = slots[i]
<1> USE DEF Whole
<1>1. ASSUME NEW i \in 1 .. Len(entries)
      PROVE  /\ entries[i] \in Entry /\ entries[i].primkey \in Nat
             /\ slots[i] \in 0 .. cap - 1 /\ table[slots[i]] = i
             /\ Hits(table, cap, entries[i].primkey, entries) # {}
             /\ FindSlot(table, cap, entries[i].primkey, entries) = slots[i]
  <2> DEFINE k == entries[i].primkey
             t == FindSlot(table, cap, k, entries)
  <2>1. entries[i] \in Entry
    OBVIOUS
  <2>2. k \in Keys
    BY <2>1 DEF Entry
  <2>3. k \in Nat
    BY <2>2, TableAssumption DEF TableAssumption
  <2>4. Hits(table, cap, k, entries) # {} /\ table[t] = i
    BY DEF AllFound, Found
  <2>5. t \in 0 .. cap - 1
    BY <2>3, <2>4, FindSlotStops
  <2> HIDE DEF t
  <2>6. slots[i] = t
    BY <2>4, <2>5 DEF Agree
  <2> QED
    BY <2>1, <2>3, <2>4, <2>5, <2>6 DEF t
<1>2. OneEach(entries)
  <2> SUFFICES ASSUME NEW i \in 1 .. Len(entries), NEW j \in 1 .. Len(entries),
                      entries[i].primkey = entries[j].primkey
               PROVE  i = j
    BY DEF OneEach
  <2>1. slots[i] = slots[j]
    BY <1>1
  <2> QED
    BY <1>1, <2>1
<1> QED
  BY <1>1, <1>2

\* A key that is in no entry has an empty slot.
LEMMA NewKey ==
  ASSUME NEW table, NEW cap, NEW entries, NEW slots, Whole(table, cap, entries, slots),
         NEW key \in Nat, Hits(table, cap, key, entries) # {}, NEW slot, NEW idx,
         slot = FindSlot(table, cap, key, entries), idx = table[slot]
  PROVE  /\ idx = 0 => \A i \in 1 .. Len(entries) : entries[i].primkey # key
         /\ idx # 0 => /\ idx \in 1 .. Len(entries) /\ entries[idx].primkey = key
                       /\ \A i \in 1 .. Len(entries) : entries[i].primkey = key => i = idx
<1>1. slot \in 0 .. cap - 1 /\ (idx = 0 \/ entries[idx].primkey = key)
  BY FindSlotStops DEF Whole
<1>2. ASSUME NEW i \in 1 .. Len(entries), entries[i].primkey = key PROVE idx = i
  <2>1. table[FindSlot(table, cap, entries[i].primkey, entries)] = i
    BY DEF Whole, AllFound, Found
  <2> QED
    BY <1>2, <2>1
<1>3. idx # 0 => idx \in 1 .. Len(entries)
  BY <1>1 DEF Whole, Agree
<1> QED
  BY <1>1, <1>2, <1>3

\* The entries after an insertion that finds the old ones.
Appended(key, value) ==
  /\ \A i \in 1 .. Size : array[i].primkey # key
  /\ array' = Append(array, [primkey |-> key, payload |-> value])

Updated(key, value) ==
  \E idx \in 1 .. Size :
    /\ \A i \in 1 .. Size : array[i].primkey = key <=> i = idx
    /\ array' = [array EXCEPT ![idx] = [primkey |-> key, payload |-> value]]

LEMMA PlacedAtEnd ==
  ASSUME NEW table, NEW cap, Whole(table, cap, array, idxToSlot),
         NEW key \in Keys, NEW value \in Payloads,
         Hits(table, cap, key, array) # {},
         PlaceAtEnd(table, cap, key, value, FindSlot(table, cap, key, array))
  PROVE  /\ AllFound(hashToIdx', cap, array')
         /\ Appended(key, value) \/ Updated(key, value)
<1> DEFINE slot == FindSlot(table, cap, key, array)
           idx == table[slot]
           new == [primkey |-> key, payload |-> value]
<1>1. /\ key \in Nat /\ Size = Len(array) /\ Size \in Nat
      /\ cap \in Nat \ {0} /\ table \in [0 .. cap - 1 -> Nat]
      /\ array \in Seq(Entry) /\ Agree(table, cap, idxToSlot) /\ AllFound(table, cap, array)
      /\ Len(idxToSlot) = Len(array)
  BY TableAssumption DEF TableAssumption, Size, Whole
<1>2. new \in Entry
  BY DEF Entry
<1>3. \A i \in 1 .. Size : array[i] \in Entry /\ array[i].primkey \in Nat
  BY <1>1, WhereFound
<1>4. /\ idx = 0 => \A i \in 1 .. Size : array[i].primkey # key
      /\ idx # 0 => /\ idx \in 1 .. Size /\ array[idx].primkey = key
                    /\ \A i \in 1 .. Size : array[i].primkey = key => i = idx
  <2>1. /\ Whole(table, cap, array, idxToSlot) /\ Hits(table, cap, key, array) # {}
        /\ slot = FindSlot(table, cap, key, array) /\ idx = table[slot]
    OBVIOUS
  <2>2. key \in Nat /\ Size = Len(array)
    BY <1>1
  <2> HIDE DEF slot, idx
  <2> QED
    BY ONLY <2>1, <2>2, NewKey
<1>5. CASE idx = 0
  <2>1. /\ array' = Append(array, new)
        /\ hashToIdx' = [table EXCEPT ![slot] = Size + 1]
    BY <1>5 DEF PlaceAtEnd
  <2>2. \A i \in 1 .. Size : array[i].primkey # key
    BY <1>4, <1>5
  <2> HIDE DEF new
  <2>3. /\ Len(array') = Size + 1 /\ array'[Size + 1] = new
        /\ \A i \in 1 .. Size : array'[i] = array[i]
    BY <1>1, <1>2, <2>1
  <2>4. array'[Size + 1].primkey = key
    BY <2>3 DEF new
  <2> DEFINE entries2 == array'
  <2>5. KeysKept(table, cap, array, entries2)
    <3> SUFFICES ASSUME NEW s \in 0 .. cap - 1, table[s] # 0
                 PROVE  entries2[table[s]].primkey = array[table[s]].primkey
      BY DEF KeysKept
    <3>1. table[s] \in 1 .. Size
      BY <1>1 DEF Agree
    <3> QED
      BY <3>1, <2>3
  <2> DEFINE n == Size + 1
             table2 == [table EXCEPT ![slot] = n]
  <2>6. n \in Nat \ {0} /\ entries2[n].primkey = key
    BY <1>1, <2>4
  <2>7. /\ Found(table2, cap, entries2, n)
        /\ StillFound(table, cap, array, table2, entries2)
    <3>1. Filled(table, cap, table2, slot, n)
      <4> HIDE DEF slot, n
      <4> QED
        BY <1>1 DEF Filled
    <3> HIDE DEF n, entries2, slot, table2
    <3>2. slot = FindSlot(table, cap, key, array)
      BY DEF slot
    <3>3. table[slot] = 0
      BY <1>5
    <3> QED
      BY <1>1, <3>1, <3>2, <3>3, <2>5, <2>6, EmptySlotFilled
  <2>8. ASSUME NEW i \in 1 .. Size + 1 PROVE Found(table2, cap, entries2, i)
    <3>1. CASE i = Size + 1
      BY <3>1, <2>7
    <3>2. CASE i # Size + 1
      <4>1. i \in 1 .. Size /\ i \in Nat \ {0}
        BY <3>2, <1>1
      <4>2. array[i].primkey \in Nat /\ entries2[i].primkey = array[i].primkey
        BY <4>1, <1>3, <2>3
      <4>3. Found(table, cap, array, i)
        BY <4>1, <1>1 DEF AllFound
      <4> HIDE DEF table2, entries2, n
      <4> QED
        BY <2>7, <4>1, <4>2, <4>3 DEF StillFound
    <3> QED
      BY <3>1, <3>2
  <2>9. AllFound(table2, cap, entries2)
    BY <2>3, <2>8 DEF AllFound
  <2>10. AllFound(hashToIdx', cap, array')
    BY <2>1, <2>9
  <2>11. Appended(key, value)
    BY <2>1, <2>2 DEF Appended, new
  <2> QED
    BY <2>10, <2>11
<1>6. CASE idx # 0
  <2>1. /\ array' = [array EXCEPT ![idx] = [primkey |-> array[idx].primkey, payload |-> value]]
        /\ hashToIdx' = table
    BY <1>6 DEF PlaceAtEnd
  <2>2. /\ idx \in 1 .. Size /\ array[idx].primkey = key
        /\ \A i \in 1 .. Size : array[i].primkey = key => i = idx
    BY <1>4, <1>6
  <2> HIDE DEF idx
  <2>3. array' = [array EXCEPT ![idx] = new]
    BY <2>1, <2>2
  <2> HIDE DEF new
  <2>4. /\ Len(array') = Size
        /\ \A i \in 1 .. Size : array'[i] = IF i = idx THEN new ELSE array[i]
    BY <1>1, <1>2, <2>2, <2>3
  <2>5. new.primkey = key
    BY DEF new
  <2>6. \A i \in 1 .. Size : array'[i].primkey = array[i].primkey
    BY <2>2, <2>4, <2>5
  <2> DEFINE entries2 == array'
  <2>7. ASSUME NEW k, NEW s \in 0 .. cap - 1
        PROVE  Stops(table, entries2, k, s) <=> Stops(table, array, k, s)
    <3>1. table[s] # 0 => table[s] \in 1 .. Size
      BY <1>1 DEF Agree
    <3> QED
      BY <3>1, <2>6 DEF Stops
  <2>8. ASSUME NEW i \in 1 .. Size PROVE Found(table, cap, entries2, i)
    <3> DEFINE k == array[i].primkey
               t == FindSlot(table, cap, k, array)
    <3>1. k \in Nat /\ entries2[i].primkey = k
      BY <1>3, <2>6
    <3>2. Hits(table, cap, k, array) # {} /\ table[t] = i
      BY <1>1 DEF AllFound, Found
    <3>3. t \in 0 .. cap - 1
      BY <1>1, <3>1, <3>2, FindSlotStops
    <3> HIDE DEF t
    <3>4. Stops(table, entries2, k, t)
      BY <3>1, <3>2 DEF Stops
    <3>5. Stops(table, entries2, k, FindSlot(table, cap, k, array))
      BY <3>4 DEF t
    <3> HIDE DEF k, entries2
    <3>6. NoNewHits(table, array, table, entries2, cap, k)
      BY <2>7 DEF NoNewHits
    <3>7. /\ Hits(table, cap, k, entries2) # {}
          /\ FindSlot(table, cap, k, entries2) = t
      BY <1>1, <3>1, <3>2, <3>5, <3>6, FirstHitKept DEF t
    <3> QED
      BY <3>1, <3>2, <3>7 DEF Found
  <2>9. AllFound(table, cap, entries2)
    BY <2>4, <2>8 DEF AllFound
  <2>10. AllFound(hashToIdx', cap, array')
    BY <2>1, <2>9
  <2>11. Updated(key, value)
    BY <2>2, <2>3 DEF Updated, new
  <2> QED
    BY <2>10, <2>11
<1> QED
  BY <1>5, <1>6

\* The table in front of whose entries one is put: what is left when the key
\* was taken out.
Remaining(entries, slots, idx) ==
  /\ \A i \in 1 .. Len(entries) :
       \E j \in 1 .. Size : j # idx /\ entries[i] = array[j] /\ slots[i] = idxToSlot[j]
  /\ \A j \in 1 .. Size : j # idx =>
       \E i \in 1 .. Len(entries) : entries[i] = array[j] /\ slots[i] = idxToSlot[j]
  /\ \A i, j \in 1 .. Len(entries) : slots[i] = slots[j] => i = j

LEMMA ClosedRemaining ==
  ASSUME Whole(hashToIdx, capacity, array, idxToSlot), NEW idx \in 0 .. Size,
         NEW entries, NEW slots,
         entries = IF idx = 0 THEN array ELSE Closed(array, idx),
         slots = IF idx = 0 THEN idxToSlot ELSE Closed(idxToSlot, idx)
  PROVE  Remaining(entries, slots, idx)
<1>1. /\ array \in Seq(Entry) /\ idxToSlot \in Seq(Nat) /\ Len(idxToSlot) = Size
      /\ Size = Len(array) /\ Size \in Nat
  BY DEF Whole, Size
<1>2. \A i, j \in 1 .. Size : idxToSlot[i] = idxToSlot[j] => i = j
  <2> SUFFICES ASSUME NEW i \in 1 .. Size, NEW j \in 1 .. Size, idxToSlot[i] = idxToSlot[j]
               PROVE  i = j
    OBVIOUS
  <2>1. hashToIdx[idxToSlot[i]] = i /\ hashToIdx[idxToSlot[j]] = j
    BY <1>1, WhereFound
  <2> QED
    BY <2>1
<1>3. CASE idx = 0
  BY <1>1, <1>2, <1>3 DEF Remaining
<1>4. CASE idx # 0
  <2> DEFINE old(i) == IF i < idx THEN i ELSE i + 1
  <2>1. idx \in 1 .. Size /\ entries = Closed(array, idx) /\ slots = Closed(idxToSlot, idx)
    BY <1>1, <1>4
  <2>2. idx \in 1 .. Len(array) /\ idx \in 1 .. Len(idxToSlot)
    BY <1>1, <2>1
  <2>3. /\ Len(Closed(array, idx)) = Len(array) - 1
        /\ \A i \in 1 .. Len(array) - 1 :
             Closed(array, idx)[i] = IF i < idx THEN array[i] ELSE array[i + 1]
    BY ONLY <1>1, <2>2, ClosedProperties
  <2>4. \A i \in 1 .. Len(idxToSlot) - 1 :
          Closed(idxToSlot, idx)[i] = IF i < idx THEN idxToSlot[i] ELSE idxToSlot[i + 1]
    BY ONLY <1>1, <2>2, ClosedProperties
  <2>5. /\ Len(entries) = Size - 1
        /\ \A i \in 1 .. Size - 1 : entries[i] = IF i < idx THEN array[i] ELSE array[i + 1]
    BY <1>1, <2>1, <2>3
  <2>6. \A i \in 1 .. Size - 1 : slots[i] = IF i < idx THEN idxToSlot[i] ELSE idxToSlot[i + 1]
    BY <1>1, <2>1, <2>4
  <2>7. \A i \in 1 .. Size - 1 :
          /\ old(i) \in 1 .. Size /\ old(i) # idx
          /\ entries[i] = array[old(i)] /\ slots[i] = idxToSlot[old(i)]
    BY <1>1, <2>1, <2>5, <2>6
  <2>8. \A i \in 1 .. Len(entries) :
          \E j \in 1 .. Size : j # idx /\ entries[i] = array[j] /\ slots[i] = idxToSlot[j]
    BY <2>5, <2>7
  <2>9. ASSUME NEW j \in 1 .. Size, j # idx
        PROVE  \E i \in 1 .. Len(entries) : entries[i] = array[j] /\ slots[i] = idxToSlot[j]
    <3>1. CASE j < idx
      <4>1. j \in 1 .. Size - 1
        BY <3>1, <1>1, <2>1
      <4> QED
        BY <3>1, <4>1, <2>5, <2>6
    <3>2. CASE j > idx
      <4>1. j - 1 \in 1 .. Size - 1 /\ ~(j - 1 < idx) /\ (j - 1) + 1 = j
        BY <3>2, <1>1, <2>1
      <4> QED
        BY <4>1, <2>5, <2>6
    <3> QED
      BY <3>1, <3>2, <2>1, <2>9
  <2>10. ASSUME NEW i \in 1 .. Len(entries), NEW j \in 1 .. Len(entries), slots[i] = slots[j]
        PROVE  i = j
    <3>1. old(i) = old(j)
      <4> HIDE DEF old
      <4> QED
        BY SMTT(20), <1>2, <2>5, <2>7, <2>10
    <3>2. i \in Nat /\ j \in Nat /\ idx \in Nat
      BY <1>1, <2>1
    <3> QED
      BY <3>1, <3>2
  <2> QED
    BY <2>8, <2>9, <2>10 DEF Remaining
<1> QED
  BY <1>3, <1>4

\* hash_to_idx after all positions were moved up and the front was taken: each
\* slot names the entry it is recorded for.
Apart(slots, cap, slot) ==
  /\ \A i \in 1 .. Len(slots) : slots[i] \in 0 .. cap - 1 /\ slots[i] # slot
  /\ \A i, j \in 1 .. Len(slots) : slots[i] = slots[j] => i = j

Raised(up, slots, cap, slot) ==
  /\ up[slot] = 1
  /\ \A i \in 1 .. Len(slots) : up[slots[i]] = i + 1
  /\ \A s \in 0 .. cap - 1 :
       s # slot /\ (\A i \in 1 .. Len(slots) : slots[i] # s) => up[s] = 0

LEMMA RaisedSlots ==
  ASSUME NEW cap \in Nat \ {0}, NEW table \in [0 .. cap - 1 -> Nat],
         NEW slots \in Seq(Nat), NEW slot \in 0 .. cap - 1,
         AgreeBut(table, cap, slots, slot),
         Apart(slots, cap, slot),
         NEW up, up = [ShiftedUp(table, cap, slots) EXCEPT ![slot] = 1]
  PROVE  Raised(up, slots, cap, slot)
<1> USE DEF Apart
<1> DEFINE owners(s) == {i \in 1 .. Len(slots) : slots[i] = s}
           raised == ShiftedUp(table, cap, slots)
<1>1. raised = [s \in 0 .. cap - 1 |->
                  IF owners(s) = {} THEN table[s] ELSE Min(owners(s)) + 1]
  BY DEF ShiftedUp
<1>2. up = [raised EXCEPT ![slot] = 1]
  OBVIOUS
<1> HIDE DEF raised
<1>3. up[slot] = 1 /\ \A s \in 0 .. cap - 1 : s # slot => up[s] = raised[s]
  BY <1>1, <1>2
<1>4. ASSUME NEW i \in 1 .. Len(slots) PROVE up[slots[i]] = i + 1
  <2>1. owners(slots[i]) = {i}
    OBVIOUS
  <2>2. Min({i}) = i
    <3>1. {i} \in SUBSET Nat /\ {i} # {}
      OBVIOUS
    <3> QED
      BY <3>1, LeastElement
  <2>3. owners(slots[i]) # {} /\ Min(owners(slots[i])) = i
    BY <2>1, <2>2
  <2> HIDE DEF owners
  <2>4. raised[slots[i]] = i + 1
    BY <1>1, <2>3
  <2> QED
    BY <1>3, <2>4
<1>5. ASSUME NEW s \in 0 .. cap - 1, s # slot, \A i \in 1 .. Len(slots) : slots[i] # s
      PROVE  up[s] = 0
  <2>1. owners(s) = {}
    BY <1>5
  <2>2. raised[s] = table[s]
    <3> HIDE DEF owners
    <3> QED
      BY <1>1, <2>1
  <2>3. table[s] = 0
    <3> SUFFICES ASSUME table[s] # 0 PROVE FALSE
      OBVIOUS
    <3>1. table[s] \in 1 .. Len(slots) /\ slots[table[s]] = s
      BY <1>5 DEF AgreeBut
    <3> QED
      BY <3>1, <1>5
  <2> QED
    BY <1>3, <1>5, <2>2, <2>3
<1> QED
  BY <1>3, <1>4, <1>5 DEF Raised

\* The entries after an insertion in front.
InFrontOf(key, value) ==
  \/ /\ \A i \in 1 .. Size : array[i].primkey # key
     /\ array' = <<[primkey |-> key, payload |-> value]>> \o array
  \/ \E idx \in 1 .. Size :
       /\ \A i \in 1 .. Size : array[i].primkey = key <=> i = idx
       /\ array' = <<[primkey |-> key, payload |-> value]>> \o Closed(array, idx)

LEMMA PlacedAtFront ==
  ASSUME Sound, AllFound(hashToIdx, capacity, array), Sound', capacity' = capacity,
         NEW key \in Keys, NEW value \in Payloads, NEW slot, NEW idx,
         NEW entries, NEW slots, NEW table,
         Hits(hashToIdx, capacity, key, array) # {},
         slot = FindSlot(hashToIdx, capacity, key, array), idx = hashToIdx[slot],
         entries = IF idx = 0 THEN array ELSE Closed(array, idx),
         slots = IF idx = 0 THEN idxToSlot ELSE Closed(idxToSlot, idx),
         Vacated(entries, slots, table, slot),
         PlaceAtFront(entries, slots, table, capacity, key, value, slot)
  PROVE  AllFound(hashToIdx', capacity, array') /\ InFrontOf(key, value)
<1> DEFINE new == [primkey |-> key, payload |-> value]
           table2 == hashToIdx'
           entries2 == array'
<1>1. /\ key \in Nat /\ Size = Len(array) /\ Size \in Nat
      /\ capacity \in Nat \ {0} /\ hashToIdx \in [0 .. capacity - 1 -> Nat]
      /\ array \in Seq(Entry) /\ Agree(hashToIdx, capacity, idxToSlot)
      /\ idxToSlot \in Seq(Nat) /\ Len(idxToSlot) = Len(array)
  BY TableAssumption DEF TableAssumption, Size, Sound, Slots
<1>2. /\ Hits(hashToIdx, capacity, key, array) # {}
      /\ slot = FindSlot(hashToIdx, capacity, key, array) /\ idx = hashToIdx[slot]
  OBVIOUS
<1>3. Whole(hashToIdx, capacity, array, idxToSlot)
  BY <1>1 DEF Whole
<1>4. /\ slot \in 0 .. capacity - 1
      /\ idx = 0 \/ array[idx].primkey = key
  BY <1>1, FindSlotStops
<1>5. /\ idx = 0 => \A i \in 1 .. Size : array[i].primkey # key
      /\ idx # 0 => /\ idx \in 1 .. Size /\ array[idx].primkey = key
                    /\ \A i \in 1 .. Size : array[i].primkey = key => i = idx
  <2>1. key \in Nat /\ Size = Len(array)
    BY <1>1
  <2> QED
    BY ONLY <1>2, <1>3, <2>1, NewKey
<1>6. idx \in 0 .. Size /\ \A i \in 1 .. Size : i # idx => array[i].primkey # key
  BY ONLY <1>1, <1>5
<1>7. Remaining(entries, slots, idx)
  BY <1>3, <1>6, ClosedRemaining
<1>8. /\ entries \in Seq(Entry) /\ slots \in Seq(Nat) /\ Len(slots) = Len(entries)
      /\ table \in [0 .. capacity - 1 -> Nat] /\ AgreeBut(table, capacity, slots, slot)
  BY DEF Vacated
<1>9. /\ array' = <<new>> \o entries
      /\ hashToIdx' = [ShiftedUp(table, capacity, slots) EXCEPT ![slot] = 1]
  BY DEF PlaceAtFront
<1>10. \A j \in 1 .. Size :
        /\ array[j] \in Entry /\ array[j].primkey \in Nat
        /\ idxToSlot[j] \in 0 .. capacity - 1 /\ hashToIdx[idxToSlot[j]] = j
        /\ Hits(hashToIdx, capacity, array[j].primkey, array) # {}
        /\ FindSlot(hashToIdx, capacity, array[j].primkey, array) = idxToSlot[j]
  BY <1>1, <1>3, WhereFound
<1>11. \A i \in 1 .. Len(slots) : slots[i] \in 0 .. capacity - 1 /\ slots[i] # slot
  <2> SUFFICES ASSUME NEW i \in 1 .. Len(entries)
               PROVE  slots[i] \in 0 .. capacity - 1 /\ slots[i] # slot
    BY <1>8
  <2>1. PICK j \in 1 .. Size : j # idx /\ slots[i] = idxToSlot[j]
    BY <1>7 DEF Remaining
  <2> QED
    BY <2>1, <1>10
<1>12. \A i, j \in 1 .. Len(slots) : slots[i] = slots[j] => i = j
  BY <1>7, <1>8 DEF Remaining
<1>13. Apart(slots, capacity, slot)
  BY <1>11, <1>12 DEF Apart
<1>14. Raised(table2, slots, capacity, slot)
  <2> HIDE DEF table2
  <2>1. table2 = [ShiftedUp(table, capacity, slots) EXCEPT ![slot] = 1]
    BY <1>9 DEF table2
  <2> QED
    BY ONLY <1>1, <1>4, <1>8, <1>13, <2>1, RaisedSlots
<1>15. new \in Entry
  BY DEF Entry
<1>16. /\ Len(entries2) = Len(entries) + 1 /\ entries2[1] = new
       /\ \A i \in 1 .. Len(entries) : entries2[i + 1] = entries[i]
  <2> HIDE DEF new
  <2> QED
    BY <1>8, <1>9, <1>15, InFront
<1>17. entries2[1].primkey = key
  BY <1>16
<1> HIDE DEF new, table2, entries2
<1> USE DEF Raised
<1>18. ASSUME NEW s \in 0 .. capacity - 1, s # slot
       PROVE  /\ table2[s] = 0 <=> hashToIdx[s] = 0
              /\ hashToIdx[s] # 0 => entries2[table2[s]].primkey = array[hashToIdx[s]].primkey
  <2>1. CASE hashToIdx[s] = 0
    <3>1. \A i \in 1 .. Len(slots) : slots[i] # s
      <4> SUFFICES ASSUME NEW i \in 1 .. Len(entries) PROVE slots[i] # s
        BY <1>8
      <4>1. PICK j \in 1 .. Size : slots[i] = idxToSlot[j]
        BY <1>7 DEF Remaining
      <4> QED
        BY <2>1, <4>1, <1>10
    <3> QED
      BY <2>1, <3>1, <1>14, <1>18
  <2>2. CASE hashToIdx[s] # 0
    <3>1. hashToIdx[s] \in 1 .. Size /\ idxToSlot[hashToIdx[s]] = s
      BY <2>2, <1>1 DEF Agree
    <3>2. hashToIdx[s] # idx
      <4> SUFFICES ASSUME hashToIdx[s] = idx PROVE FALSE
        OBVIOUS
      <4>1. idx # 0 /\ idxToSlot[idx] = s
        BY <2>2, <3>1
      <4>2. idxToSlot[idx] = slot
        BY <4>1, <1>1, <1>4 DEF Agree
      <4> QED
        BY <4>1, <4>2, <1>18
    <3>3. PICK i \in 1 .. Len(entries) : entries[i] = array[hashToIdx[s]] /\ slots[i] = s
      BY SMTT(20), <3>1, <3>2, <1>7 DEF Remaining
    <3>4. table2[s] = i + 1
      BY <3>3, <1>8, <1>14
    <3>5. entries2[i + 1] = array[hashToIdx[s]] /\ i + 1 # 0
      BY <3>3, <1>16
    <3> QED
      BY <2>2, <3>4, <3>5
  <2> QED
    BY <2>1, <2>2
<1>19. SlotsKeep(hashToIdx, capacity, array, table2, entries2, slot)
  BY <1>18 DEF SlotsKeep
<1>20. /\ Hits(table2, capacity, key, entries2) # {}
       /\ FindSlot(table2, capacity, key, entries2) = slot
       /\ OthersFound(hashToIdx, capacity, array, table2, entries2, key)
  <2>1. table2[slot] # 0 /\ entries2[table2[slot]].primkey = key
    BY <1>14, <1>17
  <2>2. /\ key \in Nat /\ capacity \in Nat \ {0} /\ hashToIdx \in [0 .. capacity - 1 -> Nat]
        /\ slot \in 0 .. capacity - 1
    BY <1>1, <1>4
  <2> QED
    BY ONLY <1>2, <1>19, <2>1, <2>2, SlotTaken
<1>21. ASSUME NEW p \in 1 .. Len(entries) + 1 PROVE Found(table2, capacity, entries2, p)
  <2>1. CASE p = 1
    BY <2>1, <1>14, <1>17, <1>20 DEF Found
  <2>2. CASE p # 1
    <3>1. p - 1 \in 1 .. Len(entries) /\ (p - 1) + 1 = p
      BY <2>2, <1>8
    <3>2. PICK j \in 1 .. Size :
            j # idx /\ entries[p - 1] = array[j] /\ slots[p - 1] = idxToSlot[j]
      BY <3>1, <1>7 DEF Remaining
    <3> DEFINE k == array[j].primkey
    <3>3. k \in Nat /\ k # key /\ entries2[p].primkey = k
      BY <3>1, <3>2, <1>6, <1>10, <1>16
    <3>4. /\ Hits(hashToIdx, capacity, k, array) # {}
          /\ FindSlot(hashToIdx, capacity, k, array) = idxToSlot[j]
          /\ hashToIdx[idxToSlot[j]] # 0
      BY <1>10
    <3> HIDE DEF k
    <3>5. /\ Hits(table2, capacity, k, entries2) # {}
          /\ FindSlot(table2, capacity, k, entries2) = idxToSlot[j]
      BY <3>3, <3>4, <1>20 DEF OthersFound
    <3>6. table2[idxToSlot[j]] = p
      BY <3>1, <3>2, <1>8, <1>14
    <3> QED
      BY <3>3, <3>5, <3>6 DEF Found
  <2> QED
    BY <2>1, <2>2
<1>22. AllFound(hashToIdx', capacity, array')
  BY <1>16, <1>21 DEF AllFound, table2, entries2
<1>23. InFrontOf(key, value)
  <2>1. CASE idx = 0
    BY <2>1, <1>5, <1>9 DEF InFrontOf, new
  <2>2. CASE idx # 0
    <3>1. array' = <<new>> \o Closed(array, idx)
      BY <2>2, <1>9
    <3>2. idx \in 1 .. Size /\ \A i \in 1 .. Size : array[i].primkey = key <=> i = idx
      BY <2>2, <1>5
    <3> QED
      BY <3>1, <3>2 DEF InFrontOf, new
  <2> QED
    BY <2>1, <2>2
<1> QED
  BY <1>22, <1>23

-----------------------------------------------------------------------------
(***************************************************************************)
(* The steps of the two owners are those of the table.                     *)
(***************************************************************************)
LEMMA SameSlots ==
  ASSUME NEW table, NEW cap, NEW key, NEW entries
  PROVE  /\ Shard!Hits(table, cap, key, entries) = Hits(table, cap, key, entries)
         /\ Shard!FindSlot(table, cap, key, entries) = FindSlot(table, cap, key, entries)
         /\ Recents!Hits(table, cap, key, entries) = Hits(table, cap, key, entries)
         /\ Recents!FindSlot(table, cap, key, entries) = FindSlot(table, cap, key, entries)
<1>1. /\ Shard!Hits(table, cap, key, entries) = Hits(table, cap, key, entries)
      /\ Recents!Hits(table, cap, key, entries) = Hits(table, cap, key, entries)
  BY DEF Shard!Hits, Recents!Hits, Hits
<1>2. ASSUME NEW S PROVE Shard!Min(S) = Min(S) /\ Recents!Min(S) = Min(S)
  BY DEF Shard!Min, Recents!Min, Min
<1> QED
  BY <1>1, <1>2 DEF Shard!FindSlot, Recents!FindSlot, FindSlot

LEMMA ShardSteps ==
  ASSUME NEW key, NEW value
  PROVE  /\ Shard!HtInsert(key, value) => Inserts(key, value)
         /\ Shard!RehashOne => RehashOne
         /\ Shard!FinishInsert => FinishInsert
<1>1. Shard!HtInsert(key, value) => Inserts(key, value)
  BY SameSlots DEF Shard!HtInsert, Inserts, Shard!Enter, Shard!NeedsResize, NeedsResize,
     Shard!StartResize, StartResize, Shard!PlaceAtEnd, PlaceAtEnd, Shard!Size, Size, Shard!GrownArray, GrownArray
<1>2. Shard!RehashOne => RehashOne
  <2>1. Shard!FindSlot(fresh, 2 * capacity, array[next].primkey, array)
          = FindSlot(fresh, 2 * capacity, array[next].primkey, array)
    BY SameSlots
  <2> QED
    BY <2>1 DEF Shard!RehashOne, RehashOne, Shard!Size, Size
<1>3. Shard!FinishInsert => FinishInsert
  BY SameSlots DEF Shard!FinishInsert, FinishInsert, Shard!Size, Size, Shard!PlaceAtEnd, PlaceAtEnd,
     Shard!GrownArray, GrownArray, Shard!ReturnFromCall, ReturnFromCall, Shard!NoCall, NoCall
<1> QED
  BY <1>1, <1>2, <1>3

LEMMA RecentsSteps ==
  ASSUME NEW key, NEW value
  PROVE  /\ Recents!HtInsert(key, value) => Inserts(key, value)
         /\ Recents!HtInsertShift(key, value) => InsertsInFront(key, value)
<1>1. Recents!HtInsert(key, value) => Inserts(key, value)
  BY SameSlots
     DEF Recents!HtInsert, Inserts, Recents!Enter, Recents!NeedsResize, NeedsResize,
         Recents!StartResize, StartResize, Recents!PlaceAtEnd, PlaceAtEnd, Recents!Size, Size,
         Recents!GrownArray, GrownArray
<1>2. ASSUME NEW s, NEW i
      PROVE  /\ Recents!Closed(s, i) = Closed(s, i)
             /\ Recents!ShiftedDown(i) = ShiftedDown(i)
  <2>1. Recents!Closed(s, i) = Closed(s, i)
    BY DEF Recents!Closed, Closed, Recents!RemoveAt, RemoveAt
  <2>2. ASSUME NEW S PROVE Recents!Max(S) = Max(S)
    BY DEF Recents!Max, Max
  <2>3. Recents!ShiftedDown(i) = ShiftedDown(i)
    BY <2>2 DEF Recents!ShiftedDown, ShiftedDown, Recents!Size, Size, Recents!Slots, Slots
  <2> QED
    BY <2>1, <2>3
<1>3. ASSUME NEW table, NEW cap, NEW slots
      PROVE  Recents!ShiftedUp(table, cap, slots) = ShiftedUp(table, cap, slots)
  <2>1. ASSUME NEW S PROVE Recents!Min(S) = Min(S)
    BY DEF Recents!Min, Min
  <2> QED
    BY <2>1 DEF Recents!ShiftedUp, ShiftedUp
<1>4. ASSUME NEW entries, NEW slots, NEW table, NEW cap, NEW slot
      PROVE  Recents!PlaceAtFront(entries, slots, table, cap, key, value, slot)
               <=> PlaceAtFront(entries, slots, table, cap, key, value, slot)
  BY <1>3 DEF Recents!PlaceAtFront, PlaceAtFront, Recents!GrownArray, GrownArray
<1>5. Recents!HtInsertShift(key, value) => InsertsInFront(key, value)
  BY SameSlots, <1>2, <1>4
     DEF Recents!HtInsertShift, InsertsInFront, Recents!Enter, Recents!NeedsResize, NeedsResize,
         Recents!StartResize, StartResize
<1> QED
  BY <1>1, <1>5

-----------------------------------------------------------------------------
(***************************************************************************)
(* The invariant of the tables in use.                                     *)
(***************************************************************************)
\* Inside resize_hash, the entries already moved are found in the new table.
Moved ==
  /\ OneEach(array)
  /\ \A i \in 1 .. next - 1 : Found(fresh, 2 * capacity, array, i)

InUse ==
  /\ IInv
  /\ pc = "idle" => AllFound(hashToIdx, capacity, array)
  /\ owner = "shard" /\ pc = "rehash" => Moved

TablesInv ==
  /\ owner \in {"shard", "recents", "any"}
  /\ owner # "any" => InUse

LEMMA FirstCapacity ==
  /\ Shard!NextPowerOfTwo(ShardCapacity) \in Nat \ {0}
  /\ Recents!NextPowerOfTwo(RecentCapacity) \in Nat \ {0}
<1>1. ASSUME NEW c, c \in {ShardCapacity, RecentCapacity}
      PROVE  Min({p \in PowersOfTwo : p >= c}) \in Nat \ {0}
  <2> DEFINE S == {p \in PowersOfTwo : p >= c}
  <2>1. S # {} /\ S \subseteq PowersOfTwo
    BY <1>1, TablesAssumption, PowersOfTwoArePositive DEF TablesAssumption
  <2>2. S \in SUBSET Nat
    BY <2>1, PowersOfTwoArePositive
  <2> HIDE DEF S
  <2>3. Min(S) \in S
    BY <2>1, <2>2, LeastElement
  <2> QED
    BY <2>1, <2>3, PowersOfTwoArePositive DEF S
<1>2. ASSUME NEW S PROVE Shard!Min(S) = Min(S) /\ Recents!Min(S) = Min(S)
  BY DEF Shard!Min, Recents!Min, Min
<1>3. Shard!PowersOfTwo = PowersOfTwo /\ Recents!PowersOfTwo = PowersOfTwo
  BY DEF Shard!PowersOfTwo, Recents!PowersOfTwo, PowersOfTwo
<1> QED
  BY <1>1, <1>2, <1>3 DEF Shard!NextPowerOfTwo, Recents!NextPowerOfTwo

LEMMA TablesInitHolds == TablesInit => TablesInv
<1> SUFFICES ASSUME TablesInit, owner # "any" PROVE InUse /\ owner \in {"shard", "recents"}
  BY DEF TablesInit, TablesInv
<1>1. /\ array = <<>> /\ idxToSlot = <<>> /\ pc = "idle" /\ call = NoCall
      /\ fresh = <<>> /\ next = 1 /\ arrayCapacity = capacity
      /\ capacity \in Nat \ {0} /\ hashToIdx = [s \in Slots |-> 0]
      /\ owner \in {"shard", "recents"}
  BY FirstCapacity
     DEF TablesInit, Shard!Init, Recents!Init, Shard!Slots, Recents!Slots, Slots,
         Shard!NoCall, Recents!NoCall, NoCall
<1>2. Size = 0
  BY <1>1 DEF Size
<1>3. Sound
  BY <1>1, <1>2 DEF Sound, Agree, Slots
<1>4. SizeFits
  BY <1>1, <1>2 DEF SizeFits
<1>5. IInv
  BY <1>1, <1>3, <1>4 DEF IInv
<1>6. AllFound(hashToIdx, capacity, array)
  BY <1>1 DEF AllFound
<1> QED
  BY <1>1, <1>5, <1>6 DEF InUse

\* One turn of the loop of resize_hash.
LEMMA MovesOne ==
  ASSUME IInv, RehashOne, Moved
  PROVE  Moved'
<1> DEFINE cap  == 2 * capacity
           key  == array[next].primkey
           slot == FindSlot(fresh, cap, key, array)
<1>1. /\ pc = "rehash" /\ Rehashing /\ SizeFits /\ next <= Size
      /\ fresh' = [fresh EXCEPT ![slot] = next]
      /\ next' = next + 1 /\ array' = array /\ capacity' = capacity
  BY DEF RehashOne, IInv
<1>2. /\ array \in Seq(Entry) /\ Size = Len(array) /\ Size \in Nat
      /\ next \in 1 .. Size /\ next \in Nat \ {0}
      /\ idxToSlot \in Seq(Nat) /\ Len(idxToSlot) = Size
      /\ fresh \in [0 .. cap - 1 -> Nat]
      /\ \A s \in 0 .. cap - 1 : fresh[s] # 0 => fresh[s] < next
  BY <1>1 DEF Rehashing, Size
<1>3. \A i \in 1 .. Size : array[i].primkey \in Nat
  <2> SUFFICES ASSUME NEW i \in 1 .. Size PROVE array[i].primkey \in Nat
    OBVIOUS
  <2>1. array[i] \in Entry
    BY <1>2
  <2>2. array[i].primkey \in Keys
    BY <2>1 DEF Entry
  <2> QED
    BY <2>2, TableAssumption DEF TableAssumption
<1>4. key \in Nat
  BY <1>2, <1>3
<1> HIDE DEF key
<1>5. Agree(fresh, cap, idxToSlot) /\ Size < cap /\ cap \in Nat \ {0}
  BY <1>1, <1>4, FreshStops
<1>6. Hits(fresh, cap, key, array) # {}
  BY <1>2, <1>4, <1>5, ProbeStops
<1> HIDE DEF cap
<1>7. slot \in 0 .. cap - 1 /\ (fresh[slot] = 0 \/ array[fresh[slot]].primkey = key)
  BY <1>2, <1>4, <1>5, <1>6, FindSlotStops
<1> HIDE DEF slot
<1>8. fresh[slot] = 0
  <2> SUFFICES ASSUME fresh[slot] # 0 PROVE FALSE
    OBVIOUS
  <2>1. fresh[slot] \in 1 .. Size /\ fresh[slot] < next
    BY <1>2, <1>7
  <2>2. array[fresh[slot]].primkey = array[next].primkey
    BY <1>7 DEF key
  <2>3. fresh[slot] = next
    BY <1>2, <2>1, <2>2 DEF Moved, OneEach
  <2> QED
    BY <2>1, <2>3, <1>2
<1> DEFINE fresh2 == fresh'
<1>9. Filled(fresh, cap, fresh2, slot, next)
  BY <1>1, <1>2 DEF Filled
<1>10. KeysKept(fresh, cap, array, array)
  BY DEF KeysKept
<1> HIDE DEF fresh2
<1>11. Found(fresh2, cap, array, next) /\ StillFound(fresh, cap, array, fresh2, array)
  <2>1. slot = FindSlot(fresh, cap, key, array) /\ array[next].primkey = key
    BY DEF slot, key
  <2> QED
    BY ONLY <1>2, <1>4, <1>5, <1>6, <1>8, <1>9, <1>10, <2>1, EmptySlotFilled
<1>12. ASSUME NEW i \in 1 .. next PROVE Found(fresh2, cap, array, i)
  <2>1. CASE i = next
    BY <2>1, <1>11
  <2>2. CASE i # next
    <3>1. i \in 1 .. next - 1 /\ i \in Nat \ {0} /\ i \in 1 .. Size
      BY <2>2, <1>2
    <3>2. Found(fresh, cap, array, i)
      BY <3>1 DEF Moved, cap
    <3>3. array[i].primkey \in Nat
      BY <3>1, <1>3
    <3> QED
      BY <3>1, <3>2, <3>3, <1>11 DEF StillFound
  <2> QED
    BY <2>1, <2>2
<1>13. next' - 1 = next
  BY <1>1, <1>2
<1>14. \A i \in 1 .. next' - 1 : Found(fresh', 2 * capacity', array', i)
  BY <1>1, <1>12, <1>13 DEF fresh2, cap
<1>15. OneEach(array')
  BY <1>1 DEF Moved
<1> QED
  BY <1>14, <1>15 DEF Moved

LEMMA IdleWhole ==
  ASSUME InUse, pc = "idle"
  PROVE  Whole(hashToIdx, capacity, array, idxToSlot) /\ OneEach(array) /\ Sound
<1>1. Sound
  <2>1. pc # "rehash"
    OBVIOUS
  <2> QED
    BY <2>1, Zenon DEF InUse, IInv
<1>2. Whole(hashToIdx, capacity, array, idxToSlot)
  BY <1>1 DEF InUse, Sound, Slots, Size, Whole
<1> QED
  BY <1>1, <1>2, WhereFound

LEMMA InsertStep ==
  ASSUME InUse, NEW key \in Keys, NEW value \in Payloads, Inserts(key, value)
  PROVE  InUse' /\ (array' = array \/ Appended(key, value) \/ Updated(key, value))
<1>1. pc = "idle" /\ IInv' /\ Whole(hashToIdx, capacity, array, idxToSlot) /\ OneEach(array)
  BY HtInsertHolds, IdleWhole DEF Inserts, InUse
<1>2. CASE NeedsResize(Size)
  <2>1. array' = array /\ pc' = "rehash" /\ next' = 1
    BY <1>2 DEF Inserts, StartResize
  <2>2. Moved'
    <3>1. OneEach(array')
      BY <1>1, <2>1 DEF OneEach
    <3>2. next' - 1 = 0
      BY <2>1
    <3> QED
      BY <3>1, <3>2 DEF Moved
  <2> QED
    BY <1>1, <2>1, <2>2 DEF InUse
<1>3. CASE ~NeedsResize(Size)
  <2>1. /\ Hits(hashToIdx, capacity, key, array) # {} /\ pc' = pc
        /\ PlaceAtEnd(hashToIdx, capacity, key, value,
                      FindSlot(hashToIdx, capacity, key, array))
    BY <1>3 DEF Inserts
  <2>2. /\ AllFound(hashToIdx', capacity, array')
        /\ Appended(key, value) \/ Updated(key, value)
    BY <1>1, <2>1, PlacedAtEnd
  <2>3. capacity' = capacity
    BY <2>1 DEF PlaceAtEnd
  <2> QED
    BY <1>1, <2>1, <2>2, <2>3 DEF InUse
<1> QED
  BY <1>2, <1>3

LEMMA MoveStep ==
  ASSUME InUse, owner = "shard", owner' = owner, RehashOne
  PROVE  InUse' /\ array' = array
<1>1. pc = "rehash" /\ pc' = pc /\ array' = array
  BY DEF RehashOne
<1>2. IInv' /\ Moved'
  BY <1>1, RehashOneHolds, MovesOne DEF InUse
<1> QED
  BY <1>1, <1>2 DEF InUse

LEMMA FinishStep ==
  ASSUME InUse, owner = "shard", FinishInsert
  PROVE  /\ InUse'
         /\ \E key \in Keys, value \in Payloads : Appended(key, value) \/ Updated(key, value)
<1> DEFINE cap == 2 * capacity
<1>1. /\ pc = "rehash" /\ next > Size /\ Rehashing /\ SizeFits /\ Moved /\ IInv'
      /\ PlaceAtEnd(fresh, cap, call.key, call.payload, FindSlot(fresh, cap, call.key, array))
      /\ pc' = "idle"
  BY FinishInsertHolds DEF FinishInsert, ReturnFromCall, InUse, IInv
<1>2. /\ array \in Seq(Entry) /\ idxToSlot \in Seq(Nat) /\ Len(idxToSlot) = Size
      /\ Size = Len(array) /\ Size \in Nat /\ Size < cap
      /\ cap \in Nat \ {0} /\ fresh \in [0 .. cap - 1 -> Nat]
      /\ Agree(fresh, cap, idxToSlot) /\ next \in 1 .. Size + 1
      /\ call.key \in Keys /\ call.key \in Nat /\ call.payload \in Payloads
  BY <1>1, Rehashed, FreshStops DEF Rehashing
<1>3. AllFound(fresh, cap, array)
  <2>1. next - 1 = Size
    BY <1>1, <1>2
  <2> QED
    BY <1>1, <1>2, <2>1 DEF Moved, AllFound
<1>4. Whole(fresh, cap, array, idxToSlot)
  BY <1>2, <1>3 DEF Whole
<1>5. Hits(fresh, cap, call.key, array) # {}
  BY <1>2, ProbeStops
<1> HIDE DEF cap
<1>6. /\ AllFound(hashToIdx', cap, array')
      /\ Appended(call.key, call.payload) \/ Updated(call.key, call.payload)
  BY <1>1, <1>2, <1>4, <1>5, PlacedAtEnd
<1>7. capacity' = cap
  BY <1>1 DEF PlaceAtEnd
<1>8. InUse'
  BY <1>1, <1>6, <1>7 DEF InUse
<1> QED
  BY <1>2, <1>6, <1>8

\* ht_insert_shift takes the entry of its key out before it may have to resize.
TakenOut(key) ==
  \E idx \in 1 .. Size :
    /\ \A i \in 1 .. Size : array[i].primkey = key <=> i = idx
    /\ array' = Closed(array, idx)

LEMMA InFrontStep ==
  ASSUME InUse, owner' = "recents",
         NEW key \in Keys, NEW value \in Payloads, InsertsInFront(key, value)
  PROVE  InUse' /\ (array' = array \/ TakenOut(key) \/ InFrontOf(key, value))
<1> DEFINE slot    == FindSlot(hashToIdx, capacity, key, array)
           idx     == hashToIdx[slot]
           entries == IF idx = 0 THEN array ELSE Closed(array, idx)
           slots   == IF idx = 0 THEN idxToSlot ELSE Closed(idxToSlot, idx)
           table   == IF idx = 0 THEN hashToIdx ELSE ShiftedDown(idx)
<1>1. /\ pc = "idle" /\ IInv' /\ Whole(hashToIdx, capacity, array, idxToSlot)
      /\ Sound /\ AllFound(hashToIdx, capacity, array)
      /\ Hits(hashToIdx, capacity, key, array) # {}
      /\ key \in Nat /\ Size = Len(array)
  BY HtInsertShiftHolds, IdleWhole, TableAssumption
     DEF InsertsInFront, InUse, TableAssumption, Size
<1>2. CASE NeedsResize(Len(entries))
  <2>1. array' = entries /\ pc' = "rehash"
    BY <1>2 DEF InsertsInFront, StartResize
  <2>2. array' = array \/ TakenOut(key)
    <3>1. CASE idx = 0
      BY <2>1, <3>1
    <3>2. CASE idx # 0
      <4>1. array' = Closed(array, idx)
        BY <2>1, <3>2
      <4> HIDE DEF slot
      <4>2. slot = FindSlot(hashToIdx, capacity, key, array) /\ idx = hashToIdx[slot]
        BY DEF slot
      <4> HIDE DEF idx
      <4>3. /\ idx \in 1 .. Size /\ array[idx].primkey = key
            /\ \A i \in 1 .. Size : array[i].primkey = key => i = idx
        BY ONLY <1>1, <3>2, <4>2, NewKey
      <4> QED
        BY <4>1, <4>3 DEF TakenOut
    <3> QED
      BY <3>1, <3>2
  <2> QED
    BY <1>1, <2>1, <2>2 DEF InUse
<1>3. CASE ~NeedsResize(Len(entries))
  <2>1. /\ PlaceAtFront(entries, slots, table, capacity, key, value, slot)
        /\ pc' = pc
    BY <1>3 DEF InsertsInFront
  <2>2. Vacated(entries, slots, table, slot)
    BY <1>1, VacatedHolds
  <2>3. capacity' = capacity
    BY <2>1 DEF PlaceAtFront
  <2>4. Sound'
    <3>1. pc' # "rehash"
      BY <1>1, <2>1
    <3> QED
      BY <1>1, <3>1, Zenon DEF IInv
  <2>5. AllFound(hashToIdx', capacity, array') /\ InFrontOf(key, value)
    <3>1. /\ slot = FindSlot(hashToIdx, capacity, key, array) /\ idx = hashToIdx[slot]
          /\ entries = IF idx = 0 THEN array ELSE Closed(array, idx)
          /\ slots = IF idx = 0 THEN idxToSlot ELSE Closed(idxToSlot, idx)
      OBVIOUS
    <3> HIDE DEF slot, idx, entries, slots, table
    <3> QED
      BY ONLY <1>1, <2>1, <2>2, <2>3, <2>4, <3>1, key \in Keys, value \in Payloads, PlacedAtFront
  <2> QED
    BY <1>1, <2>1, <2>3, <2>5 DEF InUse
<1> QED
  BY <1>2, <1>3

-----------------------------------------------------------------------------
(***************************************************************************)
(* Each step on a table in use is one of the abstract ones.                *)
(***************************************************************************)
LEMMA UseShardStep ==
  ASSUME TablesInv, UseShard
  PROVE  /\ TablesInv'
         /\ \/ array' = array
            \/ \E k \in Keys, v \in Payloads : Appended(k, v) \/ Updated(k, v)
<1>1. owner = "shard" /\ owner' = owner /\ InUse
  BY DEF UseShard, TablesInv
<1>2. ASSUME NEW k \in Keys, NEW v \in Payloads, Shard!HtInsert(k, v)
      PROVE  InUse' /\ (array' = array \/ Appended(k, v) \/ Updated(k, v))
  BY <1>1, <1>2, ShardSteps, InsertStep
<1>3. CASE Shard!RehashOne
  BY <1>1, <1>3, ShardSteps, MoveStep DEF TablesInv
<1>4. CASE Shard!FinishInsert
  BY <1>1, <1>4, ShardSteps, FinishStep DEF TablesInv
<1> QED
  BY <1>1, <1>2, <1>3, <1>4 DEF UseShard, TablesInv

LEMMA UseRecentsStep ==
  ASSUME TablesInv, UseRecents
  PROVE  /\ TablesInv'
         /\ \/ array' = array
            \/ \E k \in Keys, v \in Payloads :
                 Appended(k, v) \/ Updated(k, v) \/ TakenOut(k) \/ InFrontOf(k, v)
<1>1. owner = "recents" /\ owner' = owner /\ InUse /\ owner' = "recents"
  BY DEF UseRecents, TablesInv
<1>2. PICK k \in Keys, v \in Payloads : Recents!HtInsert(k, v) \/ Recents!HtInsertShift(k, v)
  BY DEF UseRecents
<1>3. CASE Recents!HtInsert(k, v)
  BY <1>1, <1>3, RecentsSteps, InsertStep DEF TablesInv
<1>4. CASE Recents!HtInsertShift(k, v)
  BY <1>1, <1>4, RecentsSteps, InFrontStep DEF TablesInv
<1> QED
  BY <1>2, <1>3, <1>4

LEMMA TablesNextHolds ==
  ASSUME TablesInv, [TablesNext]_<<vars, owner>>
  PROVE  TablesInv'
<1>1. CASE UNCHANGED <<vars, owner>>
  <2>1. /\ array' = array /\ hashToIdx' = hashToIdx /\ capacity' = capacity /\ pc' = pc
        /\ fresh' = fresh /\ next' = next /\ owner' = owner /\ UNCHANGED vars
    BY <1>1 DEF vars
  <2>2. IInv => IInv'
    BY <2>1, NextHolds
  <2>3. InUse => InUse'
    BY <2>1, <2>2 DEF InUse, Moved
  <2> QED
    BY <2>1, <2>3 DEF TablesInv
<1>2. CASE UseShard
  BY <1>2, UseShardStep
<1>3. CASE UseRecents
  BY <1>3, UseRecentsStep
<1>4. CASE UseAny
  BY <1>4 DEF UseAny, TablesInv
<1> QED
  BY <1>1, <1>2, <1>3, <1>4 DEF TablesNext

LEMMA TablesInductive == TablesSpec => []TablesInv
<1>1. TablesInv /\ [TablesNext]_<<vars, owner>> => TablesInv'
  BY TablesNextHolds
<1> QED
  BY <1>1, TablesInitHolds, PTL DEF TablesSpec

\* Every entry of a shard that was only inserted into, through any number of
\* resizes, and every recent entry until the table is resized, is found again
\* by its key: what a search or the list of recents shows can be updated.
THEOREM ShownAlwaysFound == TablesSpec => []ShownEntriesFound
<1>1. TablesInv => ShownEntriesFound
  BY DEF TablesInv, InUse, AllFound, Found, ShownEntriesFound, EveryEntryFound, Size
<1> QED
  BY <1>1, TablesInductive, PTL

LEMMA PutsOne ==
  ASSUME NEW k \in Keys, NEW v \in Payloads, array \in Seq(Entry),
         owner = "shard", owner' = owner, Appended(k, v) \/ Updated(k, v)
  PROVE  Store!Put(k, v)
<1> DEFINE new == [primkey |-> k, payload |-> v]
<1>1. new \in Entry /\ new.primkey = k
  BY DEF Entry
<1>2. Size = Len(array) /\ Size \in Nat
  BY DEF Size
<1>3. /\ Visible = {array[i] : i \in 1 .. Size}
      /\ Visible' = {array'[i] : i \in 1 .. Len(array')}
  BY DEF Visible, Size
<1>4. CASE Appended(k, v)
  <2>1. (\A i \in 1 .. Size : array[i].primkey # k) /\ array' = Append(array, new)
    BY <1>4 DEF Appended
  <2> HIDE DEF new
  <2>2. /\ Len(array') = Size + 1 /\ array'[Size + 1] = new
        /\ \A i \in 1 .. Size : array'[i] = array[i]
    BY <1>1, <1>2, <2>1
  <2>3. Visible' = Visible \cup {new}
    <3>1. ASSUME NEW e \in Visible' PROVE e \in Visible \cup {new}
      BY <1>2, <1>3, <2>2
    <3>2. ASSUME NEW e \in Visible PROVE e \in Visible'
      <4>1. PICK i \in 1 .. Size : e = array[i]
        BY <1>3
      <4>2. e = array'[i] /\ i \in 1 .. Len(array')
        BY <1>2, <2>2, <4>1
      <4> QED
        BY <1>3, <4>2
    <3>3. new \in Visible'
      <4>1. Size + 1 \in 1 .. Len(array')
        BY <1>2, <2>2
      <4> QED
        BY <1>3, <2>2, <4>1
    <3> QED
      BY <3>1, <3>2, <3>3
  <2>4. {e \in Visible : e.primkey # k} = Visible
    BY <1>3, <2>1
  <2> QED
    BY <2>3, <2>4 DEF Store!Put, Store!Without, new
<1>5. CASE Updated(k, v)
  <2>1. PICK idx \in 1 .. Size :
          /\ \A i \in 1 .. Size : array[i].primkey = k <=> i = idx
          /\ array' = [array EXCEPT ![idx] = new]
    BY <1>5 DEF Updated
  <2> HIDE DEF new
  <2>2. Len(array') = Size /\ \A i \in 1 .. Size : array'[i] = IF i = idx THEN new ELSE array[i]
    BY <1>1, <1>2, <2>1
  <2>3. ASSUME NEW e \in Visible' PROVE e = new \/ (e \in Visible /\ e.primkey # k)
    <3>1. PICK i \in 1 .. Size : e = array'[i]
      BY <1>3, <2>2
    <3> QED
      BY <1>3, <2>1, <2>2, <3>1
  <2>4. ASSUME NEW e \in Visible, e.primkey # k PROVE e \in Visible'
    <3>1. PICK i \in 1 .. Size : e = array[i]
      BY <1>3
    <3>2. e = array'[i] /\ i \in 1 .. Len(array')
      BY <2>1, <2>2, <2>4, <3>1
    <3> QED
      BY <1>3, <3>2
  <2>5. new \in Visible'
    BY <1>3, <2>2
  <2> QED
    BY <2>3, <2>4, <2>5 DEF Store!Put, Store!Without, new
<1> QED
  BY <1>4, <1>5

\* Every insertion into a shard is one Put of the set of its entries, and
\* resize_hash changes nothing that a search sees.
THEOREM ShardImplementsStore == TablesSpec => ImplementsStore
<1>1. TablesInit => Visible = {}
  BY DEF TablesInit, Shard!Init, Visible, Size
<1>2. TablesInv /\ [TablesNext]_<<vars, owner>> => [Store!StoreNext]_Visible
  <2> SUFFICES ASSUME TablesInv, [TablesNext]_<<vars, owner>>
               PROVE  [Store!StoreNext]_Visible
    OBVIOUS
  <2>1. CASE UseShard
    <3>1. owner = "shard" /\ owner' = owner /\ array \in Seq(Entry)
      BY <2>1 DEF UseShard, TablesInv, InUse, IInv, Sound, Rehashing
    <3>2. CASE array' = array
      BY <3>1, <3>2 DEF Visible, Size
    <3>3. ASSUME NEW k \in Keys, NEW v \in Payloads, Appended(k, v) \/ Updated(k, v)
          PROVE  Store!StoreNext
      BY <3>1, <3>3, PutsOne DEF Store!StoreNext
    <3> QED
      BY <2>1, <3>2, <3>3, UseShardStep
  <2>2. CASE UseRecents
    BY <2>2 DEF UseRecents, Visible
  <2>3. CASE UseAny
    BY <2>3 DEF UseAny, Visible
  <2>4. CASE UNCHANGED <<vars, owner>>
    BY <2>4 DEF vars, Visible, Size
  <2> QED
    BY <2>1, <2>2, <2>3, <2>4 DEF TablesNext
<1> QED
  BY <1>1, <1>2, TablesInductive, PTL DEF TablesSpec, ImplementsStore, Store!StoreSpec

LEMMA ListSteps ==
  ASSUME NEW k \in Keys, NEW v \in Payloads, array \in Seq(Entry),
         owner = "recents", owner' = owner
  PROVE  /\ Appended(k, v) => Recency!Load(k, v)
         /\ Updated(k, v) => Recency!Refresh(k, v)
         /\ TakenOut(k) => Recency!Delete(k)
         /\ InFrontOf(k, v) => Recency!Use(k, v)
<1> DEFINE new == [primkey |-> k, payload |-> v]
<1>1. Shown = array /\ Shown' = array' /\ Size = Len(array)
  BY DEF Shown, Size
<1>2. Recency!Positions(k) = {i \in 1 .. Size : array[i].primkey = k}
  BY <1>1 DEF Recency!Positions
<1>3. ASSUME \A i \in 1 .. Size : array[i].primkey # k
      PROVE  ~Recency!Holds(k) /\ Recency!Without(k) = array
  BY <1>1, <1>2, <1>3 DEF Recency!Holds, Recency!Without
<1>4. ASSUME NEW idx \in 1 .. Size, \A i \in 1 .. Size : array[i].primkey = k <=> i = idx
      PROVE  Recency!Without(k) = Closed(array, idx)
  <2>1. Recency!Positions(k) = {idx}
    BY <1>2, <1>4
  <2>2. Recency!Holds(k) /\ Recency!Position(k) = idx
    BY <2>1 DEF Recency!Holds, Recency!Position
  <2> QED
    BY <1>1, <2>2 DEF Recency!Without, Recency!RemoveAt, Closed, RemoveAt
<1>5. Appended(k, v) => Recency!Load(k, v)
  BY <1>1, <1>3 DEF Appended, Recency!Load
<1>6. Updated(k, v) => Recency!Refresh(k, v)
  <2> SUFFICES ASSUME Updated(k, v) PROVE Recency!Refresh(k, v)
    OBVIOUS
  <2>1. PICK idx \in 1 .. Size : array[idx].primkey = k /\ array' = [array EXCEPT ![idx] = new]
    BY DEF Updated
  <2>2. array[idx] \in Entry
    BY <1>1
  <2>3. [array[idx] EXCEPT !.payload = v] = new
    BY <2>1, <2>2 DEF Entry
  <2>4. array' = [array EXCEPT ![idx].payload = v]
    BY <2>1, <2>3
  <2> QED
    BY <1>1, <2>1, <2>4 DEF Recency!Refresh
<1>7. TakenOut(k) => Recency!Delete(k)
  BY <1>1, <1>4 DEF TakenOut, Recency!Delete
<1>8. InFrontOf(k, v) => Recency!Use(k, v)
  BY <1>1, <1>3, <1>4 DEF InFrontOf, Recency!Use
<1> QED
  BY <1>5, <1>6, <1>7, <1>8

\* Until it is resized, every call on the table of recent entries is one step
\* of the list that is shown: a loaded entry is added at its end, a used one
\* comes to its front, and the others keep their order.
THEOREM RecentsImplementList == TablesSpec => ImplementsRecencyList
<1>1. TablesInit => Shown = <<>>
  BY DEF TablesInit, Recents!Init, Shown
<1>2. TablesInv /\ [TablesNext]_<<vars, owner>> => [Recency!ListNext]_Shown
  <2> SUFFICES ASSUME TablesInv, [TablesNext]_<<vars, owner>>
               PROVE  [Recency!ListNext]_Shown
    OBVIOUS
  <2>1. CASE UseRecents
    <3>1. owner = "recents" /\ owner' = owner /\ array \in Seq(Entry)
      BY <2>1 DEF UseRecents, TablesInv, InUse, IInv, Sound, Rehashing
    <3>2. CASE array' = array
      BY <3>1, <3>2 DEF Shown
    <3>3. ASSUME NEW k \in Keys, NEW v \in Payloads,
                 Appended(k, v) \/ Updated(k, v) \/ TakenOut(k) \/ InFrontOf(k, v)
          PROVE  Recency!ListNext
      BY <3>1, <3>3, ListSteps DEF Recency!ListNext
    <3> QED
      BY <2>1, <3>2, <3>3, UseRecentsStep
  <2>2. CASE UseShard
    BY <2>2 DEF UseShard, Shown
  <2>3. CASE UseAny
    BY <2>3 DEF UseAny, Shown
  <2>4. CASE UNCHANGED <<vars, owner>>
    BY <2>4 DEF vars, Shown
  <2> QED
    BY <2>1, <2>2, <2>3, <2>4 DEF TablesNext
<1> QED
  BY <1>1, <1>2, TablesInductive, PTL DEF TablesSpec, ImplementsRecencyList, Recency!ListSpec
=============================================================================
