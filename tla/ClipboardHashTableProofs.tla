----------------------- MODULE ClipboardHashTableProofs -----------------------
(***************************************************************************)
(* Theorems about the clipboard hash table, for every set of keys and      *)
(* payloads, every subset of its operations and every initial capacity.    *)
(*                                                                         *)
(* The invariants are proved from one inductive invariant, IInv.  What     *)
(* makes it inductive is that the table resize_hash fills agrees with      *)
(* idx_to_hash_slot for the entries already moved, and that the number of  *)
(* entries never exceeds the number of slots: agreement makes the used     *)
(* slots an injection into the positions, so a table with more slots than  *)
(* entries has an empty one, and a probe always meets it.                  *)
(***************************************************************************)
EXTENDS ClipboardHashTable, LibraryFacts, SequenceTheorems

-----------------------------------------------------------------------------
(***************************************************************************)
(* Facts about the operators of the model.                                 *)
(***************************************************************************)

\* Shifting position i out of a sequence.
LEMMA ClosedProperties ==
  ASSUME NEW S, NEW q \in Seq(S), NEW i \in 1 .. Len(q)
  PROVE  /\ Closed(q, i) \in Seq(S)
         /\ Len(Closed(q, i)) = Len(q) - 1
         /\ \A j \in 1 .. Len(q) - 1 :
              Closed(q, i)[j] = IF j < i THEN q[j] ELSE q[j + 1]
  BY RemoveAtProperties DEF Closed

\* Putting an element in front of a sequence.
LEMMA InFront ==
  ASSUME NEW S, NEW q \in Seq(S), NEW x \in S
  PROVE  /\ <<x>> \o q \in Seq(S)
         /\ Len(<<x>> \o q) = Len(q) + 1
         /\ \A i \in 1 .. Len(q) + 1 : (<<x>> \o q)[i] = IF i = 1 THEN x ELSE q[i - 1]
OBVIOUS

\* The capacity of a new table is a positive number.
LEMMA PowersOfTwoArePositive == \A p \in PowersOfTwo : p \in Nat \ {0}
BY DEF PowersOfTwo

LEMMA InitialCapacityType == NextPowerOfTwo(InitialCapacity) \in Nat \ {0}
<1> DEFINE S == {p \in PowersOfTwo : p >= InitialCapacity}
<1>1. InitialCapacity \in Nat /\ \E p \in PowersOfTwo : InitialCapacity <= p
  BY TableAssumption DEF TableAssumption
<1>2. S # {}
  BY <1>1, PowersOfTwoArePositive
<1>3. S \in SUBSET Nat /\ \A p \in S : p \in PowersOfTwo
  BY PowersOfTwoArePositive
<1>4. Min(S) \in PowersOfTwo
  <2> HIDE DEF S
  <2> QED BY <1>2, <1>3, LeastElement
<1>5. NextPowerOfTwo(InitialCapacity) \in PowersOfTwo
  BY <1>4 DEF NextPowerOfTwo
<1> QED
  BY <1>5, PowersOfTwoArePositive

\* Division with remainder.
LEMMA DivMod ==
  ASSUME NEW a \in Int, NEW n \in Nat \ {0}
  PROVE  /\ a \div n \in Int /\ a % n \in 0 .. n - 1
         /\ a = (n * (a \div n)) + (a % n)
BY SMTT(60)

\* Where find_slot stops, when it stops.
LEMMA FindSlotStops ==
  ASSUME NEW cap \in Nat \ {0}, NEW table \in [0 .. cap - 1 -> Nat],
         NEW key \in Nat, NEW entries, Hits(table, cap, key, entries) # {}
  PROVE  LET slot == FindSlot(table, cap, key, entries)
         IN  /\ slot \in 0 .. cap - 1
             /\ table[slot] = 0 \/ entries[table[slot]].primkey = key
<1> DEFINE H == Hits(table, cap, key, entries)
<1>1. H \in SUBSET Nat /\ H # {}
  BY DEF Hits
<1>2. Min(H) \in H
  BY <1>1, LeastElement
<1>3. \A d \in H : d \in Nat /\ LET idx == table[(key + d) % cap]
                                IN  idx = 0 \/ entries[idx].primkey = key
  BY DEF Hits
<1>4. FindSlot(table, cap, key, entries) = (key + Min(H)) % cap
  BY DEF FindSlot
<1> HIDE DEF H
<1>5. Min(H) \in Nat /\ LET idx == table[(key + Min(H)) % cap]
                        IN  idx = 0 \/ entries[idx].primkey = key
  BY <1>2, <1>3
<1>6. (key + Min(H)) % cap \in 0 .. cap - 1
  <2>1. key + Min(H) \in Int
    BY <1>5
  <2> QED
    BY <2>1, DivMod
<1> QED
  BY <1>4, <1>5, <1>6

\* Zero is the only multiple of n closer to zero than n.
LEMMA Multiple ==
  ASSUME NEW n \in Nat \ {0}, NEW k \in Int, NEW x \in Int, x = n * k, x < n, x > -n
  PROVE  k = 0
<1>1. CASE k >= 1
  <2>1. n * k >= n * 1 BY <1>1
  <2> QED BY <2>1
<1>2. CASE k <= -1
  <2>1. n * k <= n * (-1) BY <1>2
  <2>2. n * (-1) = -n OBVIOUS
  <2> QED BY <2>1, <2>2
<1> QED BY <1>1, <1>2

\* From any home slot, some probe distance reaches slot s.
Reaches(cap, key, s) == \E d \in 0 .. cap - 1 : (key + d) % cap = s

LEMMA Reach ==
  ASSUME NEW cap \in Nat \ {0}, NEW key \in Nat, NEW s \in 0 .. cap - 1
  PROVE  Reaches(cap, key, s)
<1> DEFINE a == s - key
<1>0. a \in Int
  OBVIOUS
<1> HIDE DEF a
<1> DEFINE d == a % cap
           q == a \div cap
           r == (key + d) % cap
           p == (key + d) \div cap
<1>9. q \in Int /\ d \in 0 .. cap - 1 /\ a = (cap * q) + d
  BY <1>0, DivMod
<1>1. q \in Int /\ d \in 0 .. cap - 1 /\ s - key = (cap * q) + d
  BY <1>9 DEF a
<1>2. p \in Int /\ r \in 0 .. cap - 1 /\ key + d = (cap * p) + r
  <2> HIDE DEF d
  <2>1. key + d \in Int BY <1>1
  <2> QED BY <2>1, DivMod
<1> HIDE DEF d, q, r, p
<1>3. s - r = cap * (q + p)
  <2>1. cap * (q + p) = (cap * q) + (cap * p) BY <1>1, <1>2
  <2> DEFINE u == cap * q  v == cap * p
  <2>2. u \in Int /\ v \in Int BY <1>1, <1>2
  <2>3. s - key = u + d /\ key + d = v + r BY <1>1, <1>2
  <2> HIDE DEF u, v
  <2>4. s - r = u + v BY <2>2, <2>3, <1>1, <1>2
  <2> QED BY <2>1, <2>4 DEF u, v
<1>4. s - r \in Int /\ s - r < cap /\ s - r > -cap /\ q + p \in Int
  BY <1>1, <1>2
<1>5. q + p = 0
  BY <1>3, <1>4, Multiple
<1>6. s = r
  BY <1>1, <1>2, <1>3, <1>5
<1> QED
  BY <1>1, <1>6 DEF r, Reaches

\* An empty slot is within reach of every probe.
LEMMA EmptySlotIsHit ==
  ASSUME NEW cap \in Nat \ {0}, NEW table, NEW key \in Nat, NEW entries,
         NEW s \in 0 .. cap - 1, table[s] = 0
  PROVE  Hits(table, cap, key, entries) # {}
<1>1. Reaches(cap, key, s)
  BY Reach
<1>2. PICK d \in 0 .. cap - 1 : (key + d) % cap = s
  BY <1>1 DEF Reaches
<1> QED
  BY <1>2 DEF Hits

\* The pigeonhole principle, in the form used below.
Collides(f, S) == \E x, y \in S : x # y /\ f[x] = f[y]

LEMMA Pigeons ==
  ASSUME NEW S, NEW T, IsFiniteSet(S), IsFiniteSet(T),
         Cardinality(T) < Cardinality(S), NEW f \in [S -> T]
  PROVE  Collides(f, S)
BY FS_PigeonHole DEF Collides

\* A table that agrees with the slots of fewer entries has an empty slot.
LEMMA EmptySlotExists ==
  ASSUME NEW cap \in Nat \ {0}, NEW table \in [0 .. cap - 1 -> Nat],
         NEW slots \in Seq(Nat), Agree(table, cap, slots), Len(slots) < cap
  PROVE  \E s \in 0 .. cap - 1 : table[s] = 0
<1> DEFINE n == Len(slots)
<1> SUFFICES ASSUME \A s \in 0 .. cap - 1 : table[s] # 0 PROVE FALSE
  OBVIOUS
<1>1. n \in Nat /\ n < cap
  OBVIOUS
<1>2. \A s \in 0 .. cap - 1 : table[s] \in 1 .. n /\ slots[table[s]] = s
  BY DEF Agree
<1> HIDE DEF n
<1>3. table \in [0 .. cap - 1 -> 1 .. n]
  BY <1>2
<1>4. IsFiniteSet(0 .. cap - 1) /\ Cardinality(0 .. cap - 1) = cap
  <2>1. ~(0 > cap - 1) /\ cap - 1 - 0 + 1 = cap /\ cap - 1 \in Int /\ 0 \in Int
    OBVIOUS
  <2> QED
    BY <2>1, FS_Interval
<1>5. IsFiniteSet(1 .. n) /\ Cardinality(1 .. n) = n
  <2>1. n \in Int /\ 1 \in Int /\ (1 > n => n = 0) /\ n - 1 + 1 = n
    BY <1>1
  <2> QED
    BY <2>1, FS_Interval
<1>6. Cardinality(1 .. n) < Cardinality(0 .. cap - 1)
  BY <1>1, <1>4, <1>5
<1>7. Collides(table, 0 .. cap - 1)
  BY <1>3, <1>4, <1>5, <1>6, Pigeons
<1> QED
  BY <1>2, <1>7 DEF Collides

\* Together: find_slot stops in a table that has room.
LEMMA ProbeStops ==
  ASSUME NEW cap \in Nat \ {0}, NEW table \in [0 .. cap - 1 -> Nat],
         NEW slots \in Seq(Nat), Agree(table, cap, slots), Len(slots) < cap,
         NEW key \in Nat, NEW entries
  PROVE  Hits(table, cap, key, entries) # {}
BY EmptySlotExists, EmptySlotIsHit
-----------------------------------------------------------------------------
(***************************************************************************)
(* The inductive invariant.                                                *)
(***************************************************************************)

\* The table between calls.
Sound ==
  /\ array \in Seq(Entry)
  /\ capacity \in Nat \ {0}
  /\ hashToIdx \in [Slots -> Nat]
  /\ idxToSlot \in Seq(Nat) /\ Len(idxToSlot) = Size
  /\ arrayCapacity \in Nat \ {0} /\ Size <= arrayCapacity
  /\ Agree(hashToIdx, capacity, idxToSlot)
  /\ \A i \in 1 .. Size : idxToSlot[i] < capacity

\* The table inside resize_hash: the positions below next are in fresh.
Rehashing ==
  /\ array \in Seq(Entry)
  /\ capacity \in Nat \ {0}
  /\ hashToIdx \in [Slots -> Nat]
  /\ idxToSlot \in Seq(Nat) /\ Len(idxToSlot) = Size
  /\ arrayCapacity \in Nat \ {0} /\ Size <= arrayCapacity
  /\ next \in 1 .. Size + 1
  /\ fresh \in [0 .. 2 * capacity - 1 -> Nat]
  /\ \A s \in 0 .. 2 * capacity - 1 :
       fresh[s] # 0 => fresh[s] < next /\ idxToSlot[fresh[s]] = s
  /\ \A i \in 1 .. Size :
       idxToSlot[i] < (IF i < next THEN 2 * capacity ELSE capacity)
  /\ call \in CallType
  /\ call.op = "insert_shift" => call.slot < capacity

\* resize_hash keeps more slots than entries, but for the smallest tables.
SizeFits == Size <= capacity /\ (capacity >= 4 => Size < capacity)

IInv ==
  /\ SizeFits
  /\ pc \in {"idle", "rehash", "spinning"}
  /\ IF pc = "rehash"
     THEN Rehashing
     ELSE Sound /\ call = NoCall /\ fresh = <<>> /\ next = 1

\* Agreement in all slots but one.
AgreeBut(table, cap, slots, slot) ==
  \A s \in 0 .. cap - 1 :
    s # slot /\ table[s] # 0 => table[s] <= Len(slots) /\ slots[table[s]] = s

\* Moving all positions up and putting slot in front restores agreement,
\* whatever the table said about slot.
LEMMA ShiftedUpAgrees ==
  ASSUME NEW cap \in Nat \ {0}, NEW table \in [0 .. cap - 1 -> Nat],
         NEW slots \in Seq(Nat), NEW slot \in 0 .. cap - 1,
         AgreeBut(table, cap, slots, slot)
  PROVE  LET up == [ShiftedUp(table, cap, slots) EXCEPT ![slot] = 1]
         IN  /\ up \in [0 .. cap - 1 -> Nat]
             /\ Agree(up, cap, <<slot>> \o slots)
<1> DEFINE owners(s) == {i \in 1 .. Len(slots) : slots[i] = s}
           raised == ShiftedUp(table, cap, slots)
           up == [raised EXCEPT ![slot] = 1]
<1>1. raised = [s \in 0 .. cap - 1 |->
                  IF owners(s) = {} THEN table[s] ELSE Min(owners(s)) + 1]
  BY DEF ShiftedUp
<1>2. ASSUME NEW s \in 0 .. cap - 1, owners(s) # {}
      PROVE  Min(owners(s)) \in 1 .. Len(slots) /\ slots[Min(owners(s))] = s
  <2>1. owners(s) \in SUBSET Nat
    OBVIOUS
  <2>2. Min(owners(s)) \in owners(s)
    <3> HIDE DEF owners
    <3> QED
      BY <2>1, <1>2, LeastElement
  <2> QED
    BY <2>2
<1>3. ASSUME NEW s \in 0 .. cap - 1, s # slot, owners(s) = {}
      PROVE  table[s] = 0
  <2> SUFFICES ASSUME table[s] # 0 PROVE FALSE
    OBVIOUS
  <2>1. table[s] \in 1 .. Len(slots) /\ slots[table[s]] = s
    BY <1>3 DEF AgreeBut
  <2>2. table[s] \in owners(s)
    BY <2>1
  <2> QED
    BY <2>2, <1>3
<1> HIDE DEF owners
<1>4. Len(slots) \in Nat
  OBVIOUS
<1>5. ASSUME NEW s \in 0 .. cap - 1
      PROVE  /\ raised[s] \in Nat
             /\ owners(s) # {} => raised[s] \in 2 .. Len(slots) + 1 /\ slots[raised[s] - 1] = s
             /\ owners(s) = {} => raised[s] = table[s]
  <2>1. CASE owners(s) = {}
    BY <2>1, <1>1
  <2>2. CASE owners(s) # {}
    <3>1. raised[s] = Min(owners(s)) + 1
      BY <2>2, <1>1
    <3>2. Min(owners(s)) \in 1 .. Len(slots) /\ slots[Min(owners(s))] = s
      BY <2>2, <1>2
    <3> DEFINE m == Min(owners(s))
    <3> HIDE DEF m
    <3>3. raised[s] = m + 1 /\ m \in 1 .. Len(slots) /\ slots[m] = s
      BY <3>1, <3>2 DEF m
    <3>4. (m + 1) - 1 = m
      BY <3>3
    <3> QED
      BY <3>3, <3>4, <2>2, <1>4
  <2> QED
    BY <2>1, <2>2
<1>6. raised \in [0 .. cap - 1 -> Nat]
  BY <1>1, <1>5
<1>7. /\ Len(<<slot>> \o slots) = Len(slots) + 1
      /\ \A i \in 1 .. Len(slots) + 1 :
           (<<slot>> \o slots)[i] = IF i = 1 THEN slot ELSE slots[i - 1]
  BY InFront
<1> HIDE DEF raised
<1>8. ASSUME NEW s \in 0 .. cap - 1, up[s] # 0
      PROVE  up[s] <= Len(<<slot>> \o slots) /\ (<<slot>> \o slots)[up[s]] = s
  <2>1. CASE s = slot
    BY <2>1, <1>4, <1>6, <1>7
  <2>2. CASE s # slot
    <3>1. up[s] = raised[s]
      BY <2>2, <1>6
    <3>2. owners(s) # {}
      BY <2>2, <3>1, <1>3, <1>5, <1>8
    <3>3. raised[s] \in 2 .. Len(slots) + 1 /\ slots[raised[s] - 1] = s
      BY <3>2, <1>5
    <3> QED
      BY SMTT(20), <3>1, <3>3, <1>4, <1>7
  <2> QED
    BY <2>1, <2>2
<1>9. up \in [0 .. cap - 1 -> Nat]
  BY <1>6
<1> QED
  BY <1>8, <1>9 DEF Agree, raised

\* Moving the positions above idx down agrees with shifting idx out, but for
\* the slot that named idx.
LEMMA ShiftedDownAgrees ==
  ASSUME Sound, NEW slot \in Slots, hashToIdx[slot] # 0
  PROVE  LET idx == hashToIdx[slot]
         IN  /\ idx \in 1 .. Size /\ idxToSlot[idx] = slot
             /\ ShiftedDown(idx) \in [Slots -> Nat]
             /\ AgreeBut(ShiftedDown(idx), capacity, Closed(idxToSlot, idx), slot)
<1> DEFINE idx == hashToIdx[slot]
           owners(s) == {i \in idx + 1 .. Size : idxToSlot[i] = s}
           down == ShiftedDown(idx)
           rest == Closed(idxToSlot, idx)
<1>1. /\ Size \in Nat /\ idxToSlot \in Seq(Nat) /\ Len(idxToSlot) = Size
      /\ hashToIdx \in [Slots -> Nat]
      /\ \A s \in Slots : hashToIdx[s] # 0 =>
           hashToIdx[s] \in 1 .. Size /\ idxToSlot[hashToIdx[s]] = s
  BY DEF Sound, Agree, Slots, Size
<1>2. idx \in 1 .. Size /\ idxToSlot[idx] = slot
  BY <1>1
<1>3. down = [s \in Slots |-> IF owners(s) = {} THEN hashToIdx[s] ELSE Max(owners(s)) - 1]
  BY DEF ShiftedDown
<1>4. /\ Len(rest) = Size - 1
      /\ \A j \in 1 .. Size - 1 :
           rest[j] = IF j < idx THEN idxToSlot[j] ELSE idxToSlot[j + 1]
  BY <1>1, <1>2, ClosedProperties
<1> HIDE DEF idx
<1>5. ASSUME NEW s \in Slots, owners(s) # {}
      PROVE  Max(owners(s)) \in idx + 1 .. Size /\ idxToSlot[Max(owners(s))] = s
  <2>1. owners(s) \in SUBSET Nat /\ \A x \in owners(s) : x <= Size
    BY <1>1, <1>2
  <2>2. Max(owners(s)) \in owners(s)
    <3> HIDE DEF owners
    <3> QED
      BY <1>1, <1>5, <2>1, GreatestElement
  <2> QED
    BY <2>2
<1>6. ASSUME NEW s \in Slots, s # slot, owners(s) = {}, hashToIdx[s] # 0
      PROVE  hashToIdx[s] \in 1 .. idx - 1 /\ idxToSlot[hashToIdx[s]] = s
  <2>1. hashToIdx[s] \in 1 .. Size /\ idxToSlot[hashToIdx[s]] = s
    BY <1>1, <1>6
  <2>2. hashToIdx[s] # idx
    BY <1>2, <1>6, <2>1
  <2>3. hashToIdx[s] \notin idx + 1 .. Size
    BY <1>6, <2>1
  <2> QED
    BY <1>1, <1>2, <2>1, <2>2, <2>3
<1> HIDE DEF owners
<1>7. ASSUME NEW s \in Slots
      PROVE  /\ down[s] \in Nat
             /\ owners(s) # {} => down[s] \in idx .. Size - 1 /\ idxToSlot[down[s] + 1] = s
             /\ owners(s) = {} => down[s] = hashToIdx[s]
  <2>1. CASE owners(s) = {}
    BY <2>1, <1>1, <1>3
  <2>2. CASE owners(s) # {}
    <3> DEFINE m == Max(owners(s))
    <3>1. down[s] = m - 1 /\ m \in idx + 1 .. Size /\ idxToSlot[m] = s
      BY <2>2, <1>3, <1>5
    <3> HIDE DEF m
    <3>2. (m - 1) + 1 = m
      BY <3>1, <1>2
    <3> QED
      BY <3>1, <3>2, <2>2, <1>1, <1>2
  <2> QED
    BY <2>1, <2>2
<1>8. down \in [Slots -> Nat]
  BY <1>3, <1>7
<1> HIDE DEF down, rest
<1>9. ASSUME NEW s \in Slots, s # slot, down[s] # 0
      PROVE  down[s] <= Len(rest) /\ rest[down[s]] = s
  <2>1. CASE owners(s) # {}
    <3>1. down[s] \in idx .. Size - 1 /\ idxToSlot[down[s] + 1] = s
      BY <2>1, <1>7
    <3> QED
      BY SMTT(20), <3>1, <1>1, <1>2, <1>4
  <2>2. CASE owners(s) = {}
    <3>1. down[s] \in 1 .. idx - 1 /\ idxToSlot[down[s]] = s
      BY <2>2, <1>6, <1>7, <1>9
    <3> QED
      BY <3>1, <1>1, <1>2, <1>4
  <2> QED
    BY <2>1, <2>2
<1> QED
  BY <1>2, <1>8, <1>9 DEF AgreeBut, Slots, down, rest, idx


-----------------------------------------------------------------------------
(***************************************************************************)
(* Every step preserves the inductive invariant.                           *)
(***************************************************************************)

\* The array grows in time for one more entry.
LEMMA GrownArrayHolds ==
  ASSUME arrayCapacity \in Nat \ {0}, NEW n \in Nat, n <= arrayCapacity
  PROVE  GrownArray(n) \in Nat \ {0} /\ n + 1 <= GrownArray(n)
BY DEF GrownArray

\* The parts of Sound after a step into a table of cap slots with n entries.
LEMMA SoundNext ==
  ASSUME NEW cap \in Nat \ {0}, NEW n \in Nat, capacity' = cap, Size' = n,
         array' \in Seq(Entry), hashToIdx' \in [0 .. cap - 1 -> Nat],
         idxToSlot' \in Seq(Nat), Len(idxToSlot') = n,
         arrayCapacity' \in Nat \ {0}, n <= arrayCapacity',
         Agree(hashToIdx', cap, idxToSlot'), \A i \in 1 .. n : idxToSlot'[i] < cap
  PROVE  Sound'
<1>1. Slots' = 0 .. cap - 1
  BY DEF Slots
<1>2. Agree(hashToIdx', capacity', idxToSlot')
  OBVIOUS
<1>3. \A i \in 1 .. Size' : idxToSlot'[i] < capacity'
  OBVIOUS
<1>4. hashToIdx' \in [Slots' -> Nat]
  BY <1>1
<1>5. Len(idxToSlot') = Size' /\ Size' <= arrayCapacity' /\ capacity' \in Nat \ {0}
  OBVIOUS
<1> QED
  BY <1>2, <1>3, <1>4, <1>5 DEF Sound

\* An insertion at the end of a table that agrees and has room.
LEMMA PlaceAtEndSound ==
  ASSUME array \in Seq(Entry), idxToSlot \in Seq(Nat), Len(idxToSlot) = Size,
         arrayCapacity \in Nat \ {0}, Size <= arrayCapacity,
         NEW cap \in Nat \ {0}, NEW table \in [0 .. cap - 1 -> Nat],
         Agree(table, cap, idxToSlot), \A i \in 1 .. Size : idxToSlot[i] < cap,
         NEW key \in Keys, NEW value \in Payloads, NEW slot \in 0 .. cap - 1,
         PlaceAtEnd(table, cap, key, value, slot)
  PROVE  Sound' /\ capacity' = cap /\ Size' \in {Size, Size + 1}
<1> DEFINE idx == table[slot]
<1>1. Size \in Nat /\ Size = Len(array)
  BY DEF Size
<1>2. capacity' = cap
  BY DEF PlaceAtEnd
<1>3. CASE idx # 0
  <2>1. /\ array' = [array EXCEPT ![idx] = [primkey |-> array[idx].primkey, payload |-> value]]
        /\ hashToIdx' = table
        /\ UNCHANGED <<idxToSlot, arrayCapacity>>
    BY <1>3 DEF PlaceAtEnd
  <2>2. idx \in 1 .. Size
    BY <1>1, <1>3 DEF Agree
  <2>3. array' \in Seq(Entry) /\ Len(array') = Len(array)
    <3>1. array[idx] \in Entry
      BY <1>1, <2>2
    <3>2. array[idx].primkey \in Keys
      BY <3>1 DEF Entry
    <3>3. [primkey |-> array[idx].primkey, payload |-> value] \in Entry
      BY <3>2 DEF Entry
    <3> QED
      BY <1>1, <2>1, <2>2, <3>3, ExceptSeq
  <2>4. Size' = Size /\ Slots' = 0 .. cap - 1
    BY <1>1, <1>2, <2>3 DEF Size, Slots
  <2> QED
    BY <1>2, <2>1, <2>3, <2>4, SoundNext
<1>4. CASE idx = 0
  <2>1. /\ array' = Append(array, [primkey |-> key, payload |-> value])
        /\ hashToIdx' = [table EXCEPT ![slot] = Size + 1]
        /\ idxToSlot' = Append(idxToSlot, slot)
        /\ arrayCapacity' = GrownArray(Size)
    BY <1>4 DEF PlaceAtEnd
  <2>2. array' \in Seq(Entry) /\ Len(array') = Size + 1
    BY <1>1, <2>1 DEF Entry
  <2>3. /\ idxToSlot' \in Seq(Nat) /\ Len(idxToSlot') = Size + 1
        /\ \A i \in 1 .. Size + 1 :
             idxToSlot'[i] = IF i = Size + 1 THEN slot ELSE idxToSlot[i]
    BY <1>1, <2>1
  <2>4. hashToIdx' \in [0 .. cap - 1 -> Nat]
    BY <1>1, <2>1
  <2>5. arrayCapacity' \in Nat \ {0} /\ Size + 1 <= arrayCapacity'
    BY <1>1, <2>1, GrownArrayHolds
  <2>6. ASSUME NEW s \in 0 .. cap - 1, hashToIdx'[s] # 0
        PROVE  hashToIdx'[s] <= Size + 1 /\ idxToSlot'[hashToIdx'[s]] = s
    <3>1. CASE s = slot
      BY <3>1, <1>1, <2>1, <2>3
    <3>2. CASE s # slot
      <4>1. hashToIdx'[s] = table[s]
        BY <3>2, <2>1
      <4>2. table[s] \in 1 .. Size /\ idxToSlot[table[s]] = s
        BY <1>1, <4>1, <2>6 DEF Agree
      <4>3. table[s] \in 1 .. Size + 1 /\ table[s] # Size + 1
        BY <4>2, <1>1
      <4>4. idxToSlot'[table[s]] = idxToSlot[table[s]]
        BY <4>3, <2>3
      <4> QED
        BY <4>1, <4>2, <4>3, <4>4, <1>1
    <3> QED
      BY <3>1, <3>2
  <2>7. Agree(hashToIdx', cap, idxToSlot')
    BY <2>3, <2>6 DEF Agree
  <2>8. \A i \in 1 .. Size + 1 : idxToSlot'[i] < cap
    <3> SUFFICES ASSUME NEW i \in 1 .. Size + 1 PROVE idxToSlot'[i] < cap
      OBVIOUS
    <3>1. CASE i = Size + 1
      BY <3>1, <2>3
    <3>2. CASE i # Size + 1
      <4>1. i \in 1 .. Size /\ idxToSlot'[i] = idxToSlot[i]
        BY <3>2, <1>1, <2>3
      <4> QED
        BY <4>1
    <3> QED
      BY <3>1, <3>2
  <2>9. Size' = Size + 1 /\ Slots' = 0 .. cap - 1
    BY <1>2, <2>2 DEF Size, Slots
  <2> QED
    <3> DEFINE n == Size + 1
    <3>1. n \in Nat /\ Size' = n
      BY <1>1, <2>9
    <3>2. /\ Len(idxToSlot') = n /\ n <= arrayCapacity'
          /\ \A i \in 1 .. n : idxToSlot'[i] < cap
      BY <2>3, <2>5, <2>8
    <3> HIDE DEF n
    <3>3. Sound'
      BY <1>2, <2>2, <2>3, <2>4, <2>5, <2>7, <3>1, <3>2, SoundNext
    <3> QED
      BY <1>2, <2>9, <3>3
<1> QED
  BY <1>3, <1>4

\* An insertion in front of the entries that are left, into a table that
\* agrees with their slots except at the slot of the new entry.
LEMMA PlaceAtFrontSound ==
  ASSUME NEW entries \in Seq(Entry), NEW slots \in Seq(Nat), Len(slots) = Len(entries),
         arrayCapacity \in Nat \ {0}, Len(entries) <= arrayCapacity,
         NEW cap \in Nat \ {0}, NEW table \in [0 .. cap - 1 -> Nat],
         NEW slot \in 0 .. cap - 1, AgreeBut(table, cap, slots, slot),
         \A i \in 1 .. Len(entries) : slots[i] < cap,
         NEW key \in Keys, NEW value \in Payloads,
         PlaceAtFront(entries, slots, table, cap, key, value, slot)
  PROVE  Sound' /\ capacity' = cap /\ Size' = Len(entries) + 1
<1>1. /\ capacity' = cap
      /\ array' = <<[primkey |-> key, payload |-> value]>> \o entries
      /\ idxToSlot' = <<slot>> \o slots
      /\ hashToIdx' = [ShiftedUp(table, cap, slots) EXCEPT ![slot] = 1]
      /\ arrayCapacity' = GrownArray(Len(entries))
  BY DEF PlaceAtFront
<1>2. Len(entries) \in Nat /\ [primkey |-> key, payload |-> value] \in Entry
  BY DEF Entry
<1>3. array' \in Seq(Entry) /\ Len(array') = Len(entries) + 1
  BY <1>1, <1>2, InFront
<1>4. /\ idxToSlot' \in Seq(Nat) /\ Len(idxToSlot') = Len(entries) + 1
      /\ \A i \in 1 .. Len(entries) + 1 :
           idxToSlot'[i] = IF i = 1 THEN slot ELSE slots[i - 1]
  BY <1>1, InFront
<1>5. hashToIdx' \in [0 .. cap - 1 -> Nat] /\ Agree(hashToIdx', cap, idxToSlot')
  BY <1>1, ShiftedUpAgrees
<1>6. arrayCapacity' \in Nat \ {0} /\ Len(entries) + 1 <= arrayCapacity'
  BY <1>1, <1>2, GrownArrayHolds
<1>7. \A i \in 1 .. Len(entries) + 1 : idxToSlot'[i] < cap
  <2> SUFFICES ASSUME NEW i \in 1 .. Len(entries) + 1 PROVE idxToSlot'[i] < cap
    OBVIOUS
  <2>1. CASE i = 1
    BY <2>1, <1>4
  <2>2. CASE i # 1
    <3>1. i - 1 \in 1 .. Len(entries) /\ idxToSlot'[i] = slots[i - 1]
      BY <2>2, <1>2, <1>4
    <3> QED
      BY <3>1
  <2> QED
    BY <2>1, <2>2
<1>8. Size' = Len(entries) + 1 /\ Slots' = 0 .. cap - 1
  BY <1>1, <1>3 DEF Size, Slots
<1> QED
  <2> DEFINE n == Len(entries) + 1
  <2>1. n \in Nat /\ Size' = n
    BY <1>2, <1>8
  <2>2. /\ Len(idxToSlot') = n /\ n <= arrayCapacity'
        /\ \A i \in 1 .. n : idxToSlot'[i] < cap
    BY <1>4, <1>6, <1>7
  <2> HIDE DEF n
  <2>3. Sound'
    BY <1>1, <1>3, <1>4, <1>5, <1>6, <2>1, <2>2, SoundNext
  <2> QED
    BY <1>1, <1>8, <2>3

\* The initial state.
LEMMA InitHolds == Init => IInv
<1> SUFFICES ASSUME Init PROVE IInv
  OBVIOUS
<1>1. capacity \in Nat \ {0}
  BY InitialCapacityType DEF Init
<1>2. array = <<>> /\ idxToSlot = <<>> /\ Size = 0
  BY DEF Init, Size
<1>3. Sound
  BY <1>1, <1>2 DEF Init, Sound, Agree, Slots
<1>4. SizeFits
  BY <1>1, <1>2 DEF SizeFits
<1> QED
  BY <1>3, <1>4 DEF Init, IInv

\* What an operation finds when it takes the lock.
LEMMA Entered ==
  ASSUME IInv, pc = "idle", NEW key \in Keys
  PROVE  Sound /\ SizeFits /\ key \in Nat
<1>1. pc # "rehash"
  OBVIOUS
<1>2. Sound /\ SizeFits
  BY <1>1, Zenon DEF IInv
<1>3. key \in Nat
  BY TableAssumption DEF TableAssumption
<1> QED
  BY <1>2, <1>3

\* Both insertions, whoever may call them and whatever bounds the table.
Inserts(key, value) ==
  /\ pc = "idle"
  /\ IF NeedsResize(Size)
     THEN /\ StartResize([op |-> "insert", key |-> key, payload |-> value, slot |-> 0])
          /\ UNCHANGED <<array, hashToIdx, idxToSlot, capacity, arrayCapacity>>
     ELSE /\ Hits(hashToIdx, capacity, key, array) # {}
          /\ PlaceAtEnd(hashToIdx, capacity, key, value,
                        FindSlot(hashToIdx, capacity, key, array))
          /\ UNCHANGED <<pc, call, fresh, next>>

InsertsInFront(key, value) ==
  LET slot    == FindSlot(hashToIdx, capacity, key, array)
      idx     == hashToIdx[slot]
      entries == IF idx = 0 THEN array ELSE Closed(array, idx)
      slots   == IF idx = 0 THEN idxToSlot ELSE Closed(idxToSlot, idx)
      table   == IF idx = 0 THEN hashToIdx ELSE ShiftedDown(idx)
  IN  /\ pc = "idle"
      /\ Hits(hashToIdx, capacity, key, array) # {}
      /\ IF NeedsResize(Len(entries))
         THEN /\ array' = entries
              /\ idxToSlot' = slots
              /\ hashToIdx' = table
              /\ StartResize([op |-> "insert_shift", key |-> key,
                              payload |-> value, slot |-> slot])
              /\ UNCHANGED <<capacity, arrayCapacity>>
         ELSE /\ PlaceAtFront(entries, slots, table, capacity, key, value, slot)
              /\ UNCHANGED <<pc, call, fresh, next>>

LEMMA Insertions ==
  ASSUME NEW key, NEW value
  PROVE  /\ HtInsert(key, value) => Inserts(key, value)
         /\ HtInsertShift(key, value) => InsertsInFront(key, value)
<1>1. HtInsert(key, value) => Inserts(key, value)
  BY Zenon DEF HtInsert, Inserts, Enter
<1>2. HtInsertShift(key, value) => InsertsInFront(key, value)
  BY Zenon DEF HtInsertShift, InsertsInFront, Enter
<1> QED
  BY <1>1, <1>2

\* Starting resize_hash.
LEMMA StartHolds ==
  ASSUME NEW pending \in CallType, StartResize(pending),
         pending.op = "insert_shift" => pending.slot < capacity,
         capacity \in Nat \ {0}, capacity' = capacity,
         array' \in Seq(Entry), hashToIdx' \in [Slots -> Nat],
         idxToSlot' \in Seq(Nat), Len(idxToSlot') = Size', Size' \in Nat,
         arrayCapacity' \in Nat \ {0}, Size' <= arrayCapacity',
         \A i \in 1 .. Size' : idxToSlot'[i] < capacity, SizeFits'
  PROVE  IInv'
<1>1. /\ pc' = "rehash" /\ call' = pending /\ next' = 1
      /\ fresh' = [s \in 0 .. 2 * capacity - 1 |-> 0]
  BY DEF StartResize
<1>2. Slots' = Slots
  BY DEF Slots
<1>3. fresh' \in [0 .. 2 * capacity' - 1 -> Nat]
  BY <1>1
<1>4. \A i \in 1 .. Size' : ~(i < next')
  BY <1>1
<1>5. \A i \in 1 .. Size' :
        idxToSlot'[i] < (IF i < next' THEN 2 * capacity' ELSE capacity')
  BY <1>4
<1>6. \A s \in 0 .. 2 * capacity' - 1 : fresh'[s] = 0
  BY <1>1
<1>7. call' \in CallType /\ (call'.op = "insert_shift" => call'.slot < capacity')
  BY <1>1, Zenon
<1>0. next' \in 1 .. Size' + 1
  <2> DEFINE n == Size'
  <2>1. n \in Nat
    OBVIOUS
  <2> HIDE DEF n
  <2>2. 1 \in 1 .. n + 1
    BY <2>1
  <2> QED
    BY <2>2, <1>1 DEF n
<1>8. hashToIdx' \in [Slots' -> Nat] /\ capacity' \in Nat \ {0}
  BY <1>2
<1>9. Rehashing'
  BY <1>0, <1>3, <1>5, <1>6, <1>7, <1>8 DEF Rehashing
<1> QED
  BY <1>1, <1>9 DEF IInv

\* Returning to the state between calls.
LEMMA IdleHolds ==
  ASSUME Sound', SizeFits', pc' \in {"idle", "spinning"}, call' = NoCall,
         fresh' = <<>>, next' = 1
  PROVE  IInv'
<1>1. pc' # "rehash" /\ pc' \in {"idle", "rehash", "spinning"}
  OBVIOUS
<1>2. NoCall' = NoCall
  BY DEF NoCall
<1>3. IInv' = (/\ SizeFits' /\ pc' \in {"idle", "rehash", "spinning"}
               /\ IF pc' = "rehash" THEN Rehashing'
                  ELSE Sound' /\ call' = NoCall' /\ fresh' = <<>> /\ next' = 1)
  BY DEF IInv
<1> HIDE DEF IInv, NoCall
<1> QED
  BY <1>1, <1>2, <1>3

\* The numbers behind SizeFits.
LEMMA RoomWithoutResize ==
  ASSUME NEW c \in Nat \ {0}, NEW n \in Nat, ~(4 * n >= 3 * c)
  PROVE  n + 1 <= c /\ (c >= 4 => n + 1 < c)
OBVIOUS

LEMMA RoomAfterResize ==
  ASSUME NEW c \in Nat \ {0}, NEW n \in Nat, n <= c
  PROVE  n + 1 <= 2 * c /\ (2 * c >= 4 => n + 1 < 2 * c)
OBVIOUS

LEMMA HtInsertHolds ==
  ASSUME IInv, NEW key \in Keys, NEW value \in Payloads, Inserts(key, value)
  PROVE  IInv'
<1>1. Sound /\ SizeFits /\ pc = "idle" /\ key \in Nat
  BY Entered, Zenon DEF Inserts
<1>2. Size \in Nat /\ Slots = 0 .. capacity - 1
  BY <1>1 DEF Sound, Size, Slots
<1>3. CASE NeedsResize(Size)
  <2> DEFINE pending == [op |-> "insert", key |-> key, payload |-> value, slot |-> 0]
  <2>1. /\ StartResize(pending)
        /\ UNCHANGED <<array, hashToIdx, idxToSlot, capacity, arrayCapacity>>
    BY <1>3 DEF Inserts
  <2>2. pending \in CallType /\ pending.op # "insert_shift"
    BY <1>1 DEF CallType
  <2>3. Size' = Size
    BY <2>1 DEF Size
  <2>4. SizeFits'
    BY <1>1, <2>1, <2>3 DEF SizeFits
  <2> HIDE DEF pending
  <2>5. /\ array \in Seq(Entry) /\ hashToIdx \in [Slots -> Nat] /\ idxToSlot \in Seq(Nat)
        /\ Len(idxToSlot) = Size /\ arrayCapacity \in Nat \ {0} /\ Size <= arrayCapacity
        /\ \A i \in 1 .. Size : idxToSlot[i] < capacity
        /\ capacity \in Nat \ {0}
    BY <1>1 DEF Sound
  <2>6. /\ array' \in Seq(Entry) /\ hashToIdx' \in [Slots -> Nat] /\ idxToSlot' \in Seq(Nat)
        /\ Len(idxToSlot') = Size' /\ Size' \in Nat
        /\ arrayCapacity' \in Nat \ {0} /\ Size' <= arrayCapacity'
        /\ capacity' = capacity
    BY <1>2, <2>1, <2>3, <2>5
  <2>7. \A i \in 1 .. Size' : idxToSlot'[i] < capacity
    BY <2>1, <2>3, <2>5
  <2> QED
    BY <2>1, <2>2, <2>4, <2>5, <2>6, <2>7, StartHolds
<1>4. CASE ~NeedsResize(Size)
  <2> DEFINE slot == FindSlot(hashToIdx, capacity, key, array)
  <2>1. /\ Hits(hashToIdx, capacity, key, array) # {}
        /\ PlaceAtEnd(hashToIdx, capacity, key, value, slot)
        /\ UNCHANGED <<pc, call, fresh, next>>
    BY <1>4 DEF Inserts
  <2>2. /\ array \in Seq(Entry) /\ hashToIdx \in [0 .. capacity - 1 -> Nat]
        /\ idxToSlot \in Seq(Nat) /\ Len(idxToSlot) = Size
        /\ arrayCapacity \in Nat \ {0} /\ Size <= arrayCapacity
        /\ Agree(hashToIdx, capacity, idxToSlot)
        /\ \A i \in 1 .. Size : idxToSlot[i] < capacity
        /\ capacity \in Nat \ {0}
    BY <1>1, <1>2 DEF Sound
  <2>3. slot \in 0 .. capacity - 1
    BY <1>1, <2>1, <2>2, FindSlotStops
  <2> HIDE DEF slot
  <2>4. Sound' /\ capacity' = capacity /\ Size' \in {Size, Size + 1}
    BY <2>1, <2>2, <2>3, PlaceAtEndSound
  <2>5. Size + 1 <= capacity /\ (capacity >= 4 => Size + 1 < capacity)
    BY <1>2, <1>4, <2>2, RoomWithoutResize DEF NeedsResize
  <2>6. SizeFits'
    BY <1>1, <2>4, <2>5 DEF SizeFits
  <2>7. pc' = "idle" /\ call' = NoCall /\ fresh' = <<>> /\ next' = 1
    BY <1>1, <2>1 DEF IInv
  <2> QED
    BY <2>4, <2>6, <2>7, IdleHolds
<1> QED
  BY <1>3, <1>4

\* What ht_insert_shift holds after it has taken the old entry out.
Vacated(entries, slots, table, slot) ==
  /\ slot \in 0 .. capacity - 1
  /\ entries \in Seq(Entry) /\ slots \in Seq(Nat) /\ Len(slots) = Len(entries)
  /\ Len(entries) \in {Size, Size - 1} /\ Len(entries) \in Nat
  /\ table \in [0 .. capacity - 1 -> Nat]
  /\ AgreeBut(table, capacity, slots, slot)
  /\ \A i \in 1 .. Len(entries) : slots[i] < capacity

LEMMA VacatedHolds ==
  ASSUME Sound, NEW key \in Nat, Hits(hashToIdx, capacity, key, array) # {}
  PROVE  LET slot    == FindSlot(hashToIdx, capacity, key, array)
             idx     == hashToIdx[slot]
             entries == IF idx = 0 THEN array ELSE Closed(array, idx)
             slots   == IF idx = 0 THEN idxToSlot ELSE Closed(idxToSlot, idx)
             table   == IF idx = 0 THEN hashToIdx ELSE ShiftedDown(idx)
         IN  Vacated(entries, slots, table, slot)
<1> DEFINE slot == FindSlot(hashToIdx, capacity, key, array)
           idx  == hashToIdx[slot]
<1>1. /\ array \in Seq(Entry) /\ capacity \in Nat \ {0}
      /\ hashToIdx \in [0 .. capacity - 1 -> Nat] /\ Slots = 0 .. capacity - 1
      /\ idxToSlot \in Seq(Nat) /\ Len(idxToSlot) = Size /\ Size = Len(array) /\ Size \in Nat
      /\ Agree(hashToIdx, capacity, idxToSlot)
      /\ \A i \in 1 .. Size : idxToSlot[i] < capacity
  BY DEF Sound, Slots, Size
<1>2. slot \in 0 .. capacity - 1
  BY <1>1, FindSlotStops
<1> HIDE DEF slot
<1>3. CASE idx = 0
  <2>1. AgreeBut(hashToIdx, capacity, idxToSlot, slot)
    BY <1>1 DEF Agree, AgreeBut
  <2>2. Vacated(array, idxToSlot, hashToIdx, slot)
    BY <1>1, <1>2, <2>1 DEF Vacated
  <2> QED
    BY <1>3, <2>2 DEF slot
<1>4. CASE idx # 0
  <2>1. /\ idx \in 1 .. Size
        /\ ShiftedDown(idx) \in [Slots -> Nat]
        /\ AgreeBut(ShiftedDown(idx), capacity, Closed(idxToSlot, idx), slot)
    BY <1>1, <1>2, <1>4, ShiftedDownAgrees
  <2> HIDE DEF idx
  <2>2. Closed(array, idx) \in Seq(Entry) /\ Len(Closed(array, idx)) = Size - 1
    BY <1>1, <2>1, ClosedProperties
  <2>3. /\ Closed(idxToSlot, idx) \in Seq(Nat) /\ Len(Closed(idxToSlot, idx)) = Size - 1
        /\ \A j \in 1 .. Size - 1 :
             Closed(idxToSlot, idx)[j] = IF j < idx THEN idxToSlot[j] ELSE idxToSlot[j + 1]
    BY <1>1, <2>1, ClosedProperties
  <2>4. \A j \in 1 .. Size - 1 : Closed(idxToSlot, idx)[j] < capacity
    <3> SUFFICES ASSUME NEW j \in 1 .. Size - 1
                 PROVE  Closed(idxToSlot, idx)[j] < capacity
      OBVIOUS
    <3>1. j \in 1 .. Size /\ j + 1 \in 1 .. Size
      BY <1>1
    <3>2. idxToSlot[j] < capacity /\ idxToSlot[j + 1] < capacity
      BY <1>1, <3>1
    <3> QED
      BY <2>3, <3>2
  <2>5. Size - 1 \in Nat
    BY <1>1, <2>1
  <2>6. Vacated(Closed(array, idx), Closed(idxToSlot, idx), ShiftedDown(idx), slot)
    BY <1>1, <1>2, <2>1, <2>2, <2>3, <2>4, <2>5 DEF Vacated
  <2> QED
    BY <1>4, <2>6 DEF slot, idx
<1> QED
  BY <1>3, <1>4

LEMMA HtInsertShiftHolds ==
  ASSUME IInv, NEW key \in Keys, NEW value \in Payloads, InsertsInFront(key, value)
  PROVE  IInv'
<1> DEFINE slot    == FindSlot(hashToIdx, capacity, key, array)
           idx     == hashToIdx[slot]
           entries == IF idx = 0 THEN array ELSE Closed(array, idx)
           slots   == IF idx = 0 THEN idxToSlot ELSE Closed(idxToSlot, idx)
           table   == IF idx = 0 THEN hashToIdx ELSE ShiftedDown(idx)
           pending == [op |-> "insert_shift", key |-> key, payload |-> value, slot |-> slot]
<1>1. Sound /\ SizeFits /\ pc = "idle" /\ key \in Nat
  BY Entered, Zenon DEF InsertsInFront
<1>2. Hits(hashToIdx, capacity, key, array) # {}
  BY DEF InsertsInFront
<1>3. Vacated(entries, slots, table, slot)
  BY <1>1, <1>2, VacatedHolds
<1>4. IF NeedsResize(Len(entries))
      THEN /\ array' = entries
           /\ idxToSlot' = slots
           /\ hashToIdx' = table
           /\ StartResize(pending)
           /\ UNCHANGED <<capacity, arrayCapacity>>
      ELSE /\ PlaceAtFront(entries, slots, table, capacity, key, value, slot)
           /\ UNCHANGED <<pc, call, fresh, next>>
  BY DEF InsertsInFront
<1> HIDE DEF slot, entries, slots, table
<1>5. /\ capacity \in Nat \ {0} /\ arrayCapacity \in Nat \ {0}
      /\ Size \in Nat /\ Size <= arrayCapacity /\ Slots = 0 .. capacity - 1
  BY <1>1 DEF Sound, Size, Slots
<1> DEFINE n == Len(entries)
<1>6. n \in Nat /\ n \in {Size, Size - 1}
  BY <1>3 DEF Vacated
<1>7. n <= arrayCapacity /\ n <= Size
  <2> HIDE DEF n
  <2> QED
    BY <1>5, <1>6
<1>8. CASE NeedsResize(n)
  <2>1. /\ array' = entries /\ idxToSlot' = slots /\ hashToIdx' = table
        /\ StartResize(pending) /\ capacity' = capacity /\ arrayCapacity' = arrayCapacity
    BY <1>4, <1>8
  <2>2. pending \in CallType /\ pending.slot < capacity
    BY <1>1, <1>3, <1>5 DEF CallType, Vacated
  <2>3. Size' = n
    BY <2>1 DEF Size
  <2>4. SizeFits'
    <3> HIDE DEF n
    <3> QED
      BY <1>1, <1>5, <1>6, <1>7, <2>1, <2>3 DEF SizeFits
  <2>5. /\ array' \in Seq(Entry) /\ hashToIdx' \in [Slots -> Nat] /\ idxToSlot' \in Seq(Nat)
        /\ Len(idxToSlot') = Size' /\ Size' \in Nat
        /\ arrayCapacity' \in Nat \ {0} /\ Size' <= arrayCapacity'
        /\ \A i \in 1 .. Size' : idxToSlot'[i] < capacity
    BY <1>3, <1>5, <1>6, <1>7, <2>1, <2>3 DEF Vacated
  <2> HIDE DEF pending
  <2> QED
    BY <1>5, <2>1, <2>2, <2>4, <2>5, StartHolds
<1>9. CASE ~NeedsResize(n)
  <2>1. /\ PlaceAtFront(entries, slots, table, capacity, key, value, slot)
        /\ UNCHANGED <<pc, call, fresh, next>>
    BY <1>4, <1>9
  <2>2. Sound' /\ capacity' = capacity /\ Size' = n + 1
    BY <1>3, <1>5, <1>6, <1>7, <2>1, PlaceAtFrontSound DEF Vacated
  <2>3. n + 1 <= capacity /\ (capacity >= 4 => n + 1 < capacity)
    <3> HIDE DEF n
    <3> QED
      BY <1>5, <1>6, <1>9, RoomWithoutResize DEF NeedsResize
  <2>4. SizeFits'
    BY <2>2, <2>3 DEF SizeFits
  <2>5. pc' = "idle" /\ call' = NoCall /\ fresh' = <<>> /\ next' = 1
    BY <1>1, <2>1 DEF IInv
  <2> QED
    BY <2>2, <2>4, <2>5, IdleHolds
<1> QED
  BY <1>8, <1>9

\* Between two turns of the loop of resize_hash, the new table agrees with
\* the slots and has room, so find_slot stops in it.
LEMMA FreshStops ==
  ASSUME Rehashing, SizeFits, NEW key \in Nat
  PROVE  /\ Agree(fresh, 2 * capacity, idxToSlot)
         /\ Size \in Nat /\ Size < 2 * capacity /\ 2 * capacity \in Nat \ {0}
         /\ FindSlot(fresh, 2 * capacity, key, array) \in 0 .. 2 * capacity - 1
<1> DEFINE cap == 2 * capacity
<1>1. Size \in Nat /\ Size < cap /\ cap \in Nat \ {0}
  BY DEF Rehashing, SizeFits, Size
<1>2. /\ fresh \in [0 .. cap - 1 -> Nat] /\ idxToSlot \in Seq(Nat)
      /\ Len(idxToSlot) = Size /\ next \in 1 .. Size + 1
      /\ \A s \in 0 .. cap - 1 : fresh[s] # 0 => fresh[s] < next /\ idxToSlot[fresh[s]] = s
  BY DEF Rehashing
<1> HIDE DEF cap
<1>3. \A s \in 0 .. cap - 1 : fresh[s] # 0 => fresh[s] <= Size /\ idxToSlot[fresh[s]] = s
  BY <1>1, <1>2
<1>4. Agree(fresh, cap, idxToSlot)
  BY <1>2, <1>3 DEF Agree
<1>5. Hits(fresh, cap, key, array) # {}
  BY <1>1, <1>2, <1>4, ProbeStops
<1>6. FindSlot(fresh, cap, key, array) \in 0 .. cap - 1
  BY <1>1, <1>2, <1>5, FindSlotStops
<1> QED
  BY <1>1, <1>4, <1>6 DEF cap

LEMMA RehashOneHolds ==
  ASSUME IInv, RehashOne
  PROVE  IInv'
<1> DEFINE slot == FindSlot(fresh, 2 * capacity, array[next].primkey, array)
<1>1. pc = "rehash" /\ Rehashing /\ SizeFits
  BY DEF RehashOne, IInv
<1>2. /\ next <= Size
      /\ fresh' = [fresh EXCEPT ![slot] = next]
      /\ idxToSlot' = [idxToSlot EXCEPT ![next] = slot]
      /\ next' = next + 1
      /\ UNCHANGED <<array, hashToIdx, capacity, arrayCapacity, pc, call>>
  BY DEF RehashOne
<1>3. /\ array \in Seq(Entry) /\ Size = Len(array) /\ Size \in Nat
      /\ capacity \in Nat \ {0}
      /\ idxToSlot \in Seq(Nat) /\ Len(idxToSlot) = Size /\ next \in 1 .. Size
      /\ fresh \in [0 .. 2 * capacity - 1 -> Nat]
      /\ \A s \in 0 .. 2 * capacity - 1 :
           fresh[s] # 0 => fresh[s] < next /\ idxToSlot[fresh[s]] = s
      /\ \A i \in 1 .. Size : idxToSlot[i] < (IF i < next THEN 2 * capacity ELSE capacity)
  BY <1>1, <1>2 DEF Rehashing, Size
<1>4. array[next].primkey \in Nat
  <2>1. array[next] \in Entry
    BY <1>3
  <2>2. array[next].primkey \in Keys
    BY <2>1 DEF Entry
  <2> QED
    BY <2>2, TableAssumption DEF TableAssumption
<1>5. slot \in 0 .. 2 * capacity - 1
  BY <1>1, <1>4, FreshStops
<1> HIDE DEF slot
<1>6. /\ fresh' \in [0 .. 2 * capacity - 1 -> Nat]
      /\ idxToSlot' \in Seq(Nat) /\ Len(idxToSlot') = Size
      /\ \A i \in 1 .. Size : idxToSlot'[i] = IF i = next THEN slot ELSE idxToSlot[i]
  BY SMTT(20), <1>2, <1>3, <1>5
<1>7. ASSUME NEW s \in 0 .. 2 * capacity - 1, fresh'[s] # 0
      PROVE  fresh'[s] < next + 1 /\ idxToSlot'[fresh'[s]] = s
  <2>1. CASE s = slot
    BY <2>1, <1>2, <1>3, <1>6
  <2>2. CASE s # slot
    <3>1. fresh'[s] = fresh[s] /\ fresh[s] \in Nat
      BY <2>2, <1>2, <1>3
    <3>2. fresh[s] < next /\ idxToSlot[fresh[s]] = s
      BY <3>1, <1>3, <1>7
    <3>3. fresh[s] \in 1 .. Size /\ fresh[s] # next /\ fresh[s] < next + 1
      BY <3>1, <3>2, <1>3, <1>7
    <3> QED
      BY <3>1, <3>2, <3>3, <1>6
  <2> QED
    BY <2>1, <2>2
<1>8. ASSUME NEW i \in 1 .. Size
      PROVE  idxToSlot'[i] < (IF i < next + 1 THEN 2 * capacity ELSE capacity)
  <2>1. CASE i = next
    BY <2>1, <1>3, <1>5, <1>6
  <2>2. CASE i # next
    <3>1. idxToSlot'[i] = idxToSlot[i]
      BY <2>2, <1>6
    <3>2. i < next + 1 <=> i < next
      BY <2>2, <1>3
    <3> QED
      BY <3>1, <3>2, <1>3
  <2> QED
    BY <2>1, <2>2
<1>9. Size' = Size /\ Slots' = Slots /\ SizeFits'
  BY <1>1, <1>2 DEF Size, Slots, SizeFits
<1>10. /\ array' \in Seq(Entry) /\ capacity' \in Nat \ {0} /\ hashToIdx' \in [Slots' -> Nat]
       /\ arrayCapacity' \in Nat \ {0} /\ Size' <= arrayCapacity'
       /\ call' \in CallType /\ (call'.op = "insert_shift" => call'.slot < capacity')
  BY <1>1, <1>2, <1>9 DEF Rehashing
<1>11. next' \in 1 .. Size' + 1
  BY <1>2, <1>3, <1>9
<1>12. /\ fresh' \in [0 .. 2 * capacity' - 1 -> Nat]
       /\ idxToSlot' \in Seq(Nat) /\ Len(idxToSlot') = Size'
       /\ \A s \in 0 .. 2 * capacity' - 1 :
            fresh'[s] # 0 => fresh'[s] < next' /\ idxToSlot'[fresh'[s]] = s
       /\ \A i \in 1 .. Size' :
            idxToSlot'[i] < (IF i < next' THEN 2 * capacity' ELSE capacity')
  BY <1>2, <1>6, <1>7, <1>8, <1>9
<1>13. Rehashing'
  BY <1>10, <1>11, <1>12 DEF Rehashing
<1>14. pc' = "rehash"
  BY <1>1, <1>2
<1> QED
  BY <1>9, <1>13, <1>14 DEF IInv

\* What the tail of an insertion finds when resize_hash is done.
LEMMA Rehashed ==
  ASSUME Rehashing, SizeFits, next > Size
  PROVE  /\ array \in Seq(Entry) /\ idxToSlot \in Seq(Nat) /\ Len(idxToSlot) = Size
         /\ Size = Len(array) /\ Size \in Nat
         /\ arrayCapacity \in Nat \ {0} /\ Size <= arrayCapacity
         /\ capacity \in Nat \ {0} /\ 2 * capacity \in Nat \ {0}
         /\ fresh \in [0 .. 2 * capacity - 1 -> Nat]
         /\ Agree(fresh, 2 * capacity, idxToSlot)
         /\ \A i \in 1 .. Size : idxToSlot[i] < 2 * capacity
         /\ call.key \in Keys /\ call.key \in Nat /\ call.payload \in Payloads
         /\ call.slot \in Nat
         /\ Size + 1 <= 2 * capacity /\ (2 * capacity >= 4 => Size + 1 < 2 * capacity)
<1>1. /\ array \in Seq(Entry) /\ idxToSlot \in Seq(Nat) /\ Len(idxToSlot) = Size
      /\ Size = Len(array) /\ Size \in Nat
      /\ arrayCapacity \in Nat \ {0} /\ Size <= arrayCapacity
      /\ capacity \in Nat \ {0} /\ 2 * capacity \in Nat \ {0}
      /\ fresh \in [0 .. 2 * capacity - 1 -> Nat] /\ next \in 1 .. Size + 1
      /\ \A i \in 1 .. Size : idxToSlot[i] < (IF i < next THEN 2 * capacity ELSE capacity)
      /\ call \in CallType
  BY DEF Rehashing, Size
<1>2. Agree(fresh, 2 * capacity, idxToSlot)
  BY FreshStops
<1>3. \A i \in 1 .. Size : i < next
  BY <1>1
<1>4. \A i \in 1 .. Size : idxToSlot[i] < 2 * capacity
  BY <1>1, <1>3
<1>5. call.key \in Keys /\ call.payload \in Payloads /\ call.slot \in Nat
  BY <1>1 DEF CallType
<1>6. call.key \in Nat
  BY <1>5, TableAssumption DEF TableAssumption
<1>7. Size <= capacity
  BY DEF SizeFits
<1>8. Size + 1 <= 2 * capacity /\ (2 * capacity >= 4 => Size + 1 < 2 * capacity)
  BY <1>1, <1>7, RoomAfterResize
<1> QED
  BY <1>1, <1>2, <1>4, <1>5, <1>6, <1>8

LEMMA FinishInsertHolds ==
  ASSUME IInv, FinishInsert
  PROVE  IInv'
<1> DEFINE cap == 2 * capacity
           slot == FindSlot(fresh, cap, call.key, array)
<1>1. Rehashing /\ SizeFits /\ next > Size
  BY DEF FinishInsert, IInv
<1>2. /\ PlaceAtEnd(fresh, cap, call.key, call.payload, slot)
      /\ pc' = "idle" /\ call' = NoCall /\ fresh' = <<>> /\ next' = 1
  BY DEF FinishInsert, ReturnFromCall
<1>3. /\ array \in Seq(Entry) /\ idxToSlot \in Seq(Nat) /\ Len(idxToSlot) = Size
      /\ Size \in Nat /\ arrayCapacity \in Nat \ {0} /\ Size <= arrayCapacity
      /\ cap \in Nat \ {0} /\ fresh \in [0 .. cap - 1 -> Nat]
      /\ Agree(fresh, cap, idxToSlot) /\ \A i \in 1 .. Size : idxToSlot[i] < cap
      /\ call.key \in Keys /\ call.key \in Nat /\ call.payload \in Payloads
      /\ Size + 1 <= cap /\ (cap >= 4 => Size + 1 < cap)
  BY <1>1, Rehashed
<1>4. slot \in 0 .. cap - 1
  BY <1>1, <1>3, FreshStops
<1> HIDE DEF cap, slot
<1>5. Sound' /\ capacity' = cap /\ Size' \in {Size, Size + 1}
  BY <1>2, <1>3, <1>4, PlaceAtEndSound
<1>6. SizeFits'
  BY <1>3, <1>5 DEF SizeFits
<1> QED
  BY <1>2, <1>5, <1>6, IdleHolds

LEMMA FinishInsertShiftHolds ==
  ASSUME IInv, FinishInsertShift
  PROVE  IInv'
<1> DEFINE cap == 2 * capacity
<1>1. Rehashing /\ SizeFits /\ next > Size /\ call.op = "insert_shift"
  BY DEF FinishInsertShift, IInv
<1>2. /\ PlaceAtFront(array, idxToSlot, fresh, cap, call.key, call.payload, call.slot)
      /\ pc' = "idle" /\ call' = NoCall /\ fresh' = <<>> /\ next' = 1
  BY DEF FinishInsertShift, ReturnFromCall
<1>3. /\ array \in Seq(Entry) /\ idxToSlot \in Seq(Nat) /\ Len(idxToSlot) = Len(array)
      /\ Size = Len(array) /\ Size \in Nat
      /\ arrayCapacity \in Nat \ {0} /\ Len(array) <= arrayCapacity
      /\ cap \in Nat \ {0} /\ fresh \in [0 .. cap - 1 -> Nat]
      /\ Agree(fresh, cap, idxToSlot) /\ \A i \in 1 .. Len(array) : idxToSlot[i] < cap
      /\ call.key \in Keys /\ call.payload \in Payloads
      /\ Size + 1 <= cap /\ (cap >= 4 => Size + 1 < cap)
  BY <1>1, Rehashed
<1>4. call.slot \in 0 .. cap - 1
  <2>1. call.slot < capacity /\ call.slot \in Nat /\ capacity \in Nat
    BY <1>1, Rehashed DEF Rehashing
  <2> QED
    BY <2>1
<1> HIDE DEF cap
<1>5. AgreeBut(fresh, cap, idxToSlot, call.slot)
  BY <1>3 DEF Agree, AgreeBut
<1>6. Sound' /\ capacity' = cap /\ Size' = Size + 1
  BY <1>2, <1>3, <1>4, <1>5, PlaceAtFrontSound
<1>7. SizeFits'
  BY <1>3, <1>6 DEF SizeFits
<1> QED
  BY <1>2, <1>6, <1>7, IdleHolds

\* What a removal finds.
LEMMA RemovalFinds ==
  ASSUME IInv, NEW op, NEW key \in Keys, Enter(op, key),
         Hits(hashToIdx, capacity, key, array) # {}
  PROVE  /\ Sound /\ SizeFits /\ pc = "idle"
         /\ call = NoCall /\ fresh = <<>> /\ next = 1
         /\ FindSlot(hashToIdx, capacity, key, array) \in Slots
         /\ array \in Seq(Entry) /\ Size = Len(array) /\ Size \in Nat
         /\ idxToSlot \in Seq(Nat) /\ Len(idxToSlot) = Size
         /\ capacity \in Nat \ {0} /\ hashToIdx \in [Slots -> Nat]
         /\ arrayCapacity \in Nat \ {0} /\ Size <= arrayCapacity
         /\ Slots = 0 .. capacity - 1
         /\ \A i \in 1 .. Size : idxToSlot[i] < capacity
         /\ \A s \in Slots : hashToIdx[s] # 0 =>
              hashToIdx[s] \in 1 .. Size /\ idxToSlot[hashToIdx[s]] = s
<1>1. Sound /\ SizeFits /\ pc = "idle" /\ key \in Nat
  BY Entered DEF Enter
<1>2. call = NoCall /\ fresh = <<>> /\ next = 1
  BY <1>1, Zenon DEF IInv
<1>3. /\ array \in Seq(Entry) /\ Size = Len(array) /\ Size \in Nat
      /\ idxToSlot \in Seq(Nat) /\ Len(idxToSlot) = Size
      /\ capacity \in Nat \ {0} /\ hashToIdx \in [Slots -> Nat]
      /\ arrayCapacity \in Nat \ {0} /\ Size <= arrayCapacity
      /\ Slots = 0 .. capacity - 1
      /\ \A i \in 1 .. Size : idxToSlot[i] < capacity
      /\ Agree(hashToIdx, capacity, idxToSlot)
  BY <1>1 DEF Sound, Slots, Size
<1>4. FindSlot(hashToIdx, capacity, key, array) \in Slots
  BY <1>1, <1>3, FindSlotStops
<1>5. \A s \in Slots : hashToIdx[s] # 0 =>
        hashToIdx[s] \in 1 .. Size /\ idxToSlot[hashToIdx[s]] = s
  BY <1>3 DEF Agree
<1> QED
  BY <1>1, <1>2, <1>3, <1>4, <1>5

\* The end of both removals.
LEMMA RemovalHolds ==
  ASSUME SizeFits, capacity \in Nat \ {0}, NEW n \in Nat, n + 1 = Size,
         arrayCapacity \in Nat \ {0}, Size <= arrayCapacity,
         pc = "idle", call = NoCall, fresh = <<>>, next = 1,
         UNCHANGED <<capacity, arrayCapacity, pc, call, fresh, next>>,
         array' \in Seq(Entry), Len(array') = n,
         idxToSlot' \in Seq(Nat), Len(idxToSlot') = n,
         hashToIdx' \in [0 .. capacity - 1 -> Nat],
         Agree(hashToIdx', capacity, idxToSlot'),
         \A i \in 1 .. n : idxToSlot'[i] < capacity
  PROVE  IInv'
<1>1. Size' = n /\ capacity' = capacity
  BY DEF Size
<1>2. arrayCapacity' \in Nat \ {0} /\ n <= arrayCapacity'
  BY <1>1
<1>3. Sound'
  BY <1>1, <1>2, SoundNext
<1>4. SizeFits'
  BY <1>1 DEF SizeFits
<1>5. pc' = "idle" /\ call' = NoCall /\ fresh' = <<>> /\ next' = 1
  OBVIOUS
<1> QED
  BY <1>3, <1>4, <1>5, IdleHolds

\* The last element of a sequence fills the place of another.
LEMMA FilledHole ==
  ASSUME NEW S, NEW q \in Seq(S), NEW n \in Nat, Len(q) = n + 1, NEW idx
  PROVE  LET p == [i \in 1 .. n |-> IF i = idx THEN q[n + 1] ELSE q[i]]
         IN  /\ p \in Seq(S) /\ Len(p) = n
             /\ \A i \in 1 .. n : p[i] = IF i = idx THEN q[n + 1] ELSE q[i]
<1> DEFINE p == [i \in 1 .. n |-> IF i = idx THEN q[n + 1] ELSE q[i]]
<1>1. \A i \in 1 .. n : i \in 1 .. Len(q)
  OBVIOUS
<1>2. q[n + 1] \in S /\ \A i \in 1 .. n : q[i] \in S
  BY <1>1
<1>3. p \in [1 .. n -> S]
  BY <1>2
<1>4. p \in Seq(S) /\ Len(p) = n
  <2> HIDE DEF p
  <2> QED
    BY <1>3
<1> QED
  BY <1>4

LEMMA HtRemoveHolds ==
  ASSUME IInv, NEW key \in Keys, HtRemove(key)
  PROVE  IInv'
<1> DEFINE slot == FindSlot(hashToIdx, capacity, key, array)
           idx  == hashToIdx[slot]
           n    == Size - 1
<1>1. /\ Enter("remove", key)
      /\ Hits(hashToIdx, capacity, key, array) # {}
      /\ idx # 0
      /\ array' = [i \in 1 .. n |-> IF i = idx THEN array[Size] ELSE array[i]]
      /\ idxToSlot' = [i \in 1 .. n |-> IF i = idx THEN idxToSlot[Size] ELSE idxToSlot[i]]
      /\ hashToIdx' = Unlinked(slot, idx)
      /\ UNCHANGED <<capacity, arrayCapacity, pc, call, fresh, next>>
  BY DEF HtRemove
<1>2. /\ SizeFits /\ pc = "idle" /\ call = NoCall /\ fresh = <<>> /\ next = 1
      /\ array \in Seq(Entry) /\ Size = Len(array) /\ Size \in Nat
      /\ idxToSlot \in Seq(Nat) /\ Len(idxToSlot) = Size
      /\ capacity \in Nat \ {0} /\ hashToIdx \in [Slots -> Nat]
      /\ arrayCapacity \in Nat \ {0} /\ Size <= arrayCapacity
      /\ Slots = 0 .. capacity - 1 /\ slot \in Slots
      /\ \A i \in 1 .. Size : idxToSlot[i] < capacity
      /\ \A s \in Slots : hashToIdx[s] # 0 =>
           hashToIdx[s] \in 1 .. Size /\ idxToSlot[hashToIdx[s]] = s
  BY <1>1, RemovalFinds
<1> HIDE DEF slot
<1>3. idx \in 1 .. Size /\ idxToSlot[idx] = slot
  BY <1>1, <1>2
<1> HIDE DEF idx
<1>4. n \in Nat /\ n + 1 = Size
  BY <1>2, <1>3
<1> HIDE DEF n
<1>5. array' \in Seq(Entry) /\ Len(array') = n
  BY <1>1, <1>2, <1>4, FilledHole
<1>6. /\ idxToSlot' \in Seq(Nat) /\ Len(idxToSlot') = n
      /\ \A i \in 1 .. n : idxToSlot'[i] = IF i = idx THEN idxToSlot[Size] ELSE idxToSlot[i]
  <2> DEFINE p == [i \in 1 .. n |-> IF i = idx THEN idxToSlot[n + 1] ELSE idxToSlot[i]]
  <2>1. /\ p \in Seq(Nat) /\ Len(p) = n
        /\ \A i \in 1 .. n : p[i] = IF i = idx THEN idxToSlot[n + 1] ELSE idxToSlot[i]
    BY <1>2, <1>4, FilledHole
  <2>2. idxToSlot' = p
    BY <1>1, <1>4
  <2> HIDE DEF p
  <2> QED
    BY <1>4, <2>1, <2>2
<1>7. \A i \in 1 .. n : idxToSlot'[i] < capacity
  <2> SUFFICES ASSUME NEW i \in 1 .. n PROVE idxToSlot'[i] < capacity
    OBVIOUS
  <2>1. i \in 1 .. Size /\ Size \in 1 .. Size
    BY <1>2, <1>4
  <2>2. idxToSlot[i] < capacity /\ idxToSlot[Size] < capacity
    BY <2>1, <1>2
  <2> QED
    BY <1>6, <2>2
<1>8. idxToSlot[Size] \in Slots
  <2>1. Size \in 1 .. Size
    BY <1>2, <1>4
  <2>2. idxToSlot[Size] \in Nat /\ idxToSlot[Size] < capacity
    BY <1>2, <2>1
  <2> QED
    BY <1>2, <2>2
<1>9. /\ hashToIdx' \in [Slots -> Nat]
      /\ hashToIdx'[slot] = 0
      /\ \A s \in Slots : s # slot =>
           hashToIdx'[s] = IF idx < Size /\ s = idxToSlot[Size] THEN idx ELSE hashToIdx[s]
  <2>1. CASE idx < Size
    <3>1. hashToIdx' = [hashToIdx EXCEPT ![idxToSlot[Size]] = idx, ![slot] = 0]
      BY <1>1, <2>1 DEF Unlinked
    <3>2. idx \in Nat
      BY <1>3
    <3> QED
      BY <1>2, <1>8, <2>1, <3>1, <3>2
  <2>2. CASE ~(idx < Size)
    <3>1. hashToIdx' = [hashToIdx EXCEPT ![slot] = 0]
      BY <1>1, <2>2 DEF Unlinked
    <3> QED
      BY <1>2, <2>2, <3>1
  <2> QED
    BY <2>1, <2>2
<1>10. ASSUME NEW s \in Slots, hashToIdx'[s] # 0
       PROVE  hashToIdx'[s] <= n /\ idxToSlot'[hashToIdx'[s]] = s
  <2>1. s # slot
    BY <1>9, <1>10
  <2>2. CASE idx < Size /\ s = idxToSlot[Size]
    <3>1. hashToIdx'[s] = idx
      BY <1>9, <2>1, <2>2
    <3>2. idx \in 1 .. n
      BY <1>3, <1>4, <2>2
    <3> QED
      BY <1>6, <2>2, <3>1, <3>2
  <2>3. CASE ~(idx < Size /\ s = idxToSlot[Size])
    <3>1. hashToIdx'[s] = hashToIdx[s]
      BY <1>9, <2>1, <2>3
    <3>2. hashToIdx[s] \in 1 .. Size /\ idxToSlot[hashToIdx[s]] = s
      BY <1>2, <1>10, <3>1
    <3>3. hashToIdx[s] # idx
      BY <1>3, <2>1, <3>2
    <3>4. hashToIdx[s] # Size
      BY <1>2, <1>3, <2>3, <3>2, <3>3
    <3>5. hashToIdx[s] \in 1 .. n
      BY <1>4, <3>2, <3>4
    <3> QED
      BY <1>6, <3>1, <3>2, <3>3, <3>5
  <2> QED
    BY <2>2, <2>3
<1>11. Agree(hashToIdx', capacity, idxToSlot')
  BY <1>2, <1>6, <1>10 DEF Agree
<1>12. hashToIdx' \in [0 .. capacity - 1 -> Nat]
  BY <1>2, <1>9
<1> QED
  BY <1>1, <1>2, <1>4, <1>5, <1>6, <1>7, <1>11, <1>12, RemovalHolds

LEMMA HtRemoveShiftHolds ==
  ASSUME IInv, NEW key \in Keys, HtRemoveShift(key)
  PROVE  IInv'
<1> DEFINE slot == FindSlot(hashToIdx, capacity, key, array)
           idx  == hashToIdx[slot]
           n    == Size - 1
           down == ShiftedDown(idx)
<1>1. /\ Enter("remove_shift", key)
      /\ Hits(hashToIdx, capacity, key, array) # {}
      /\ idx # 0
      /\ array' = Closed(array, idx)
      /\ idxToSlot' = Closed(idxToSlot, idx)
      /\ hashToIdx' = [down EXCEPT ![slot] = 0]
      /\ UNCHANGED <<capacity, arrayCapacity, pc, call, fresh, next>>
  BY DEF HtRemoveShift
<1>2. /\ Sound /\ SizeFits /\ pc = "idle" /\ call = NoCall /\ fresh = <<>> /\ next = 1
      /\ array \in Seq(Entry) /\ Size = Len(array) /\ Size \in Nat
      /\ idxToSlot \in Seq(Nat) /\ Len(idxToSlot) = Size
      /\ capacity \in Nat \ {0}
      /\ arrayCapacity \in Nat \ {0} /\ Size <= arrayCapacity
      /\ Slots = 0 .. capacity - 1 /\ slot \in Slots
      /\ \A i \in 1 .. Size : idxToSlot[i] < capacity
  BY <1>1, RemovalFinds
<1> HIDE DEF slot
<1>3. /\ idx \in 1 .. Size
      /\ down \in [Slots -> Nat]
      /\ AgreeBut(down, capacity, Closed(idxToSlot, idx), slot)
  BY <1>1, <1>2, ShiftedDownAgrees
<1> HIDE DEF idx, down
<1>4. n \in Nat /\ n + 1 = Size
  BY <1>2, <1>3
<1>5. array' \in Seq(Entry) /\ Len(array') = n
  <2>1. idx \in 1 .. Len(array)
    BY <1>2, <1>3
  <2>2. Closed(array, idx) \in Seq(Entry) /\ Len(Closed(array, idx)) = Size - 1
    BY <2>1, <1>2, ClosedProperties
  <2> QED
    BY <2>2, <1>1
<1>6. /\ idxToSlot' \in Seq(Nat) /\ Len(idxToSlot') = n
      /\ \A j \in 1 .. n : idxToSlot'[j] = IF j < idx THEN idxToSlot[j] ELSE idxToSlot[j + 1]
  <2>1. idx \in 1 .. Len(idxToSlot)
    BY <1>2, <1>3
  <2>2. /\ Closed(idxToSlot, idx) \in Seq(Nat) /\ Len(Closed(idxToSlot, idx)) = Size - 1
        /\ \A j \in 1 .. Size - 1 :
             Closed(idxToSlot, idx)[j] = IF j < idx THEN idxToSlot[j] ELSE idxToSlot[j + 1]
    <3>1. /\ Closed(idxToSlot, idx) \in Seq(Nat)
          /\ Len(Closed(idxToSlot, idx)) = Len(idxToSlot) - 1
          /\ \A j \in 1 .. Len(idxToSlot) - 1 :
               Closed(idxToSlot, idx)[j] = IF j < idx THEN idxToSlot[j] ELSE idxToSlot[j + 1]
      BY <1>2, <2>1, ClosedProperties
    <3> QED
      BY <1>2, <3>1
  <2> QED
    BY <1>1, <2>2
<1> HIDE DEF n
<1>7. \A i \in 1 .. n : idxToSlot'[i] < capacity
  <2> SUFFICES ASSUME NEW i \in 1 .. n PROVE idxToSlot'[i] < capacity
    OBVIOUS
  <2>1. i \in 1 .. Size /\ i + 1 \in 1 .. Size
    BY <1>4
  <2>2. idxToSlot[i] < capacity /\ idxToSlot[i + 1] < capacity
    BY <2>1, <1>2
  <2> QED
    BY <1>6, <2>2
<1>8. hashToIdx' \in [0 .. capacity - 1 -> Nat] /\ hashToIdx'[slot] = 0
  BY <1>1, <1>2, <1>3
<1>9. ASSUME NEW s \in 0 .. capacity - 1, hashToIdx'[s] # 0
      PROVE  hashToIdx'[s] <= Len(idxToSlot') /\ idxToSlot'[hashToIdx'[s]] = s
  <2>1. s # slot
    BY <1>8, <1>9
  <2>2. hashToIdx'[s] = down[s]
    BY <1>1, <1>2, <1>3, <2>1
  <2> QED
    BY <1>1, <1>3, <1>9, <2>1, <2>2 DEF AgreeBut
<1>10. Agree(hashToIdx', capacity, idxToSlot')
  BY <1>9 DEF Agree
<1> QED
  BY <1>1, <1>2, <1>4, <1>5, <1>6, <1>7, <1>8, <1>10, RemovalHolds

\* A step that leaves the table alone.
LEMMA TableUnchanged ==
  ASSUME Sound, SizeFits,
         UNCHANGED <<array, hashToIdx, idxToSlot, capacity, arrayCapacity>>
  PROVE  Sound' /\ SizeFits'
<1>1. Size' = Size /\ Slots' = Slots
  BY DEF Size, Slots
<1>2. Agree(hashToIdx', capacity', idxToSlot')
  BY DEF Sound
<1> QED
  BY <1>1, <1>2 DEF Sound, SizeFits

LEMMA SpinForeverHolds ==
  ASSUME IInv, NEW op, NEW key \in Keys, SpinForever(op, key)
  PROVE  IInv'
<1>1. Sound /\ SizeFits /\ pc = "idle"
  BY Entered DEF SpinForever, Enter
<1>2. call = NoCall /\ fresh = <<>> /\ next = 1
  BY <1>1, Zenon DEF IInv
<1>3. /\ pc' = "spinning"
      /\ UNCHANGED <<array, hashToIdx, idxToSlot, capacity, arrayCapacity,
                     call, fresh, next>>
  BY DEF SpinForever
<1>4. Sound' /\ SizeFits'
  BY <1>1, <1>3, TableUnchanged
<1>5. pc' \in {"idle", "spinning"} /\ call' = NoCall /\ fresh' = <<>> /\ next' = 1
  BY <1>2, <1>3
<1> QED
  BY <1>4, <1>5, IdleHolds

LEMMA NextHolds ==
  ASSUME IInv, [Next]_vars
  PROVE  IInv'
<1>1. CASE UNCHANGED vars
  <2>1. /\ array' = array /\ hashToIdx' = hashToIdx /\ idxToSlot' = idxToSlot
        /\ capacity' = capacity /\ arrayCapacity' = arrayCapacity
        /\ pc' = pc /\ call' = call /\ fresh' = fresh /\ next' = next
    BY <1>1 DEF vars
  <2>2. CASE pc = "rehash"
    <3>1. Rehashing /\ SizeFits
      BY <2>2 DEF IInv
    <3>2. Size' = Size /\ Slots' = Slots
      BY <2>1 DEF Size, Slots
    <3>3. Rehashing'
      BY <2>1, <3>1, <3>2 DEF Rehashing
    <3>4. SizeFits' /\ pc' = "rehash"
      BY <2>1, <2>2, <3>1, <3>2 DEF SizeFits
    <3> QED
      BY <3>3, <3>4 DEF IInv
  <2>3. CASE pc # "rehash"
    <3>1. /\ Sound /\ SizeFits /\ pc \in {"idle", "spinning"}
          /\ call = NoCall /\ fresh = <<>> /\ next = 1
      BY <2>3 DEF IInv
    <3>2. Sound' /\ SizeFits'
      BY <2>1, <3>1, TableUnchanged
    <3>3. pc' \in {"idle", "spinning"} /\ call' = NoCall /\ fresh' = <<>> /\ next' = 1
      BY <2>1, <3>1
    <3> QED
      BY <3>2, <3>3, IdleHolds
  <2> QED
    BY <2>2, <2>3
<1>2. ASSUME NEW key \in Keys, NEW value \in Payloads, HtInsert(key, value)
      PROVE  IInv'
  BY <1>2, Insertions, HtInsertHolds
<1>3. ASSUME NEW key \in Keys, NEW value \in Payloads, HtInsertShift(key, value)
      PROVE  IInv'
  BY <1>3, Insertions, HtInsertShiftHolds
<1>4. ASSUME NEW key \in Keys, HtRemove(key)
      PROVE  IInv'
  BY <1>4, HtRemoveHolds
<1>5. ASSUME NEW key \in Keys, HtRemoveShift(key)
      PROVE  IInv'
  BY <1>5, HtRemoveShiftHolds
<1>6. ASSUME NEW key \in Keys, NEW op \in Operations, SpinForever(op, key)
      PROVE  IInv'
  BY <1>6, SpinForeverHolds
<1> QED
  BY <1>1, <1>2, <1>3, <1>4, <1>5, <1>6,
     RehashOneHolds, FinishInsertHolds, FinishInsertShiftHolds DEF Next

LEMMA Inductive == Spec => []IInv
<1>1. Init => IInv
  BY InitHolds
<1>2. IInv /\ [Next]_vars => IInv'
  BY NextHolds
<1> QED
  BY <1>1, <1>2, PTL DEF Spec

-----------------------------------------------------------------------------
(***************************************************************************)
(* The theorems.                                                           *)
(***************************************************************************)

\* Every reachable state of the table has the types of ClipboardHashTable,
\* with the new table of resize_hash existing only inside it.
THEOREM TypeCorrect == Spec => []TypeOK
<1>1. IInv => TypeOK
  <2> SUFFICES ASSUME IInv PROVE TypeOK
    OBVIOUS
  <2>1. CASE pc = "rehash"
    <3>1. Rehashing
      BY <2>1 DEF IInv
    <3> QED
      BY <2>1, <3>1 DEF Rehashing, TypeOK
  <2>2. CASE pc # "rehash"
    <3>1. Sound /\ call = NoCall /\ fresh = <<>> /\ next = 1 /\ pc \in {"idle", "spinning"}
      BY <2>2 DEF IInv
    <3>2. 1 \in 1 .. Size + 1
      BY <3>1 DEF Sound, Size
    <3> QED
      BY <2>2, <3>1, <3>2 DEF Sound, TypeOK
  <2> QED
    BY <2>1, <2>2
<1> QED
  BY <1>1, Inductive, PTL

\* Every used slot names a live entry that records that slot, after any
\* sequence of insertions, shifts and removals: no operation leaves a slot
\* pointing at an entry that has moved away or gone.
THEOREM IndexAlwaysAgrees == Spec => []IndexAgrees
<1>1. IInv => IndexAgrees
  BY DEF IInv, Sound, IndexAgrees
<1> QED
  BY <1>1, Inductive, PTL

\* No operation writes outside the arrays that realloc and calloc returned.
THEOREM AlwaysAllocated == Spec => []StaysAllocated
<1>1. IInv => StaysAllocated
  <2> SUFFICES ASSUME IInv PROVE StaysAllocated
    OBVIOUS
  <2>1. CASE pc = "rehash"
    <3>1. Rehashing
      BY <2>1 DEF IInv
    <3> QED
      BY <2>1, <3>1 DEF Rehashing, StaysAllocated
  <2>2. CASE pc # "rehash"
    <3>1. Sound
      BY <2>2 DEF IInv
    <3> QED
      BY <2>2, <3>1 DEF Sound, StaysAllocated
  <2> QED
    BY <2>1, <2>2
<1> QED
  BY <1>1, Inductive, PTL

\* A table created with a capacity of at least four never spins: resize_hash
\* comes early enough to leave an empty slot for every probe to meet.  With
\* a capacity of one or two an insertion may fill the hash.
THEOREM ProbesAlwaysEnd ==
  ASSUME NextPowerOfTwo(InitialCapacity) >= 4
  PROVE  Spec => []ProbesEnd
<1> DEFINE Inv == IInv /\ capacity >= 4 /\ pc # "spinning"
<1>1. Init => Inv
  <2> SUFFICES ASSUME Init PROVE Inv
    OBVIOUS
  <2>1. IInv
    BY InitHolds
  <2> QED
    BY <2>1 DEF Init
<1>2. Inv /\ [Next]_vars => Inv'
  <2> SUFFICES ASSUME Inv, [Next]_vars PROVE Inv'
    OBVIOUS
  <2>1. IInv'
    BY NextHolds
  <2>2. capacity \in Nat
    BY DEF IInv, Sound, Rehashing
  <2>3. ASSUME NEW key \in Keys, NEW op \in Operations, SpinForever(op, key) PROVE FALSE
    <3>1. Sound /\ SizeFits /\ key \in Nat
      BY <2>3, Entered DEF SpinForever, Enter
    <3>2. /\ hashToIdx \in [0 .. capacity - 1 -> Nat] /\ capacity \in Nat \ {0}
          /\ idxToSlot \in Seq(Nat) /\ Len(idxToSlot) < capacity
          /\ Agree(hashToIdx, capacity, idxToSlot)
      BY <3>1 DEF Sound, Slots, SizeFits
    <3>3. Hits(hashToIdx, capacity, key, array) # {}
      BY <3>1, <3>2, ProbeStops
    <3> QED
      BY <2>3, <3>3 DEF SpinForever
  <2>4. \/ capacity' = capacity /\ pc' \in {pc, "idle", "rehash"}
        \/ capacity' = 2 * capacity /\ pc' = "idle"
    <3>1. CASE UNCHANGED vars
      BY <3>1 DEF vars
    <3>2. ASSUME NEW key \in Keys, NEW value \in Payloads,
                 HtInsert(key, value) \/ HtInsertShift(key, value)
          PROVE  capacity' = capacity /\ pc' \in {pc, "idle", "rehash"}
      BY <3>2 DEF HtInsert, HtInsertShift, PlaceAtEnd, PlaceAtFront, StartResize
    <3>3. CASE RehashOne
      BY <3>3 DEF RehashOne
    <3>4. CASE FinishInsert \/ FinishInsertShift
      BY <3>4 DEF FinishInsert, FinishInsertShift, PlaceAtEnd, PlaceAtFront, ReturnFromCall
    <3>5. ASSUME NEW key \in Keys, HtRemove(key) \/ HtRemoveShift(key)
          PROVE  capacity' = capacity /\ pc' = pc
      BY <3>5 DEF HtRemove, HtRemoveShift
    <3> QED
      BY <2>3, <3>1, <3>2, <3>3, <3>4, <3>5 DEF Next
  <2> QED
    BY <2>1, <2>2, <2>4
<1>3. Inv => ProbesEnd
  BY DEF ProbesEnd
<1> QED
  BY <1>1, <1>2, <1>3, PTL DEF Spec

=============================================================================
