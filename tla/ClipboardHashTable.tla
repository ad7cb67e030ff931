------------------------- MODULE ClipboardHashTable -------------------------
(***************************************************************************)
(* The open-addressing table behind the clipboard history                  *)
(* (src/clipboard/clipboard-hashtable.c): a dense array of entries, a       *)
(* probe table hash_to_idx from slots to array positions, and the inverse  *)
(* idx_to_hash_slot from positions to slots.  One table holds the recent   *)
(* entries, 32 others are the shards that are searched.                    *)
(*                                                                         *)
(* Every operation runs under the table's spinlock, so a call is one step, *)
(* except that the loop of resize_hash is a step per entry.  Positions are *)
(* 1-based here, which makes hash_to_idx (index + 1, 0 for empty) read as  *)
(* it is stored.  Text, timestamp and content type of an entry are one     *)
(* payload.  Allocations succeed.                                          *)
(***************************************************************************)
EXTENDS Integers, SequencesExt

CONSTANTS
  Keys,             \* the primary keys callers pass (uint32, 0 is rejected)
  Payloads,         \* the values of (text, timestamp, content_type)
  Operations,       \* the operations the owner of this table calls
  InitialCapacity,  \* the argument of ht_create
  MaxEntries        \* bound: a table of this many entries takes no new one

\* bound: the initial capacities that are modelled
PowersOfTwo == {1, 2, 4, 8, 16, 32, 64, 128, 256, 512, 1024, 2048, 4096,
                8192, 16384, 32768, 65536}

ASSUME TableAssumption ==
  /\ Keys \subseteq Nat
  /\ Operations \subseteq {"insert", "insert_shift", "remove", "remove_shift"}
  /\ InitialCapacity \in Nat \ {0}
  /\ \E p \in PowersOfTwo : InitialCapacity <= p
  /\ MaxEntries \in Nat

VARIABLES
  array,          \* the entries, oldest insertion order changed by shifts
  hashToIdx,      \* slot -> position in array, 0 when the slot is empty
  idxToSlot,      \* position -> slot
  capacity,       \* number of slots
  arrayCapacity,  \* allocated length of array and idxToSlot
  pc,             \* "idle", "rehash" (inside resize_hash) or "spinning"
  call,           \* the operation that waits for resize_hash to finish
  fresh,          \* new_hash_to_idx, the table resize_hash is filling
  next            \* the loop index of resize_hash

vars == <<array, hashToIdx, idxToSlot, capacity, arrayCapacity,
          pc, call, fresh, next>>

Size  == Len(array)
Slots == 0 .. capacity - 1
Entry == [primkey : Keys, payload : Payloads]
NoCall == [op |-> "none"]
CallType ==
  [op : {"insert", "insert_shift"}, key : Keys, payload : Payloads, slot : Nat]

(***************************************************************************)
(* The helpers of the C file.                                              *)
(***************************************************************************)
NextPowerOfTwo(x) == Min({p \in PowersOfTwo : p >= x})

\* The probe distances at which find_slot stops: an empty slot or the key.
Hits(table, cap, key, entries) ==
  {d \in 0 .. cap - 1 :
     LET idx == table[(key + d) % cap]
     IN  idx = 0 \/ entries[idx].primkey = key}

FindSlot(table, cap, key, entries) ==
  (key + Min(Hits(table, cap, key, entries))) % cap

\* Slip: the table is resized only when no slot is left.
NeedsResizeWhenFull(size) == size >= capacity

\* ht->size >= ht->capacity * 0.75
NeedsResize(size) == 4 * size >= 3 * capacity

\* Slip: the comparison is off by one.
GrownArrayLate(size) ==
  IF size > arrayCapacity THEN 2 * arrayCapacity ELSE arrayCapacity

GrownArray(size) ==
  IF size >= arrayCapacity THEN 2 * arrayCapacity ELSE arrayCapacity

-----------------------------------------------------------------------------
Init ==
  /\ array = <<>>
  /\ capacity = NextPowerOfTwo(InitialCapacity)
  /\ hashToIdx = [s \in Slots |-> 0]
  /\ idxToSlot = <<>>
  /\ arrayCapacity = capacity
  /\ pc = "idle"
  /\ call = NoCall
  /\ fresh = <<>>
  /\ next = 1

\* A caller that may take the spinlock and pass the argument check.
Enter(op, key) == pc = "idle" /\ op \in Operations /\ key # 0

\* The bound: there is room for one more entry, or the key will be found.
Room(key) ==
  \/ Size < MaxEntries
  \/ /\ Hits(hashToIdx, capacity, key, array) # {}
     /\ hashToIdx[FindSlot(hashToIdx, capacity, key, array)] # 0

StartResize(pending) ==
  /\ pc' = "rehash"
  /\ call' = pending
  /\ fresh' = [s \in 0 .. 2 * capacity - 1 |-> 0]
  /\ next' = 1

\* Slip: the old table stays reachable after the call.
ReturnKeepsTable == pc' = "idle" /\ call' = NoCall /\ next' = 1 /\ fresh' = fresh

ReturnFromCall ==
  /\ pc' = "idle"
  /\ call' = NoCall
  /\ fresh' = <<>>
  /\ next' = 1

\* The tail of ht_insert, from the slot it found, in the table of cap slots.
PlaceAtEnd(table, cap, key, value, slot) ==
  LET idx == table[slot]
  IN  /\ capacity' = cap
      /\ IF idx # 0
         THEN /\ array' = [array EXCEPT ![idx] =
                              [primkey |-> array[idx].primkey, payload |-> value]]
              /\ hashToIdx' = table
              /\ UNCHANGED <<idxToSlot, arrayCapacity>>
         ELSE /\ array' = Append(array, [primkey |-> key, payload |-> value])
              /\ hashToIdx' = [table EXCEPT ![slot] = Size + 1]
              /\ idxToSlot' = Append(idxToSlot, slot)
              /\ arrayCapacity' = GrownArray(Size)

\* hash_to_idx after the loop that moves the positions of all entries up by one.
ShiftedUp(table, cap, slots) ==
  LET owners(s) == {i \in 1 .. Len(slots) : slots[i] = s}
  IN  [s \in 0 .. cap - 1 |->
         IF owners(s) = {} THEN table[s] ELSE Min(owners(s)) + 1]

\* The tail of ht_insert_shift: every entry moves one position up and the
\* new one takes position 1, at the slot that was found before the resize.
PlaceAtFront(entries, slots, table, cap, key, value, slot) ==
  /\ capacity' = cap
  /\ array' = <<[primkey |-> key, payload |-> value]>> \o entries
  /\ idxToSlot' = <<slot>> \o slots
  /\ hashToIdx' = [ShiftedUp(table, cap, slots) EXCEPT ![slot] = 1]
  /\ arrayCapacity' = GrownArray(Len(entries))

\* Slips: the old entry is not taken out; the last entry fills its place.
ClosedNothing(seq, idx) == seq
ClosedByLast(seq, idx) ==
  [i \in 1 .. Len(seq) - 1 |-> IF i = idx THEN seq[Len(seq)] ELSE seq[i]]

\* The entries and slots that remain when position idx is shifted out.
Closed(seq, idx) == RemoveAt(seq, idx)

\* Slip: the positions are copied and not moved.
ShiftedDownSame(idx) ==
  LET owners(s) == {i \in idx + 1 .. Size : idxToSlot[i] = s}
  IN  [s \in Slots |-> IF owners(s) = {} THEN hashToIdx[s] ELSE Max(owners(s))]

\* hash_to_idx after the loop that moves the positions above idx down by one.
ShiftedDown(idx) ==
  LET owners(s) == {i \in idx + 1 .. Size : idxToSlot[i] = s}
  IN  [s \in Slots |-> IF owners(s) = {} THEN hashToIdx[s] ELSE Max(owners(s)) - 1]

\* Slip: the entry that fills the hole keeps its old position in the index.
UnlinkedOnly(slot, idx) == [hashToIdx EXCEPT ![slot] = 0]

\* hash_to_idx after ht_remove has moved the last entry into position idx.
Unlinked(slot, idx) ==
  IF idx < Size
  THEN [hashToIdx EXCEPT ![idxToSlot[Size]] = idx, ![slot] = 0]
  ELSE [hashToIdx EXCEPT ![slot] = 0]

-----------------------------------------------------------------------------
HtInsert(key, value) ==
  /\ Enter("insert", key)
  /\ Room(key)
  /\ IF NeedsResize(Size)
     THEN /\ StartResize([op |-> "insert", key |-> key, payload |-> value, slot |-> 0])
          /\ UNCHANGED <<array, hashToIdx, idxToSlot, capacity, arrayCapacity>>
     ELSE /\ Hits(hashToIdx, capacity, key, array) # {}
          /\ PlaceAtEnd(hashToIdx, capacity, key, value,
                        FindSlot(hashToIdx, capacity, key, array))
          /\ UNCHANGED <<pc, call, fresh, next>>

HtInsertShift(key, value) ==
  LET slot    == FindSlot(hashToIdx, capacity, key, array)
      idx     == hashToIdx[slot]
      entries == IF idx = 0 THEN array ELSE Closed(array, idx)
      slots   == IF idx = 0 THEN idxToSlot ELSE Closed(idxToSlot, idx)
      table   == IF idx = 0 THEN hashToIdx ELSE ShiftedDown(idx)
  IN  /\ Enter("insert_shift", key)
      /\ Room(key)
      /\ Hits(hashToIdx, capacity, key, array) # {}
      /\ IF NeedsResize(Len(entries))
         THEN /\ array' = entries
              /\ idxToSlot' = slots
              /\ hashToIdx' = table
              /\ StartResize([op |-> "insert_shift", key |-> key,
                              payload |-> value, slot |-> slot])
              /\ UNCHANGED <<capacity, arrayCapacity>>
         ELSE /\ PlaceAtFront(entries, slots, table, capacity, key, value, slot)
              /\ UNCHANGED <<pc, call, fresh, next>>

\* One turn of the loop of resize_hash.
RehashOne ==
  LET slot == FindSlot(fresh, 2 * capacity, array[next].primkey, array)
  IN  /\ pc = "rehash"
      /\ next <= Size
      /\ fresh' = [fresh EXCEPT ![slot] = next]
      /\ idxToSlot' = [idxToSlot EXCEPT ![next] = slot]
      /\ next' = next + 1
      /\ UNCHANGED <<array, hashToIdx, capacity, arrayCapacity, pc, call>>

\* Slip: the new key is placed with the mask of the old table.
FinishInsertOldMask ==
  /\ pc = "rehash" /\ next > Size /\ call.op = "insert"
  /\ PlaceAtEnd(fresh, 2 * capacity, call.key, call.payload, call.key % capacity)
  /\ ReturnFromCall

\* resize_hash is done: the caller goes on in the new table.
FinishInsert ==
  /\ pc = "rehash" /\ next > Size /\ call.op = "insert"
  /\ PlaceAtEnd(fresh, 2 * capacity, call.key, call.payload,
                FindSlot(fresh, 2 * capacity, call.key, array))
  /\ ReturnFromCall

FinishInsertShift ==
  /\ pc = "rehash" /\ next > Size /\ call.op = "insert_shift"
  /\ PlaceAtFront(array, idxToSlot, fresh, 2 * capacity,
                  call.key, call.payload, call.slot)
  /\ ReturnFromCall

\* ht_remove: the last entry moves into the hole.
HtRemove(key) ==
  LET slot == FindSlot(hashToIdx, capacity, key, array)
      idx  == hashToIdx[slot]
  IN  /\ Enter("remove", key)
      /\ Hits(hashToIdx, capacity, key, array) # {}
      /\ idx # 0
      /\ array' = [i \in 1 .. Size - 1 |-> IF i = idx THEN array[Size] ELSE array[i]]
      /\ idxToSlot' = [i \in 1 .. Size - 1 |-> IF i = idx THEN idxToSlot[Size] ELSE idxToSlot[i]]
      /\ hashToIdx' = Unlinked(slot, idx)
      /\ UNCHANGED <<capacity, arrayCapacity, pc, call, fresh, next>>

\* ht_remove_shift: the entries after the hole move up, order is kept.
HtRemoveShift(key) ==
  LET slot == FindSlot(hashToIdx, capacity, key, array)
      idx  == hashToIdx[slot]
  IN  /\ Enter("remove_shift", key)
      /\ Hits(hashToIdx, capacity, key, array) # {}
      /\ idx # 0
      /\ array' = Closed(array, idx)
      /\ idxToSlot' = Closed(idxToSlot, idx)
      /\ hashToIdx' = [ShiftedDown(idx) EXCEPT ![slot] = 0]
      /\ UNCHANGED <<capacity, arrayCapacity, pc, call, fresh, next>>

\* find_slot meets neither an empty slot nor the key: its loop never ends,
\* and the spinlock is never released.
SpinForever(op, key) ==
  /\ Enter(op, key)
  /\ ~(op = "insert" /\ NeedsResize(Size))
  /\ Hits(hashToIdx, capacity, key, array) = {}
  /\ pc' = "spinning"
  /\ UNCHANGED <<array, hashToIdx, idxToSlot, capacity, arrayCapacity,
                 call, fresh, next>>

Next ==
  \/ \E k \in Keys, v \in Payloads : HtInsert(k, v) \/ HtInsertShift(k, v)
  \/ RehashOne \/ FinishInsert \/ FinishInsertShift
  \/ \E k \in Keys : HtRemove(k) \/ HtRemoveShift(k)
  \/ \E k \in Keys, op \in Operations : SpinForever(op, k)

Spec == Init /\ [][Next]_vars

-----------------------------------------------------------------------------
\* Type invariant.  The new table exists only inside resize_hash.
TypeOK ==
  /\ array \in Seq(Entry)
  /\ capacity \in Nat \ {0}
  /\ hashToIdx \in [Slots -> Nat]
  /\ idxToSlot \in Seq(Nat) /\ Len(idxToSlot) = Size
  /\ arrayCapacity \in Nat
  /\ pc \in {"idle", "rehash", "spinning"}
  /\ next \in 1 .. Size + 1
  /\ IF pc = "rehash"
     THEN call \in CallType /\ fresh \in [0 .. 2 * capacity - 1 -> Nat]
     ELSE call = NoCall /\ fresh = <<>>

\* The slots recorded for the positions are those of the table.
Agree(table, cap, slots) ==
  \A s \in 0 .. cap - 1 :
    table[s] # 0 => table[s] <= Len(slots) /\ slots[table[s]] = s

\* hash_to_idx and idx_to_hash_slot agree: a used slot names a live position
\* whose recorded slot is that slot.  This is what makes the in-place index
\* updates of the four operations (a moved entry, a run of shifted entries)
\* reach every slot that points at a moved entry.
IndexAgrees == pc # "rehash" => Agree(hashToIdx, capacity, idxToSlot)

\* No operation of the table loops forever inside find_slot with the
\* spinlock held: every probe of the table meets an empty slot or its key.
ProbesEnd == pc # "spinning"

\* The writes of the operations stay inside what realloc returned: there is
\* room for every entry, and every recorded slot is a slot of the table.
StaysAllocated ==
  /\ Size <= arrayCapacity
  /\ \A i \in 1 .. Len(idxToSlot) :
       idxToSlot[i] < (IF pc = "rehash" /\ i < next THEN 2 * capacity ELSE capacity)

\* A key has at most one entry: ht_insert updates the entry that exists and
\* ht_insert_shift "removes it first".
NoDuplicateKeys ==
  \A i, j \in 1 .. Size : array[i].primkey = array[j].primkey => i = j

\* Between calls, an entry of the array is found again by its key: a search
\* result the user acts on can be updated and deleted.
EveryEntryFound ==
  pc = "idle" => \A i \in 1 .. Size :
    LET key == array[i].primkey
        hits == Hits(hashToIdx, capacity, key, array)
    IN  hits # {} /\ hashToIdx[FindSlot(hashToIdx, capacity, key, array)] = i

=============================================================================
