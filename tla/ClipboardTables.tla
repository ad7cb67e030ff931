-------------------------- MODULE ClipboardTables --------------------------
(***************************************************************************)
(* The tables of the clipboard plugin, one in each behaviour, as their     *)
(* owners use them (src/clipboard/clipboard-manager-plugin.vala):          *)
(*   - a shard of ClipboardTreeManager, until its first deletion, against  *)
(*     the set of entries it stands for: a search scans the array;         *)
(*   - recent_entries, filled with ht_insert by load_recent_entries, then  *)
(*     changed with ht_insert_shift, until it is resized, against the list *)
(*     that is shown for an empty query;                                   *)
(*   - a table on which all four operations are called in any order.       *)
(***************************************************************************)
EXTENDS ClipboardHashTable

CONSTANTS ShardCapacity, ShardEntries,    \* of the shard
          RecentCapacity, RecentEntries   \* of recent_entries

ASSUME TablesAssumption ==
  \A c \in {ShardCapacity, RecentCapacity} : c \in Nat \ {0} /\ \E p \in PowersOfTwo : c <= p

VARIABLE owner

Shard == INSTANCE ClipboardHashTable
  WITH Operations <- {"insert"}, InitialCapacity <- ShardCapacity,
       MaxEntries <- ShardEntries
Recents == INSTANCE ClipboardHashTable
  WITH Operations <- {"insert", "insert_shift"},
       InitialCapacity <- RecentCapacity, MaxEntries <- RecentEntries

\* One payload is enough where no property compares payloads.
Mixed == INSTANCE ClipboardHashTable WITH Payloads <- {CHOOSE v \in Payloads : TRUE}

TablesInit ==
  \/ owner = "shard" /\ Shard!Init
  \/ owner = "recents" /\ Recents!Init
  \/ owner = "any" /\ Mixed!Init

UseShard ==
  /\ owner = "shard"
  /\ \/ \E k \in Keys, v \in Payloads : Shard!HtInsert(k, v)
     \/ Shard!RehashOne
     \/ Shard!FinishInsert
  /\ UNCHANGED owner

UseRecents ==
  /\ owner = "recents"
  /\ \E k \in Keys, v \in Payloads : Recents!HtInsert(k, v) \/ Recents!HtInsertShift(k, v)
  /\ UNCHANGED owner

UseAny ==
  /\ owner = "any"
  /\ Mixed!Next
  /\ UNCHANGED owner

TablesNext == UseShard \/ UseRecents \/ UseAny
TablesSpec == TablesInit /\ [][TablesNext]_<<vars, owner>>

-----------------------------------------------------------------------------
Visible == IF owner = "shard" THEN {array[i] : i \in 1 .. Size} ELSE {}
Store   == INSTANCE KeyedStore WITH store <- Visible

Shown   == IF owner = "recents" THEN array ELSE <<>>
Recency == INSTANCE RecencyList WITH list <- Shown

\* Every insertion into a shard, through any number of resizes, is one Put
\* of the abstract store.
ImplementsStore == Store!StoreSpec

\* Every call on the table of recent entries is one step of the recency list.
ImplementsRecencyList == Recency!ListSpec

\* An entry that is shown or searched is found again by its key; so no key
\* has two of them.
ShownEntriesFound == owner # "any" => EveryEntryFound
=============================================================================
