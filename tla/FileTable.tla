----------------------------- MODULE FileTable ------------------------------
(***************************************************************************)
(* The store of file search (src/file-search/file-hashtable.c and          *)
(* file-tree-manager.c): the paths are divided by their hash into tables,  *)
(* each a packed array sorted by strcmp and scanned from its start.  A     *)
(* call holds the table's lock from its first to its last access.          *)
(* Allocations succeed.                                                    *)
(***************************************************************************)
EXTENDS Integers, SequencesExt

CONSTANTS
  Paths,      \* every path that may be indexed
  Rank,       \* their places in the order of strcmp
  Hash,       \* g_str_hash of each
  NumShards,  \* the tables; 128 in the plugin
  MaxCount    \* the most entries of a table; UINT16_MAX

ASSUME StoreAssumption ==
  /\ Rank \in [Paths -> Nat] /\ \A p, q \in Paths : Rank[p] = Rank[q] => p = q
  /\ Hash \in [Paths -> Nat]
  /\ NumShards \in Nat \ {0} /\ MaxCount \in Nat

VARIABLE shards

Tables        == 0 .. NumShards - 1
ShardOf(hash) == hash % NumShards
EmptyShards   == [s \in Tables |-> <<>>]

\* Where the scans of ft_insert and ft_remove stop: at the first entry that
\* is not before the path.
Place(table, path) ==
  Min({i \in 1 .. Len(table) : Rank[table[i]] >= Rank[path]} \cup {Len(table) + 1})

Holds(table, path) ==
  LET i == Place(table, path) IN i <= Len(table) /\ table[i] = path

\* Slip: the entry is appended.
InsertedLast(table, path) ==
  IF Len(table) >= MaxCount \/ Holds(table, path) THEN table ELSE Append(table, path)

\* ft_insert.
Inserted(table, path) ==
  IF Len(table) >= MaxCount \/ Holds(table, path)
  THEN table
  ELSE InsertAt(table, Place(table, path), path)

\* Slip: the bytes after the entry are not moved.
RemovedLast(table, path) ==
  IF Holds(table, path) THEN Front(table) ELSE table

\* ft_remove.
Removed(table, path) ==
  IF Holds(table, path) THEN RemoveAt(table, Place(table, path)) ELSE table

AddFile(path) ==
  shards' = [shards EXCEPT ![ShardOf(Hash[path])] = Inserted(@, path)]

RemoveFile(path) ==
  shards' = [shards EXCEPT ![ShardOf(Hash[path])] = Removed(@, path)]

\* What a search can find.
Indexed == UNION {ToSet(shards[s]) : s \in Tables}
=============================================================================
