----------------------------- MODULE FileResults -----------------------------
(***************************************************************************)
(* The results of a file search (src/file-search/file-tree-manager.c): a   *)
(* result keeps no path but the position of an entry and its hash, and is  *)
(* resolved when the launcher asks for the match, while pool threads and   *)
(* the monitor go on adding and removing.  Which entries match the query   *)
(* is left out: all of them do.                                            *)
(***************************************************************************)
EXTENDS FileTable

VARIABLE found \* the results of the last search of each table

TopDirectory == "/"

\* PACK_USER_DATA; path and kept are history: the entry, and whether its
\* table is unchanged up to it.
Result(i, path) == [i |-> i, hash |-> Hash[path], path |-> path, kept |-> TRUE]

\* ft_iterate with shard_iter_callback.
Iterate(table) == {Result(i - 1, table[i]) : i \in 1 .. Len(table)}

\* file_tree_manager_tree_manager_shard.
TreeManagerShard(s) ==
  /\ found' = {r \in found : ShardOf(r.hash) # s} \cup Iterate(shards[s])
  /\ UNCHANGED shards

\* ft_lookup_by_index.
LookupByIndex(table, i) == IF i < Len(table) THEN {table[i + 1]} ELSE {}

\* Slip: the entry is taken for the one that was found.
FactoryUnhashed(r) ==
  LET resolved == LookupByIndex(shards[ShardOf(r.hash)], r.i)
  IN  IF resolved = {} THEN TopDirectory ELSE CHOOSE p \in resolved : TRUE

\* custom_factory_func: the path of the match.
Factory(r) ==
  LET resolved == {p \in LookupByIndex(shards[ShardOf(r.hash)], r.i) : Hash[p] = r.hash}
  IN  IF resolved = {} THEN TopDirectory ELSE CHOOSE p \in resolved : TRUE

-----------------------------------------------------------------------------
\* Another path is put into the table or taken out of it.
Touched(r, path) ==
  LET s == ShardOf(Hash[path])
  IN  /\ s = ShardOf(r.hash) /\ Rank[path] <= Rank[r.path]
      /\ path \in ToSet(shards[s]) <=> path \notin ToSet(shards'[s])

Outdate(path) == found' = {[r EXCEPT !.kept = @ /\ ~Touched(r, path)] : r \in found}

Initialize ==
  /\ shards' = EmptyShards
  /\ found' = {[r EXCEPT !.kept = FALSE] : r \in found}

Init == shards = EmptyShards /\ found = {}

Next ==
  \/ \E p \in Paths : (AddFile(p) \/ RemoveFile(p)) /\ Outdate(p)
  \/ \E s \in Tables : TreeManagerShard(s)
  \/ Initialize

-----------------------------------------------------------------------------
TypeOK ==
  /\ shards \in [Tables -> Seq(Paths)]
  /\ found \subseteq [i : 0 .. MaxCount - 1, hash : Nat, path : Paths, kept : BOOLEAN]

\* A result opens the file that was shown, as long as no path before it in
\* its table came or went, whatever comes after it; and later that file, the
\* top directory, or a file of the same hash, but never any other.
OpensOwnFile ==
  \A r \in found :
    /\ r.kept => Factory(r) = r.path
    /\ Factory(r) \in {r.path, TopDirectory} \cup {p \in Paths : Hash[p] = r.hash}
=============================================================================
