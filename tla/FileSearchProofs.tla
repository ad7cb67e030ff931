-------------------------- MODULE FileSearchProofs ---------------------------
(***************************************************************************)
(* Theorems about file search, for every tree, setting, hash function,     *)
(* number of tables and bound.                                             *)
(***************************************************************************)
EXTENDS FileSearch, LibraryFacts

-----------------------------------------------------------------------------
(***************************************************************************)
(* One table.                                                              *)
(***************************************************************************)
\* A table in the order of strcmp, without repetition.
Sorted(table) == InOrder(table, Rank)

LEMMA PathRanks == Ranks(Paths, Rank)
BY StoreAssumption DEF Ranks

LEMMA PlaceIsFirst ==
  ASSUME NEW table, NEW path
  PROVE  Place(table, path) = FirstNotBefore(table, Rank, path)
BY DEF Place, FirstNotBefore

\* A scan that stops early misses nothing in a sorted table.
LEMMA HoldsIfPresent ==
  ASSUME NEW table \in Seq(Paths), Sorted(table), NEW path \in Paths
  PROVE  Holds(table, path) <=> path \in ToSet(table)
<1> DEFINE k == Place(table, path)
<1>1. k = FirstNotBefore(table, Rank, path)
  BY PlaceIsFirst
<1>2. Holds(table, path) <=> k <= Len(table) /\ table[k] = path
  BY DEF Holds
<1> HIDE DEF k
<1> QED
  BY <1>1, <1>2, PathRanks, FirstIsElement DEF Sorted

\* ft_insert keeps the order, and adds the path unless the table is full.
LEMMA InsertedProperties ==
  ASSUME NEW table \in Seq(Paths), Sorted(table), NEW path \in Paths
  PROVE  /\ Inserted(table, path) \in Seq(Paths)
         /\ Sorted(Inserted(table, path))
         /\ ToSet(Inserted(table, path)) \subseteq ToSet(table) \cup {path}
         /\ ToSet(table) \subseteq ToSet(Inserted(table, path))
         /\ Len(table) < MaxCount => path \in ToSet(Inserted(table, path))
<1> DEFINE k   == Place(table, path)
           new == InsertAt(table, k, path)
<1>1. CASE Len(table) >= MaxCount \/ Holds(table, path)
  BY <1>1, HoldsIfPresent, StoreAssumption DEF Inserted
<1>2. CASE Len(table) < MaxCount /\ ~Holds(table, path)
  <2>1. Inserted(table, path) = new
    BY <1>2, StoreAssumption DEF Inserted
  <2>2. path \notin ToSet(table) /\ k = FirstNotBefore(table, Rank, path)
    BY <1>2, HoldsIfPresent, PlaceIsFirst
  <2> HIDE DEF k
  <2>3. new \in Seq(Paths) /\ Sorted(new) /\ ToSet(new) = ToSet(table) \cup {path}
    BY <2>2, PathRanks, InsertInOrder DEF Sorted
  <2> QED
    BY <2>1, <2>3
<1> QED
  BY <1>1, <1>2, StoreAssumption

\* ft_remove keeps the order, and takes out the path and nothing else.
LEMMA RemovedProperties ==
  ASSUME NEW table \in Seq(Paths), Sorted(table), NEW path \in Paths
  PROVE  /\ Removed(table, path) \in Seq(Paths)
         /\ Sorted(Removed(table, path))
         /\ ToSet(Removed(table, path)) = ToSet(table) \ {path}
<1> DEFINE k   == Place(table, path)
           new == RemoveAt(table, k)
<1>1. CASE ~Holds(table, path)
  BY <1>1, HoldsIfPresent DEF Removed
<1>2. CASE Holds(table, path)
  <2>1. Removed(table, path) = new
    BY <1>2 DEF Removed
  <2>2. path \in ToSet(table) /\ k = FirstNotBefore(table, Rank, path)
    BY <1>2, HoldsIfPresent, PlaceIsFirst
  <2> HIDE DEF k
  <2>3. new \in Seq(Paths) /\ Sorted(new) /\ ToSet(new) = ToSet(table) \ {path}
    BY <2>2, PathRanks, RemoveInOrder DEF Sorted
  <2> QED
    BY <2>1, <2>3
<1> QED
  BY <1>1, <1>2

-----------------------------------------------------------------------------
(***************************************************************************)
(* All tables.                                                             *)
(***************************************************************************)
LEMMA ShardType == \A p \in Paths : ShardOf(Hash[p]) \in Tables
<1>1. \A a \in Nat, n \in Nat \ {0} : a % n \in 0 .. n - 1
  OBVIOUS
<1> QED
  BY <1>1, StoreAssumption DEF ShardOf, Tables

\* TablesSorted in terms of the elements of the tables.
TablesAgree(tables) ==
  /\ tables \in [Tables -> Seq(Paths)]
  /\ \A s \in Tables : Sorted(tables[s]) /\ \A p \in ToSet(tables[s]) : ShardOf(Hash[p]) = s

LEMMA SortedMeansAgree ==
  ASSUME shards \in [Tables -> Seq(Paths)]
  PROVE  TablesSorted <=> TablesAgree(shards)
<1>1. \A s \in Tables : ToSet(shards[s]) = {shards[s][i] : i \in 1 .. Len(shards[s])}
  BY ToSetElements
<1>2. ASSUME TablesSorted PROVE TablesAgree(shards)
  BY <1>1, <1>2 DEF TablesSorted, TablesAgree, Sorted, InOrder
<1>3. ASSUME TablesAgree(shards) PROVE TablesSorted
  BY <1>1, <1>3 DEF TablesSorted, TablesAgree, Sorted, InOrder
<1> QED
  BY <1>2, <1>3

LEMMA EmptyAgrees == TablesAgree(EmptyShards)
<1>1. \A s \in Tables : EmptyShards[s] = <<>>
  BY DEF EmptyShards
<1>2. ToSet(<<>>) = {}
  BY DEF ToSet
<1> QED
  BY <1>1, <1>2 DEF EmptyShards, TablesAgree, Sorted, InOrder

LEMMA AddAgrees ==
  ASSUME TablesAgree(shards), NEW p \in Paths, AddFile(p)
  PROVE  TablesAgree(shards')
<1> DEFINE h == ShardOf(Hash[p])
<1>1. h \in Tables /\ shards[h] \in Seq(Paths) /\ Sorted(shards[h])
  BY ShardType DEF TablesAgree
<1>2. shards' = [shards EXCEPT ![h] = Inserted(shards[h], p)]
  BY DEF AddFile
<1>3. /\ Inserted(shards[h], p) \in Seq(Paths)
      /\ Sorted(Inserted(shards[h], p))
      /\ ToSet(Inserted(shards[h], p)) \subseteq ToSet(shards[h]) \cup {p}
  BY <1>1, InsertedProperties
<1> HIDE DEF h
<1>4. ShardOf(Hash[p]) = h
  BY DEF h
<1> QED
  BY <1>1, <1>2, <1>3, <1>4 DEF TablesAgree

\* After ft_remove the path is in no table.
LEMMA RemoveAgrees ==
  ASSUME TablesAgree(shards), NEW p \in Paths, RemoveFile(p)
  PROVE  TablesAgree(shards') /\ p \notin Indexed'
<1> DEFINE h == ShardOf(Hash[p])
<1>1. h \in Tables /\ shards[h] \in Seq(Paths) /\ Sorted(shards[h])
  BY ShardType DEF TablesAgree
<1>2. shards' = [shards EXCEPT ![h] = Removed(shards[h], p)]
  BY DEF RemoveFile
<1>3. /\ Removed(shards[h], p) \in Seq(Paths)
      /\ Sorted(Removed(shards[h], p))
      /\ ToSet(Removed(shards[h], p)) = ToSet(shards[h]) \ {p}
  BY <1>1, RemovedProperties
<1>4. ShardOf(Hash[p]) = h
  OBVIOUS
<1> HIDE DEF h
<1>5. TablesAgree(shards')
  BY <1>1, <1>2, <1>3 DEF TablesAgree
<1>6. \A s \in Tables : p \notin ToSet(shards'[s])
  BY <1>1, <1>2, <1>3, <1>4, <1>5 DEF TablesAgree
<1> QED
  BY <1>5, <1>6 DEF Indexed

-----------------------------------------------------------------------------
(***************************************************************************)
(* Work.                                                                   *)
(***************************************************************************)
LEMMA BagSets ==
  /\ \A S : BagToSet(SetToBag(S)) = S
  /\ \A a, b : BagToSet(a (+) b) = BagToSet(a) \cup BagToSet(b)
  /\ \A a, b : BagToSet(a (-) b) \subseteq BagToSet(a)
  BY DEF BagToSet, SetToBag, (+), (-)

PoolType == BagToSet(pool) \subseteq WorkType

LEMMA FinishType ==
  ASSUME PoolType, handler \in WorkType \cup {NoWork},
         NEW by, NEW w, NEW more \in SUBSET WorkType, Finish(by, w, more)
  PROVE  PoolType' /\ handler' \in WorkType \cup {NoWork}
  BY BagSets DEF Finish, PoolType

LEMMA GoOnType ==
  ASSUME PoolType, handler \in WorkType \cup {NoWork},
         NEW by, NEW w \in WorkType, NEW place \in {"idle", "queued", "adding_watch", "listing"},
         GoOn(by, w, place)
  PROVE  PoolType' /\ handler' \in WorkType \cup {NoWork}
<1> DEFINE v == [w EXCEPT !.at = place]
<1>1. v \in WorkType
  BY DEF WorkType
<1>2. {v} \subseteq WorkType
  BY <1>1
<1> HIDE DEF v
<1>3. CASE by = "pool"
  BY <1>2, <1>3, BagSets DEF GoOn, PoolType, v
<1>4. CASE by # "pool"
  BY <1>1, <1>4 DEF GoOn, PoolType, v
<1> QED
  BY <1>3, <1>4

LEMMA RootWorkType ==
  ASSUME NEW value \in Settings \cup {<<>>}
  PROVE  BagToSet(RootWork(value)) \subseteq WorkType
<1>1. BagToSet(RootWork(value)) = {Work(r, r, value[r], 0, {}, "queued") : r \in DOMAIN value}
  BY BagSets DEF RootWork
<1>2. CASE value \in Settings
  BY <1>1, <1>2, TreeAssumption DEF Work, WorkType, Roots
<1>3. CASE value = <<>>
  BY <1>1, <1>3
<1> QED
  BY <1>2, <1>3

LEMMA EventWorkType ==
  ASSUME configs \in Settings \cup {<<>>}, NEW path \in Paths, Candidates(path) # {}
  PROVE  EventWork(path) \in WorkType
<1> DEFINE C == Candidates(path)
           n == Len(path)
           L == {Len(r) : r \in C}
<1>1. configs \in Settings /\ n \in Nat
  BY TreeAssumption DEF Candidates
<1>2. \A r \in C : r \in DOMAIN configs /\ r \in Paths /\ Len(r) \in Nat /\ Len(r) <= n
  BY <1>1, TreeAssumption DEF Candidates, HasPrefix
<1>3. L \in SUBSET Nat /\ L # {} /\ \A x \in L : x <= n
  BY <1>2
<1>4. Max(L) \in L /\ \A y \in L : y <= Max(L)
  BY <1>1, <1>3, GreatestElement
<1>5. PICK r \in C : \A q \in C : Len(q) <= Len(r)
  BY <1>4
<1>6. BestRoot(path) \in C
  BY <1>5 DEF BestRoot
<1> DEFINE root == BestRoot(path)
<1>7. EventWork(path) = Work(path, root, configs[root], Len(path) - Len(root), {}, "queued")
  BY DEF EventWork
<1> HIDE DEF root, C
<1>8. root \in DOMAIN configs /\ Len(root) \in Nat /\ Len(root) <= n
  BY <1>2, <1>6 DEF root
<1>9. Len(path) - Len(root) \in Nat
  BY <1>1, <1>8
<1> QED
  BY <1>1, <1>7, <1>8, <1>9 DEF Work, WorkType, Roots

LEMMA ListingType ==
  ASSUME disk \subseteq Paths, NEW w \in WorkType
  PROVE  Listing(w) \subseteq WorkType
  BY DEF Listing, Work, WorkType, Children

-----------------------------------------------------------------------------
(***************************************************************************)
(* The invariant: the types, and tables that are sorted and hold the paths *)
(* of their hash.                                                          *)
(***************************************************************************)
IInv == TypeOK /\ TablesSorted

Changes == [kind : {"changed", "deleted"}, path : Paths]

LEMMA SeqFacts ==
  ASSUME NEW S, NEW q \in Seq(S)
  PROVE  /\ \A x \in S : Append(q, x) \in Seq(S)
         /\ q # <<>> => Head(q) \in S /\ Tail(q) \in Seq(S)
  OBVIOUS

Rest ==
  /\ disk \subseteq Paths /\ late \subseteq Paths /\ watched \subseteq disk \cap Directories
  /\ configs \in Settings \cup {<<>>}
  /\ cancelled \in BOOLEAN /\ monitored \in BOOLEAN
  /\ events \in Seq(Changes)
  /\ ui \in {"on", "off", "activating"}

Works == PoolType /\ handler \in WorkType \cup {NoWork}

\* The parts of the invariant as the lemmas above state them.
LEMMA IInvParts == IInv <=> TablesAgree(shards) /\ Rest /\ Works
<1>1. TablesAgree(shards) => shards \in [Tables -> Seq(Paths)]
  BY DEF TablesAgree
<1> QED
  BY <1>1, SortedMeansAgree DEF IInv, TypeOK, Rest, Works, PoolType, Changes

LEMMA InitParts == Init => TablesAgree(shards) /\ Rest /\ Works
<1> SUFFICES ASSUME Init PROVE TablesAgree(shards) /\ Rest /\ Works
  OBVIOUS
<1>1. PICK value \in Settings : configs = value /\ pool = RootWork(value)
  BY DEF Init
<1>2. TablesAgree(shards)
  BY EmptyAgrees DEF Init
<1>3. Works
  BY <1>1, RootWorkType DEF Init, Works, PoolType
<1>4. events \in Seq(Changes)
  BY DEF Init
<1>5. Rest
  BY <1>1, <1>4 DEF Init, Rest
<1> QED
  BY <1>2, <1>3, <1>5

\* A step of handle_file_add_or_change, in either thread.
LEMMA HandleParts ==
  ASSUME TablesAgree(shards), Rest, Works, NEW by, NEW w \in WorkType,
         HandleFileAddOrChange(by, w)
  PROVE  TablesAgree(shards') /\ Rest' /\ Works'
<1>1. CASE Add(by, w)
  <2>1. w.path \in Paths
    BY DEF WorkType
  <2>2. TablesAgree(shards')
    BY <1>1, <2>1, AddAgrees DEF Add
  <2>3. Rest'
    BY <1>1 DEF Add, Rest, outside
  <2>4. Works'
    BY <1>1, FinishType, GoOnType DEF Add, Works
  <2> QED
    BY <2>2, <2>3, <2>4
<1>2. CASE AddWatch(by, w)
  <2>1. Works'
    BY <1>2, FinishType, GoOnType DEF AddWatch, Works
  <2>2. Rest'
    BY <1>2 DEF AddWatch, Rest, outside
  <2> QED
    BY <1>2, <2>1, <2>2 DEF AddWatch
<1>3. CASE ListDirectory(by, w)
  <2>1. (IF w.path \in disk THEN Listing(w) ELSE {}) \in SUBSET WorkType
    BY ListingType DEF Rest
  <2>2. Works'
    BY <1>3, <2>1, FinishType DEF ListDirectory, Works
  <2>3. Rest'
    BY <1>3 DEF ListDirectory, Rest, outside
  <2> QED
    BY <1>3, <2>2, <2>3 DEF ListDirectory
<1> QED
  BY <1>1, <1>2, <1>3 DEF HandleFileAddOrChange

\* The monitor's thread takes a report: a deletion is done at once.
LEMMA ReportParts ==
  ASSUME TablesAgree(shards), Rest, Works, OnFileChanged
  PROVE  /\ TablesAgree(shards') /\ Rest' /\ Works'
         /\ ~cancelled /\ Head(events).kind = "deleted" => Head(events).path \notin Indexed'
<1> DEFINE e == Head(events)
<1>1. e.path \in Paths /\ events' \in Seq(Changes)
  <2>1. events # <<>> /\ events \in Seq(Changes)
        /\ events' = Tail(events)
    BY DEF OnFileChanged, Rest
  <2>2. e \in Changes /\ Tail(events) \in Seq(Changes)
    BY <2>1, SeqFacts
  <2> QED
    BY <2>1, <2>2 DEF Changes
<1> HIDE DEF e
<1>2. Rest'
  BY <1>1 DEF OnFileChanged, Rest
<1>3. CASE cancelled
  BY <1>2, <1>3 DEF OnFileChanged, Works, PoolType, e
<1>4. CASE ~cancelled /\ e.kind = "deleted"
  <2>1. RemoveFile(e.path) /\ UNCHANGED <<handler, pool>>
    BY <1>4 DEF OnFileChanged, e
  <2>2. Works'
    BY <2>1 DEF Works, PoolType
  <2> QED
    BY <1>1, <1>2, <2>1, <2>2, RemoveAgrees DEF e
<1>5. CASE ~cancelled /\ e.kind # "deleted"
  <2>1. UNCHANGED <<shards, pool>>
        /\ handler' = IF Candidates(e.path) = {} THEN NoWork ELSE EventWork(e.path)
    BY <1>5 DEF OnFileChanged, e
  <2>2. Works'
    BY <1>1, <2>1, EventWorkType DEF Works, PoolType, Rest
  <2> QED
    BY <1>2, <1>5, <2>1, <2>2 DEF e
<1> QED
  BY <1>3, <1>4, <1>5 DEF e

LEMMA ReportType ==
  ASSUME events \in Seq(Changes), NEW kind \in {"changed", "deleted"}, NEW p \in Paths,
         Report(kind, p)
  PROVE  events' \in Seq(Changes)
<1>1. [kind |-> kind, path |-> p] \in Changes
  BY DEF Changes
<1> QED
  BY <1>1, SeqFacts DEF Report

LEMMA NextParts ==
  ASSUME TablesAgree(shards), Rest, Works, [Next]_vars
  PROVE  TablesAgree(shards') /\ Rest' /\ Works'
<1>1. ASSUME NEW w \in BagToSet(pool), QueueAddition(w)
      PROVE  TablesAgree(shards') /\ Rest' /\ Works'
  <2>1. w \in WorkType
    BY <1>1 DEF Works, PoolType
  <2>2. Works'
    BY <1>1, <2>1, FinishType, GoOnType DEF QueueAddition, Works
  <2>3. Rest' /\ UNCHANGED shards
    BY <1>1 DEF QueueAddition, Rest, outside
  <2> QED
    BY <2>2, <2>3
<1>2. ASSUME NEW w \in BagToSet(pool), HandleFileAddOrChange("pool", w)
      PROVE  TablesAgree(shards') /\ Rest' /\ Works'
  <2>1. w \in WorkType
    BY <1>2 DEF Works, PoolType
  <2> QED
    BY <1>2, <2>1, HandleParts
<1>3. CASE MonitorStep
  <2>1. CASE OnFileChanged
    BY <2>1, ReportParts
  <2>2. CASE handler # NoWork /\ HandleFileAddOrChange("monitor", handler)
    BY <2>2, HandleParts DEF Works
  <2> QED
    BY <1>3, <2>1, <2>2 DEF MonitorStep
<1>4. ASSUME NEW p \in Paths, Modify(p)
      PROVE  TablesAgree(shards') /\ Rest' /\ Works'
  <2>1. events' \in Seq(Changes)
    BY <1>4, ReportType DEF Modify, Rest
  <2> QED
    BY <1>4, <2>1 DEF Modify, Rest, Works, PoolType, indexing
<1>5. ASSUME NEW p \in Paths, Vanish(p)
      PROVE  TablesAgree(shards') /\ Rest' /\ Works'
  <2>1. events' \in Seq(Changes)
    BY <1>5, ReportType DEF Vanish, Rest
  <2> QED
    BY <1>5, <2>1 DEF Vanish, Rest, Works, PoolType
<1>6. ASSUME NEW p \in Paths, NEW t \in TreesBelow(p), Appear(p, t)
      PROVE  TablesAgree(shards') /\ Rest' /\ Works'
  <2>1. events' \in Seq(Changes)
    BY <1>6, ReportType DEF Appear, Rest
  <2>2. t \subseteq Paths
    BY DEF TreesBelow
  <2> QED
    BY <1>6, <2>1, <2>2 DEF Appear, Rest, Works, PoolType, indexing
<1>7. CASE Deactivate
  <2>1. events' \in Seq(Changes) /\ configs' \in Settings \cup {<<>>}
    BY <1>7 DEF Deactivate
  <2>2. Rest'
    BY <1>7, <2>1 DEF Deactivate, Rest
  <2> QED
    BY <1>7, <2>2 DEF Deactivate, Works, PoolType
<1>8. ASSUME NEW value \in Settings \cup {<<>>}, Initialize(value)
      PROVE  TablesAgree(shards') /\ Rest' /\ Works'
  BY <1>8, EmptyAgrees DEF Initialize, Rest, Works, PoolType, outside
<1>9. CASE Activate
  <2>1. BagToSet(pool') = BagToSet(pool) \cup BagToSet(RootWork(configs))
    BY <1>9, BagSets DEF Activate
  <2> QED
    BY <1>9, <2>1, RootWorkType DEF Activate, Rest, Works, PoolType, outside
<1>10. CASE UNCHANGED vars
  BY <1>10 DEF vars, indexing, outside, Rest, Works, PoolType
<1> QED
  BY <1>1, <1>2, <1>3, <1>4, <1>5, <1>6, <1>7, <1>8, <1>9, <1>10 DEF Next, PoolStep, DiskStep

LEMMA Inductive == Spec => []IInv
<1>1. Init => IInv
  BY InitParts, IInvParts
<1>2. IInv /\ [Next]_vars => IInv'
  <2> SUFFICES ASSUME IInv, [Next]_vars PROVE IInv'
    OBVIOUS
  <2>1. TablesAgree(shards') /\ Rest' /\ Works'
    BY IInvParts, NextParts
  <2>2. IInv' <=> TablesAgree(shards)' /\ Rest' /\ Works'
    BY IInvParts, PTL
  <2>3. TablesAgree(shards)' <=> TablesAgree(shards')
    BY DEF TablesAgree, Tables, Sorted
  <2> QED
    BY <2>1, <2>2, <2>3
<1> QED
  BY <1>1, <1>2, PTL DEF Spec

\* Every variable stays in its type, for every tree, setting and hash.
THEOREM TypeCorrect == Spec => []TypeOK
<1>1. IInv => TypeOK
  BY DEF IInv
<1> QED
  BY <1>1, Inductive, PTL

\* The tables are sorted by strcmp without repetition, and every path is in
\* the table of its hash, whatever pool threads and monitor add and remove.
THEOREM AlwaysSorted == Spec => []TablesSorted
<1>1. IInv => TablesSorted
  BY DEF IInv
<1> QED
  BY <1>1, Inductive, PTL

\* What the monitor reports as deleted is not found after on_file_changed:
\* the scan of ft_remove, which stops at the first greater entry, never
\* passes over a path that is there.
Forgets ==
  OnFileChanged /\ ~cancelled /\ Head(events).kind = "deleted" => Head(events).path \notin Indexed'

THEOREM DeletedIsForgotten == Spec => [][Forgets]_vars
<1>1. IInv /\ [Next]_vars => [Forgets]_vars
  BY IInvParts, ReportParts DEF Forgets
<1> QED
  BY <1>1, Inductive, PTL DEF Spec

-----------------------------------------------------------------------------
(***************************************************************************)
(* What went is forgotten.  A path that is found, is about to be added, or *)
(* is reported as changed, is accounted for: it exists, or it is one of    *)
(* those nobody could tell of, or its deletion is still to be reported,    *)
(* after whatever else is reported of it.                                  *)
(***************************************************************************)
LastDeleted(p) ==
  \E i \in 1 .. Len(events) :
    /\ events[i] = [kind |-> "deleted", path |-> p]
    /\ \A j \in i + 1 .. Len(events) : events[j].path # p

Accounted(p) == p \in disk \cup late \cup Roots \/ LastDeleted(p)

\* The flags say whether the plugin is on; without a monitor nothing is
\* watched, reported or handled.
Phases ==
  /\ cancelled <=> ui # "on"
  /\ monitored <=> ui = "on"
  /\ ui # "on" => events = <<>> /\ handler = NoWork /\ watched = {}

\* Nothing need be known of the tables that Initialize will throw away.
GoneInv ==
  /\ Phases
  /\ Pending \subseteq disk \cup late \cup Roots
  /\ handler # NoWork => Accounted(handler.path)
  /\ \A i \in 1 .. Len(events) : Accounted(events[i].path)
  /\ ui # "off" => \A p \in Indexed : Accounted(p)

LEMMA GoneSuffices ==
  ASSUME Rest, GoneInv
  PROVE  GoneForgotten
<1> SUFFICES ASSUME Quiet, NEW p \in Indexed PROVE p \in disk \cup late \cup Roots
  BY DEF GoneForgotten
<1>1. events = <<>> /\ Accounted(p)
  BY DEF Quiet, NoWorkLeft, GoneInv
<1>2. ~LastDeleted(p)
  BY <1>1 DEF LastDeleted
<1> QED
  BY <1>1, <1>2 DEF Accounted

LEMMA RootsOfSettings ==
  ASSUME NEW value \in Settings \cup {<<>>}
  PROVE  DOMAIN value \subseteq Roots
  BY DEF Roots

\* The paths of the root work of a setting.
LEMMA RootWorkPending ==
  ASSUME NEW value \in Settings \cup {<<>>}
  PROVE  \A w \in BagToSet(RootWork(value)) : w.path \in Roots
<1>1. BagToSet(RootWork(value)) = {Work(r, r, value[r], 0, {}, "queued") : r \in DOMAIN value}
  BY BagSets DEF RootWork
<1> QED
  BY <1>1, RootsOfSettings DEF Work

LEMMA InitGone ==
  ASSUME Init
  PROVE  GoneInv
<1>1. PICK value \in Settings : configs = value /\ pool = RootWork(value)
  BY DEF Init
<1>2. /\ ui = "on" /\ ~cancelled /\ monitored /\ events = <<>> /\ handler = NoWork
      /\ shards = EmptyShards
  BY DEF Init
<1>3. Phases
  BY <1>2 DEF Phases
<1>4. Pending \subseteq Roots
  BY <1>1, RootWorkPending DEF Pending
<1>5. Indexed = {}
  BY <1>2, ToSetEmpty DEF Indexed, EmptyShards
<1> QED
  BY <1>2, <1>3, <1>4, <1>5 DEF GoneInv

-----------------------------------------------------------------------------
\* A report goes to the end, so that it is the last of its path.
LEMMA ReportLast ==
  ASSUME events \in Seq(Changes), NEW kind \in {"changed", "deleted"}, NEW p \in Paths,
         Report(kind, p)
  PROVE  /\ \A q \in Paths : q # p /\ LastDeleted(q) => LastDeleted(q)'
         /\ Parent(p) \in watched /\ kind = "deleted" => LastDeleted(p)'
         /\ \A i \in 1 .. Len(events') :
              \/ i \in 1 .. Len(events) /\ events'[i] = events[i]
              \/ events'[i] = [kind |-> kind, path |-> p]
<1> DEFINE e == [kind |-> kind, path |-> p]
<1>1. e \in Changes /\ e.path = p
  BY DEF Changes
<1>2. CASE Parent(p) \notin watched
  <2>1. events' = events
    BY <1>2 DEF Report
  <2> QED
    BY <1>2, <2>1 DEF LastDeleted
<1>3. CASE Parent(p) \in watched
  <2>1. events' = Append(events, e)
    BY <1>3 DEF Report
  <2> HIDE DEF e
  <2>2. /\ Len(events) \in Nat /\ Len(events') = Len(events) + 1 /\ events'[Len(events) + 1] = e
        /\ \A i \in 1 .. Len(events) : events'[i] = events[i]
    BY <1>1, <2>1
  <2>3. ASSUME NEW q \in Paths, q # p, LastDeleted(q) PROVE LastDeleted(q)'
    <3>1. PICK i \in 1 .. Len(events) :
            /\ events[i] = [kind |-> "deleted", path |-> q]
            /\ \A j \in i + 1 .. Len(events) : events[j].path # q
      BY <2>3 DEF LastDeleted
    <3>2. i \in 1 .. Len(events') /\ events'[i] = [kind |-> "deleted", path |-> q]
      BY <2>2, <3>1
    <3>3. ASSUME NEW j \in i + 1 .. Len(events') PROVE events'[j].path # q
      <4>1. j \in i + 1 .. Len(events) \/ j = Len(events) + 1
        BY <2>2
      <4>2. CASE j \in i + 1 .. Len(events)
        <5>1. j \in 1 .. Len(events)
          BY <4>2
        <5> QED
          BY <2>2, <3>1, <4>2, <5>1
      <4>3. CASE j = Len(events) + 1
        BY <1>1, <2>2, <2>3, <4>3
      <4> QED
        BY <4>1, <4>2, <4>3
    <3> QED
      BY <3>2, <3>3 DEF LastDeleted
  <2>4. kind = "deleted" => LastDeleted(p)'
    <3>1. Len(events') \in 1 .. Len(events') /\ Len(events') + 1 .. Len(events') = {}
      BY <2>2
    <3> QED
      BY <2>2, <3>1 DEF LastDeleted, e
  <2>5. \A i \in 1 .. Len(events') : i \in 1 .. Len(events) \/ i = Len(events) + 1
    BY <2>2
  <2> QED
    BY <2>2, <2>3, <2>4, <2>5 DEF e
<1> QED
  BY <1>2, <1>3

\* A step of the file system after which every path that was accounted for
\* still is.
LEMMA DiskKeeps ==
  ASSUME Rest, Works, GoneInv, UNCHANGED <<shards, cancelled, monitored, handler, pool, ui>>,
         watched' \subseteq watched, NEW kind \in {"changed", "deleted"}, NEW p \in Paths,
         Report(kind, p), Accounted(p)',
         \A q \in Paths : Accounted(q) => Accounted(q)',
         \A q \in Pending : q \in disk' \cup late' \cup Roots,
         Rest', TablesAgree(shards)
  PROVE  GoneInv'
<1>1. Phases'
  <2>1. ASSUME ui # "on" PROVE events' = <<>> /\ handler' = NoWork /\ watched' = {}
    BY <2>1 DEF GoneInv, Phases, Report
  <2> QED
    BY <2>1 DEF GoneInv, Phases
<1>2. (Pending \subseteq disk \cup late \cup Roots)'
  BY DEF Pending
<1>3. (handler # NoWork => Accounted(handler.path))'
  <2>1. handler # NoWork => handler.path \in Paths
    BY DEF Works, WorkType
  <2> QED
    BY <2>1 DEF GoneInv
<1>4. ASSUME NEW i \in 1 .. Len(events') PROVE Accounted(events[i].path)'
  <2>1. PICK x : x = events'[i].path
    OBVIOUS
  <2>2. events \in Seq(Changes)
    BY DEF Rest
  <2>3. CASE i \in 1 .. Len(events) /\ events'[i] = events[i]
    <3>1. events[i] \in Changes /\ Accounted(events[i].path)
      BY <2>2, <2>3 DEF GoneInv
    <3>2. x \in Paths /\ Accounted(x)
      BY <2>1, <2>3, <3>1 DEF Changes
    <3> QED
      BY <2>1, <3>2 DEF Accounted, LastDeleted
  <2>4. CASE events'[i] = [kind |-> kind, path |-> p]
    BY <2>1, <2>4 DEF Accounted, LastDeleted
  <2> QED
    BY <1>4, <2>2, <2>3, <2>4, ReportLast
<1>5. Indexed \subseteq Paths /\ Indexed' = Indexed
  <2>1. \A s \in Tables : ToSet(shards[s]) \subseteq Paths
    BY ToSetElements DEF TablesAgree
  <2> QED
    BY <2>1 DEF Indexed
<1>6. (ui # "off" => \A q \in Indexed : Accounted(q))'
  BY <1>5 DEF GoneInv
<1> QED
  <2>1. (\A i \in 1 .. Len(events) : Accounted(events[i].path))'
    BY <1>4
  <2> QED
    BY <1>1, <1>2, <1>3, <1>6, <2>1 DEF GoneInv

LEMMA ModifyGone ==
  ASSUME TablesAgree(shards), Rest, Works, GoneInv, Rest', NEW p \in Paths, Modify(p)
  PROVE  GoneInv'
<1>1. /\ UNCHANGED <<shards, cancelled, monitored, handler, pool, ui, watched, disk, late>>
      /\ p \in disk /\ Report("changed", p)
  BY DEF Modify, indexing
<1>2. Accounted(p)'
  BY <1>1 DEF Accounted
<1>3. \A q \in Paths : Accounted(q) => Accounted(q)'
  BY <1>1, <1>2, ReportLast DEF Accounted, Rest
<1>4. \A q \in Pending : q \in disk' \cup late' \cup Roots
  BY <1>1 DEF GoneInv
<1>5. watched' \subseteq watched
  BY <1>1
<1> QED
  BY <1>1, <1>2, <1>3, <1>4, <1>5, DiskKeeps

LEMMA AppearGone ==
  ASSUME TablesAgree(shards), Rest, Works, GoneInv, Rest', NEW p \in Paths, NEW tree,
         Appear(p, tree)
  PROVE  GoneInv'
<1>1. /\ UNCHANGED <<shards, cancelled, monitored, handler, pool, ui, watched>>
      /\ disk' = disk \cup {p} \cup tree /\ late' = late \ ({p} \cup tree)
      /\ Report("changed", p)
  BY DEF Appear, indexing
<1>2. disk \cup late \cup Roots \subseteq disk' \cup late' \cup Roots /\ p \in disk'
  BY <1>1
<1>3. Accounted(p)'
  BY <1>2 DEF Accounted
<1>4. \A q \in Paths : Accounted(q) => Accounted(q)'
  BY <1>1, <1>2, <1>3, ReportLast DEF Accounted, Rest
<1>5. \A q \in Pending : q \in disk' \cup late' \cup Roots
  BY <1>2 DEF GoneInv
<1>6. watched' \subseteq watched
  BY <1>1
<1> QED
  BY <1>1, <1>3, <1>4, <1>5, <1>6, DiskKeeps

\* What goes is reported, unless nobody could tell.
LEMMA VanishGone ==
  ASSUME TablesAgree(shards), Rest, Works, GoneInv, Rest', NEW p \in Paths, Vanish(p)
  PROVE  GoneInv'
<1> DEFINE gone == {q \in disk : q = p \/ Below(q, p)}
<1>1. /\ UNCHANGED <<shards, cancelled, monitored, handler, pool, ui>>
      /\ disk' = disk \ gone /\ watched' = watched \ gone /\ Report("deleted", p)
      /\ late' = late \cup {q \in gone : q # p \/ q \in Pending \/ Parent(q) \notin watched}
      /\ p \in gone
  BY DEF Vanish
<1> HIDE DEF gone
<1>2. Parent(p) \in watched => LastDeleted(p)'
  BY <1>1, ReportLast DEF Rest
<1>3. Accounted(p)'
  BY <1>1, <1>2 DEF Accounted
<1>4. ASSUME NEW q \in Paths, Accounted(q) PROVE Accounted(q)'
  <2>1. CASE q = p
    BY <1>3, <2>1
  <2>2. CASE q # p /\ LastDeleted(q)
    BY <1>1, <2>2, ReportLast DEF Accounted, Rest
  <2>3. CASE q # p /\ q \in disk \cup late \cup Roots
    BY <1>1, <2>3 DEF Accounted
  <2> QED
    BY <1>4, <2>1, <2>2, <2>3 DEF Accounted
<1>5. ASSUME NEW q \in Pending PROVE q \in disk' \cup late' \cup Roots
  BY <1>1 DEF GoneInv
<1>6. watched' \subseteq watched
  BY <1>1
<1> QED
  BY <1>1, <1>3, <1>4, <1>5, <1>6, DiskKeeps

-----------------------------------------------------------------------------
\* A step of the plugin that leaves the disk and the reports alone.
LEMMA IndexKeeps ==
  ASSUME GoneInv, UNCHANGED <<disk, late, events, cancelled, monitored, ui>>,
         ui # "on" => handler' = NoWork /\ watched' = {},
         Pending' \subseteq disk \cup late \cup Roots,
         handler' # NoWork => Accounted(handler'.path),
         \A p \in Indexed' : p \in Indexed \/ Accounted(p)
  PROVE  GoneInv'
<1>1. \A p : Accounted(p)' <=> Accounted(p)
  BY DEF Accounted, LastDeleted
<1>2. Phases'
  BY DEF GoneInv, Phases
<1>3. (Pending \subseteq disk \cup late \cup Roots)'
  OBVIOUS
<1>4. (handler # NoWork => Accounted(handler.path))'
  <2> SUFFICES ASSUME handler' # NoWork, NEW x, x = handler'.path PROVE Accounted(x)'
    BY DEF Accounted, LastDeleted
  <2> QED
    BY <1>1
<1>5. (\A i \in 1 .. Len(events) : Accounted(events[i].path))'
  BY DEF GoneInv, Accounted, LastDeleted
<1>6. (ui # "off" => \A p \in Indexed : Accounted(p))'
  <2> SUFFICES ASSUME ui # "off", NEW p \in Indexed' PROVE Accounted(p)'
    OBVIOUS
  <2> QED
    BY <1>1 DEF GoneInv
<1> QED
  BY <1>2, <1>3, <1>4, <1>5, <1>6 DEF GoneInv

\* What the tables gain and lose.
LEMMA FoundAfterAdd ==
  ASSUME TablesAgree(shards), NEW p \in Paths, AddFile(p)
  PROVE  Indexed' \subseteq Indexed \cup {p}
<1> SUFFICES ASSUME NEW h, h = ShardOf(Hash[p]) PROVE Indexed' \subseteq Indexed \cup {p}
  OBVIOUS
<1>1. h \in Tables /\ shards[h] \in Seq(Paths) /\ Sorted(shards[h])
  BY ShardType DEF TablesAgree
<1>2. shards' = [shards EXCEPT ![h] = Inserted(shards[h], p)]
  BY DEF AddFile
<1>3. ToSet(Inserted(shards[h], p)) \subseteq ToSet(shards[h]) \cup {p}
  BY <1>1, InsertedProperties
<1>4. \A s \in Tables : ToSet(shards'[s]) \subseteq ToSet(shards[s]) \cup {p}
  BY <1>1, <1>2, <1>3 DEF TablesAgree
<1> QED
  BY <1>4 DEF Indexed

LEMMA FoundAfterRemove ==
  ASSUME TablesAgree(shards), NEW p \in Paths, RemoveFile(p)
  PROVE  Indexed' \subseteq Indexed \ {p}
<1> SUFFICES ASSUME NEW h, h = ShardOf(Hash[p]) PROVE Indexed' \subseteq Indexed
  BY RemoveAgrees
<1>1. h \in Tables /\ shards[h] \in Seq(Paths) /\ Sorted(shards[h])
  BY ShardType DEF TablesAgree
<1>2. shards' = [shards EXCEPT ![h] = Removed(shards[h], p)]
  BY DEF RemoveFile
<1>3. ToSet(Removed(shards[h], p)) \subseteq ToSet(shards[h])
  BY <1>1, RemovedProperties
<1>4. \A s \in Tables : ToSet(shards'[s]) \subseteq ToSet(shards[s])
  BY <1>1, <1>2, <1>3 DEF TablesAgree
<1> QED
  BY <1>4 DEF Indexed

\* What is left to add when work ends or goes on.
LEMMA FinishPending ==
  ASSUME NEW by, NEW w, NEW more, Finish(by, w, more)
  PROVE  /\ Pending' \subseteq Pending \cup {v.path : v \in more}
         /\ handler' = IF by = "pool" THEN handler ELSE NoWork
<1>1. BagToSet(pool') \subseteq BagToSet(pool) \cup more
  BY BagSets DEF Finish
<1> QED
  BY <1>1 DEF Finish, Pending

LEMMA GoOnPending ==
  ASSUME NEW by, NEW w \in WorkType, NEW place, GoOn(by, w, place),
         place \in {"adding_watch", "listing"} \/ w.path \in Pending
  PROVE  /\ Pending' \subseteq Pending
         /\ by = "pool" => handler' = handler
         /\ by # "pool" => handler'.path = w.path
<1> SUFFICES ASSUME NEW v, v = [w EXCEPT !.at = place]
             PROVE  /\ Pending' \subseteq Pending
                    /\ by = "pool" => handler' = handler
                    /\ by # "pool" => handler'.path = w.path
  OBVIOUS
<1>1. v.path = w.path /\ v.at = place
  BY DEF WorkType
<1>2. BagToSet(pool') \subseteq BagToSet(pool) \cup {v}
  BY BagSets DEF GoOn
<1>3. Pending' \subseteq Pending
  BY <1>1, <1>2 DEF Pending
<1> QED
  BY <1>1, <1>3 DEF GoOn

\* A step of handle_file_add_or_change, by a pool thread on work in the pool,
\* or by the monitor's on its own.
LEMMA HandleGone ==
  ASSUME TablesAgree(shards), Rest, Works, GoneInv, NEW by, NEW w \in WorkType,
         \/ by = "pool" /\ w \in BagToSet(pool)
         \/ by = "monitor" /\ handler # NoWork /\ w = handler,
         HandleFileAddOrChange(by, w)
  PROVE  GoneInv'
<1>1. UNCHANGED <<disk, late, events, cancelled, monitored, ui>>
  BY DEF HandleFileAddOrChange, Add, AddWatch, ListDirectory, outside
<1>2. Phases /\ Pending \subseteq disk \cup late \cup Roots
      /\ (handler # NoWork => Accounted(handler.path))
  BY DEF GoneInv
<1>3. w.path \in Paths /\ by \in {"pool", "monitor"} /\ (by # "pool" => Accounted(w.path))
  BY <1>2 DEF WorkType
<1>4. ui # "on" => handler = NoWork /\ by = "pool"
  BY <1>2 DEF Phases
<1>5. CASE Add(by, w)
  <2>1. Accounted(w.path)
    <3>1. by = "pool" => w.path \in Pending
      BY <1>5 DEF Add, Pending
    <3> QED
      BY <1>2, <1>3, <3>1 DEF Accounted
  <2>2. \A p \in Indexed' : p \in Indexed \/ Accounted(p)
    BY <1>3, <1>5, <2>1, FoundAfterAdd DEF Add, Indexed, Tables
  <2>3. Finish(by, w, {}) \/ GoOn(by, w, "adding_watch")
    BY <1>5 DEF Add
  <2>4. Pending' \subseteq Pending
    BY <2>3, FinishPending, GoOnPending
  <2>5. handler' \in {handler, NoWork} \/ (by # "pool" /\ handler'.path = w.path)
    BY <2>3, FinishPending, GoOnPending
  <2>6. by = "pool" => handler' = handler
    BY <2>3, FinishPending, GoOnPending
  <2>7. watched' = watched
    BY <1>5 DEF Add
  <2>8. handler' # NoWork => Accounted(handler'.path)
    BY <1>2, <2>1, <2>5
  <2>9. ui # "on" => handler' = NoWork /\ watched' = {}
    BY <1>2, <1>4, <2>6, <2>7 DEF Phases
  <2>10. Pending' \subseteq disk \cup late \cup Roots
    BY <1>2, <2>4
  <2> QED
    BY <1>1, <2>2, <2>8, <2>9, <2>10, IndexKeeps
<1>6. CASE AddWatch(by, w)
  <2>1. Finish(by, w, {}) \/ GoOn(by, w, "listing")
    BY <1>6 DEF AddWatch
  <2>2. Pending' \subseteq disk \cup late \cup Roots
    BY <1>2, <2>1, FinishPending, GoOnPending
  <2>3. handler' \in {handler, NoWork} \/ (by # "pool" /\ handler'.path = w.path)
    BY <2>1, FinishPending, GoOnPending
  <2>4. by = "pool" => handler' = handler
    BY <2>1, FinishPending, GoOnPending
  <2>5. handler' # NoWork => Accounted(handler'.path)
    BY <1>2, <1>3, <2>3
  <2>6. ui # "on" => watched' = watched
    BY <1>2, <1>6 DEF AddWatch, Phases
  <2>7. ui # "on" => handler' = NoWork /\ watched' = {}
    BY <1>2, <1>4, <2>4, <2>6 DEF Phases
  <2>8. \A p \in Indexed' : p \in Indexed \/ Accounted(p)
    BY <1>6 DEF AddWatch, Indexed
  <2> QED
    BY <1>1, <2>2, <2>5, <2>7, <2>8, IndexKeeps
<1>7. CASE ListDirectory(by, w)
  <2>1. PICK more : more = IF w.path \in disk THEN Listing(w) ELSE {}
    OBVIOUS
  <2>2. Finish(by, w, more) /\ UNCHANGED <<shards, watched>>
    BY <1>7, <2>1 DEF ListDirectory
  <2>3. \A v \in more : v.path \in disk
    BY <2>1 DEF Listing, Work, Children
  <2>4. Pending' \subseteq disk \cup late \cup Roots
    BY <1>2, <2>2, <2>3, FinishPending
  <2>5. handler' = IF by = "pool" THEN handler ELSE NoWork
    BY <2>2, FinishPending
  <2>6. handler' # NoWork => Accounted(handler'.path)
    BY <1>2, <2>5
  <2>7. ui # "on" => handler' = NoWork /\ watched' = {}
    BY <1>2, <1>4, <2>2, <2>5 DEF Phases
  <2>8. \A p \in Indexed' : p \in Indexed \/ Accounted(p)
    BY <2>2 DEF Indexed
  <2> QED
    BY <1>1, <2>4, <2>6, <2>7, <2>8, IndexKeeps
<1> QED
  BY <1>5, <1>6, <1>7 DEF HandleFileAddOrChange

LEMMA QueueAdditionGone ==
  ASSUME Works, GoneInv, NEW w \in BagToSet(pool), QueueAddition(w)
  PROVE  GoneInv'
<1>1. /\ UNCHANGED <<disk, late, events, cancelled, monitored, ui, watched, shards>>
      /\ w \in WorkType /\ w.path \in Pending
  BY DEF QueueAddition, outside, Works, PoolType, Pending
<1>2. Finish("pool", w, {}) \/ GoOn("pool", w, "queued")
  BY DEF QueueAddition
<1>3. Pending' \subseteq Pending /\ handler' = handler
  BY <1>1, <1>2, FinishPending, GoOnPending
<1>4. Pending' \subseteq disk \cup late \cup Roots
  BY <1>3 DEF GoneInv
<1>5. /\ ui # "on" => handler' = NoWork /\ watched' = {}
      /\ handler' # NoWork => Accounted(handler'.path)
  BY <1>1, <1>3 DEF GoneInv, Phases
<1>6. \A p \in Indexed' : p \in Indexed \/ Accounted(p)
  BY <1>1 DEF Indexed
<1> QED
  BY <1>1, <1>4, <1>5, <1>6, IndexKeeps

-----------------------------------------------------------------------------
\* A report that is taken was the last word on its path only if it says that
\* the path is gone.
LEMMA TailAccounts ==
  ASSUME events \in Seq(Changes), events # <<>>, events' = Tail(events),
         UNCHANGED <<disk, late>>, NEW p, Accounted(p)
  PROVE  \/ Accounted(p)'
         \/ /\ Head(events) = [kind |-> "deleted", path |-> p]
            /\ \A i \in 1 .. Len(events') : events'[i].path # p
<1>1. /\ Len(events) \in Nat \ {0} /\ Len(events') = Len(events) - 1
      /\ \A i \in 1 .. Len(events) - 1 : events'[i] = events[i + 1]
      /\ Head(events) = events[1]
  OBVIOUS
<1>2. CASE p \in disk \cup late \cup Roots
  BY <1>2 DEF Accounted
<1>3. ASSUME NEW i \in 1 .. Len(events), events[i] = [kind |-> "deleted", path |-> p],
             \A j \in i + 1 .. Len(events) : events[j].path # p
      PROVE  \/ Accounted(p)'
             \/ /\ Head(events) = [kind |-> "deleted", path |-> p]
                /\ \A j \in 1 .. Len(events') : events'[j].path # p
  <2>1. CASE i = 1
    <3>1. ASSUME NEW j \in 1 .. Len(events') PROVE events'[j].path # p
      <4>1. j + 1 \in i + 1 .. Len(events) /\ events'[j] = events[j + 1]
        BY <1>1, <2>1
      <4> QED
        BY <1>3, <4>1
    <3> QED
      BY <1>1, <1>3, <2>1, <3>1
  <2>2. CASE i # 1
    <3>1. i - 1 \in 1 .. Len(events') /\ events'[i - 1] = events[i]
      BY <1>1, <2>2
    <3>2. ASSUME NEW j \in (i - 1) + 1 .. Len(events') PROVE events'[j].path # p
      <4>1. j + 1 \in i + 1 .. Len(events) /\ events'[j] = events[j + 1]
        BY <1>1
      <4> QED
        BY <1>3, <4>1
    <3> QED
      BY <1>3, <3>1, <3>2 DEF Accounted, LastDeleted
  <2> QED
    BY <2>1, <2>2
<1> QED
  BY <1>2, <1>3 DEF Accounted, LastDeleted

\* on_file_changed takes the next report.
LEMMA ReportGone ==
  ASSUME TablesAgree(shards), Rest, Works, GoneInv, OnFileChanged
  PROVE  GoneInv'
<1> SUFFICES ASSUME NEW e, e = Head(events) PROVE GoneInv'
  OBVIOUS
<1>1. /\ events \in Seq(Changes) /\ events # <<>> /\ events' = Tail(events) /\ handler = NoWork
      /\ UNCHANGED <<disk, late, cancelled, monitored, watched, pool, ui>>
  BY DEF OnFileChanged, Rest
<1>2. e \in Changes /\ e.path \in Paths /\ e.kind \in {"changed", "deleted"}
  <2>1. e \in Changes
    BY <1>1, SeqFacts
  <2> QED
    BY <2>1 DEF Changes
<1>3. ui = "on" /\ ~cancelled
  BY <1>1 DEF GoneInv, Phases
<1>4. /\ Len(events) \in Nat \ {0} /\ Len(events') = Len(events) - 1
      /\ \A i \in 1 .. Len(events) - 1 : events'[i] = events[i + 1]
      /\ e = events[1]
  BY <1>1
<1>5. Accounted(e.path) /\ \A i \in 1 .. Len(events') : Accounted(events[i + 1].path)
  BY <1>4 DEF GoneInv
<1>6. Phases'
  BY <1>1, <1>3 DEF GoneInv, Phases
<1>7. (Pending \subseteq disk \cup late \cup Roots)'
  BY <1>1 DEF GoneInv, Pending
<1>8. ASSUME NEW i \in 1 .. Len(events') PROVE Accounted(events[i].path)'
  <2>1. PICK x : x = events'[i].path
    OBVIOUS
  <2>2. x = events[i + 1].path
    BY <1>4, <2>1
  <2>3. Accounted(x)
    BY <1>5, <2>2
  <2>4. Accounted(x)'
    BY <1>1, <2>1, <2>3, TailAccounts
  <2> QED
    BY <2>1, <2>4 DEF Accounted, LastDeleted
<1>9. CASE e.kind = "deleted"
  <2>1. RemoveFile(e.path) /\ handler' = handler
    BY <1>3, <1>9 DEF OnFileChanged
  <2>2. Indexed' \subseteq Indexed \ {e.path}
    BY <1>2, <2>1, FoundAfterRemove
  <2>3. ASSUME NEW p \in Indexed' PROVE Accounted(p)'
    <3>1. Accounted(p) /\ p # e.path
      BY <1>3, <2>2 DEF GoneInv
    <3> QED
      BY <1>1, <3>1, TailAccounts
  <2>4. (handler # NoWork => Accounted(handler.path))'
    BY <1>1, <2>1
  <2>5. (\A p \in Indexed : Accounted(p))' /\ (\A i \in 1 .. Len(events) : Accounted(events[i].path))'
    BY <1>8, <2>3
  <2> QED
    BY <1>6, <1>7, <2>4, <2>5 DEF GoneInv
<1>10. CASE e.kind # "deleted"
  <2>1. /\ shards' = shards
        /\ handler' = IF Candidates(e.path) = {} THEN NoWork ELSE EventWork(e.path)
    BY <1>3, <1>10 DEF OnFileChanged
  <2>2. \A p : Accounted(p) => Accounted(p)'
    <3> SUFFICES ASSUME NEW p, Accounted(p) PROVE Accounted(p)'
      OBVIOUS
    <3>1. Head(events) # [kind |-> "deleted", path |-> p]
      BY <1>10
    <3> QED
      BY <1>1, <3>1, TailAccounts
  <2>3. handler' # NoWork => handler'.path = e.path
    BY <2>1 DEF EventWork, Work
  <2>4. (handler # NoWork => Accounted(handler.path))'
    <3> SUFFICES ASSUME handler' # NoWork PROVE Accounted(handler.path)'
      OBVIOUS
    <3>1. PICK x : x = handler'.path
      OBVIOUS
    <3>2. Accounted(x)'
      BY <1>5, <2>2, <2>3, <3>1
    <3> QED
      BY <3>1, <3>2 DEF Accounted, LastDeleted
  <2>5. ASSUME NEW p \in Indexed' PROVE Accounted(p)'
    <3>1. Accounted(p)
      BY <1>3, <2>1 DEF GoneInv, Indexed
    <3> QED
      BY <2>2, <3>1
  <2>6. (\A p \in Indexed : Accounted(p))' /\ (\A i \in 1 .. Len(events) : Accounted(events[i].path))'
    BY <1>8, <2>5
  <2> QED
    BY <1>6, <1>7, <2>4, <2>6 DEF GoneInv
<1> QED
  BY <1>9, <1>10

\* The plugin is switched off and on: the reports are dropped, and the tables
\* are emptied before they count again.
LEMMA SettingGone ==
  ASSUME Rest, GoneInv,
         Deactivate \/ (\E value \in Settings \cup {<<>>} : Initialize(value)) \/ Activate
  PROVE  GoneInv'
<1>1. CASE Deactivate
  <2>1. /\ UNCHANGED <<handler, pool, disk, late>> /\ handler = NoWork /\ events' = <<>>
        /\ ui' = "off" /\ cancelled' /\ ~monitored' /\ watched' = {}
    BY <1>1 DEF Deactivate
  <2>2. Phases'
    BY <2>1 DEF Phases
  <2>3. (Pending \subseteq disk \cup late \cup Roots)'
    BY <2>1 DEF GoneInv, Pending
  <2> QED
    BY <2>1, <2>2, <2>3 DEF GoneInv
<1>2. ASSUME NEW value \in Settings \cup {<<>>}, Initialize(value) PROVE GoneInv'
  <2>1. /\ UNCHANGED <<handler, pool, disk, late, events, cancelled, monitored, watched>>
        /\ ui = "off" /\ ui' = "activating" /\ shards' = EmptyShards
    BY <1>2 DEF Initialize, outside
  <2>2. events = <<>> /\ handler = NoWork /\ Phases'
    BY <2>1 DEF GoneInv, Phases
  <2>3. Indexed' = {}
    BY <2>1, ToSetEmpty DEF Indexed, EmptyShards
  <2>4. (Pending \subseteq disk \cup late \cup Roots)'
    BY <2>1 DEF GoneInv, Pending
  <2> QED
    BY <2>1, <2>2, <2>3, <2>4 DEF GoneInv
<1>3. CASE Activate
  <2>1. /\ UNCHANGED <<handler, disk, late, events, shards>>
        /\ ui = "activating" /\ ui' = "on" /\ ~cancelled' /\ monitored'
        /\ pool' = pool (+) RootWork(configs)
    BY <1>3 DEF Activate, outside
  <2>2. BagToSet(pool') = BagToSet(pool) \cup BagToSet(RootWork(configs))
    BY <2>1, BagSets
  <2>3. \A w \in BagToSet(RootWork(configs)) : w.path \in Roots
    BY RootWorkPending DEF Rest
  <2>4. (Pending \subseteq disk \cup late \cup Roots)'
    BY <2>1, <2>2, <2>3 DEF GoneInv, Pending
  <2>5. events = <<>> /\ handler = NoWork /\ Phases'
    BY <2>1 DEF GoneInv, Phases
  <2>6. (\A p \in Indexed : Accounted(p))'
    BY <2>1 DEF GoneInv, Indexed, Accounted, LastDeleted
  <2> QED
    BY <2>1, <2>4, <2>5, <2>6 DEF GoneInv
<1> QED
  BY <1>1, <1>2, <1>3

LEMMA NextGone ==
  ASSUME TablesAgree(shards), Rest, Works, GoneInv, [Next]_vars
  PROVE  GoneInv'
<1>0. Rest'
  BY NextParts
<1>1. ASSUME NEW w \in BagToSet(pool), QueueAddition(w) \/ HandleFileAddOrChange("pool", w)
      PROVE  GoneInv'
  <2>1. w \in WorkType
    BY DEF Works, PoolType
  <2> QED
    BY <1>1, <2>1, QueueAdditionGone, HandleGone
<1>2. CASE MonitorStep
  <2>1. CASE handler # NoWork /\ HandleFileAddOrChange("monitor", handler)
    <3>1. PICK w \in WorkType : w = handler
      BY <2>1 DEF Works
    <3> QED
      BY <2>1, <3>1, HandleGone
  <2> QED
    BY <1>2, <2>1, ReportGone DEF MonitorStep
<1>3. CASE DiskStep
  BY <1>0, <1>3, ModifyGone, VanishGone, AppearGone DEF DiskStep
<1>4. CASE UNCHANGED vars
  BY <1>4
  DEF vars, indexing, outside, GoneInv, Phases, Pending, Accounted, LastDeleted, Indexed
<1> QED
  BY <1>1, <1>2, <1>3, <1>4, SettingGone DEF Next, PoolStep

\* When no work is left, a path that is found exists, but for those that went
\* when nobody could tell the index and the roots, for every tree, setting
\* and order in which pool threads, monitor and setting take their steps.
THEOREM GoneAlwaysForgotten == Spec => []GoneForgotten
<1>1. Init => IInv /\ GoneInv
  BY InitParts, IInvParts, InitGone
<1>2. IInv /\ GoneInv /\ [Next]_vars => GoneInv'
  BY IInvParts, NextGone
<1>3. IInv /\ GoneInv => GoneForgotten
  BY IInvParts, GoneSuffices
<1> QED
  BY <1>1, <1>2, <1>3, Inductive, PTL DEF Spec
=============================================================================
