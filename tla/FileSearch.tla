----------------------------- MODULE FileSearch -----------------------------
(***************************************************************************)
(* The file search plugin (src/file-search/file-search-plugin.vala): pool  *)
(* threads index the configured directories level by level, the monitor's  *)
(* thread follows the changes of the directories reached so far, and the   *)
(* user interface thread throws all of it away and starts again when the   *)
(* setting changes.                                                        *)
(*                                                                         *)
(* A path is a sequence of names.  The file system, the launcher's pool    *)
(* and INotify.Monitor are external: changes of a watched directory are    *)
(* reported in order, dropping a monitor drops its reports and waits for   *)
(* the handler that runs, and what was moved away is left alone there.     *)
(***************************************************************************)
EXTENDS FileTable, Bags

CONSTANTS
  Directories,  \* the paths that are directories, when they exist
  Hidden,       \* the paths whose last name begins with a dot
  Suffixed,     \* the paths should_ignore_file rejects
  GitPatterns,  \* <<d, p>>: a line of d/.gitignore matches the last name of p
  NamePrefixes, \* <<m, n>>: the name n begins with the different name m
  Settings,     \* the values of directory-configs: root -> limits
  Lasting,      \* the paths nobody deletes or moves
  MaxChanges,   \* bound: changes of the file system and the setting
  SettingCost   \* bound: as how many of them a change of the setting counts

ASSUME TreeAssumption ==
  /\ \A p \in Paths : Len(p) \in Nat
  /\ \A value \in Settings : DOMAIN value \subseteq Paths
  /\ \A value \in Settings : \A r \in DOMAIN value : value[r].depth \in Nat

VARIABLES
  disk,         \* the paths that exist
  configs,      \* directory_configs
  cancelled,    \* the atomic of that name
  monitored,    \* monitor is not null
  watched,      \* the directories it watches
  events,       \* the changes it has still to report
  handler,      \* the work of on_file_changed, in the monitor's thread
  pool,         \* the work queued in idle callbacks and run by pool threads
  ui,           \* the plugin is on, off, or between
  late,         \* paths that went while nobody could tell the index
  changes       \* counter

indexing == <<shards, configs, cancelled, monitored, watched, handler, pool, ui>>
outside  == <<disk, events, late, changes>>
vars == <<indexing, outside>>

ChangesBy(n) == changes + n <= MaxChanges /\ changes' = changes + n

-----------------------------------------------------------------------------
(***************************************************************************)
(* Paths and configurations.                                               *)
(***************************************************************************)
Parent(p)   == Front(p)
Below(p, d) == Len(p) > Len(d) /\ IsPrefix(d, p)
Children(d) == {p \in disk : Len(p) = Len(d) + 1 /\ IsPrefix(d, p)}

\* path.has_prefix(root): a prefix of the text, not of the path.
HasPrefix(path, root) ==
  /\ Len(path) >= Len(root)
  /\ IsPrefix(Front(root), path)
  /\ \/ path[Len(root)] = Last(root)
     \/ <<Last(root), path[Len(root)]>> \in NamePrefixes

\* find_best_dc: the roots are tried in falling order, so the longest first.
Candidates(path) == {r \in DOMAIN configs : HasPrefix(path, r)}
BestRoot(path)   == CHOOSE r \in Candidates(path) :
                      \A q \in Candidates(path) : Len(q) <= Len(r)

\* The work on a path below a root: the depth is the number of slashes
\* after the root, patterns the directories whose .gitignore was loaded.
Work(path, root, limits, depth, patterns, place) ==
  [path |-> path, root |-> root, limits |-> limits, depth |-> depth,
   patterns |-> patterns, at |-> place]
NoWork == [at |-> "none"]

RootWork(value) ==
  SetToBag({Work(r, r, value[r], 0, {}, "queued") : r \in DOMAIN value})

-----------------------------------------------------------------------------
(***************************************************************************)
(* handle_file_add_or_change, by a pool thread or the monitor's.           *)
(***************************************************************************)
\* The work w is over, and leaves more work to the idle callbacks.
Finish(by, w, more) ==
  IF by = "pool"
  THEN pool' = (pool (-) SetToBag({w})) (+) SetToBag(more) /\ UNCHANGED handler
  ELSE pool' = pool (+) SetToBag(more) /\ handler' = NoWork

GoOn(by, w, place) ==
  LET v == [w EXCEPT !.at = place]
  IN  IF by = "pool"
      THEN pool' = (pool (-) SetToBag({w})) (+) SetToBag({v}) /\ UNCHANGED handler
      ELSE handler' = v /\ UNCHANGED pool

\* The path is added without a look at the disk.
Add(by, w) ==
  /\ w.at = "queued"
  /\ IF w.path \in Suffixed THEN UNCHANGED shards ELSE AddFile(w.path)
  /\ IF w.path \in Suffixed \/ w.depth >= w.limits.depth
     THEN Finish(by, w, {})
     ELSE GoOn(by, w, "adding_watch")
  /\ UNCHANGED <<configs, cancelled, monitored, watched, ui, outside>>

\* Slip: no test for a directory.
AddWatchUntested(by, w) ==
  /\ w.at = "adding_watch"
  /\ watched' = IF monitored THEN watched \cup {w.path} ELSE watched
  /\ GoOn(by, w, "listing")
  /\ UNCHANGED <<shards, configs, cancelled, monitored, ui, outside>>

\* Slip: what the monitor reports is listed but not watched.
AddWatchOnce(by, w) ==
  /\ w.at = "adding_watch"
  /\ IF w.path \in disk \cap Directories
     THEN /\ watched' = IF monitored /\ by = "pool" THEN watched \cup {w.path} ELSE watched
          /\ GoOn(by, w, "listing")
     ELSE Finish(by, w, {}) /\ UNCHANGED watched
  /\ UNCHANGED <<shards, configs, cancelled, monitored, ui, outside>>

\* The test for a directory, and monitor.add_path.
AddWatch(by, w) ==
  /\ w.at = "adding_watch"
  /\ IF w.path \in disk \cap Directories
     THEN /\ watched' = IF monitored THEN watched \cup {w.path} ELSE watched
          /\ GoOn(by, w, "listing")
     ELSE Finish(by, w, {}) /\ UNCHANGED watched
  /\ UNCHANGED <<shards, configs, cancelled, monitored, ui, outside>>

\* The names that are read, less those that are hidden, ignored or roots.
Listing(w) ==
  LET patterns == w.patterns \cup (IF w.limits.gitignore THEN {w.path} ELSE {})
      Kept(p)  == /\ w.limits.hidden \/ p \notin Hidden
                  /\ \A d \in patterns : <<d, p>> \notin GitPatterns
                  /\ p \notin DOMAIN configs
  IN  {Work(p, w.root, w.limits, w.depth + 1, patterns, "idle")
         : p \in {q \in Children(w.path) : Kept(q)}}

\* Reading a directory is one step: what changes meanwhile is reported.
ListDirectory(by, w) ==
  /\ w.at = "listing"
  /\ Finish(by, w, IF w.path \in disk THEN Listing(w) ELSE {})
  /\ UNCHANGED <<shards, configs, cancelled, monitored, watched, ui, outside>>

HandleFileAddOrChange(by, w) == Add(by, w) \/ AddWatch(by, w) \/ ListDirectory(by, w)

\* Slip: the callback is called again as long as the plugin is off.
QueueAdditionAgain(w) ==
  /\ ui # "activating" /\ ~cancelled
  /\ w.at = "idle"
  /\ GoOn("pool", w, "queued")
  /\ UNCHANGED <<shards, configs, cancelled, monitored, watched, ui, outside>>

\* An idle callback calls queue_addition.
QueueAddition(w) ==
  /\ ui # "activating"
  /\ w.at = "idle"
  /\ IF cancelled THEN Finish("pool", w, {}) ELSE GoOn("pool", w, "queued")
  /\ UNCHANGED <<shards, configs, cancelled, monitored, watched, ui, outside>>

-----------------------------------------------------------------------------
(***************************************************************************)
(* on_file_changed.                                                        *)
(***************************************************************************)
EventWork(path) ==
  LET root == BestRoot(path)
  IN  Work(path, root, configs[root], Len(path) - Len(root), {}, "queued")

OnFileChanged ==
  /\ handler = NoWork /\ events # <<>>
  /\ events' = Tail(events)
  /\ LET e == Head(events)
     IN  IF cancelled
         THEN UNCHANGED <<shards, handler>>
         ELSE IF e.kind = "deleted"
         THEN RemoveFile(e.path) /\ UNCHANGED handler
         ELSE /\ handler' = IF Candidates(e.path) = {} THEN NoWork ELSE EventWork(e.path)
              /\ UNCHANGED shards
  /\ UNCHANGED <<configs, cancelled, monitored, watched, pool, ui, disk, late, changes>>

-----------------------------------------------------------------------------
(***************************************************************************)
(* The launcher and the setting.  on_setting_changed is deactivate,        *)
(* initialize_dir_config and activate; the launcher calls deactivate and   *)
(* activate when the plugin is switched off and on.                        *)
(***************************************************************************)
\* The threads that index go on, and find no configuration.
Deactivate ==
  /\ ui = "on" /\ handler = NoWork
  /\ ChangesBy(SettingCost)
  /\ cancelled' = TRUE
  /\ configs' = <<>>
  /\ monitored' = FALSE /\ watched' = {} /\ events' = <<>>
  /\ ui' = "off"
  /\ UNCHANGED <<shards, handler, pool, disk, late>>

\* initialize_dir_config, if the setting has changed, and the first part of
\* activate: file_tree_manager_initialize, as if the threads saw one step.
Initialize(value) ==
  /\ ui = "off"
  /\ configs' = value
  /\ shards' = EmptyShards
  /\ ui' = "activating"
  /\ UNCHANGED <<cancelled, monitored, watched, handler, pool, outside>>

Activate ==
  /\ ui = "activating"
  /\ cancelled' = FALSE
  /\ monitored' = TRUE
  /\ pool' = pool (+) RootWork(configs)
  /\ ui' = "on"
  /\ UNCHANGED <<shards, configs, watched, handler, outside>>

-----------------------------------------------------------------------------
(***************************************************************************)
(* The file system.  A change is reported if its directory is watched.     *)
(***************************************************************************)
Roots == UNION {DOMAIN value : value \in Settings}

Report(kind, p) ==
  events' = IF Parent(p) \in watched THEN Append(events, [kind |-> kind, path |-> p]) ELSE events

\* The paths that pool threads are about to add.
Pending ==
  {w.path : w \in {v \in BagToSet(pool) : v.at \in {"idle", "queued"}}}

\* A file or directory is made, or moved here with what is in it.
Appear(p, tree) ==
  /\ ChangesBy(1)
  /\ p \notin disk /\ Parent(p) \in disk
  /\ disk' = disk \cup {p} \cup tree
  /\ late' = late \ ({p} \cup tree)
  /\ Report("changed", p)
  /\ UNCHANGED indexing

\* A file is written, or its attributes change.
Modify(p) ==
  /\ ChangesBy(1)
  /\ p \in disk \ Lasting
  /\ Report("changed", p)
  /\ UNCHANGED <<indexing, disk, late>>

\* A file or directory is deleted, or moved away with what is in it.
Vanish(p) ==
  LET gone == {q \in disk : q = p \/ Below(q, p)}
  IN  /\ ChangesBy(1)
      /\ p \in disk \ Lasting
      /\ disk' = disk \ gone
      /\ watched' = watched \ gone
      /\ Report("deleted", p)
      /\ late' = late \cup {q \in gone : q # p \/ q \in Pending \/ Parent(q) \notin watched}
      /\ UNCHANGED <<shards, configs, cancelled, monitored, handler, pool, ui>>

\* Trees that can be moved here with p.
TreesBelow(p) ==
  {t \in SUBSET {q \in Paths : Below(q, p)} :
     \A q \in t : Parent(q) = p \/ Parent(q) \in t}
-----------------------------------------------------------------------------
Init ==
  /\ disk \in SUBSET Paths /\ Lasting \subseteq disk
  /\ \A p \in disk \ Lasting : Parent(p) \in disk
  /\ \E value \in Settings : configs = value /\ pool = RootWork(value)
  /\ shards = EmptyShards
  /\ cancelled = FALSE /\ monitored = TRUE /\ watched = {} /\ events = <<>>
  /\ handler = NoWork /\ ui = "on" /\ late = {} /\ changes = 0

PoolStep ==
  \E w \in BagToSet(pool) : QueueAddition(w) \/ HandleFileAddOrChange("pool", w)

MonitorStep ==
  OnFileChanged \/ (handler # NoWork /\ HandleFileAddOrChange("monitor", handler))

DiskStep ==
  \E p \in Paths : Modify(p) \/ Vanish(p) \/ \E t \in TreesBelow(p) : Appear(p, t)

Next ==
  \/ PoolStep \/ MonitorStep \/ DiskStep
  \/ Deactivate \/ (\E v \in Settings \cup {<<>>} : Initialize(v)) \/ Activate

Spec == Init /\ [][Next]_vars

\* Some thread that has work goes on.
FairSpec == Spec /\ WF_vars(PoolStep \/ MonitorStep \/ Activate)

-----------------------------------------------------------------------------
\* Type invariant.
WorkType ==
  [path : Paths, root : Roots, limits : UNION {{v[r] : r \in DOMAIN v} : v \in Settings},
   depth : Nat, patterns : SUBSET Paths,
   at : {"idle", "queued", "adding_watch", "listing"}]

TypeOK ==
  /\ shards \in [Tables -> Seq(Paths)]
  /\ disk \subseteq Paths /\ late \subseteq Paths /\ watched \subseteq disk \cap Directories
  /\ configs \in Settings \cup {<<>>}
  /\ cancelled \in BOOLEAN /\ monitored \in BOOLEAN
  /\ events \in Seq([kind : {"changed", "deleted"}, path : Paths])
  /\ BagToSet(pool) \subseteq WorkType /\ handler \in WorkType \cup {NoWork}
  /\ ui \in {"on", "off", "activating"}

\* The tables are sorted without repetition, and a path is in its table: the
\* scans that stop early miss nothing.
TablesSorted ==
  \A s \in Tables : \A i \in 1 .. Len(shards[s]) :
    /\ ShardOf(Hash[shards[s][i]]) = s
    /\ \A j \in 1 .. i - 1 : Rank[shards[s][j]] < Rank[shards[s][i]]

NoWorkLeft == pool = EmptyBag /\ handler = NoWork /\ events = <<>>
Quiet == ui = "on" /\ NoWorkLeft

\* The paths the setting asks for: within the depth of their root, and no
\* name on the way rejected, hidden, ignored or a root of its own.
Wanted(p) ==
  \E r \in DOMAIN configs :
    LET way   == {q \in Paths : IsPrefix(q, p) /\ Below(q, r)}
        above == {q \in Directories : IsPrefix(r, q) /\ Below(p, q)}
    IN  /\ IsPrefix(r, p) /\ Len(p) - Len(r) <= configs[r].depth
        /\ (way \cup {r}) \cap Suffixed = {} /\ way \cap DOMAIN configs = {}
        /\ configs[r].hidden \/ way \cap Hidden = {}
        /\ configs[r].gitignore => \A d \in above, q \in way : <<d, q>> \notin GitPatterns

\* find_best_dc takes the path to be below its root.
RightRoot(p) == \A r \in Candidates(p) : IsPrefix(r, p)

Full(p) == Len(shards[ShardOf(Hash[p])]) >= MaxCount

\* When no work is left, every file the setting asks for is found, whatever
\* was made, moved, deleted or reconfigured while directories were indexed.
ExistingFound ==
  Quiet => \A p \in disk :
    Wanted(p) /\ (\A q \in disk : IsPrefix(q, p) => RightRoot(q)) => p \in Indexed \/ Full(p)

\* When no work is left, a path that is found exists, unless it went while a
\* pool thread was about to add it or its directory was not watched, or it
\* went with the directory it is in, or it is a root, which is added whether
\* it exists or not, by work that an earlier setting has left, too.
GoneForgotten == Quiet => Indexed \ disk \subseteq late \cup Roots

\* Indexing ends: all the work a change has started is done in the end.
IndexingEnds == []<>NoWorkLeft
=============================================================================
