-------------------------- MODULE ClipboardHistory --------------------------
(***************************************************************************)
(* The clipboard history: what the plugin                                  *)
(* (src/clipboard/clipboard-manager-plugin.vala) and its SQLite database   *)
(* (src/clipboard/clipboard-database.vala) keep of the copied items.       *)
(*                                                                         *)
(* An item is identified by the hash the watcher computes.  The database   *)
(* has a row per item and a row per piece of content; the memory has the   *)
(* tree of shards, where an item is searched, and the list of recent       *)
(* items.  The watcher's event thread records copies                       *)
(* (on_clipboard_changed) while the user interface thread puts items back  *)
(* on the clipboard and deletes them.  They share the tables, whose calls  *)
(* are atomic, and the prepared statement that stamps an item.  A call on  *)
(* SQLite or on a table is a step.                                         *)
(***************************************************************************)
EXTENDS Integers, SequencesExt

CONSTANTS
  Items,       \* the hashes of the items that are copied
  Parts,       \* the hashes of pieces of content
  PartsOf,     \* the pieces an item consists of
  Mimes,       \* mime types, and the strings of mimetype-ignore-list
  MimesOf,     \* the mime types an item is offered in
  IgnoreList,  \* the setting mimetype-ignore-list
  Rejected,    \* items without a preferred type, or matching the regex setting
  NoItem,
  MaxTime,     \* bound on the clock
  MaxRecent,   \* bound on the setting max-recent-entries
  MaxRestarts  \* bound on restarts of the program

ASSUME HistoryAssumption ==
  /\ PartsOf \in [Items -> (SUBSET Parts) \ {{}}]
  /\ MimesOf \in [Items -> SUBSET Mimes]
  /\ IgnoreList \subseteq Mimes
  /\ Rejected \subseteq Items /\ NoItem \notin Items
  /\ MaxTime \in Nat /\ MaxRecent \in Nat \ {0} /\ MaxRestarts \in Nat

Threads == {"event", "ui"}

VARIABLES
  items,     \* table clipboard_items: item -> timestamp
  content,   \* table clipboard_content: piece -> the item_hash of its row
  tree,      \* the items in the shards
  recents,   \* the table of recent items, the latest first
  limit,     \* max_recent_entries
  lastHash,  \* the watcher's last_hash
  bound,     \* the bindings of update_timestamp_stmt
  at, item, time,  \* of each thread: where it is, for which item, since when
  todo,      \* pieces insert_item has still to insert
  clock, restarts,
  overlapped \* has an operation begun inside another since the program started?

database == <<items, content>>
memory   == <<tree, recents, limit, lastHash>>
vars == <<database, memory, bound, at, item, time, todo, clock, restarts, overlapped>>

Unbound == [time |-> 0, item |-> NoItem]
Idle(t) == at[t] = "idle"
Listed  == DOMAIN items
PieceOwner(p) == IF p \in DOMAIN content THEN content[p] ELSE NoItem

Init ==
  /\ items = <<>> /\ content = <<>>
  /\ tree = {} /\ recents = <<>> /\ limit \in 1 .. MaxRecent /\ lastHash = NoItem
  /\ bound = Unbound
  /\ at = [t \in Threads |-> "idle"] /\ item = [t \in Threads |-> NoItem]
  /\ time = [t \in Threads |-> 0] /\ todo = {}
  /\ clock = 1 /\ restarts = 0 /\ overlapped = FALSE

\* A thread begins an operation, alone or inside one of the other thread.
Begins(t) ==
  /\ Idle(t)
  /\ overlapped' = (overlapped \/ \E u \in Threads : ~Idle(u))

\* A thread reads the clock, and goes on.
Stamps(t) ==
  /\ clock < MaxTime
  /\ time' = [time EXCEPT ![t] = clock]
  /\ clock' = clock + 1

Goes(t, place) == at' = [at EXCEPT ![t] = place]

\* The table of recent items after insert_shift of an item.
InFront(i) == <<i>> \o RemoveFirst(recents, i)

-----------------------------------------------------------------------------
(***************************************************************************)
(* on_clipboard_changed, in the event thread.                              *)
(***************************************************************************)

\* mime_type in mimetype_ignore_list, for one of the types.
Ignored(i) == MimesOf[i] \cap IgnoreList # {}

\* The watcher calls back for content that differs from the last.
CopyArrives(i) ==
  /\ Begins("event")
  /\ i # lastHash
  /\ lastHash' = i
  /\ IF Ignored(i) \/ i \in Rejected
     THEN UNCHANGED <<at, item>>
     ELSE item' = [item EXCEPT !["event"] = i] /\ Goes("event", "add")
  /\ UNCHANGED <<database, tree, recents, limit, bound, time, todo, clock, restarts>>

\* ClipboardTreeManager.add_entry.
AddEntry ==
  /\ at["event"] = "add"
  /\ tree' = tree \cup {item["event"]}
  /\ Goes("event", "front")
  /\ UNCHANGED <<database, recents, limit, lastHash, bound, item, time, todo, clock, restarts, overlapped>>

\* recent_entries.insert_shift, in on_clipboard_changed and in set_clipboard.
MoveToFront(t) ==
  /\ at[t] = "front"
  /\ recents' = InFront(item[t])
  /\ Goes(t, IF t = "event" THEN "check" ELSE "idle")
  /\ UNCHANGED <<database, tree, limit, lastHash, bound, item, time, todo, clock, restarts, overlapped>>

\* insert_item: check_if_content_exists decides what comes after the content.
CheckIfExists ==
  /\ at["event"] = "check"
  /\ Stamps("event")
  /\ todo' = PartsOf[item["event"]]
  /\ Goes("event", IF item["event"] \in Listed THEN "contents_known" ELSE "contents_new")
  /\ UNCHANGED <<database, memory, bound, item, restarts, overlapped>>

\* Slip: the hash and the item are bound in the wrong order.
InsertContentSwapped(p) ==
  /\ at["event"] \in {"contents_known", "contents_new"} /\ p \in todo
  /\ content' = [q \in DOMAIN content \cup {p} |-> IF q = p THEN p ELSE content[q]]
  /\ todo' = todo \ {p}
  /\ UNCHANGED <<items, memory, bound, at, item, time, clock, restarts, overlapped>>

\* insert_content: INSERT OR REPLACE, and content_hash alone is the key.
InsertContent(p) ==
  /\ at["event"] \in {"contents_known", "contents_new"} /\ p \in todo
  /\ content' = [q \in DOMAIN content \cup {p} |->
                   IF q = p THEN item["event"] ELSE content[q]]
  /\ todo' = todo \ {p}
  /\ UNCHANGED <<items, memory, bound, at, item, time, clock, restarts, overlapped>>

InsertedContents ==
  /\ at["event"] = "contents_known" /\ todo = {}
  /\ Goes("event", "bind_time")
  /\ UNCHANGED <<database, memory, bound, item, time, todo, clock, restarts, overlapped>>

\* Slip: the item is listed before its content is stored.
InsertUiItemFirst ==
  /\ at["event"] = "contents_new" /\ item["event"] \notin Listed
  /\ items' = [i \in Listed \cup {item["event"]} |->
                 IF i = item["event"] THEN time["event"] ELSE items[i]]
  /\ UNCHANGED <<content, memory, bound, at, item, time, todo, clock, restarts, overlapped>>

\* insert_ui_item.
InsertUiItem ==
  /\ at["event"] = "contents_new" /\ todo = {}
  /\ items' = [i \in Listed \cup {item["event"]} |->
                 IF i = item["event"] THEN time["event"] ELSE items[i]]
  /\ Goes("event", "idle")
  /\ UNCHANGED <<content, memory, bound, item, time, todo, clock, restarts, overlapped>>

-----------------------------------------------------------------------------
(***************************************************************************)
(* The statement both threads stamp an item with: reset, clear_bindings    *)
(* and the first bind; the second bind; step and reset.                    *)
(***************************************************************************)
BindTime(t) ==
  /\ at[t] = "bind_time"
  /\ bound' = [time |-> time[t], item |-> NoItem]
  /\ Goes(t, "bind_item")
  /\ UNCHANGED <<database, memory, item, time, todo, clock, restarts, overlapped>>

BindItem(t) ==
  /\ at[t] = "bind_item"
  /\ bound' = [bound EXCEPT !.item = item[t]]
  /\ Goes(t, "step")
  /\ UNCHANGED <<database, memory, item, time, todo, clock, restarts, overlapped>>

\* Slip: the item is not stamped.
StepNothing(t) ==
  /\ at[t] = "step"
  /\ Goes(t, IF t = "event" THEN "idle" ELSE "front")
  /\ UNCHANGED <<database, memory, bound, item, time, todo, clock, restarts, overlapped>>

StepStatement(t) ==
  /\ at[t] = "step"
  /\ items' = [i \in Listed |-> IF i = bound.item THEN bound.time ELSE items[i]]
  /\ Goes(t, IF t = "event" THEN "idle" ELSE "front")
  /\ UNCHANGED <<content, memory, bound, item, time, todo, clock, restarts, overlapped>>

-----------------------------------------------------------------------------
(***************************************************************************)
(* The user's actions, in the user interface thread.                       *)
(***************************************************************************)
Shown == tree \cup Range(recents)

\* set_clipboard: without content it returns false.
SetClipboard(i) ==
  /\ Begins("ui") /\ i \in Shown
  /\ \E p \in Parts : PieceOwner(p) = i
  /\ Stamps("ui")
  /\ item' = [item EXCEPT !["ui"] = i]
  /\ Goes("ui", "bind_time")
  /\ UNCHANGED <<database, memory, bound, todo, restarts>>

\* delete_item of the database: the row of the item, not its content.
DeleteItem(i) ==
  /\ Begins("ui") /\ i \in Shown
  /\ items' = [j \in Listed \ {i} |-> items[j]]
  /\ item' = [item EXCEPT !["ui"] = i]
  /\ Goes("ui", "remove")
  /\ UNCHANGED <<content, memory, bound, time, todo, clock, restarts>>

\* Slip: the item is taken from the list of recent items only.
RemoveNoEntry ==
  /\ at["ui"] = "remove"
  /\ Goes("ui", "unlist")
  /\ UNCHANGED <<database, memory, bound, item, time, todo, clock, restarts, overlapped>>

\* ClipboardTreeManager.remove_entry.
RemoveEntry ==
  /\ at["ui"] = "remove"
  /\ tree' = tree \ {item["ui"]}
  /\ Goes("ui", "unlist")
  /\ UNCHANGED <<database, recents, limit, lastHash, bound, item, time, todo, clock, restarts, overlapped>>

\* recent_entries.remove_shift.
RemoveRecent ==
  /\ at["ui"] = "unlist"
  /\ recents' = RemoveFirst(recents, item["ui"])
  /\ Goes("ui", "idle")
  /\ UNCHANGED <<database, tree, limit, lastHash, bound, item, time, todo, clock, restarts, overlapped>>

\* load_recent_entries: ORDER BY timestamp DESC LIMIT n.  In front of a row
\* are all the rows stamped later.
Latest(n) ==
  CHOOSE rows \in [1 .. Min({n, Cardinality(Listed)}) -> Listed] :
    /\ IsInjective(rows)
    /\ \A k \in DOMAIN rows : \A i \in Listed :
         items[i] > items[rows[k]] => \E m \in 1 .. k - 1 : rows[m] = i

\* The setting max-recent-entries changes.  The table is replaced in one
\* step, while the event thread is not inside it.
LoadRecentEntries(n) ==
  /\ Begins("ui")
  /\ n # limit
  /\ limit' = n
  /\ recents' = Latest(n)
  /\ UNCHANGED <<database, tree, lastHash, bound, at, item, time, todo, clock, restarts>>

\* The program stops, whatever it is doing, and is started again: activate
\* loads the shards and the recent items, with a new watcher.
Restart ==
  /\ restarts < MaxRestarts
  /\ restarts' = restarts + 1
  /\ tree' = Listed
  /\ recents' = Latest(limit)
  /\ lastHash' = NoItem
  /\ bound' = Unbound
  /\ at' = [t \in Threads |-> "idle"] /\ item' = [t \in Threads |-> NoItem]
  /\ time' = [t \in Threads |-> 0] /\ todo' = {} /\ overlapped' = FALSE
  /\ UNCHANGED <<database, limit, clock>>

-----------------------------------------------------------------------------
Next ==
  \/ \E i \in Items : CopyArrives(i) \/ SetClipboard(i) \/ DeleteItem(i)
  \/ AddEntry \/ CheckIfExists \/ InsertedContents \/ InsertUiItem
  \/ \E p \in Parts : InsertContent(p)
  \/ \E t \in Threads : MoveToFront(t) \/ BindTime(t) \/ BindItem(t) \/ StepStatement(t)
  \/ RemoveEntry \/ RemoveRecent
  \/ \E n \in 1 .. MaxRecent : LoadRecentEntries(n)
  \/ Restart

Spec == Init /\ [][Next]_vars

-----------------------------------------------------------------------------
\* Type invariant.
TypeOK ==
  /\ Listed \subseteq Items /\ \A i \in Listed : items[i] \in 1 .. MaxTime
  /\ DOMAIN content \subseteq Parts /\ \A p \in DOMAIN content : content[p] \in Items
  /\ tree \subseteq Items /\ Range(recents) \subseteq Items
  /\ limit \in 1 .. MaxRecent /\ lastHash \in Items \cup {NoItem}
  /\ bound \in [time : 0 .. MaxTime, item : Items \cup {NoItem}]
  /\ at["event"] \in {"idle", "add", "front", "check", "contents_known",
                      "contents_new", "bind_time", "bind_item", "step"}
  /\ at["ui"] \in {"idle", "bind_time", "bind_item", "step", "front", "remove", "unlist"}
  /\ \A t \in Threads : ~Idle(t) => item[t] \in Items
  /\ todo \subseteq Parts /\ overlapped \in BOOLEAN

\* Every item of the history can be copied again with all it was made of,
\* at any moment a crash may choose: "insert all content first".
ItemsAreComplete == \A i \in Listed : \A p \in PartsOf[i] : PieceOwner(p) = i

\* The history offers to "copy clipboard item": it has some content.
ItemsCanBeCopied == \A i \in Listed : \E p \in Parts : PieceOwner(p) = i

AtRest == \A t \in Threads : Idle(t)

\* Between operations that do not overlap, what can be searched is what the
\* database holds: a restart neither loses an item nor brings one back.
MemoryMatchesDatabase ==
  AtRest /\ ~overlapped => tree = Listed /\ Range(recents) \subseteq Listed

\* Between operations that do not overlap, the recent items are in the order
\* the database will give them after a restart.
RecentsInOrder ==
  AtRest /\ ~overlapped =>
    \A i, j \in 1 .. Len(recents) : i < j => items[recents[i]] >= items[recents[j]]
=============================================================================
