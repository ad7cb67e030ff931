------------------------------ MODULE Downloads ------------------------------
(***************************************************************************)
(* The downloads plugin (src/downloads-plugin.vala): a list of the files   *)
(* of one directory, read when the plugin is switched on and then kept by  *)
(* the thread of an INotify.Monitor.                                       *)
(*                                                                         *)
(* External: the programs that change the directory, and the monitor, which*)
(* reports the changes in their order and, when it is dropped, forgets what*)
(* it has to report and waits for the handler that runs.  add_paths        *)
(* succeeds.                                                               *)
(***************************************************************************)
EXTENDS Integers, SequencesExt

CONSTANTS
  Files,     \* names of files
  Times,     \* times of creation and modification
  MaxChanges \* bound: changes of the directory and of the plugin

VARIABLES
  folder,       \* the files there are: name -> times; Absent
  file_reports, \* what the monitor has still to report
  adding,       \* the file on_file_changed looked up without finding it
  sorted_list,
  monitoring,   \* the plugin is "off", "loaded", or "on"
  unwatched,    \* history: files that changed between the reading and the watch
  modified,     \* history: files written since they are there, or replaced
  changes       \* counter

directory == <<folder, file_reports, unwatched, modified, changes>>
plugin    == <<adding, sorted_list, monitoring>>
vars == <<directory, plugin>>

Absent == [created |-> 0, written |-> 0]
None   == "none"
Listed == {sorted_list[i].file : i \in 1 .. Len(sorted_list)}

InOrder(list) == \A i, j \in 1 .. Len(list) : i < j => list[i].time <= list[j].time

\* sort_list: what it may make of a list, files of one time in any order.
Sorted(list) ==
  {q \in {[i \in 1 .. Len(list) |-> list[p[i]]] : p \in Bijection(1 .. Len(list), 1 .. Len(list))}
     : InOrder(q)}

\* find_custom: the first entry of the file.
Index(list, f) == Min({i \in 1 .. Len(list) : list[i].file = f})

\* remove_file finds the entry.
Without(list, f) == RemoveAt(list, Index(list, f))

\* The entry has the time of the last writing.
Retimed(list, f) == [list EXCEPT ![Index(list, f)] = [file |-> f, time |-> folder[f].written]]

\* Slip: the list is not sorted again.
UpdatedInPlace(list, f) == {Retimed(list, f)}

\* update_file finds the entry.
Updated(list, f) == Sorted(Retimed(list, f))

\* add_file_to_list and sort_list, with get_sortable_time.
Added(list, f) == Sorted(Append(list, [file |-> f, time |-> folder[f].created]))

-----------------------------------------------------------------------------
\* load_directory_contents: the files come in any order, and are sorted.
Load ==
  /\ monitoring = "off"
  /\ LET there == {[file |-> f, time |-> folder[f].created]
                     : f \in {g \in Files : folder[g] # Absent}}
     IN  sorted_list' \in {q \in Bijection(1 .. Cardinality(there), there) : InOrder(q)}
  /\ monitoring' = "loaded" /\ modified' = {}
  /\ UNCHANGED <<adding, folder, file_reports, unwatched, changes>>

\* The rest of activate.
Watch ==
  /\ monitoring = "loaded"
  /\ monitoring' = "on"
  /\ UNCHANGED <<adding, sorted_list, directory>>

Deactivate ==
  /\ monitoring = "on" /\ adding = None
  /\ changes < MaxChanges /\ changes' = changes + 1
  /\ monitoring' = "off" /\ sorted_list' = <<>>
  /\ file_reports' = <<>> /\ unwatched' = {}
  /\ UNCHANGED <<adding, folder, modified>>

\* update_file: nothing without an entry, or when the file is gone.
UpdateFile(f) ==
  sorted_list' \in IF f \in Listed /\ folder[f] # Absent
                   THEN Updated(sorted_list, f) ELSE {sorted_list}

\* on_file_changed, and the first part of add_file: the look into the list.
OnFileChanged ==
  /\ monitoring = "on" /\ adding = None /\ file_reports # <<>>
  /\ file_reports' = Tail(file_reports)
  /\ LET e == Head(file_reports)
     IN  \/ e.kind = "added" /\ e.file \notin Listed /\ adding' = e.file /\ UNCHANGED sorted_list
         \/ /\ e.kind = "modified" \/ (e.kind = "added" /\ e.file \in Listed)
            /\ UpdateFile(e.file) /\ UNCHANGED adding
         \/ /\ e.kind = "removed" /\ UNCHANGED adding
            /\ sorted_list' = IF e.file \in Listed THEN Without(sorted_list, e.file)
                                                  ELSE sorted_list
  /\ UNCHANGED <<folder, monitoring, unwatched, modified, changes>>

\* The rest of add_file: query_info fails when the file is gone again.
AddFile ==
  /\ adding # None
  /\ sorted_list' \in IF folder[adding] = Absent
                      THEN {sorted_list} ELSE Added(sorted_list, adding)
  /\ adding' = None
  /\ UNCHANGED <<monitoring, directory>>

-----------------------------------------------------------------------------
\* Another program changes the directory.
Change(kind, f, times) ==
  /\ changes < MaxChanges /\ changes' = changes + 1
  /\ folder' = [folder EXCEPT ![f] = times]
  /\ IF monitoring = "on"
     THEN /\ file_reports' = Append(file_reports, [kind |-> kind, file |-> f])
          /\ UNCHANGED unwatched
     ELSE /\ unwatched' = IF monitoring = "loaded" THEN unwatched \cup {f} ELSE unwatched
          /\ UNCHANGED file_reports
  /\ UNCHANGED plugin

\* A file is made or moved here; a file of its name is replaced.
Put(f, c, w) ==
  /\ Change("added", f, [created |-> c, written |-> w])
  /\ modified' = IF folder[f] = Absent THEN modified \ {f} ELSE modified \cup {f}

Write(f, w) ==
  /\ folder[f] # Absent
  /\ Change("modified", f, [folder[f] EXCEPT !.written = w])
  /\ modified' = modified \cup {f}

\* A file is deleted or moved away.
Delete(f) ==
  /\ folder[f] # Absent
  /\ Change("removed", f, Absent)
  /\ modified' = modified \ {f}

-----------------------------------------------------------------------------
Init ==
  /\ folder = [f \in Files |-> Absent] /\ file_reports = <<>> /\ adding = None
  /\ sorted_list = <<>> /\ monitoring = "off"
  /\ unwatched = {} /\ modified = {} /\ changes = 0

Next ==
  \/ Load \/ Watch \/ Deactivate \/ OnFileChanged \/ AddFile
  \/ \E f \in Files : \/ \E w \in Times : Write(f, w) \/ \E c \in Times : Put(f, c, w)
                      \/ Delete(f)

-----------------------------------------------------------------------------
TypeOK ==
  /\ folder \in [Files -> [created : Times, written : Times] \cup {Absent}]
  /\ file_reports \in Seq([kind : {"added", "modified", "removed"}, file : Files])
  /\ adding \in Files \cup {None} /\ monitoring \in {"off", "loaded", "on"}
  /\ sorted_list \in Seq([file : Files, time : Times])
  /\ unwatched \subseteq Files /\ modified \subseteq Files /\ changes \in 0 .. MaxChanges

\* Once the monitor's reports are handled, the list holds the files of the
\* directory, each once, in the order of their times: of the last writing if
\* one was reported, of the creation otherwise.  What changed between the
\* reading of the directory and the watch is not known.
ListFollowsFolder ==
  monitoring = "on" /\ file_reports = <<>> /\ adding = None =>
    /\ InOrder(sorted_list)
    /\ \A i, j \in 1 .. Len(sorted_list) : i < j => sorted_list[i].file # sorted_list[j].file
    /\ \A f \in Files \ unwatched :
         IF folder[f] = Absent THEN f \notin Listed
         ELSE [file |-> f, time |-> IF f \in modified THEN folder[f].written
                                    ELSE folder[f].created] \in ToSet(sorted_list)
=============================================================================
