----------------------------- MODULE DesktopFiles ----------------------------
(***************************************************************************)
(* The desktop file service (src/desktop-file-service.vala): an index of   *)
(* the desktop files by name and one by mime type, both built again on the *)
(* main loop some time after a change.  The monitor's thread sets that     *)
(* timer, and sets it anew for every change, without a lock.               *)
(*                                                                         *)
(* External: the programs that install and remove files, the monitor, and  *)
(* GLib's timers.  A removed timer whose callback runs is not stopped.     *)
(***************************************************************************)
EXTENDS Integers, Sequences

CONSTANTS
  Directories, \* the data directories, the one of the user last
  FileNames,   \* desktop files
  MimeTypes,   \* a file is the set of mime types it declares
  MaxChanges   \* bound: changes of the directories

VARIABLES
  applications, \* <<directory, name>> -> the mime types of the file, or NoFile
  desktop_files,\* name -> the mime types of the file that was loaded
  mimetype_map, \* <<mime type, name>>
  timeout_id, timers, \* the variable, and the timers that wait
  last_id,      \* the last timer made
  handler,      \* desktop_file_directory_changed in the monitor's thread
  reports,      \* changes it has still to be told of
  loading,      \* the next directory that is read, or 0
  watched,      \* monitor.add_paths was called
  unseen,       \* history: a change came after the reading, before the watch
  changes       \* counter

indexes == <<desktop_files, mimetype_map, loading, watched>>
timing  == <<timeout_id, timers, last_id, handler>>
outside == <<applications, reports, unseen, changes>>
vars == <<indexes, timing, outside>>

NoFile == {"no file"}
Present(d) == {n \in FileNames : applications[d, n] # NoFile}

-----------------------------------------------------------------------------
(***************************************************************************)
(* The main loop.                                                          *)
(***************************************************************************)
\* load_mime_types.
MimeTypesOf(files) == UNION {files[n] \X {n} : n \in DOMAIN files}

\* process_directory: a later directory takes the place of an earlier one.
ProcessDirectory ==
  /\ loading \in 1 .. Len(Directories)
  /\ LET d == Directories[loading]
     IN  desktop_files' = [n \in DOMAIN desktop_files \cup Present(d) |->
                             IF n \in Present(d) THEN applications[d, n] ELSE desktop_files[n]]
  /\ loading' = loading + 1
  /\ UNCHANGED <<mimetype_map, watched, timing, outside>>

\* Slip: what is no longer declared stays in the map.
FinishLoadingOver ==
  /\ loading = Len(Directories) + 1
  /\ watched' = TRUE
  /\ mimetype_map' = mimetype_map \cup MimeTypesOf(desktop_files)
  /\ loading' = 0
  /\ UNCHANGED <<desktop_files, timing, outside>>

\* add_paths, and load_mime_types.
FinishLoading ==
  /\ loading = Len(Directories) + 1
  /\ watched' = TRUE
  /\ mimetype_map' = MimeTypesOf(desktop_files)
  /\ loading' = 0
  /\ UNCHANGED <<desktop_files, timing, outside>>

\* The callback: reload_desktop_files begins.
TimeoutFires(id) ==
  /\ loading = 0 /\ id \in timers
  /\ timers' = timers \ {id} /\ timeout_id' = 0
  /\ desktop_files' = <<>> /\ loading' = 1
  /\ UNCHANGED <<mimetype_map, watched, last_id, handler, outside>>

-----------------------------------------------------------------------------
(***************************************************************************)
(* desktop_file_directory_changed: Source.remove, Timeout.add, and then    *)
(* the assignment.                                                         *)
(***************************************************************************)
RemoveTimeout ==
  /\ handler = "idle" /\ reports > 0
  /\ reports' = reports - 1
  /\ timers' = timers \ {timeout_id}
  /\ handler' = "add"
  /\ UNCHANGED <<indexes, timeout_id, last_id, applications, unseen, changes>>

AddTimeout ==
  /\ handler = "add"
  /\ last_id' = last_id + 1 /\ timers' = timers \cup {last_id'}
  /\ handler' = "assign"
  /\ UNCHANGED <<indexes, timeout_id, outside>>

AssignTimeout ==
  /\ handler = "assign"
  /\ timeout_id' = last_id
  /\ handler' = "idle"
  /\ UNCHANGED <<indexes, timers, last_id, outside>>

-----------------------------------------------------------------------------
\* A file is installed, changed or removed.
Install(d, n, types) ==
  /\ changes < MaxChanges /\ changes' = changes + 1
  /\ types # applications[d, n]
  /\ applications' = [applications EXCEPT ![<<d, n>>] = types]
  /\ reports' = IF watched THEN reports + 1 ELSE reports
  /\ unseen' = (unseen \/ (~watched /\ \E i \in 1 .. loading - 1 : Directories[i] = d))
  /\ UNCHANGED <<indexes, timing>>

Init ==
  /\ applications = [f \in {Directories[i] : i \in 1 .. Len(Directories)} \X FileNames |-> NoFile]
  /\ desktop_files = <<>> /\ mimetype_map = {}
  /\ timeout_id = 0 /\ timers = {} /\ last_id = 0 /\ handler = "idle"
  /\ reports = 0 /\ loading = 1 /\ watched = FALSE /\ unseen = FALSE /\ changes = 0

Step ==
  \/ ProcessDirectory \/ FinishLoading \/ (\E id \in timers : TimeoutFires(id))
  \/ RemoveTimeout \/ AddTimeout \/ AssignTimeout

Next ==
  \/ Step
  \/ \E f \in DOMAIN applications, types \in (SUBSET MimeTypes) \cup {NoFile} :
       Install(f[1], f[2], types)

-----------------------------------------------------------------------------
TypeOK ==
  /\ \A f \in DOMAIN applications : applications[f] \in (SUBSET MimeTypes) \cup {NoFile}
  /\ DOMAIN desktop_files \subseteq FileNames
  /\ mimetype_map \subseteq MimeTypes \X FileNames
  /\ timers \cup {timeout_id} \subseteq 0 .. last_id /\ last_id \in 0 .. MaxChanges
  /\ handler \in {"idle", "add", "assign"} /\ reports \in 0 .. MaxChanges
  /\ loading \in 0 .. Len(Directories) + 1 /\ watched \in BOOLEAN /\ unseen \in BOOLEAN

\* The last directory that has a file of the name.
Effective(n) == {i \in 1 .. Len(Directories) : n \in Present(Directories[i])}

FollowsDirectories ==
  /\ \A n \in FileNames :
       IF Effective(n) = {} THEN n \notin DOMAIN desktop_files
       ELSE /\ n \in DOMAIN desktop_files
            /\ \E i \in Effective(n) : /\ \A j \in Effective(n) : j <= i
                                       /\ desktop_files[n] = applications[Directories[i], n]
  /\ mimetype_map = MimeTypesOf(desktop_files)

\* In the end both indexes follow the directories, however the timers and
\* the changes come together; but not what changed before the first watch.
EntriesCatchUp == <>[](unseen \/ FollowsDirectories)
=============================================================================
