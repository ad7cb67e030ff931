--------------------------- MODULE CalendarService ---------------------------
(***************************************************************************)
(* The calendar service (src/calendar/calendar_service.c) and the plugin   *)
(* that shows its events (calendar-search.vala and its matches).  A        *)
(* calendar is a directory of .ics files.  The service's thread reads it   *)
(* again whenever inotify reports a change; the user interface thread      *)
(* edits the same component and the same files, without a lock.            *)
(*                                                                         *)
(* External: the programs that change the files in place, vdirsyncer among *)
(* them.  Opening, writing and allocating succeed; events do not end.      *)
(***************************************************************************)
EXTENDS Integers, FiniteSetsExt, SequencesExt

CONSTANTS
  Calendars,      \* the directories
  DisplayName,    \* what each is called; names the calendars everywhere else
  MaxCalendars,   \* MAX_CALENDARS
  FileNames,      \* the .ics files; the uid names the file of an event made here
  Stamps,         \* the uids of added events: one per second, in order
  Titles, Texts,  \* summaries and descriptions
  Contents,       \* what other programs write into each file of each calendar:
                  \* sets of events; none: the file is deleted
  MaxChanges,     \* bound: changes by the user and by other programs
  MaxStarts       \* bound: activations

Events == [uid : FileNames, title : Titles, text : Texts \cup {""}]
Pairs  == FileNames \X Events

ASSUME CalendarAssumption ==
  /\ Calendars # {} /\ FileNames # {} /\ MaxCalendars \in Nat
  /\ Stamps \in Seq(FileNames)
  /\ DOMAIN DisplayName = Calendars
  /\ \A c \in Calendars, f \in FileNames : Contents[c][f] \subseteq SUBSET Events

VARIABLES
  disk,       \* calendar -> file -> events; a truncated file has none
  calendars,  \* the array of loaded calendars, all of them watched
  component,  \* the events in memory, with the file they came from
  cached,     \* cached_events
  queue,      \* calendars whose change inotify has still to report
  buf,        \* reports that were read
  running, stopPipe,
  thread,     \* where the service's thread is, with what it has read
  ui, job,    \* where the user interface thread is, and its edit
  freed,      \* history: the component it holds a pointer into was replaced
  shown,      \* calendar_events: name -> events
  todo,       \* directories that calendar_service_load has still to see
  missed,     \* history: calendars that changed between their reading and their watch
  seconds,    \* the second of the last addition
  changes, starts

service  == <<calendars, component, cached, buf, running, stopPipe>>
watching == <<queue, missed>>
user     == <<ui, job, freed, todo, seconds, starts>>
vars == <<disk, service, watching, thread, shown, user, changes>>

-----------------------------------------------------------------------------
\* load_calendar and the reload: the events of all files.
Read(c) == UNION {{f} \X disk[c][f] : f \in FileNames}
EventsOf(found) == {p[2] : p \in found}

\* inotify reports a change of c.  A report like the last unread one is left
\* out: inotify leaves out some, and the others only repeat the reading.
Report(c) ==
  queue' = IF c \notin ToSet(calendars) \/ (queue # <<>> /\ Last(queue) = c)
           THEN queue ELSE Append(queue, c)

\* Slip: only the number of events is compared.
CountsDiffer(old, new) == Cardinality(old) # Cardinality(new)

\* events_differ
EventsDiffer(old, new) ==
  \/ Cardinality(old) # Cardinality(new)
  \/ \E p \in new : \A q \in old : p[2] # q[2]

\* The loaded calendars of a name.
Named(name) == {i \in 1 .. Len(calendars) : DisplayName[calendars[i]] = name}

\* on_calendar_changed: a later calendar of the same name takes the place.
OnChange(c, found, table) ==
  [name \in DOMAIN table \cup {DisplayName[c]} |->
     IF name = DisplayName[c] THEN EventsOf(found) ELSE table[name]]

-----------------------------------------------------------------------------
(***************************************************************************)
(* Activation and deactivation: the user interface thread.                 *)
(***************************************************************************)
\* calendar_service_init, which calendar_service_load follows.
Activate ==
  /\ ui = "off" /\ starts < MaxStarts
  /\ starts' = starts + 1
  /\ todo' = Calendars
  /\ ui' = "loading"
  /\ UNCHANGED <<disk, service, watching, thread, shown, job, freed, seconds, changes>>

\* load_calendar reads a directory; one without events is not loaded ...
ReadCalendar(c) ==
  /\ ui = "loading" /\ c \in todo
  /\ todo' = todo \ {c}
  /\ \/ /\ Len(calendars) < MaxCalendars /\ Read(c) # {}
        /\ component' = [component EXCEPT ![c] = Read(c)]
        /\ job' = [job EXCEPT !.cal = c]
        /\ ui' = "watching"
     \/ /\ Len(calendars) = MaxCalendars \/ Read(c) = {}
        /\ UNCHANGED <<component, job, ui>>
  /\ UNCHANGED <<disk, calendars, cached, buf, running, stopPipe, watching, thread, shown,
                 freed, seconds, starts, changes>>

\* ... and is watched from now on.
WatchCalendar ==
  /\ ui = "watching"
  /\ LET c == job.cal
     IN  /\ calendars' = Append(calendars, c)
         /\ cached' = [cached EXCEPT ![c] = component[c]]
         /\ missed' = IF component[c] = Read(c) THEN missed ELSE missed \cup {c}
  /\ ui' = "loading"
  /\ UNCHANGED <<disk, component, buf, running, stopPipe, queue, thread, shown, job, freed,
                 todo, seconds, starts, changes>>

\* calendar_service_trigger_initial_callbacks and calendar_service_start.
Start ==
  /\ ui = "loading" /\ todo = {}
  /\ shown' = [name \in {DisplayName[c] : c \in ToSet(calendars)} |->
                EventsOf(cached[calendars[Max(Named(name))]])]
  /\ thread' = [thread EXCEPT !.at = "starting"]
  /\ ui' = "idle"
  /\ UNCHANGED <<disk, service, watching, job, freed, todo, seconds, starts, changes>>

\* Slip: the thread is told, but not woken.
StopUnheard ==
  /\ ui = "idle"
  /\ running' = FALSE
  /\ ui' = "joining"
  /\ UNCHANGED <<disk, calendars, component, cached, buf, stopPipe, watching, thread, shown,
                 job, freed, todo, seconds, starts, changes>>

\* deactivate: calendar_service_stop tells the thread, wakes it, waits ...
Stop ==
  /\ ui = "idle"
  /\ running' = FALSE /\ stopPipe' = TRUE
  /\ ui' = "joining"
  /\ UNCHANGED <<disk, calendars, component, cached, buf, watching, thread, shown,
                 job, freed, todo, seconds, starts, changes>>

\* Slip: the calendars outlive their service.
DestroyWatches ==
  /\ ui = "joining" /\ thread.at = "ended"
  /\ buf' = <<>> /\ queue' = <<>> /\ missed' = {}
  /\ running' = FALSE /\ stopPipe' = FALSE
  /\ shown' = <<>>
  /\ ui' = "off"
  /\ UNCHANGED <<disk, calendars, component, cached, thread, job, freed, todo, seconds, starts,
                 changes>>

\* ... and, when the thread has ended, calendar_service_destroy follows.
Destroy ==
  /\ ui = "joining" /\ thread.at = "ended"
  /\ calendars' = <<>> /\ buf' = <<>> /\ queue' = <<>> /\ missed' = {}
  /\ component' = [c \in Calendars |-> {}] /\ cached' = [c \in Calendars |-> {}]
  /\ running' = FALSE /\ stopPipe' = FALSE
  /\ shown' = <<>>
  /\ ui' = "off"
  /\ UNCHANGED <<disk, thread, job, freed, todo, seconds, starts, changes>>

-----------------------------------------------------------------------------
(***************************************************************************)
(* service_thread.                                                         *)
(***************************************************************************)
ThreadAt(place) == thread.at = place /\ ui # "crashed"
Goes(place)     == thread' = [thread EXCEPT !.at = place]

ThreadStart ==
  /\ ThreadAt("starting")
  /\ running' = TRUE
  /\ Goes("head")
  /\ UNCHANGED <<disk, calendars, component, cached, buf, stopPipe, watching, shown, user,
                 changes>>

\* while (service->running)
LoopHead ==
  /\ ThreadAt("head")
  /\ Goes(IF running THEN "selecting" ELSE "ended")
  /\ UNCHANGED <<disk, service, watching, shown, user, changes>>

\* select: the stop pipe comes first.
Select ==
  /\ ThreadAt("selecting")
  /\ \/ /\ stopPipe
        /\ Goes("ended") /\ UNCHANGED <<buf, queue>>
     \/ /\ ~stopPipe /\ queue # <<>>
        /\ Goes("handling") /\ buf' = queue /\ queue' = <<>>
  /\ UNCHANGED <<disk, calendars, component, cached, running, stopPipe, missed, shown, user,
                 changes>>

\* All reports that were read have been handled.
BatchDone ==
  /\ ThreadAt("handling") /\ buf = <<>>
  /\ Goes("head")
  /\ UNCHANGED <<disk, service, watching, shown, user, changes>>

\* The next report: its directory is read again.
Reload ==
  /\ ThreadAt("handling") /\ buf # <<>>
  /\ thread' = [at |-> "comparing", cal |-> Head(buf), fresh |-> Read(Head(buf))]
  /\ missed' = missed \ {Head(buf)}
  /\ buf' = Tail(buf)
  /\ UNCHANGED <<disk, calendars, component, cached, running, stopPipe, queue, shown, user,
                 changes>>

\* Slip: the component is kept when there is nothing to tell.
CompareFirst ==
  /\ ThreadAt("comparing")
  /\ LET c == thread.cal
     IN  IF EventsDiffer(cached[c], thread.fresh)
         THEN /\ shown' = OnChange(c, thread.fresh, shown)
              /\ cached' = [cached EXCEPT ![c] = thread.fresh]
              /\ Goes("replacing")
         ELSE UNCHANGED <<shown, cached>> /\ Goes("handling")
  /\ UNCHANGED <<disk, calendars, component, buf, running, stopPipe, watching, user, changes>>

\* The plugin is told if the events differ from those it was told last.
Compare ==
  /\ ThreadAt("comparing")
  /\ LET c == thread.cal
     IN  IF EventsDiffer(cached[c], thread.fresh)
         THEN /\ shown' = OnChange(c, thread.fresh, shown)
              /\ cached' = [cached EXCEPT ![c] = thread.fresh]
         ELSE UNCHANGED <<shown, cached>>
  /\ Goes("replacing")
  /\ UNCHANGED <<disk, calendars, component, buf, running, stopPipe, watching, user, changes>>

\* The old component is freed, whoever holds a pointer into it.
Replace ==
  /\ ThreadAt("replacing")
  /\ component' = [component EXCEPT ![thread.cal] = thread.fresh]
  /\ freed' = (freed \/ (ui = "found" /\ job.cal = thread.cal))
  /\ thread' = [thread EXCEPT !.at = "handling", !.fresh = {}]
  /\ UNCHANGED <<disk, calendars, cached, buf, running, stopPipe, watching, shown,
                 ui, job, todo, seconds, starts, changes>>

ThreadStep == ThreadStart \/ LoopHead \/ Select \/ BatchDone \/ Reload \/ Compare \/ Replace

-----------------------------------------------------------------------------
(***************************************************************************)
(* The actions of the plugin: an event of the user's choice is added,      *)
(* changed or deleted.  old and new are what the calendar is to lose and   *)
(* to get; clean says that nothing else has changed since it was read.     *)
(***************************************************************************)
NoJob == [cal |-> CHOOSE c \in Calendars : TRUE, uid |-> CHOOSE u \in FileNames : TRUE,
          old |-> {}, new |-> {}, was |-> {}, clean |-> FALSE]

\* calendar_service_get_calendar: the first of that name.
GetCalendar(name) == calendars[Min(Named(name))]

\* Slip: the uid is not compared.
AnyEvent(c, uid) == EventsOf(component[c])

\* The loops that look for an event: another event may have its uid.
Found(c, uid) == {e \in EventsOf(component[c]) : e.uid = uid}

Begin(c, uid, old, new, fresh) ==
  /\ changes < MaxChanges /\ changes' = changes + 1
  /\ job' = [cal |-> c, uid |-> uid, old |-> old, new |-> new, was |-> {},
             clean |-> component[c] = Read(c) /\ fresh]
  /\ ui' = "found"
  /\ UNCHANGED <<disk, service, watching, thread, shown, freed, todo, starts>>

\* calendar_add_event: the uid is the time in seconds.
AddEvent(name, title) ==
  /\ ui = "idle"
  /\ \E s \in seconds .. Len(Stamps) :
       /\ s > 0 /\ seconds' = s
       /\ Begin(GetCalendar(name), Stamps[s], {},
                {[uid |-> Stamps[s], title |-> title, text |-> ""]}, s > seconds)

\* calendar_update_event, for a title or a description.
UpdateEvent(name, e, field, value) ==
  /\ ui = "idle"
  /\ \E target \in Found(GetCalendar(name), e.uid) :
       Begin(GetCalendar(name), e.uid, {target}, {[target EXCEPT ![field] = value]}, TRUE)
  /\ UNCHANGED seconds

\* calendar_delete_event
DeleteEvent(name, e) ==
  /\ ui = "idle"
  /\ \E target \in Found(GetCalendar(name), e.uid) :
       Begin(GetCalendar(name), e.uid, {target}, {}, TRUE)
  /\ UNCHANGED seconds

\* The component is changed, and the new event copied out of it.  If the
\* component was freed meanwhile, the write goes nowhere or ends the program.
ChangeComponent ==
  /\ ui = "found"
  /\ component' = IF freed THEN component
                  ELSE [component EXCEPT ![job.cal] =
                          {p \in @ : p[2] \notin job.old} \cup ({job.uid} \X job.new)]
  /\ ui' \in {IF job.new = {} THEN "unlinking" ELSE "truncating"}
             \cup (IF freed THEN {"crashed"} ELSE {})
  /\ freed' = FALSE
  /\ UNCHANGED <<disk, calendars, cached, buf, running, stopPipe, watching, thread, shown,
                 job, todo, seconds, starts, changes>>

\* The user interface thread gives the file of the event a new content.
SaveFile(from, to, events) ==
  /\ ui = from /\ ui' = to
  /\ disk' = [disk EXCEPT ![job.cal][job.uid] = events]
  /\ Report(job.cal)
  /\ UNCHANGED <<service, missed, thread, shown, freed, todo, seconds, starts, changes>>

\* write_file: opening the file for writing empties it ...
Truncate ==
  /\ SaveFile("truncating", "writing", {})
  /\ job' = [job EXCEPT !.was = Read(job.cal)]

\* ... and closing it fills it.  vdirsyncer is then waited for.
Write == SaveFile("writing", "syncing", job.new) /\ UNCHANGED job

\* unlink; a failure is not an error.
Unlink ==
  /\ job' = [job EXCEPT !.was = Read(job.cal)]
  /\ IF disk[job.cal][job.uid] # {}
     THEN SaveFile("unlinking", "syncing", {})
     ELSE /\ ui = "unlinking" /\ ui' = "syncing"
          /\ UNCHANGED <<disk, service, watching, thread, shown, freed, todo, seconds, starts,
                         changes>>

\* vdirsyncer has ended.
Synced ==
  /\ ui = "syncing" /\ ui' = "idle"
  /\ job' = NoJob
  /\ UNCHANGED <<disk, service, watching, thread, shown, freed, todo, seconds, starts, changes>>
-----------------------------------------------------------------------------
\* Another program gives a file a new content, or deletes it.
RemoteChange(c, f) ==
  /\ changes < MaxChanges /\ changes' = changes + 1 /\ ui # "crashed"
  /\ \E events \in Contents[c][f] \ {disk[c][f]} : disk' = [disk EXCEPT ![c][f] = events]
  /\ Report(c)
  /\ job' = [job EXCEPT !.clean = FALSE]
  /\ UNCHANGED <<service, missed, thread, shown, ui, freed, todo, seconds, starts>>

Init ==
  /\ disk \in [Calendars -> [FileNames -> UNION {Contents[c][f] : c \in Calendars, f \in FileNames}]]
  /\ \A c \in Calendars, f \in FileNames : disk[c][f] \in Contents[c][f]
  /\ calendars = <<>> /\ buf = <<>> /\ queue = <<>> /\ missed = {} /\ todo = {}
  /\ component = [c \in Calendars |-> {}] /\ cached = component
  /\ running = FALSE /\ stopPipe = FALSE
  /\ thread = [at |-> "ended", cal |-> NoJob.cal, fresh |-> {}]
  /\ ui = "off" /\ job = NoJob /\ freed = FALSE
  /\ shown = <<>>
  /\ seconds = 0 /\ changes = 0 /\ starts = 0

\* What the user interface thread goes on with by itself.
UserStep ==
  \/ \E c \in Calendars : ReadCalendar(c)
  \/ WatchCalendar \/ Start \/ Destroy
  \/ ChangeComponent \/ Truncate \/ Write \/ Unlink \/ Synced

\* What the user asks for.
UserAsks ==
  \/ Activate \/ Stop
  \/ \E name \in DOMAIN shown :
       \/ \E title \in Titles : AddEvent(name, title)
       \/ \E e \in shown[name] :
            \/ DeleteEvent(name, e)
            \/ \E title \in Titles : UpdateEvent(name, e, "title", title)
            \/ \E text \in Texts : UpdateEvent(name, e, "text", text)

Next ==
  \/ ThreadStep \/ UserStep \/ UserAsks
  \/ \E c \in Calendars, f \in FileNames : RemoteChange(c, f)

Spec == Init /\ [][Next]_vars

\* Both threads go on; vdirsyncer ends.
FairSpec == Spec /\ WF_vars(ThreadStep) /\ WF_vars(UserStep)

-----------------------------------------------------------------------------
\* Type invariant.
TypeOK ==
  /\ disk \in [Calendars -> [FileNames -> SUBSET Events]]
  /\ calendars \in Seq(Calendars) /\ Len(calendars) <= MaxCalendars /\ IsInjective(calendars)
  /\ component \in [Calendars -> SUBSET Pairs] /\ cached \in [Calendars -> SUBSET Pairs]
  /\ queue \in Seq(Calendars) /\ buf \in Seq(Calendars)
  /\ running \in BOOLEAN /\ stopPipe \in BOOLEAN /\ freed \in BOOLEAN
  /\ thread \in [at : {"starting", "head", "selecting", "handling", "comparing", "replacing",
                       "ended"},
                 cal : Calendars, fresh : SUBSET Pairs]
  /\ ui \in {"off", "loading", "watching", "idle", "found", "truncating", "writing",
             "unlinking", "syncing", "joining", "crashed"}
  /\ job \in [cal : Calendars, uid : FileNames, old : SUBSET Events, new : SUBSET Events,
              was : SUBSET Pairs, clean : BOOLEAN]
  /\ todo \subseteq Calendars /\ missed \subseteq Calendars
  /\ seconds \in 0 .. Len(Stamps)
  /\ \A name \in DOMAIN shown : shown[name] \subseteq Events

Loaded == ToSet(calendars)

Quiet == ui = "idle" /\ thread.at = "selecting" /\ queue = <<>>

\* When everything reported was handled, the plugin shows the events that are
\* on disk, for a calendar that has its name for itself and did not change
\* between its first reading and its watch.
ShownFollowsDisk ==
  Quiet => \A c \in Loaded \ missed :
    (\A d \in Loaded : DisplayName[d] = DisplayName[c] => d = c) =>
      shown[DisplayName[c]] = EventsOf(Read(c))

\* Then the component that the next edit starts from is what is on disk too,
\* although the two threads changed it without a lock.
MemoryFollowsDisk == Quiet => \A c \in Loaded \ missed : component[c] = Read(c)

\* An edit of a calendar in which nothing else changes loses the event it was
\* given, puts the new one in its place, and leaves the others alone.
EditsAreExact ==
  [][(ui # "syncing" /\ ui' = "syncing" /\ job.clean) =>
       EventsOf(Read(job.cal))' = (EventsOf(job'.was) \ job.old) \cup job.new]_vars

\* Deactivation does not wait for ever, even for a thread that has just been
\* created and sets running after it was cleared.
DeactivationEnds == ui = "joining" ~> ui = "off"
=============================================================================
