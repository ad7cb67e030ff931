----------------------- MODULE CalendarServiceProofs ------------------------
(***************************************************************************)
(* Theorems about the calendar service, for any calendars, files, events,  *)
(* number of changes and interleaving of the two threads.                  *)
(***************************************************************************)
EXTENDS CalendarService, LibraryFacts

\* Which calendars each part of the state may speak of.
Names == {DisplayName[c] : c \in ToSet(calendars)}

Places ==
  /\ DOMAIN shown \subseteq Names
  /\ ToSet(queue) \cup ToSet(buf) \subseteq ToSet(calendars)
  /\ thread.at \in {"comparing", "replacing"} => thread.cal \in ToSet(calendars)
  /\ buf # <<>> => thread.at \in {"handling", "comparing", "replacing"}
  /\ ui \in {"loading", "watching"} => todo \cap ToSet(calendars) = {}
  /\ ui = "watching" =>
       Len(calendars) < MaxCalendars /\ job.cal \notin ToSet(calendars) \cup todo
  /\ ui = "off" => calendars = <<>>
  /\ ui \in {"off", "loading", "watching"} => thread.at = "ended"

IInv == TypeOK /\ Places

\* TypeOK, part by part.
DiskOK   == disk \in [Calendars -> [FileNames -> SUBSET Events]]
ListOK   ==
  calendars \in Seq(Calendars) /\ Len(calendars) <= MaxCalendars /\ IsInjective(calendars)
MemoryOK ==
  component \in [Calendars -> SUBSET Pairs] /\ cached \in [Calendars -> SUBSET Pairs]
QueueOK  == queue \in Seq(Calendars) /\ buf \in Seq(Calendars)
FlagsOK  == running \in BOOLEAN /\ stopPipe \in BOOLEAN /\ freed \in BOOLEAN
ThreadOK ==
  thread \in [at : {"starting", "head", "selecting", "handling", "comparing", "replacing",
                    "ended"}, cal : Calendars, fresh : SUBSET Pairs]
UserOK   ==
  /\ ui \in {"off", "loading", "watching", "idle", "found", "truncating", "writing",
             "unlinking", "syncing", "joining", "crashed"}
  /\ todo \subseteq Calendars /\ missed \subseteq Calendars /\ seconds \in 0 .. Len(Stamps)
JobOK ==
  job \in [cal : Calendars, uid : FileNames, old : SUBSET Events, new : SUBSET Events,
           was : SUBSET Pairs, clean : BOOLEAN]
ShownOK == \A name \in DOMAIN shown : shown[name] \subseteq Events

TypeParts ==
  DiskOK /\ ListOK /\ MemoryOK /\ QueueOK /\ FlagsOK /\ ThreadOK /\ UserOK /\ JobOK /\ ShownOK


-----------------------------------------------------------------------------
LEMMA TypeIsParts == TypeOK <=> TypeParts
BY DEF TypeOK, TypeParts, DiskOK, ListOK, MemoryOK, QueueOK, FlagsOK, ThreadOK, UserOK, JobOK,
       ShownOK

LEMMA PartsKept ==
  ASSUME TypeParts
  PROVE  /\ UNCHANGED disk => DiskOK'
         /\ UNCHANGED calendars => ListOK'
         /\ UNCHANGED <<component, cached>> => MemoryOK'
         /\ UNCHANGED <<queue, buf>> => QueueOK'
         /\ UNCHANGED <<running, stopPipe, freed>> => FlagsOK'
         /\ UNCHANGED thread => ThreadOK'
         /\ UNCHANGED <<ui, todo, missed, seconds>> => UserOK'
         /\ UNCHANGED job => JobOK'
         /\ UNCHANGED shown => ShownOK'
BY DEF TypeParts, DiskOK, ListOK, MemoryOK, QueueOK, FlagsOK, ThreadOK, UserOK, JobOK, ShownOK

LEMMA ReadTyped ==
  ASSUME TypeOK, NEW c \in Calendars
  PROVE  Read(c) \in SUBSET Pairs
BY DEF TypeOK, Read, Pairs

LEMMA EventsTyped ==
  ASSUME NEW S \in SUBSET Pairs
  PROVE  EventsOf(S) \in SUBSET Events
BY DEF EventsOf, Pairs

\* A report is for a loaded calendar, and takes no other away.
LEMMA Reported ==
  ASSUME queue \in Seq(Calendars), NEW c \in Calendars, Report(c)
  PROVE  /\ queue' \in Seq(Calendars)
         /\ ToSet(queue) \subseteq ToSet(queue')
         /\ ToSet(queue') \subseteq ToSet(queue) \cup (ToSet(calendars) \cap {c})
         /\ c \in ToSet(calendars) => c \in ToSet(queue')
<1>1. CASE c \notin ToSet(calendars)
  BY <1>1 DEF Report
<1>2. CASE queue # <<>> /\ Last(queue) = c
  <2>1. Len(queue) \in 1 .. Len(queue) /\ Last(queue) = queue[Len(queue)]
    BY <1>2 DEF Last
  <2>2. c \in ToSet(queue)
    BY <1>2, <2>1, ToSetElements
  <2> QED
    BY <1>2, <2>2 DEF Report
<1>3. CASE c \in ToSet(calendars) /\ ~(queue # <<>> /\ Last(queue) = c)
  BY <1>3, ToSetAppend DEF Report
<1> QED
  BY <1>1, <1>2, <1>3

\* The plugin asks only for calendars that are loaded.
LEMMA CalendarIsFound ==
  ASSUME TypeOK, Places, NEW name \in DOMAIN shown
  PROVE  GetCalendar(name) \in ToSet(calendars) /\ GetCalendar(name) \in Calendars
<1>1. calendars \in Seq(Calendars)
  BY DEF TypeOK
<1>2. PICK c \in ToSet(calendars) : name = DisplayName[c]
  BY DEF Places, Names
<1>3. PICK i \in 1 .. Len(calendars) : calendars[i] = c
  BY <1>1, <1>2, ToSetElements
<1>4. Named(name) \in SUBSET Nat /\ Named(name) # {}
  BY <1>1, <1>2, <1>3 DEF Named
<1>5. Min(Named(name)) \in Named(name)
  BY <1>4, LeastElement
<1>6. Min(Named(name)) \in 1 .. Len(calendars)
  BY <1>5 DEF Named
<1> QED
  BY <1>1, <1>6, ToSetElements DEF GetCalendar

LEMMA LastNamedIsFound ==
  ASSUME TypeOK, NEW name \in Names
  PROVE  calendars[Max(Named(name))] \in Calendars
<1>1. calendars \in Seq(Calendars) /\ Len(calendars) \in Nat
  BY DEF TypeOK
<1>2. PICK c \in ToSet(calendars) : name = DisplayName[c]
  BY DEF Names
<1>3. PICK i \in 1 .. Len(calendars) : calendars[i] = c
  BY <1>1, <1>2, ToSetElements
<1>4. Named(name) \in SUBSET Nat /\ Named(name) # {}
  BY <1>1, <1>2, <1>3 DEF Named
<1>5. \A x \in Named(name) : x <= Len(calendars)
  BY <1>1 DEF Named
<1>6. Max(Named(name)) \in Named(name)
  BY <1>1, <1>4, <1>5, GreatestElement
<1> QED
  BY <1>1, <1>6 DEF Named

LEMMA InitHolds == Init => IInv
<1> SUFFICES ASSUME Init PROVE IInv
  OBVIOUS
<1>1. NoJob.cal \in Calendars /\ NoJob.uid \in FileNames
  BY CalendarAssumption DEF NoJob
<1>2. disk \in [Calendars -> [FileNames -> SUBSET Events]]
  <2>1. ASSUME NEW c \in Calendars, NEW f \in FileNames
        PROVE  disk[c][f] \in SUBSET Events
    <3>1. disk[c][f] \in Contents[c][f]
      BY DEF Init
    <3>2. Contents[c][f] \subseteq SUBSET Events
      BY CalendarAssumption
    <3> QED
      BY <3>1, <3>2, Zenon
  <2>2. /\ disk \in [Calendars ->
               [FileNames -> UNION {Contents[c][f] : c \in Calendars, f \in FileNames}]]
    BY DEF Init
  <2>3. DOMAIN disk = Calendars /\ disk = [c \in Calendars |-> disk[c]]
        /\ \A c \in Calendars : disk[c] = [f \in FileNames |-> disk[c][f]]
    BY <2>2
  <2> QED
    BY <2>1, <2>3
<1>3. job \in [cal : Calendars, uid : FileNames, old : SUBSET Events, new : SUBSET Events,
               was : SUBSET Pairs, clean : BOOLEAN]
  BY <1>1 DEF Init, NoJob
<1>4. component \in [Calendars -> SUBSET Pairs] /\ cached \in [Calendars -> SUBSET Pairs]
  BY DEF Init
<1>5. /\ thread \in [at : {"starting", "head", "selecting", "handling", "comparing", "replacing",
                       "ended"}, cal : Calendars, fresh : SUBSET Pairs]
      /\ thread.at = "ended"
  BY <1>1 DEF Init
<1>6. seconds \in 0 .. Len(Stamps)
  BY CalendarAssumption DEF Init
<1>7. IsInjective(<<>>) /\ DOMAIN <<>> = {} /\ Len(<<>>) = 0
  BY DEF IsInjective
<1>8. /\ calendars = <<>> /\ buf = <<>> /\ queue = <<>> /\ missed = {} /\ todo = {}
      /\ shown = <<>> /\ ui = "off" /\ running = FALSE /\ stopPipe = FALSE /\ freed = FALSE
  BY DEF Init
<1>9. TypeOK
  <2>1. /\ calendars \in Seq(Calendars) /\ Len(calendars) <= MaxCalendars
        /\ IsInjective(calendars)
    BY <1>7, <1>8, CalendarAssumption
  <2>2. \A name \in DOMAIN shown : shown[name] \subseteq Events
    BY <1>7, <1>8
  <2> QED
    BY <1>2, <1>3, <1>4, <1>5, <1>6, <1>8, <2>1, <2>2 DEF TypeOK
<1>10. Places
  BY <1>5, <1>7, <1>8, ToSetEmpty DEF Places, Names
<1> QED
  BY <1>9, <1>10 DEF IInv

LEMMA ActivateHolds ==
  ASSUME TypeParts, Places, Activate
  PROVE  TypeParts' /\ Places'
<1>1. UserOK'
  BY DEF Activate, UserOK, TypeParts, watching
<1>2. TypeParts'
  BY <1>1, PartsKept DEF TypeParts, Activate, service, watching
<1>3. Places'
  BY ToSetEmpty DEF Places, Activate, Names, service, watching
<1> QED
  BY <1>2, <1>3

LEMMA ThreadStartHolds ==
  ASSUME TypeParts, Places, ThreadStart
  PROVE  TypeParts' /\ Places'
<1>1. ThreadOK' /\ thread.at = "starting" /\ thread'.at = "head"
  BY DEF ThreadStart, ThreadAt, Goes, ThreadOK, TypeParts
<1>2. FlagsOK'
  BY DEF ThreadStart, FlagsOK, TypeParts, user
<1>3. TypeParts'
  BY <1>1, <1>2, PartsKept DEF TypeParts, ThreadStart, user, watching
<1>4. Places'
  BY <1>1 DEF Places, ThreadStart, Names, user, watching
<1> QED
  BY <1>3, <1>4

LEMMA LoopHeadHolds ==
  ASSUME TypeParts, Places, LoopHead
  PROVE  TypeParts' /\ Places'
<1>1. ThreadOK' /\ thread.at = "head" /\ thread'.at \in {"selecting", "ended"}
  BY DEF LoopHead, ThreadAt, Goes, ThreadOK, TypeParts
<1>2. TypeParts'
  BY <1>1, PartsKept DEF TypeParts, LoopHead, service, user, watching
<1>3. Places'
  BY <1>1 DEF Places, LoopHead, Names, service, user, watching
<1> QED
  BY <1>2, <1>3

LEMMA SelectHolds ==
  ASSUME TypeParts, Places, Select
  PROVE  TypeParts' /\ Places'
<1>1. CASE stopPipe
  <2>1. ThreadOK' /\ thread.at = "selecting" /\ thread'.at = "ended"
    BY <1>1 DEF Select, ThreadAt, Goes, ThreadOK, TypeParts
  <2>2. UNCHANGED <<queue, buf>>
    BY <1>1 DEF Select
  <2>3. TypeParts'
    BY <2>1, <2>2, PartsKept DEF TypeParts, Select, user
  <2>4. Places'
    BY <2>1, <2>2 DEF Places, Select, Names, user
  <2> QED
    BY <2>3, <2>4
<1>2. CASE ~stopPipe
  <2>1. ThreadOK' /\ thread.at = "selecting" /\ thread'.at = "handling"
    BY <1>2 DEF Select, ThreadAt, Goes, ThreadOK, TypeParts
  <2>2. buf' = queue /\ queue' = <<>>
    BY <1>2 DEF Select
  <2>3. QueueOK'
    BY <2>2 DEF QueueOK, TypeParts
  <2>4. TypeParts'
    BY <2>1, <2>3, PartsKept DEF TypeParts, Select, user
  <2>5. Places'
    BY <2>1, <2>2, ToSetEmpty DEF Places, Select, Names, user
  <2> QED
    BY <2>4, <2>5
<1> QED
  BY <1>1, <1>2

LEMMA BatchDoneHolds ==
  ASSUME TypeParts, Places, BatchDone
  PROVE  TypeParts' /\ Places'
<1>1. ThreadOK' /\ thread.at = "handling" /\ thread'.at = "head"
  BY DEF BatchDone, ThreadAt, Goes, ThreadOK, TypeParts
<1>2. TypeParts'
  BY <1>1, PartsKept DEF TypeParts, BatchDone, service, user, watching
<1>3. Places'
  BY <1>1 DEF Places, BatchDone, Names, service, user, watching
<1> QED
  BY <1>2, <1>3

LEMMA ReloadHolds ==
  ASSUME TypeParts, Places, Reload
  PROVE  TypeParts' /\ Places'
<1>1. buf \in Seq(Calendars) /\ buf # <<>>
  BY DEF Reload, TypeParts, QueueOK
<1>2. Tail(buf) \in Seq(Calendars) /\ Head(buf) \in Calendars
      /\ ToSet(buf) = {Head(buf)} \cup ToSet(Tail(buf))
  BY <1>1, ToSetTail
<1>3. Read(Head(buf)) \in SUBSET Pairs
  BY <1>2, TypeIsParts, ReadTyped
<1>4. ThreadOK' /\ thread'.at = "comparing" /\ thread'.cal = Head(buf)
  BY <1>2, <1>3 DEF Reload, ThreadOK
<1>5. QueueOK' /\ UserOK'
  BY <1>2 DEF Reload, QueueOK, UserOK, TypeParts, user
<1>6. TypeParts'
  BY <1>4, <1>5, PartsKept DEF TypeParts, Reload, user
<1>7. Places'
  BY <1>2, <1>4 DEF Places, Reload, Names, user
<1> QED
  BY <1>6, <1>7

LEMMA CompareHolds ==
  ASSUME TypeParts, Places, Compare
  PROVE  TypeParts' /\ Places'
<1>1. /\ thread.at = "comparing" /\ thread'.at = "replacing" /\ ThreadOK'
      /\ thread'.cal = thread.cal
  BY DEF Compare, ThreadAt, Goes, ThreadOK, TypeParts
<1>2. thread.cal \in Calendars /\ thread.fresh \in SUBSET Pairs
  BY DEF ThreadOK, TypeParts
<1>3. thread.cal \in ToSet(calendars)
  BY <1>1 DEF Places
<1>4. MemoryOK'
  BY <1>2 DEF Compare, MemoryOK, TypeParts
<1>5. ShownOK' /\ DOMAIN shown' \subseteq Names
  <2>1. CASE EventsDiffer(cached[thread.cal], thread.fresh)
    <3>1. shown' = OnChange(thread.cal, thread.fresh, shown)
      BY <2>1 DEF Compare
    <3>2. /\ DOMAIN shown' = {DisplayName[thread.cal]} \cup DOMAIN shown
          /\ \A n \in DOMAIN shown' :
               shown'[n] = IF n = DisplayName[thread.cal] THEN EventsOf(thread.fresh)
                                                          ELSE shown[n]
      BY <3>1 DEF OnChange
    <3>3. EventsOf(thread.fresh) \in SUBSET Events
      BY <1>2, EventsTyped
    <3>4. DisplayName[thread.cal] \in Names /\ DOMAIN shown \subseteq Names
      BY <1>3 DEF Places, Names
    <3> QED
      BY <3>2, <3>3, <3>4 DEF ShownOK, TypeParts
  <2>2. CASE ~EventsDiffer(cached[thread.cal], thread.fresh)
    BY <2>2 DEF Compare, ShownOK, TypeParts, Places
  <2> QED
    BY <2>1, <2>2
<1>6. TypeParts'
  BY <1>1, <1>4, <1>5, PartsKept DEF TypeParts, Compare, user, watching
<1>7. Places'
  BY <1>1, <1>3, <1>5 DEF Places, Compare, Names, user, watching
<1> QED
  BY <1>6, <1>7

LEMMA ReplaceHolds ==
  ASSUME TypeParts, Places, Replace
  PROVE  TypeParts' /\ Places'
<1>1. thread.cal \in Calendars /\ thread.fresh \in SUBSET Pairs
  BY DEF ThreadOK, TypeParts
<1>2. ThreadOK' /\ thread'.at = "handling"
  BY DEF Replace, ThreadOK, TypeParts
<1>3. MemoryOK'
  BY <1>1 DEF Replace, MemoryOK, TypeParts
<1>4. FlagsOK'
  BY DEF Replace, FlagsOK, TypeParts
<1>5. TypeParts'
  BY <1>2, <1>3, <1>4, PartsKept DEF TypeParts, Replace, watching
<1>6. Places'
  BY <1>2 DEF Places, Replace, ThreadAt, Names, watching
<1> QED
  BY <1>5, <1>6

LEMMA ThreadStepHolds ==
  ASSUME IInv, ThreadStep
  PROVE  IInv'
<1>1. TypeParts /\ Places
  BY TypeIsParts DEF IInv
<1>2. TypeParts' /\ Places'
  BY <1>1, ThreadStartHolds, LoopHeadHolds, SelectHolds, BatchDoneHolds, ReloadHolds,
     CompareHolds, ReplaceHolds DEF ThreadStep
<1>3. TypeOK' <=> TypeParts'
  BY DEF TypeOK, TypeParts, DiskOK, ListOK, MemoryOK, QueueOK, FlagsOK, ThreadOK, UserOK, JobOK,
         ShownOK
<1> QED
  BY <1>2, <1>3 DEF IInv

-----------------------------------------------------------------------------
\* Activation and deactivation.
LEMMA AppendKeepsInjective ==
  ASSUME NEW S, NEW q \in Seq(S), NEW e \in S, IsInjective(q), e \notin ToSet(q)
  PROVE  IsInjective(Append(q, e))
<1>1. /\ DOMAIN q = 1 .. Len(q) /\ DOMAIN Append(q, e) = 1 .. Len(q) + 1 /\ Len(q) \in Nat
      /\ \A i \in 1 .. Len(q) + 1 : Append(q, e)[i] = IF i <= Len(q) THEN q[i] ELSE e
  OBVIOUS
<1>2. \A i \in 1 .. Len(q) : q[i] # e
  BY ToSetElements
<1>3. \A i, j \in 1 .. Len(q) : q[i] = q[j] => i = j
  BY <1>1 DEF IsInjective
<1>4. ASSUME NEW i \in 1 .. Len(q) + 1, NEW j \in 1 .. Len(q) + 1,
             Append(q, e)[i] = Append(q, e)[j]
      PROVE  i = j
  BY <1>1, <1>2, <1>3, <1>4
<1> QED
  BY <1>1, <1>4 DEF IsInjective

LEMMA ReadCalendarHolds ==
  ASSUME TypeParts, Places, NEW c \in Calendars, ReadCalendar(c)
  PROVE  TypeParts' /\ Places'
<1>1. Read(c) \in SUBSET Pairs
  BY TypeIsParts, ReadTyped
<1>2. UserOK' /\ ui = "loading" /\ ui' \in {"loading", "watching"} /\ todo' = todo \ {c}
  BY DEF ReadCalendar, UserOK, TypeParts, watching
<1>3. MemoryOK' /\ JobOK'
  BY <1>1 DEF ReadCalendar, MemoryOK, JobOK, TypeParts
<1>4. TypeParts'
  BY <1>2, <1>3, PartsKept DEF TypeParts, ReadCalendar, watching
<1>5. ui' = "watching" => Len(calendars) < MaxCalendars /\ job'.cal = c
  BY <1>2 DEF ReadCalendar, JobOK, TypeParts
<1>6. c \in todo
  BY DEF ReadCalendar
<1>7. Places'
  BY <1>2, <1>5, <1>6 DEF Places, ReadCalendar, Names, watching
<1> QED
  BY <1>4, <1>7

LEMMA WatchCalendarHolds ==
  ASSUME TypeParts, Places, WatchCalendar
  PROVE  TypeParts' /\ Places'
<1> DEFINE c == job.cal
<1>1. c \in Calendars /\ calendars \in Seq(Calendars) /\ IsInjective(calendars)
      /\ Len(calendars) \in Nat
  BY DEF JobOK, ListOK, TypeParts
<1>2. Len(calendars) < MaxCalendars /\ c \notin ToSet(calendars) \cup todo
      /\ todo \cap ToSet(calendars) = {}
  BY DEF WatchCalendar, Places
<1>3. calendars' = Append(calendars, c)
  BY DEF WatchCalendar
<1>4. ToSet(calendars') = ToSet(calendars) \cup {c}
  BY <1>1, <1>3, ToSetAppend
<1>5. ListOK'
  BY <1>1, <1>2, <1>3, AppendKeepsInjective, CalendarAssumption DEF ListOK
<1>6. MemoryOK' /\ UserOK' /\ ui' = "loading"
  BY <1>1 DEF WatchCalendar, MemoryOK, UserOK, TypeParts
<1>7. TypeParts'
  BY <1>5, <1>6, PartsKept DEF TypeParts, WatchCalendar
<1>8. Places'
  BY <1>2, <1>4, <1>6 DEF Places, WatchCalendar, Names
<1> QED
  BY <1>7, <1>8

LEMMA StartHolds ==
  ASSUME TypeParts, Places, Start
  PROVE  TypeParts' /\ Places'
<1>1. ThreadOK' /\ thread'.at = "starting" /\ ui' = "idle"
  BY DEF Start, ThreadOK, TypeParts
<1>2. UserOK'
  BY DEF Start, UserOK, TypeParts, watching
<1>3. DOMAIN shown' = Names
      /\ \A name \in Names : shown'[name] = EventsOf(cached[calendars[Max(Named(name))]])
  BY DEF Start, Names
<1>4. ASSUME NEW name \in Names PROVE shown'[name] \subseteq Events
  <2>1. calendars[Max(Named(name))] \in Calendars
    BY TypeIsParts, LastNamedIsFound
  <2>2. cached[calendars[Max(Named(name))]] \in SUBSET Pairs
    BY <2>1 DEF TypeParts, MemoryOK
  <2> QED
    BY <1>3, <2>2, EventsTyped
<1>5. ShownOK'
  BY <1>3, <1>4 DEF ShownOK
<1>6. TypeParts'
  BY <1>1, <1>2, <1>5, PartsKept DEF TypeParts, Start, service, watching
<1>7. buf = <<>>
  BY DEF Places, Start
<1>8. Places'
  BY <1>1, <1>3, <1>7 DEF Places, Start, Names, service, watching
<1> QED
  BY <1>6, <1>8

LEMMA StopHolds ==
  ASSUME TypeParts, Places, Stop
  PROVE  TypeParts' /\ Places'
<1>1. FlagsOK' /\ UserOK' /\ ui' = "joining"
  BY DEF Stop, FlagsOK, UserOK, TypeParts, watching
<1>2. TypeParts'
  BY <1>1, PartsKept DEF TypeParts, Stop, watching
<1>3. Places'
  BY <1>1 DEF Places, Stop, Names, watching
<1> QED
  BY <1>2, <1>3

LEMMA DestroyHolds ==
  ASSUME TypeParts, Places, Destroy
  PROVE  TypeParts' /\ Places'
<1>1. /\ calendars' = <<>> /\ buf' = <<>> /\ queue' = <<>> /\ shown' = <<>> /\ ui' = "off"
      /\ thread.at = "ended" /\ UNCHANGED thread
  BY DEF Destroy
<1>2. IsInjective(<<>>) /\ DOMAIN <<>> = {} /\ Len(<<>>) = 0
  BY DEF IsInjective
<1>3. ListOK' /\ QueueOK' /\ ShownOK'
  BY <1>1, <1>2, CalendarAssumption DEF ListOK, QueueOK, ShownOK
<1>4. MemoryOK' /\ FlagsOK' /\ UserOK'
  BY DEF Destroy, MemoryOK, FlagsOK, UserOK, TypeParts
<1>5. TypeParts'
  BY <1>3, <1>4, PartsKept DEF TypeParts, Destroy
<1>6. Places'
  BY <1>1, <1>2, ToSetEmpty DEF Places, Names
<1> QED
  BY <1>5, <1>6

-----------------------------------------------------------------------------
\* The user's edits, and the other programs.
LEMMA BeginHolds ==
  ASSUME TypeParts, Places, NEW c \in Calendars, NEW uid \in FileNames,
         NEW old \in SUBSET Events, NEW new \in SUBSET Events, NEW fresh \in BOOLEAN,
         Begin(c, uid, old, new, fresh), seconds' \in 0 .. Len(Stamps)
  PROVE  TypeParts' /\ Places'
<1>1. JobOK' /\ UserOK' /\ ui' = "found"
  BY DEF Begin, JobOK, UserOK, TypeParts, watching
<1>2. TypeParts'
  BY <1>1, PartsKept DEF TypeParts, Begin, service, watching
<1>3. Places'
  BY <1>1 DEF Places, Begin, Names, service, watching
<1> QED
  BY <1>2, <1>3

LEMMA AddEventHolds ==
  ASSUME TypeParts, Places, NEW name \in DOMAIN shown, NEW title \in Titles,
         AddEvent(name, title)
  PROVE  TypeParts' /\ Places'
<1>1. PICK s \in seconds .. Len(Stamps) :
        /\ s > 0 /\ seconds' = s
        /\ Begin(GetCalendar(name), Stamps[s], {},
                 {[uid |-> Stamps[s], title |-> title, text |-> ""]}, s > seconds)
  BY DEF AddEvent
<1>2. Len(Stamps) \in Nat /\ seconds \in 0 .. Len(Stamps)
  BY CalendarAssumption DEF TypeParts, UserOK
<1>3. s \in 1 .. Len(Stamps) /\ seconds' \in 0 .. Len(Stamps) /\ Stamps[s] \in FileNames
  <2>1. s \in seconds .. Len(Stamps) /\ s > 0 /\ seconds' = s
    BY <1>1, Zenon
  <2>2. s \in 1 .. Len(Stamps)
    BY <2>1, <1>2
  <2> QED
    BY <2>1, <2>2, CalendarAssumption
<1>4. {[uid |-> Stamps[s], title |-> title, text |-> ""]} \in SUBSET Events
  BY <1>3 DEF Events
<1>5. GetCalendar(name) \in Calendars
  BY TypeIsParts, CalendarIsFound
<1>6. (s > seconds) \in BOOLEAN /\ {} \in SUBSET Events
  OBVIOUS
<1> QED
  BY <1>1, <1>3, <1>4, <1>5, <1>6, BeginHolds

\* What is found has the uid that was asked for.
LEMMA FoundTyped ==
  ASSUME TypeParts, NEW c \in Calendars, NEW uid, NEW target \in Found(c, uid)
  PROVE  target \in Events /\ target.uid = uid /\ uid \in FileNames
<1>1. component[c] \in SUBSET Pairs
  BY DEF TypeParts, MemoryOK
<1>2. target \in Events /\ target.uid = uid
  BY <1>1, EventsTyped DEF Found
<1> QED
  BY <1>2 DEF Events

LEMMA ChangedTyped ==
  ASSUME NEW target \in Events, NEW field, NEW value,
         (field = "title" /\ value \in Titles) \/ (field = "text" /\ value \in Texts)
  PROVE  /\ [target EXCEPT ![field] = value] \in Events
         /\ [target EXCEPT ![field] = value].uid = target.uid
<1>1. CASE field = "title" /\ value \in Titles
  BY <1>1 DEF Events
<1>2. CASE field = "text" /\ value \in Texts
  BY <1>2 DEF Events
<1> QED
  BY <1>1, <1>2

LEMMA UpdateEventHolds ==
  ASSUME TypeParts, Places, NEW name \in DOMAIN shown, NEW e, NEW field, NEW value,
         (field = "title" /\ value \in Titles) \/ (field = "text" /\ value \in Texts),
         UpdateEvent(name, e, field, value)
  PROVE  TypeParts' /\ Places'
<1>1. PICK target \in Found(GetCalendar(name), e.uid) :
        Begin(GetCalendar(name), e.uid, {target}, {[target EXCEPT ![field] = value]}, TRUE)
  BY DEF UpdateEvent
<1>2. GetCalendar(name) \in Calendars
  BY TypeIsParts, CalendarIsFound
<1>3. target \in Events /\ e.uid \in FileNames
  BY <1>2, FoundTyped
<1>4. [target EXCEPT ![field] = value] \in Events
  BY <1>3, ChangedTyped
<1>5. seconds' \in 0 .. Len(Stamps)
  BY DEF UpdateEvent, TypeParts, UserOK
<1>6. {target} \in SUBSET Events /\ {[target EXCEPT ![field] = value]} \in SUBSET Events
      /\ TRUE \in BOOLEAN
  BY <1>3, <1>4
<1> QED
  BY <1>1, <1>2, <1>3, <1>5, <1>6, BeginHolds

LEMMA DeleteEventHolds ==
  ASSUME TypeParts, Places, NEW name \in DOMAIN shown, NEW e, DeleteEvent(name, e)
  PROVE  TypeParts' /\ Places'
<1>1. PICK target \in Found(GetCalendar(name), e.uid) :
        Begin(GetCalendar(name), e.uid, {target}, {}, TRUE)
  BY DEF DeleteEvent
<1>2. GetCalendar(name) \in Calendars
  BY TypeIsParts, CalendarIsFound
<1>3. target \in Events /\ e.uid \in FileNames
  BY <1>2, FoundTyped
<1>4. seconds' \in 0 .. Len(Stamps)
  BY DEF DeleteEvent, TypeParts, UserOK
<1>5. {target} \in SUBSET Events /\ {} \in SUBSET Events /\ TRUE \in BOOLEAN
  BY <1>3
<1> QED
  BY <1>1, <1>2, <1>3, <1>4, <1>5, BeginHolds

LEMMA ChangeComponentHolds ==
  ASSUME TypeParts, Places, ChangeComponent
  PROVE  TypeParts' /\ Places'
<1>1. job.cal \in Calendars /\ job.uid \in FileNames /\ job.new \in SUBSET Events
  BY DEF TypeParts, JobOK
<1>2. ({job.uid} \X job.new) \in SUBSET Pairs /\ component[job.cal] \in SUBSET Pairs
  BY <1>1 DEF Pairs, TypeParts, MemoryOK
<1>3. {p \in component[job.cal] : p[2] \notin job.old} \cup ({job.uid} \X job.new) \in SUBSET Pairs
  BY <1>2
<1>4. MemoryOK'
  <2>1. CASE freed
    BY <2>1 DEF ChangeComponent, MemoryOK, TypeParts
  <2>2. CASE ~freed
    BY <2>2, <1>1, <1>3 DEF ChangeComponent, MemoryOK, TypeParts
  <2> QED
    BY <2>1, <2>2
<1>5. ui' \in {"unlinking", "truncating", "crashed"}
  BY DEF ChangeComponent
<1>6. UserOK' /\ FlagsOK'
  BY <1>5 DEF ChangeComponent, UserOK, FlagsOK, TypeParts, watching
<1>7. TypeParts'
  BY <1>4, <1>6, PartsKept DEF TypeParts, ChangeComponent, watching
<1>8. Places'
  BY <1>5 DEF Places, ChangeComponent, Names, watching
<1> QED
  BY <1>7, <1>8

LEMMA SaveFileHolds ==
  ASSUME TypeParts, Places, NEW from, NEW to \in {"writing", "syncing"},
         NEW events \in SUBSET Events, SaveFile(from, to, events), JobOK'
  PROVE  TypeParts' /\ Places'
<1>1. job.cal \in Calendars /\ job.uid \in FileNames
  BY DEF TypeParts, JobOK
<1>2. DiskOK'
  <2>1. disk' = [disk EXCEPT ![job.cal][job.uid] = events]
    BY DEF SaveFile
  <2> QED
    BY <2>1, <1>1 DEF DiskOK, TypeParts
<1>3. /\ queue' \in Seq(Calendars)
      /\ ToSet(queue') \subseteq ToSet(queue) \cup ToSet(calendars)
  BY <1>1, Reported DEF SaveFile, TypeParts, QueueOK
<1>4. ui' = to
  BY DEF SaveFile
<1>5. QueueOK' /\ UserOK'
  BY <1>3, <1>4 DEF SaveFile, QueueOK, UserOK, TypeParts, service
<1>6. TypeParts'
  BY <1>2, <1>5, PartsKept DEF TypeParts, SaveFile, service
<1>7. Places'
  BY <1>3, <1>4 DEF Places, SaveFile, Names, service
<1> QED
  BY <1>6, <1>7

LEMMA TruncateHolds ==
  ASSUME TypeParts, Places, Truncate
  PROVE  TypeParts' /\ Places'
<1>1. Read(job.cal) \in SUBSET Pairs
  BY TypeIsParts, ReadTyped DEF TypeParts, JobOK
<1>2. JobOK'
  BY <1>1 DEF Truncate, JobOK, TypeParts
<1> QED
  BY <1>2, SaveFileHolds DEF Truncate

LEMMA WriteHolds ==
  ASSUME TypeParts, Places, Write
  PROVE  TypeParts' /\ Places'
<1>1. JobOK' /\ job.new \in SUBSET Events
  BY DEF Write, JobOK, TypeParts
<1> QED
  BY <1>1, SaveFileHolds DEF Write

LEMMA UnlinkHolds ==
  ASSUME TypeParts, Places, Unlink
  PROVE  TypeParts' /\ Places'
<1>1. Read(job.cal) \in SUBSET Pairs
  BY TypeIsParts, ReadTyped DEF TypeParts, JobOK
<1>2. JobOK'
  BY <1>1 DEF Unlink, JobOK, TypeParts
<1>3. CASE disk[job.cal][job.uid] # {}
  BY <1>2, <1>3, SaveFileHolds DEF Unlink
<1>4. CASE disk[job.cal][job.uid] = {}
  <2>1. UserOK' /\ ui' = "syncing"
    BY <1>4 DEF Unlink, UserOK, TypeParts, watching
  <2>2. TypeParts'
    BY <1>2, <1>4, <2>1, PartsKept DEF TypeParts, Unlink, service, watching
  <2>3. Places'
    BY <1>4, <2>1 DEF Places, Unlink, Names, service, watching
  <2> QED
    BY <2>2, <2>3
<1> QED
  BY <1>3, <1>4

LEMMA SyncedHolds ==
  ASSUME TypeParts, Places, Synced
  PROVE  TypeParts' /\ Places'
<1>1. JobOK'
  BY CalendarAssumption DEF Synced, JobOK, NoJob
<1>2. UserOK' /\ ui' = "idle"
  BY DEF Synced, UserOK, TypeParts, watching
<1>3. TypeParts'
  BY <1>1, <1>2, PartsKept DEF TypeParts, Synced, service, watching
<1>4. Places'
  BY <1>2 DEF Places, Synced, Names, service, watching
<1> QED
  BY <1>3, <1>4

LEMMA RemoteChangeHolds ==
  ASSUME TypeParts, Places, NEW c \in Calendars, NEW f \in FileNames, RemoteChange(c, f)
  PROVE  TypeParts' /\ Places'
<1>1. DiskOK'
  <2>1. PICK events \in Contents[c][f] : disk' = [disk EXCEPT ![c][f] = events]
    BY DEF RemoteChange
  <2>2. events \in SUBSET Events
    BY CalendarAssumption
  <2> QED
    BY <2>1, <2>2 DEF DiskOK, TypeParts
<1>2. /\ queue' \in Seq(Calendars)
      /\ ToSet(queue') \subseteq ToSet(queue) \cup ToSet(calendars)
  BY Reported DEF RemoteChange, TypeParts, QueueOK
<1>3. QueueOK' /\ JobOK'
  BY <1>2 DEF RemoteChange, QueueOK, JobOK, TypeParts, service
<1>4. TypeParts'
  BY <1>1, <1>3, PartsKept DEF TypeParts, RemoteChange, service
<1>5. job'.cal = job.cal
  BY DEF RemoteChange, JobOK, TypeParts
<1>6. Places'
  BY <1>2, <1>5 DEF Places, RemoteChange, Names, service
<1> QED
  BY <1>4, <1>6

LEMMA UserAsksHolds ==
  ASSUME TypeParts, Places, UserAsks
  PROVE  TypeParts' /\ Places'
<1>1. CASE Activate \/ Stop
  BY <1>1, ActivateHolds, StopHolds
<1>2. ASSUME NEW name \in DOMAIN shown, NEW title \in Titles, AddEvent(name, title)
      PROVE  TypeParts' /\ Places'
  BY <1>2, AddEventHolds
<1>3. ASSUME NEW name \in DOMAIN shown, NEW e \in shown[name], DeleteEvent(name, e)
      PROVE  TypeParts' /\ Places'
  BY <1>3, DeleteEventHolds
<1>4. ASSUME NEW name \in DOMAIN shown, NEW e \in shown[name], NEW title \in Titles,
             UpdateEvent(name, e, "title", title)
      PROVE  TypeParts' /\ Places'
  BY <1>4, UpdateEventHolds
<1>5. ASSUME NEW name \in DOMAIN shown, NEW e \in shown[name], NEW text \in Texts,
             UpdateEvent(name, e, "text", text)
      PROVE  TypeParts' /\ Places'
  BY <1>5, UpdateEventHolds
<1> QED
  BY <1>1, <1>2, <1>3, <1>4, <1>5, Zenon DEF UserAsks

LEMMA NextHolds == IInv /\ [Next]_vars => IInv'
<1> SUFFICES ASSUME IInv, [Next]_vars PROVE IInv'
  OBVIOUS
<1>1. TypeParts /\ Places
  BY TypeIsParts DEF IInv
<1>2. TypeOK' <=> TypeParts'
  BY DEF TypeOK, TypeParts, DiskOK, ListOK, MemoryOK, QueueOK, FlagsOK, ThreadOK, UserOK, JobOK,
         ShownOK
<1>3. CASE ThreadStep
  BY <1>3, ThreadStepHolds
<1>4. CASE UserStep
  BY <1>1, <1>2, <1>4, ReadCalendarHolds, WatchCalendarHolds, StartHolds, DestroyHolds,
     ChangeComponentHolds, TruncateHolds, WriteHolds, UnlinkHolds, SyncedHolds
  DEF UserStep, IInv
<1>5. CASE UserAsks
  BY <1>1, <1>2, <1>5, UserAsksHolds DEF IInv
<1>6. ASSUME NEW c \in Calendars, NEW f \in FileNames, RemoteChange(c, f)
      PROVE  IInv'
  BY <1>1, <1>2, <1>6, RemoteChangeHolds DEF IInv
<1>7. CASE UNCHANGED vars
  <2>1. TypeParts'
    BY <1>1, <1>7, PartsKept DEF TypeParts, vars, service, watching, user
  <2>2. Places'
    BY <1>1, <1>7 DEF Places, Names, vars, service, watching, user
  <2> QED
    BY <1>2, <2>1, <2>2 DEF IInv
<1> QED
  BY <1>3, <1>4, <1>5, <1>6, <1>7 DEF Next

\* TypeOK is an invariant: memory, files, reports and edits stay within the
\* calendars that are loaded, in which no directory is twice.
THEOREM TypeCorrect == Spec => []TypeOK
<1>1. IInv => TypeOK
  BY DEF IInv
<1> QED
  BY InitHolds, NextHolds, <1>1, PTL DEF Spec

-----------------------------------------------------------------------------
(***************************************************************************)
(* The memory follows the disk, when each file holds the events of its     *)
(* uid.                                                                    *)
(***************************************************************************)
UidNamed ==
  \A c \in Calendars, f \in FileNames :
    \A events \in Contents[c][f] : \A e \in events : e.uid = f

DiskNamed == \A c \in Calendars, f \in FileNames : \A e \in disk[c][f] : e.uid = f

JobNamed ==
  ui \in {"found", "truncating", "writing", "unlinking"} =>
    \A e \in job.old \cup job.new : e.uid = job.uid

\* Why the component of a calendar may differ from its files: a report is
\* still to be handled, the component is about to be replaced, its file is
\* about to be written, or is about to go.
Pending(c)   == c \in ToSet(queue) \cup ToSet(buf)
Reloading(c) ==
  thread.at \in {"comparing", "replacing"} /\ thread.cal = c /\ thread.fresh = Read(c)
Saving(c)    == ui \in {"truncating", "writing"} /\ job.cal = c
Deleting(c)  ==
  /\ ui = "unlinking" /\ job.cal = c
  /\ component[c] = {p \in Read(c) : p[2] \notin job.old}
Explained(c) ==
  Pending(c) \/ Reloading(c) \/ Saving(c) \/ Deleting(c) \/ component[c] = Read(c)

\* What the thread has read is still so, or will be read again.
FreshOrPending ==
  thread.at \in {"comparing", "replacing"} =>
    thread.fresh = Read(thread.cal) \/ Pending(thread.cal)

Current ==
  DiskNamed /\ JobNamed /\ FreshOrPending /\ \A c \in ToSet(calendars) \ missed : Explained(c)

LEMMA CurrentSuffices ==
  ASSUME IInv, Current
  PROVE  MemoryFollowsDisk
<1> SUFFICES ASSUME Quiet, NEW c \in ToSet(calendars) \ missed
             PROVE  component[c] = Read(c)
  BY DEF MemoryFollowsDisk, Loaded
<1>1. buf = <<>> /\ queue = <<>>
  BY DEF IInv, Places, Quiet
<1>2. Explained(c)
  BY DEF Current
<1> QED
  BY <1>1, <1>2, ToSetEmpty DEF Quiet, Explained, Pending, Reloading, Saving, Deleting

LEMMA InitCurrent ==
  ASSUME UidNamed, Init
  PROVE  Current
<1>1. DiskNamed
  <2> SUFFICES ASSUME NEW c \in Calendars, NEW f \in FileNames, NEW e \in disk[c][f]
               PROVE  e.uid = f
    BY DEF DiskNamed
  <2>1. disk[c][f] \in Contents[c][f]
    BY DEF Init
  <2> QED
    BY <2>1 DEF UidNamed
<1>2. ui = "off" /\ thread.at = "ended" /\ calendars = <<>>
  BY DEF Init
<1> QED
  BY <1>1, <1>2, ToSetEmpty DEF Current, JobNamed, FreshOrPending

\* The steps that leave the disk, the memory and the thread's work alone.
LEMMA Apart ==
  ASSUME Current, UNCHANGED <<disk, component, missed, queue, buf>>,
         calendars' = calendars,
         /\ thread'.at \in {"comparing", "replacing"} <=> thread.at \in {"comparing", "replacing"}
         /\ thread'.cal = thread.cal /\ thread'.fresh = thread.fresh,
         UNCHANGED <<ui, job>> \/ (ui \notin {"truncating", "writing", "unlinking"} /\ JobNamed')
  PROVE  Current'
<1>1. \A c \in Calendars : Read(c)' = Read(c)
  BY DEF Read
<1>2. DiskNamed' /\ JobNamed'
  BY DEF Current, DiskNamed, JobNamed
<1>3. FreshOrPending'
  BY DEF Current, FreshOrPending, Pending, Read
<1>4. ASSUME NEW c \in ToSet(calendars) \ missed PROVE Explained(c)'
  <2>1. Explained(c)
    BY DEF Current
  <2>2. CASE UNCHANGED <<ui, job>>
    BY <2>1, <2>2 DEF Explained, Pending, Reloading, Saving, Deleting, Read
  <2>3. CASE ui \notin {"truncating", "writing", "unlinking"}
    BY <2>1, <2>3 DEF Explained, Pending, Reloading, Saving, Deleting, Read
  <2> QED
    BY <2>2, <2>3
<1> QED
  BY <1>2, <1>3, <1>4 DEF Current

\* The thread.
LEMMA ThreadStepCurrent ==
  ASSUME IInv, Current, ThreadStep
  PROVE  Current'
<1>1. ThreadOK /\ Places /\ QueueOK
  BY TypeIsParts DEF IInv, TypeParts
<1>2. CASE ThreadStart \/ LoopHead \/ BatchDone
  <2>1. /\ thread'.at \notin {"comparing", "replacing"}
        /\ thread.at \notin {"comparing", "replacing"}
        /\ thread'.cal = thread.cal /\ thread'.fresh = thread.fresh
    BY <1>1, <1>2 DEF ThreadStart, LoopHead, BatchDone, ThreadAt, Goes, ThreadOK
  <2>2. UNCHANGED <<disk, component, missed, queue, buf>> /\ calendars' = calendars
    BY <1>2 DEF ThreadStart, LoopHead, BatchDone, service, watching, user
  <2>3. UNCHANGED <<ui, job>>
    BY <1>2 DEF ThreadStart, LoopHead, BatchDone, user
  <2> QED
    BY <2>1, <2>2, <2>3
    DEF Current, DiskNamed, JobNamed, FreshOrPending, Explained, Pending, Reloading, Saving,
        Deleting, Read
<1>3. CASE Select
  <2>1. UNCHANGED <<disk, component, missed, calendars, ui, job>>
        /\ thread'.at \notin {"comparing", "replacing"} /\ thread.at = "selecting"
    BY <1>1, <1>3 DEF Select, ThreadAt, Goes, ThreadOK, user
  <2>2. ToSet(queue') \cup ToSet(buf') = ToSet(queue) \cup ToSet(buf)
    <3>1. buf = <<>>
      BY <1>1, <2>1 DEF Places
    <3> QED
      BY <1>3, <3>1, ToSetEmpty DEF Select
  <2> QED
    BY <2>1, <2>2 DEF Current, DiskNamed, JobNamed, FreshOrPending, Explained, Pending, Reloading,
                      Saving, Deleting, Read
<1>4. CASE Reload
  <2>0. PICK b : b = Head(buf)
    OBVIOUS
  <2>1. ToSet(buf) = {b} \cup ToSet(buf')
    BY <1>1, <1>4, <2>0, ToSetTail DEF Reload, QueueOK
  <2>2. /\ UNCHANGED <<disk, component, calendars, queue, ui, job>> /\ missed' = missed \ {b}
        /\ thread.at = "handling" /\ thread' = [at |-> "comparing", cal |-> b, fresh |-> Read(b)]
    BY <1>4, <2>0 DEF Reload, ThreadAt, user
  <2>3. /\ thread'.at = "comparing" /\ thread'.cal = b /\ thread'.fresh = Read(b)
        /\ Read(b)' = Read(b)
    BY <2>2 DEF Read
  <2>4. Reloading(b)' /\ FreshOrPending'
    BY <2>2, <2>3 DEF Reloading, FreshOrPending, Read
  <2>5. ASSUME NEW c \in ToSet(calendars) \ missed' PROVE Explained(c)'
    <3>1. CASE c = b
      BY <3>1, <2>4 DEF Explained
    <3>2. CASE c # b
      <4>1. Explained(c) /\ ~Reloading(c)
        BY <2>2, <3>2 DEF Current, Reloading
      <4>2. Pending(c) => Pending(c)'
        BY <2>1, <2>2, <3>2 DEF Pending
      <4> QED
        BY <4>1, <4>2, <2>2 DEF Explained, Saving, Deleting, Read
    <3> QED
      BY <3>1, <3>2
  <2> QED
    BY <2>2, <2>4, <2>5 DEF Current, DiskNamed, JobNamed
<1>5. CASE Compare
  <2>1. /\ thread.at = "comparing" /\ thread'.at = "replacing"
        /\ thread'.cal = thread.cal /\ thread'.fresh = thread.fresh
    BY <1>1, <1>5 DEF Compare, ThreadAt, Goes, ThreadOK
  <2>2. UNCHANGED <<disk, component, missed, queue, buf>> /\ calendars' = calendars
    BY <1>5 DEF Compare, watching, user
  <2>3. UNCHANGED <<ui, job>>
    BY <1>5 DEF Compare, user
  <2> QED
    BY <2>1, <2>2, <2>3
    DEF Current, DiskNamed, JobNamed, FreshOrPending, Explained, Pending, Reloading, Saving,
        Deleting, Read
<1>6. CASE Replace
  <2> DEFINE t == thread.cal
  <2>1. /\ UNCHANGED <<disk, missed, calendars, queue, buf, ui, job>>
        /\ component' = [component EXCEPT ![t] = thread.fresh]
        /\ thread'.at = "handling" /\ thread.at = "replacing"
    BY <1>1, <1>6 DEF Replace, ThreadAt, watching, ThreadOK
  <2>2. component \in [Calendars -> SUBSET Pairs] /\ t \in Calendars
    BY <1>1, TypeIsParts DEF IInv, TypeParts, MemoryOK, ThreadOK
  <2>3. ASSUME NEW c \in ToSet(calendars) \ missed PROVE Explained(c)'
    <3>1. CASE c = t
      <4>1. component'[c] = thread.fresh
        BY <2>1, <2>2, <3>1
      <4>2. thread.fresh = Read(c) \/ Pending(c)
        BY <2>1, <3>1 DEF Current, FreshOrPending
      <4> QED
        BY <4>1, <4>2, <2>1 DEF Explained, Pending, Read
    <3>2. CASE c # t
      <4>1. Explained(c) /\ ~Reloading(c) /\ component'[c] = component[c]
        BY <2>1, <2>2, <3>2, <1>1 DEF Current, Reloading
      <4> QED
        BY <4>1, <2>1 DEF Explained, Pending, Saving, Deleting, Read
    <3> QED
      BY <3>1, <3>2
  <2> QED
    BY <2>1, <2>3 DEF Current, DiskNamed, JobNamed, FreshOrPending
<1> QED
  BY <1>2, <1>3, <1>4, <1>5, <1>6 DEF ThreadStep

\* Activation and deactivation.
LEMMA LoadCurrent ==
  ASSUME IInv, Current, Activate \/ Start \/ Stop \/ Destroy
  PROVE  Current'
<1>1. ThreadOK /\ Places
  BY TypeIsParts DEF IInv, TypeParts
<1>2. CASE Destroy
  <2>1. calendars' = <<>> /\ ui' = "off" /\ thread'.at = "ended" /\ UNCHANGED disk
    BY <1>2 DEF Destroy
  <2> QED
    BY <2>1, ToSetEmpty DEF Current, DiskNamed, JobNamed, FreshOrPending
<1>3. CASE Activate \/ Start \/ Stop
  <2>1. /\ UNCHANGED <<disk, component, missed, queue, buf>> /\ calendars' = calendars
        /\ ui \in {"off", "loading", "idle"} /\ ui' \in {"loading", "idle", "joining"}
    BY <1>3 DEF Activate, Start, Stop, service, watching
  <2>2. /\ thread'.at \in {"comparing", "replacing"} <=> thread.at \in {"comparing", "replacing"}
        /\ thread'.cal = thread.cal /\ thread'.fresh = thread.fresh
    BY <1>1, <1>3 DEF Activate, Start, Stop, ThreadOK, Places
  <2> QED
    BY <2>1, <2>2, Apart DEF JobNamed
<1> QED
  BY <1>2, <1>3

LEMMA LoadedTyped ==
  ASSUME IInv
  PROVE  ToSet(calendars) \subseteq Calendars
<1>1. calendars \in Seq(Calendars)
  BY TypeIsParts DEF IInv, TypeParts, ListOK
<1> QED
  BY <1>1, ToSetElements

LEMMA ReadCalendarCurrent ==
  ASSUME IInv, Current, NEW c \in Calendars, ReadCalendar(c)
  PROVE  Current'
<1>1. ThreadOK /\ Places /\ component \in [Calendars -> SUBSET Pairs]
  BY TypeIsParts DEF IInv, TypeParts, MemoryOK
<1>2. /\ UNCHANGED <<disk, missed, calendars, queue, buf, thread>>
      /\ ui = "loading" /\ ui' \in {"loading", "watching"} /\ c \notin ToSet(calendars)
  BY <1>1 DEF ReadCalendar, watching, Places
<1>3. thread.at = "ended"
  BY <1>1, <1>2 DEF Places
<1>4. ASSUME NEW d \in ToSet(calendars) \ missed PROVE Explained(d)'
  <2>1. d \in Calendars /\ d # c /\ Explained(d)
    BY <1>2, LoadedTyped DEF Current
  <2>2. component'[d] = component[d]
    BY <1>1, <2>1 DEF ReadCalendar
  <2> QED
    BY <2>1, <2>2, <1>2 DEF Explained, Pending, Reloading, Saving, Deleting, Read
<1> QED
  BY <1>2, <1>3, <1>4 DEF Current, DiskNamed, JobNamed, FreshOrPending

LEMMA WatchCalendarCurrent ==
  ASSUME IInv, Current, WatchCalendar
  PROVE  Current'
<1> DEFINE w == job.cal
<1>1. Places /\ w \in Calendars /\ calendars \in Seq(Calendars)
  BY TypeIsParts DEF IInv, TypeParts, JobOK, ListOK
<1>2. /\ UNCHANGED <<disk, component, queue, buf, thread, job>> /\ ui = "watching" /\ ui' = "loading"
      /\ calendars' = Append(calendars, w)
      /\ missed' = IF component[w] = Read(w) THEN missed ELSE missed \cup {w}
  BY DEF WatchCalendar
<1>3. ToSet(calendars') = ToSet(calendars) \cup {w} /\ thread.at = "ended"
  BY <1>1, <1>2, ToSetAppend DEF Places
<1>4. ASSUME NEW c \in ToSet(calendars') \ missed' PROVE Explained(c)'
  <2>1. CASE c = w
    <3>1. component[c] = Read(c)
      BY <1>2, <2>1
    <3> QED
      BY <3>1, <1>2 DEF Explained, Read
  <2>2. CASE c # w
    <3>1. Explained(c)
      BY <1>2, <1>3, <2>2 DEF Current
    <3> QED
      BY <3>1, <1>2 DEF Explained, Pending, Reloading, Saving, Deleting, Read
  <2> QED
    BY <2>1, <2>2
<1> QED
  BY <1>2, <1>3, <1>4 DEF Current, DiskNamed, JobNamed, FreshOrPending

\* A change of the disk is reported, and concerns one calendar.
LEMMA DiskChangeCurrent ==
  ASSUME IInv, Current, NEW c \in Calendars, NEW f \in FileNames, NEW events,
         disk' = [disk EXCEPT ![c][f] = events], \A e \in events : e.uid = f,
         Report(c), UNCHANGED <<component, calendars, missed, buf, thread>>,
         JobNamed', job.cal = c \/ (ui' = ui /\ job'.cal = job.cal /\ job'.old = job.old)
  PROVE  Current'
<1>1. QueueOK /\ DiskOK /\ ThreadOK /\ Places /\ ToSet(calendars) \subseteq Calendars
  BY TypeIsParts, LoadedTyped DEF IInv, TypeParts
<1>2. ToSet(queue) \subseteq ToSet(queue') /\ (c \in ToSet(calendars) => c \in ToSet(queue'))
  BY <1>1, Reported DEF QueueOK
<1>3. DiskNamed'
  BY <1>1 DEF Current, DiskNamed, DiskOK
<1>4. \A d \in Calendars \ {c} : Read(d)' = Read(d)
  BY <1>1 DEF Read, DiskOK
<1>5. FreshOrPending'
  <2> SUFFICES ASSUME thread.at \in {"comparing", "replacing"}
               PROVE  thread.fresh = Read(thread.cal)' \/ Pending(thread.cal)'
    BY DEF FreshOrPending
  <2>1. thread.cal \in ToSet(calendars) /\ thread.cal \in Calendars
    BY <1>1 DEF Places, ThreadOK
  <2>2. CASE thread.cal = c
    BY <2>1, <2>2, <1>2 DEF Pending
  <2>3. CASE thread.cal # c
    BY <2>1, <2>3, <1>2, <1>4 DEF Current, FreshOrPending, Pending
  <2> QED
    BY <2>2, <2>3
<1>6. ASSUME NEW d \in ToSet(calendars) \ missed PROVE Explained(d)'
  <2>1. CASE d = c
    BY <2>1, <1>2 DEF Explained, Pending
  <2>2. CASE d # c
    <3>1. Explained(d) /\ d \in Calendars \ {c}
      BY <1>1, <2>2 DEF Current
    <3>2. Read(d)' = Read(d)
      BY <1>4, <3>1
    <3> QED
      BY <3>1, <3>2, <1>2, <2>2 DEF Explained, Pending, Reloading, Saving, Deleting
  <2> QED
    BY <2>1, <2>2
<1> QED
  BY <1>3, <1>5, <1>6 DEF Current

LEMMA SaveFileCurrent ==
  ASSUME IInv, Current, NEW from, NEW to, NEW events, SaveFile(from, to, events),
         \A e \in events : e.uid = job.uid, job'.cal = job.cal, JobNamed'
  PROVE  Current'
<1>1. job.cal \in Calendars /\ job.uid \in FileNames
  BY TypeIsParts DEF IInv, TypeParts, JobOK
<1>2. /\ disk' = [disk EXCEPT ![job.cal][job.uid] = events]
      /\ Report(job.cal)
      /\ UNCHANGED <<component, calendars, missed, buf, thread>>
  BY DEF SaveFile, service
<1> QED
  BY <1>1, <1>2, DiskChangeCurrent

LEMMA TruncateCurrent ==
  ASSUME IInv, Current, Truncate
  PROVE  Current'
<1>1. JobOK
  BY TypeIsParts DEF IInv, TypeParts
<1>2. /\ job'.cal = job.cal /\ job'.old = job.old /\ job'.new = job.new /\ job'.uid = job.uid
      /\ ui = "truncating"
  BY <1>1 DEF Truncate, SaveFile, JobOK
<1>3. JobNamed'
  BY <1>2 DEF Current, JobNamed
<1> QED
  BY <1>2, <1>3, SaveFileCurrent DEF Truncate

LEMMA WriteCurrent ==
  ASSUME IInv, Current, Write
  PROVE  Current'
<1>1. ui = "writing" /\ ui' = "syncing" /\ job' = job
  BY DEF Write, SaveFile
<1>2. \A e \in job.new : e.uid = job.uid
  BY <1>1 DEF Current, JobNamed
<1>3. JobNamed'
  BY <1>1 DEF JobNamed
<1> QED
  BY <1>1, <1>2, <1>3, SaveFileCurrent DEF Write

LEMMA SyncedCurrent ==
  ASSUME IInv, Current, Synced
  PROVE  Current'
<1>1. /\ UNCHANGED <<disk, component, calendars, missed, queue, buf, thread>>
      /\ ui = "syncing" /\ ui' = "idle"
  BY DEF Synced, service, watching
<1> QED
  BY <1>1 DEF Current, DiskNamed, JobNamed, FreshOrPending, Explained, Pending, Reloading, Saving,
              Deleting, Read

LEMMA RemoteChangeCurrent ==
  ASSUME UidNamed, IInv, Current, NEW c \in Calendars, NEW f \in FileNames, RemoteChange(c, f)
  PROVE  Current'
<1>1. JobOK
  BY TypeIsParts DEF IInv, TypeParts
<1>2. PICK events \in Contents[c][f] : disk' = [disk EXCEPT ![c][f] = events]
  BY DEF RemoteChange
<1>3. \A e \in events : e.uid = f
  BY <1>2 DEF UidNamed
<1>4. /\ UNCHANGED <<component, calendars, missed, buf, thread>> /\ Report(c) /\ ui' = ui
      /\ job'.cal = job.cal /\ job'.old = job.old /\ job'.new = job.new /\ job'.uid = job.uid
  BY <1>1 DEF RemoteChange, service, JobOK
<1>5. JobNamed'
  BY <1>4 DEF Current, JobNamed
<1> QED
  BY <1>2, <1>3, <1>4, <1>5, DiskChangeCurrent

\* unlink fails when the file is gone: then no event of the calendar has the uid.
LEMMA UnlinkCurrent ==
  ASSUME IInv, Current, Unlink
  PROVE  Current'
<1>1. JobOK /\ DiskOK /\ ui = "unlinking" /\ ui' = "syncing" /\ ToSet(calendars) \subseteq Calendars
  BY TypeIsParts, LoadedTyped DEF IInv, TypeParts, Unlink, SaveFile
<1>2. JobNamed' /\ job'.cal = job.cal
  BY <1>1 DEF JobNamed, Unlink, JobOK
<1>3. CASE disk[job.cal][job.uid] # {}
  BY <1>2, <1>3, SaveFileCurrent DEF Unlink
<1>4. CASE disk[job.cal][job.uid] = {}
  <2>1. UNCHANGED <<disk, component, calendars, missed, queue, buf, thread>>
    BY <1>4 DEF Unlink, service, watching
  <2>2. ASSUME NEW c \in Calendars, Deleting(c) PROVE component[c] = Read(c)
    <3>1. job.cal = c /\ component[c] = {p \in Read(c) : p[2] \notin job.old}
      BY <2>2 DEF Deleting
    <3>2. ASSUME NEW p \in Read(c) PROVE p[2] \notin job.old
      <4>1. PICK f \in FileNames : p \in {f} \X disk[c][f]
        BY DEF Read
      <4>2. p[2] \in disk[c][f]
        BY <4>1
      <4>3. p[2].uid = f
        BY <4>2 DEF Current, DiskNamed
      <4>4. f # job.uid
        BY <1>4, <3>1, <4>2
      <4> QED
        BY <1>1, <4>3, <4>4 DEF Current, JobNamed
    <3> QED
      BY <3>1, <3>2
  <2>3. ASSUME NEW c \in ToSet(calendars) \ missed PROVE Explained(c)'
    <3>1. Explained(c) /\ ~Saving(c) /\ c \in Calendars
      BY <1>1 DEF Current, Saving
    <3>2. Pending(c) \/ Reloading(c) \/ component[c] = Read(c)
      BY <3>1, <2>2 DEF Explained
    <3> QED
      BY <3>2, <2>1 DEF Explained, Pending, Reloading, Read
  <2> QED
    BY <1>2, <2>1, <2>3 DEF Current, DiskNamed, FreshOrPending, Pending, Read
<1> QED
  BY <1>3, <1>4

LEMMA ChangeComponentCurrent ==
  ASSUME IInv, Current, ChangeComponent
  PROVE  Current'
<1>1. /\ UNCHANGED <<disk, calendars, missed, queue, buf, thread, job>>
      /\ ui = "found" /\ ui' \in {"unlinking", "truncating", "crashed"}
  BY DEF ChangeComponent, watching
<1>2. component \in [Calendars -> SUBSET Pairs] /\ ToSet(calendars) \subseteq Calendars
  BY TypeIsParts, LoadedTyped DEF IInv, TypeParts, MemoryOK
<1>3. ASSUME NEW c \in ToSet(calendars) \ missed PROVE Explained(c)'
  <2>1. Pending(c) \/ Reloading(c) \/ component[c] = Read(c)
    BY <1>1 DEF Current, Explained, Saving, Deleting
  <2>2. CASE Pending(c) \/ Reloading(c)
    BY <2>2, <1>1 DEF Explained, Pending, Reloading, Read
  <2>3. CASE component[c] = Read(c) /\ (freed \/ c # job.cal)
    <3>1. component'[c] = component[c]
      BY <1>2, <2>3 DEF ChangeComponent
    <3> QED
      BY <2>3, <3>1, <1>1 DEF Explained, Read
  <2>4. CASE component[c] = Read(c) /\ ~freed /\ c = job.cal /\ job.new # {}
    BY <2>4, <1>1 DEF ChangeComponent, Explained, Saving
  <2>5. CASE component[c] = Read(c) /\ ~freed /\ c = job.cal /\ job.new = {}
    <3>1. component'[c] = {p \in Read(c) : p[2] \notin job.old} /\ ui' = "unlinking"
      BY <1>2, <2>5 DEF ChangeComponent
    <3> QED
      BY <3>1, <2>5, <1>1 DEF Explained, Deleting, Read
  <2> QED
    BY <2>1, <2>2, <2>3, <2>4, <2>5
<1> QED
  BY <1>1, <1>3 DEF Current, DiskNamed, JobNamed, FreshOrPending, Pending, Read

\* The plugin's actions begin with a job whose events have its uid.
LEMMA BeginCurrent ==
  ASSUME IInv, Current, NEW c \in Calendars, NEW uid, NEW old, NEW new, NEW fresh,
         ui = "idle", Begin(c, uid, old, new, fresh), \A e \in old \cup new : e.uid = uid
  PROVE  Current'
<1>1. UNCHANGED <<disk, component, calendars, missed, queue, buf, thread>> /\ ui' = "found"
  BY DEF Begin, service, watching
<1>2. job'.uid = uid /\ job'.old = old /\ job'.new = new
  BY DEF Begin
<1>3. JobNamed'
  BY <1>2 DEF JobNamed
<1> QED
  BY <1>1, <1>3 DEF Current, DiskNamed, FreshOrPending, Explained, Pending, Reloading, Saving,
                    Deleting, Read

LEMMA UserAsksCurrent ==
  ASSUME IInv, Current, UserAsks
  PROVE  Current'
<1>0. TypeParts /\ Places
  BY TypeIsParts DEF IInv
<1>1. CASE Activate \/ Stop
  BY <1>1, LoadCurrent
<1>2. ASSUME NEW name \in DOMAIN shown, NEW title \in Titles, AddEvent(name, title)
      PROVE  Current'
  <2>1. GetCalendar(name) \in Calendars
    BY <1>0, <1>2, TypeIsParts, CalendarIsFound DEF AddEvent
  <2>2. PICK s \in seconds .. Len(Stamps) :
          Begin(GetCalendar(name), Stamps[s], {},
                {[uid |-> Stamps[s], title |-> title, text |-> ""]}, s > seconds)
    BY <1>2 DEF AddEvent
  <2>3. \A e \in {} \cup {[uid |-> Stamps[s], title |-> title, text |-> ""]} : e.uid = Stamps[s]
    <3>1. [uid |-> Stamps[s], title |-> title, text |-> ""].uid = Stamps[s]
      OBVIOUS
    <3> QED
      BY <3>1, Zenon
  <2> QED
    BY <1>2, <2>1, <2>2, <2>3, BeginCurrent DEF AddEvent
<1>3. ASSUME NEW name \in DOMAIN shown, NEW e \in shown[name], DeleteEvent(name, e)
      PROVE  Current'
  <2>1. GetCalendar(name) \in Calendars
    BY <1>0, <1>3, TypeIsParts, CalendarIsFound DEF DeleteEvent
  <2>2. PICK target \in Found(GetCalendar(name), e.uid) :
          Begin(GetCalendar(name), e.uid, {target}, {}, TRUE)
    BY <1>3 DEF DeleteEvent
  <2>3. \A x \in {target} \cup {} : x.uid = e.uid
    BY <2>2 DEF Found
  <2> QED
    BY <1>3, <2>1, <2>2, <2>3, BeginCurrent DEF DeleteEvent
<1>4. ASSUME NEW name \in DOMAIN shown, NEW e \in shown[name], NEW field \in {"title", "text"},
             NEW value \in Titles \cup Texts, UpdateEvent(name, e, field, value)
      PROVE  Current'
  <2>1. GetCalendar(name) \in Calendars
    BY <1>0, <1>4, TypeIsParts, CalendarIsFound DEF UpdateEvent
  <2>2. PICK target \in Found(GetCalendar(name), e.uid) :
          Begin(GetCalendar(name), e.uid, {target}, {[target EXCEPT ![field] = value]}, TRUE)
    BY <1>4 DEF UpdateEvent
  <2>3. target \in Events /\ target.uid = e.uid
    BY <1>0, <2>1, <2>2, FoundTyped DEF Found
  <2>4. [target EXCEPT ![field] = value].uid = e.uid
    BY <2>3 DEF Events
  <2>5. \A x \in {target} \cup {[target EXCEPT ![field] = value]} : x.uid = e.uid
    BY <2>3, <2>4
  <2>6. ui = "idle"
    BY <1>4 DEF UpdateEvent
  <2>7. PICK new : new = {[target EXCEPT ![field] = value]}
    OBVIOUS
  <2>8. Begin(GetCalendar(name), e.uid, {target}, new, TRUE)
    BY <2>2, <2>7, Zenon
  <2>9. \A x \in {target} \cup new : x.uid = e.uid
    BY <2>5, <2>7, Zenon
  <2> QED
    BY <2>1, <2>6, <2>8, <2>9, BeginCurrent
<1> QED
  BY <1>1, <1>2, <1>3, <1>4 DEF UserAsks

LEMMA NextCurrent ==
  ASSUME UidNamed, IInv, Current, [Next]_vars
  PROVE  Current'
<1>1. CASE ThreadStep
  BY <1>1, ThreadStepCurrent
<1>2. CASE UserStep
  BY <1>2, ReadCalendarCurrent, WatchCalendarCurrent, LoadCurrent, ChangeComponentCurrent,
     TruncateCurrent, WriteCurrent, UnlinkCurrent, SyncedCurrent
  DEF UserStep
<1>3. CASE UserAsks
  BY <1>3, UserAsksCurrent
<1>4. CASE \E c \in Calendars, f \in FileNames : RemoteChange(c, f)
  BY <1>4, RemoteChangeCurrent
<1>5. CASE UNCHANGED vars
  BY <1>5 DEF vars, service, watching, user, Current, DiskNamed, JobNamed, FreshOrPending,
              Explained, Pending, Reloading, Saving, Deleting, Read
<1> QED
  BY <1>1, <1>2, <1>3, <1>4, <1>5 DEF Next

\* MemoryFollowsDisk is an invariant when every file holds only events of its
\* uid: the edits of the user and the reloads of the service's thread change
\* one component and one directory without a lock, and what both leave in
\* memory, once all reports were handled, is what is on disk.
THEOREM MemoryIsCurrent == UidNamed => (Spec => []MemoryFollowsDisk)
<1> SUFFICES ASSUME UidNamed PROVE Spec => []MemoryFollowsDisk
  OBVIOUS
<1>1. Init => IInv /\ Current
  BY InitHolds, InitCurrent
<1>2. IInv /\ Current /\ [Next]_vars => (IInv /\ Current)'
  BY NextHolds, NextCurrent
<1>3. IInv /\ Current => MemoryFollowsDisk
  BY CurrentSuffices
<1> QED
  BY <1>1, <1>2, <1>3, PTL DEF Spec

-----------------------------------------------------------------------------
(***************************************************************************)
(* What is shown follows the disk.  Events are compared without their      *)
(* files, so that an event of two files hides that another one is gone;    *)
(* with one file for a uid it cannot.                                      *)
(***************************************************************************)
FiniteCalendars == IsFiniteSet(FileNames) /\ IsFiniteSet(Events)

\* Each event in memory is in the file of its uid.
InOwnFile(S) == \A p \in S : p[2].uid = p[1]

AllNamed ==
  /\ \A c \in Calendars : InOwnFile(component[c]) /\ InOwnFile(cached[c])
  /\ InOwnFile(thread.fresh)

Alone(c) == \A d \in ToSet(calendars) : DisplayName[d] = DisplayName[c] => d = c

\* After the first callbacks the plugin has what the service believes to
\* have told it.
Told ==
  ui \notin {"off", "loading", "watching"} =>
    \A c \in ToSet(calendars) : Alone(c) =>
      DisplayName[c] \in DOMAIN shown /\ shown[DisplayName[c]] = EventsOf(cached[c])

\* Why the events told last may differ from the files.
CacheExplained(c) ==
  \/ Pending(c)
  \/ thread.at = "comparing" /\ thread.cal = c /\ thread.fresh = Read(c)
  \/ cached[c] = Read(c)

ShownInv == AllNamed /\ Told /\ \A c \in ToSet(calendars) \ missed : CacheExplained(c)

LEMMA ReadNamed ==
  ASSUME DiskNamed, NEW c \in Calendars
  PROVE  InOwnFile(Read(c))
<1> SUFFICES ASSUME NEW p \in Read(c) PROVE p[2].uid = p[1]
  BY DEF InOwnFile
<1>1. PICK f \in FileNames : p \in {f} \X disk[c][f]
  BY DEF Read
<1>2. p[1] = f /\ p[2] \in disk[c][f]
  BY <1>1
<1> QED
  BY <1>2 DEF DiskNamed

\* Sets of events that events_differ takes for equal are equal, when every
\* event is in the file of its uid.
LEMMA NoDifference ==
  ASSUME FiniteCalendars, NEW old \in SUBSET Pairs, NEW new \in SUBSET Pairs,
         InOwnFile(old), InOwnFile(new), ~EventsDiffer(old, new)
  PROVE  old = new
<1>1. IsFiniteSet(Pairs)
  BY FS_Product DEF FiniteCalendars, Pairs
<1>2. IsFiniteSet(old) /\ Cardinality(new) = Cardinality(old)
  BY <1>1, FS_Subset DEF EventsDiffer
<1>3. \A p \in new : \E q \in old : p[2] = q[2]
  BY DEF EventsDiffer
<1>4. ASSUME NEW p \in new PROVE p \in old
  <2>1. PICK q \in old : p[2] = q[2]
    BY <1>3
  <2>2. p[1] = q[1]
    BY <2>1 DEF InOwnFile
  <2>3. p = <<p[1], p[2]>> /\ q = <<q[1], q[2]>>
    BY DEF Pairs
  <2> QED
    BY <2>1, <2>2, <2>3
<1> QED
  BY <1>2, <1>4, FS_Subset

LEMMA ShownSuffices ==
  ASSUME IInv, ShownInv
  PROVE  ShownFollowsDisk
<1> SUFFICES ASSUME Quiet, NEW c \in ToSet(calendars) \ missed, Alone(c)
             PROVE  shown[DisplayName[c]] = EventsOf(Read(c))
  BY DEF ShownFollowsDisk, Loaded, Alone
<1>1. buf = <<>> /\ queue = <<>> /\ thread.at = "selecting" /\ ui = "idle"
  BY DEF IInv, Places, Quiet
<1>2. CacheExplained(c)
  BY DEF ShownInv
<1>3. cached[c] = Read(c)
  BY <1>1, <1>2, ToSetEmpty DEF CacheExplained, Pending
<1>4. shown[DisplayName[c]] = EventsOf(cached[c])
  BY <1>1 DEF ShownInv, Told
<1> QED
  BY <1>3, <1>4

LEMMA InitShown ==
  ASSUME Init
  PROVE  ShownInv
<1>1. /\ ui = "off" /\ thread.fresh = {} /\ calendars = <<>>
      /\ \A c \in Calendars : component[c] = {} /\ cached[c] = {}
  BY DEF Init
<1>2. AllNamed
  BY <1>1 DEF AllNamed, InOwnFile
<1> QED
  BY <1>1, <1>2, ToSetEmpty DEF ShownInv, Told

\* A step that leaves what was told and read alone.
LEMMA ShownKept ==
  ASSUME IInv, ShownInv, UNCHANGED <<cached, shown, calendars, missed, thread>>,
         AllNamed', ui \in {"off", "loading", "watching"} => ui' \in {"off", "loading", "watching"},
         \A c \in Calendars : Read(c)' = Read(c) \/ (c \in ToSet(calendars) => Pending(c)'),
         \A c \in Calendars : Pending(c) => Pending(c)'
  PROVE  ShownInv'
<1>1. ToSet(calendars) \subseteq Calendars
  BY LoadedTyped
<1>2. Told'
  BY DEF ShownInv, Told, Alone
<1>3. ASSUME NEW c \in ToSet(calendars) \ missed PROVE CacheExplained(c)'
  <2>1. CacheExplained(c) /\ c \in Calendars
    BY <1>1 DEF ShownInv
  <2> QED
    BY <2>1 DEF CacheExplained
<1> QED
  BY <1>2, <1>3 DEF ShownInv

LEMMA ThreadStepShown ==
  ASSUME FiniteCalendars, IInv, Current, ShownInv, ThreadStep
  PROVE  ShownInv'
<1>1. ThreadOK /\ Places /\ QueueOK /\ MemoryOK /\ ToSet(calendars) \subseteq Calendars
  BY TypeIsParts, LoadedTyped DEF IInv, TypeParts
<1>2. AllNamed /\ Told /\ \A c \in ToSet(calendars) \ missed : CacheExplained(c)
  BY DEF ShownInv
<1>3. CASE ThreadStart \/ LoopHead \/ BatchDone
  <2>1. /\ thread'.at # "comparing" /\ thread.at # "comparing" /\ thread'.fresh = thread.fresh
    BY <1>1, <1>3 DEF ThreadStart, LoopHead, BatchDone, ThreadAt, Goes, ThreadOK
  <2>2. UNCHANGED <<disk, component, cached, calendars, missed, queue, buf, shown, ui>>
    BY <1>3 DEF ThreadStart, LoopHead, BatchDone, service, watching, user
  <2> QED
    BY <1>2, <2>1, <2>2
    DEF ShownInv, AllNamed, InOwnFile, Told, Alone, CacheExplained, Pending, Read
<1>4. CASE Select
  <2>1. /\ thread'.at # "comparing" /\ thread.at = "selecting" /\ thread'.fresh = thread.fresh
        /\ UNCHANGED <<disk, component, cached, calendars, missed, shown, ui>>
    BY <1>1, <1>4 DEF Select, ThreadAt, Goes, ThreadOK, user
  <2>2. ToSet(queue') \cup ToSet(buf') = ToSet(queue) \cup ToSet(buf)
    <3>1. buf = <<>>
      BY <1>1, <2>1 DEF Places
    <3> QED
      BY <1>4, <3>1, ToSetEmpty DEF Select
  <2> QED
    BY <1>2, <2>1, <2>2
    DEF ShownInv, AllNamed, InOwnFile, Told, Alone, CacheExplained, Pending, Read
<1>5. CASE Reload
  <2>0. PICK b : b = Head(buf)
    OBVIOUS
  <2>1. ToSet(buf) = {b} \cup ToSet(buf') /\ b \in Calendars
    BY <1>1, <1>5, <2>0, ToSetTail DEF Reload, QueueOK
  <2>2. /\ UNCHANGED <<disk, component, cached, calendars, queue, shown, ui>>
        /\ missed' = missed \ {b} /\ thread.at = "handling"
        /\ thread' = [at |-> "comparing", cal |-> b, fresh |-> Read(b)]
    BY <1>5, <2>0 DEF Reload, ThreadAt, user
  <2>3. /\ thread'.at = "comparing" /\ thread'.cal = b /\ thread'.fresh = Read(b)
        /\ \A c : Read(c)' = Read(c)
    BY <2>2 DEF Read
  <2>4. AllNamed'
    BY <1>2, <2>1, <2>2, <2>3, ReadNamed DEF AllNamed, InOwnFile, Current
  <2>5. ASSUME NEW c \in ToSet(calendars) \ missed' PROVE CacheExplained(c)'
    <3>1. CASE c = b
      BY <3>1, <2>3 DEF CacheExplained
    <3>2. CASE c # b
      <4>1. CacheExplained(c) /\ (Pending(c) => Pending(c)')
        BY <1>2, <2>1, <2>2, <3>2 DEF Pending
      <4> QED
        BY <4>1, <2>2, <2>3 DEF CacheExplained
    <3> QED
      BY <3>1, <3>2
  <2> QED
    BY <1>2, <2>2, <2>4, <2>5 DEF ShownInv, Told, Alone
<1>6. CASE Compare
  <2> SUFFICES ASSUME NEW t, t = thread.cal, NEW fresh, fresh = thread.fresh PROVE ShownInv'
    OBVIOUS
  <2>1. /\ thread.at = "comparing" /\ thread'.at = "replacing"
        /\ thread'.cal = t /\ thread'.fresh = fresh
        /\ UNCHANGED <<disk, component, calendars, missed, queue, buf, ui>>
        /\ t \in Calendars /\ t \in ToSet(calendars) /\ fresh \in SUBSET Pairs
    BY <1>1, <1>6 DEF Compare, ThreadAt, Goes, ThreadOK, watching, user, Places
  <2>2. /\ cached' = [cached EXCEPT ![t] = fresh]
        /\ IF EventsDiffer(cached[t], fresh) THEN shown' = OnChange(t, fresh, shown)
                                             ELSE shown' = shown
    <3>1. CASE EventsDiffer(cached[t], fresh)
      BY <1>6, <3>1 DEF Compare
    <3>2. CASE ~EventsDiffer(cached[t], fresh)
      <4>1. cached[t] = fresh
        BY <1>1, <1>2, <2>1, <3>2, NoDifference DEF MemoryOK, AllNamed
      <4>2. cached' = cached /\ shown' = shown
        BY <1>6, <3>2 DEF Compare
      <4> QED
        BY <1>1, <2>1, <3>2, <4>1, <4>2 DEF MemoryOK
    <3> QED
      BY <3>1, <3>2
  <2>3. cached'[t] = fresh /\ \A c \in Calendars \ {t} : cached'[c] = cached[c]
    BY <1>1, <2>1, <2>2 DEF MemoryOK
  <2>4. AllNamed'
    BY <1>2, <2>1, <2>3 DEF AllNamed
  <2>5. ASSUME ui \notin {"off", "loading", "watching"}, NEW c \in ToSet(calendars), Alone(c)
        PROVE  DisplayName[c] \in DOMAIN shown' /\ shown'[DisplayName[c]] = EventsOf(cached'[c])
    <3>1. DisplayName[c] \in DOMAIN shown /\ shown[DisplayName[c]] = EventsOf(cached[c])
      BY <1>2, <2>5 DEF Told
    <3>2. CASE EventsDiffer(cached[t], fresh)
      <4>1. shown' = OnChange(t, fresh, shown)
        BY <2>2, <3>2
      <4>2. c = t \/ DisplayName[c] # DisplayName[t]
        BY <2>1, <2>5 DEF Alone
      <4>3. DisplayName[c] \in DOMAIN shown'
        BY <3>1, <4>1 DEF OnChange
      <4>4. CASE c = t
        BY <2>3, <4>1, <4>4 DEF OnChange
      <4>5. CASE c # t
        <5>1. shown'[DisplayName[c]] = shown[DisplayName[c]]
          BY <3>1, <4>1, <4>2, <4>5 DEF OnChange
        <5> QED
          BY <1>1, <2>3, <2>5, <3>1, <4>3, <4>5, <5>1
      <4> QED
        BY <4>3, <4>4, <4>5
    <3>3. CASE ~EventsDiffer(cached[t], fresh)
      <4>1. shown' = shown
        BY <2>2, <3>3
      <4>2. cached'[c] = cached[c]
        <5>1. cached[t] = fresh
          BY <1>1, <1>2, <2>1, <3>3, NoDifference DEF MemoryOK, AllNamed
        <5> QED
          BY <1>1, <2>3, <2>5, <5>1
      <4> QED
        BY <3>1, <4>1, <4>2
    <3> QED
      BY <3>2, <3>3
  <2>6. ASSUME NEW c \in ToSet(calendars) \ missed PROVE CacheExplained(c)'
    <3>1. CASE c = t
      <4>1. fresh = Read(c) \/ Pending(c)
        BY <2>1, <3>1 DEF Current, FreshOrPending
      <4> QED
        BY <4>1, <2>1, <2>3, <3>1 DEF CacheExplained, Pending, Read
    <3>2. CASE c # t
      <4>1. CacheExplained(c) /\ cached'[c] = cached[c]
        BY <1>1, <1>2, <2>3, <3>2
      <4> QED
        BY <4>1, <2>1, <3>2 DEF CacheExplained, Pending, Read
    <3> QED
      BY <3>1, <3>2
  <2> QED
    BY <2>1, <2>4, <2>5, <2>6 DEF ShownInv, Told, Alone
<1>7. CASE Replace
  <2> SUFFICES ASSUME NEW t, t = thread.cal, NEW fresh, fresh = thread.fresh PROVE ShownInv'
    OBVIOUS
  <2>1. /\ UNCHANGED <<disk, cached, missed, calendars, queue, buf, ui, shown>>
        /\ component' = [component EXCEPT ![t] = fresh]
        /\ thread'.at = "handling" /\ thread.at = "replacing" /\ thread'.fresh = {}
    BY <1>1, <1>7 DEF Replace, ThreadAt, watching, ThreadOK
  <2>2. AllNamed'
    <3>1. \A c \in Calendars : component'[c] \in {component[c], fresh}
      BY <1>1, <2>1 DEF MemoryOK
    <3> QED
      BY <1>2, <2>1, <3>1 DEF AllNamed, InOwnFile
  <2> QED
    BY <1>2, <2>1, <2>2 DEF ShownInv, Told, Alone, CacheExplained, Pending, Read
<1> QED
  BY <1>3, <1>4, <1>5, <1>6, <1>7 DEF ThreadStep

\* Activation: the first callbacks tell what was read when each calendar was
\* loaded, the last of a name.
LEMMA StartShown ==
  ASSUME IInv, Current, ShownInv, Start
  PROVE  ShownInv'
<1>1. /\ thread.at # "comparing" /\ thread'.at = "starting" /\ thread'.fresh = thread.fresh
  BY TypeIsParts DEF IInv, TypeParts, ThreadOK, Places, Start
<1>2. UNCHANGED <<disk, component, cached, calendars, missed, queue, buf>>
  BY DEF Start, service, watching
<1>3. calendars \in Seq(Calendars) /\ Len(calendars) \in Nat
  BY TypeIsParts DEF IInv, TypeParts, ListOK
<1>4. ASSUME NEW c \in ToSet(calendars), Alone(c)
      PROVE  DisplayName[c] \in DOMAIN shown' /\ shown'[DisplayName[c]] = EventsOf(cached[c])
  <2> DEFINE name == DisplayName[c]
             I == Named(name)
  <2>1. PICK i \in 1 .. Len(calendars) : calendars[i] = c
    BY <1>3, ToSetElements
  <2>2. I \in SUBSET Nat /\ I # {} /\ \A x \in I : x <= Len(calendars)
    BY <1>3, <2>1 DEF Named
  <2>3. Max(I) \in I
    BY <1>3, <2>2, GreatestElement
  <2>4. Max(I) \in 1 .. Len(calendars) /\ DisplayName[calendars[Max(I)]] = name
    BY <2>3 DEF Named
  <2>5. calendars[Max(I)] \in ToSet(calendars)
    BY <1>3, <2>4, ToSetElements
  <2>6. calendars[Max(I)] = c
    BY <1>4, <2>4, <2>5 DEF Alone
  <2>7. shown' = [n \in {DisplayName[d] : d \in ToSet(calendars)} |->
                    EventsOf(cached[calendars[Max(Named(n))]])]
    BY DEF Start
  <2> QED
    BY <2>6, <2>7
<1>5. AllNamed'
  BY <1>1, <1>2 DEF ShownInv, AllNamed
<1>6. Told'
  BY <1>2, <1>4 DEF Told, Alone
<1>7. ASSUME NEW c \in ToSet(calendars) \ missed PROVE CacheExplained(c)'
  BY <1>1, <1>2 DEF ShownInv, CacheExplained, Pending, Read
<1> QED
  BY <1>2, <1>5, <1>6, <1>7 DEF ShownInv

LEMMA LoadShown ==
  ASSUME IInv, Current, ShownInv, Activate \/ Stop \/ Destroy
  PROVE  ShownInv'
<1>1. CASE Destroy
  <2>1. /\ calendars' = <<>> /\ ui' = "off" /\ thread' = thread
        /\ \A c \in Calendars : component'[c] = {} /\ cached'[c] = {}
    BY <1>1 DEF Destroy
  <2> QED
    BY <2>1, ToSetEmpty DEF ShownInv, AllNamed, InOwnFile, Told
<1>2. CASE Activate \/ Stop
  <2>1. /\ UNCHANGED <<disk, component, cached, calendars, missed, queue, buf, thread, shown>>
        /\ ui \in {"off", "idle"} /\ (ui = "off" => ui' = "loading")
    BY <1>2 DEF Activate, Stop, service, watching
  <2>2. AllNamed'
    BY <2>1 DEF ShownInv, AllNamed
  <2> QED
    BY <2>1, <2>2, ShownKept DEF Pending, Read
<1> QED
  BY <1>1, <1>2

LEMMA ReadCalendarShown ==
  ASSUME IInv, Current, ShownInv, NEW c \in Calendars, ReadCalendar(c)
  PROVE  ShownInv'
<1>1. /\ UNCHANGED <<disk, cached, calendars, missed, queue, buf, thread, shown>>
      /\ ui' \in {"loading", "watching"}
  BY DEF ReadCalendar, watching
<1>2. \A d \in Calendars : component'[d] \in {component[d], Read(c)}
  BY TypeIsParts DEF ReadCalendar, IInv, TypeParts, MemoryOK
<1>3. InOwnFile(Read(c))
  BY ReadNamed DEF Current
<1>4. AllNamed'
  <2>1. \A d \in Calendars : InOwnFile(component'[d])
    BY <1>2, <1>3 DEF ShownInv, AllNamed
  <2> QED
    BY <1>1, <2>1 DEF ShownInv, AllNamed
<1> QED
  BY <1>1, <1>4, ShownKept DEF Pending, Read

LEMMA WatchCalendarShown ==
  ASSUME IInv, Current, ShownInv, WatchCalendar
  PROVE  ShownInv'
<1> SUFFICES ASSUME NEW w, w = job.cal PROVE ShownInv'
  OBVIOUS
<1>1. /\ Places /\ w \in Calendars /\ calendars \in Seq(Calendars)
      /\ cached \in [Calendars -> SUBSET Pairs]
  BY TypeIsParts DEF IInv, TypeParts, JobOK, ListOK, MemoryOK
<1>2. /\ UNCHANGED <<disk, component, queue, buf, thread>> /\ ui = "watching" /\ ui' = "loading"
      /\ calendars' = Append(calendars, w) /\ cached' = [cached EXCEPT ![w] = component[w]]
      /\ missed' = IF component[w] = Read(w) THEN missed ELSE missed \cup {w}
  BY DEF WatchCalendar
<1>3. ToSet(calendars') = ToSet(calendars) \cup {w} /\ w \notin ToSet(calendars)
  BY <1>1, <1>2, ToSetAppend DEF Places
<1>4. cached'[w] = component[w] /\ \A c \in Calendars \ {w} : cached'[c] = cached[c]
  BY <1>1, <1>2
<1>5. AllNamed'
  BY <1>1, <1>2, <1>4 DEF ShownInv, AllNamed
<1>6. ASSUME NEW c \in ToSet(calendars') \ missed' PROVE CacheExplained(c)'
  <2>1. CASE c = w
    BY <1>2, <1>4, <2>1 DEF CacheExplained, Read
  <2>2. CASE c # w
    <3>1. CacheExplained(c) /\ cached'[c] = cached[c]
      BY <1>2, <1>3, <1>4, <2>2, LoadedTyped DEF ShownInv
    <3> QED
      BY <3>1, <1>2 DEF CacheExplained, Pending, Read
  <2> QED
    BY <2>1, <2>2
<1>7. Told'
  BY <1>2 DEF Told
<1> QED
  BY <1>5, <1>6, <1>7 DEF ShownInv

\* A change of the files of a loaded calendar is reported.
LEMMA DiskChangeShown ==
  ASSUME IInv, Current, ShownInv, NEW c \in Calendars, NEW f \in FileNames, NEW events,
         disk' = [disk EXCEPT ![c][f] = events], Report(c),
         UNCHANGED <<component, cached, calendars, missed, buf, thread, shown>>,
         ui \in {"off", "loading", "watching"} => ui' \in {"off", "loading", "watching"}
  PROVE  ShownInv'
<1>1. QueueOK /\ DiskOK
  BY TypeIsParts DEF IInv, TypeParts
<1>2. ToSet(queue) \subseteq ToSet(queue') /\ (c \in ToSet(calendars) => c \in ToSet(queue'))
  BY <1>1, Reported DEF QueueOK
<1>3. \A d \in Calendars \ {c} : Read(d)' = Read(d)
  BY <1>1 DEF Read, DiskOK
<1>4. AllNamed'
  BY DEF ShownInv, AllNamed
<1>5. \A d \in Calendars : Read(d)' = Read(d) \/ (d \in ToSet(calendars) => Pending(d)')
  BY <1>2, <1>3 DEF Pending
<1>6. \A d \in Calendars : Pending(d) => Pending(d)'
  BY <1>2 DEF Pending
<1> QED
  BY <1>4, <1>5, <1>6, ShownKept

LEMMA EditShown ==
  ASSUME IInv, Current, ShownInv, Truncate \/ Write \/ Unlink
  PROVE  ShownInv'
<1>1. job.cal \in Calendars /\ job.uid \in FileNames
  BY TypeIsParts DEF IInv, TypeParts, JobOK
<1>2. ASSUME NEW from \in {"truncating", "writing", "unlinking"}, NEW to, NEW events,
             SaveFile(from, to, events)
      PROVE  ShownInv'
  <2>1. /\ disk' = [disk EXCEPT ![job.cal][job.uid] = events] /\ Report(job.cal)
        /\ UNCHANGED <<component, cached, calendars, missed, buf, thread, shown>>
        /\ ui \notin {"off", "loading", "watching"}
    BY <1>2 DEF SaveFile, service
  <2> QED
    BY <1>1, <2>1, DiskChangeShown
<1>3. CASE Unlink /\ disk[job.cal][job.uid] = {}
  <2>1. /\ UNCHANGED <<disk, component, cached, calendars, missed, queue, buf, thread, shown>>
        /\ ui = "unlinking"
    BY <1>3 DEF Unlink, service, watching
  <2>2. AllNamed'
    BY <2>1 DEF ShownInv, AllNamed
  <2> QED
    BY <2>1, <2>2, ShownKept DEF Pending, Read
<1> QED
  BY <1>2, <1>3 DEF Truncate, Write, Unlink

LEMMA RemoteChangeShown ==
  ASSUME IInv, Current, ShownInv, NEW c \in Calendars, NEW f \in FileNames, RemoteChange(c, f)
  PROVE  ShownInv'
<1>1. PICK events \in Contents[c][f] : disk' = [disk EXCEPT ![c][f] = events]
  BY DEF RemoteChange
<1>2. /\ UNCHANGED <<component, cached, calendars, missed, buf, thread, shown>>
      /\ Report(c) /\ ui' = ui
  BY DEF RemoteChange, service
<1> QED
  BY <1>1, <1>2, DiskChangeShown

LEMMA ChangeComponentShown ==
  ASSUME IInv, Current, ShownInv, ChangeComponent
  PROVE  ShownInv'
<1>1. /\ UNCHANGED <<disk, cached, calendars, missed, queue, buf, thread, shown>> /\ ui = "found"
  BY DEF ChangeComponent, watching
<1>2. \A e \in job.new : e.uid = job.uid
  BY <1>1 DEF Current, JobNamed
<1>3. ASSUME NEW c \in Calendars PROVE InOwnFile(component'[c])
  <2>1. component'[c] \subseteq component[c] \cup ({job.uid} \X job.new)
    BY TypeIsParts DEF ChangeComponent, IInv, TypeParts, MemoryOK
  <2>2. InOwnFile(component[c])
    BY DEF ShownInv, AllNamed
  <2>3. InOwnFile({job.uid} \X job.new)
    BY <1>2 DEF InOwnFile
  <2> QED
    BY <2>1, <2>2, <2>3 DEF InOwnFile
<1>4. AllNamed'
  BY <1>1, <1>3 DEF ShownInv, AllNamed
<1> QED
  BY <1>1, <1>4, ShownKept DEF Pending, Read

\* Beginning and ending an edit.
LEMMA AsideShown ==
  ASSUME IInv, ShownInv, ui \in {"idle", "syncing"},
         UNCHANGED <<disk, component, cached, calendars, missed, queue, buf, thread, shown>>
  PROVE  ShownInv'
<1>1. AllNamed'
  BY DEF ShownInv, AllNamed
<1> QED
  BY <1>1, ShownKept DEF Pending, Read

LEMMA NextShown ==
  ASSUME FiniteCalendars, IInv, Current, ShownInv, [Next]_vars
  PROVE  ShownInv'
<1>1. CASE ThreadStep
  BY <1>1, ThreadStepShown
<1>2. CASE UserStep
  <2>1. CASE Synced
    BY <2>1, AsideShown DEF Synced, service, watching
  <2> QED
    BY <1>2, <2>1, ReadCalendarShown, WatchCalendarShown, StartShown, LoadShown,
       ChangeComponentShown, EditShown DEF UserStep
<1>3. CASE UserAsks
  <2>1. CASE Activate \/ Stop
    BY <2>1, LoadShown
  <2>2. CASE UNCHANGED <<disk, service, watching, thread, shown>> /\ ui = "idle"
    BY <2>2, AsideShown DEF service, watching
  <2> QED
    BY <1>3, <2>1, <2>2 DEF UserAsks, AddEvent, DeleteEvent, UpdateEvent, Begin
<1>4. CASE \E c \in Calendars, f \in FileNames : RemoteChange(c, f)
  BY <1>4, RemoteChangeShown
<1>5. CASE UNCHANGED vars
  <2>1. UNCHANGED <<disk, component, cached, calendars, missed, queue, buf, thread, shown, ui>>
    BY <1>5 DEF vars, service, watching, user
  <2>2. AllNamed'
    BY <2>1 DEF ShownInv, AllNamed
  <2> QED
    BY <2>1, <2>2, ShownKept DEF Pending, Read
<1> QED
  BY <1>1, <1>2, <1>3, <1>4, <1>5 DEF Next

\* When everything reported was handled, the plugin shows the events that are
\* on disk, for any number of calendars, files and events, provided each file
\* holds only events of its uid: then events_differ, which compares numbers
\* and finds each new event among the old, leaves out no change.
THEOREM ShownIsOnDisk == UidNamed /\ FiniteCalendars => (Spec => []ShownFollowsDisk)
<1> SUFFICES ASSUME UidNamed, FiniteCalendars PROVE Spec => []ShownFollowsDisk
  OBVIOUS
<1>1. Init => IInv /\ Current /\ ShownInv
  BY InitHolds, InitCurrent, InitShown
<1>2. IInv /\ Current /\ ShownInv /\ [Next]_vars => (IInv /\ Current /\ ShownInv)'
  BY NextHolds, NextCurrent, NextShown
<1>3. IInv /\ ShownInv => ShownFollowsDisk
  BY ShownSuffices
<1> QED
  BY <1>1, <1>2, <1>3, PTL DEF Spec

-----------------------------------------------------------------------------
(***************************************************************************)
(* An edit is exact.  The code finds the event by its uid in memory and    *)
(* writes the whole file named by it, so that the other events are left    *)
(* alone only if a file holds one event, the event of its name, and if     *)
(* nobody else makes files named by a second that is still to come.        *)
(***************************************************************************)
AtMostOne(events) == \A d, e \in events : d = e

OneEventPerFile ==
  \A c \in Calendars, f \in FileNames : \A events \in Contents[c][f] : AtMostOne(events)

StampsAreNew ==
  /\ IsInjective(Stamps)
  /\ \A c \in Calendars, s \in 1 .. Len(Stamps) : Contents[c][Stamps[s]] \subseteq {{}}

Editing == ui \in {"found", "truncating", "writing", "unlinking"}

\* The files of the seconds still to come, which no event is in.
Future == {Stamps[s] : s \in seconds + 1 .. Len(Stamps)}
NoneLater(S) == \A p \in S : p[2].uid \notin Future

Single ==
  (\A c \in Calendars, f \in FileNames : AtMostOne(disk[c][f])) /\ AtMostOne(job.new)

Untouched ==
  /\ \A c \in Calendars, f \in Future : disk[c][f] = {}
  /\ \A c \in Calendars : NoneLater(component[c])
  /\ NoneLater(thread.fresh)
  /\ Editing => job.uid \notin Future

\* The file that is edited has the old event until it is emptied.
Exact ==
  /\ ui = "unlinking" => job.new = {}
  /\ job.clean /\ ui \in {"found", "truncating", "unlinking"} =>
       disk[job.cal][job.uid] = job.old
  /\ job.clean /\ ui = "writing" =>
       disk[job.cal][job.uid] = {} /\ EventsOf(Read(job.cal)) = EventsOf(job.was) \ job.old

EditInv == Single /\ Untouched /\ Exact

\* The events of a directory, a file apart.
LEMMA EventsOfFiles ==
  ASSUME NEW d, NEW f \in FileNames
  PROVE  EventsOf(UNION {{g} \X d[g] : g \in FileNames}) =
           (UNION {d[g] : g \in FileNames \ {f}}) \cup d[f]
<1> DEFINE all == UNION {{g} \X d[g] : g \in FileNames}
           others == UNION {d[g] : g \in FileNames \ {f}}
<1>1. ASSUME NEW e \in EventsOf(all) PROVE e \in others \cup d[f]
  <2>1. PICK p \in all : e = p[2]
    BY DEF EventsOf
  <2>2. PICK g \in FileNames : p \in {g} \X d[g]
    BY <2>1
  <2>3. e \in d[g]
    BY <2>1, <2>2
  <2> QED
    BY <2>2, <2>3
<1>2. ASSUME NEW g \in FileNames, NEW e \in d[g] PROVE e \in EventsOf(all)
  <2>1. <<g, e>> \in {g} \X d[g] /\ <<g, e>>[2] = e
    OBVIOUS
  <2>2. <<g, e>> \in all
    BY <2>1
  <2> QED
    BY <2>1, <2>2 DEF EventsOf
<1> QED
  BY <1>1, <1>2

\* What is in the other files of a calendar.
Others(c, f) == UNION {disk[c][g] : g \in FileNames \ {f}}

\* When a file gets other events, the rest of the calendar stays.
LEMMA EventsOfChanged ==
  ASSUME DiskOK, NEW c \in Calendars, NEW f \in FileNames, NEW events,
         disk' = [disk EXCEPT ![c][f] = events]
  PROVE  /\ EventsOf(Read(c)) = Others(c, f) \cup disk[c][f]
         /\ EventsOf(Read(c))' = Others(c, f) \cup events
<1>1. EventsOf(Read(c)) = Others(c, f) \cup disk[c][f]
  BY EventsOfFiles DEF Read, Others
<1>2. EventsOf(UNION {{g} \X disk'[c][g] : g \in FileNames}) =
        (UNION {disk'[c][g] : g \in FileNames \ {f}}) \cup disk'[c][f]
  BY EventsOfFiles
<1>3. disk'[c][f] = events /\ \A g \in FileNames \ {f} : disk'[c][g] = disk[c][g]
  BY DEF DiskOK
<1>4. UNION {disk'[c][g] : g \in FileNames \ {f}} = Others(c, f)
  BY <1>3 DEF Others
<1>5. EventsOf(Read(c))' = EventsOf(UNION {{g} \X disk'[c][g] : g \in FileNames})
  BY DEF Read, EventsOf
<1> QED
  BY <1>1, <1>2, <1>3, <1>4, <1>5

\* The other files of the calendar do not hold the event that is edited.
LEMMA OthersKept ==
  ASSUME DiskNamed, JobNamed, Editing, job.cal \in Calendars
  PROVE  Others(job.cal, job.uid) \cap job.old = {}
<1> SUFFICES ASSUME NEW e \in Others(job.cal, job.uid), e \in job.old PROVE FALSE
  OBVIOUS
<1>1. PICK g \in FileNames \ {job.uid} : e \in disk[job.cal][g]
  BY DEF Others
<1>2. e.uid = g
  BY <1>1 DEF DiskNamed
<1>3. e.uid = job.uid
  BY DEF JobNamed, Editing
<1> QED
  BY <1>1, <1>2, <1>3

LEMMA ReadNoneLater ==
  ASSUME DiskNamed, Untouched, NEW c \in Calendars
  PROVE  NoneLater(Read(c))
<1> SUFFICES ASSUME NEW p \in Read(c) PROVE p[2].uid \notin Future
  BY DEF NoneLater
<1>1. PICK f \in FileNames : p \in {f} \X disk[c][f]
  BY DEF Read
<1>2. p[2] \in disk[c][f]
  BY <1>1
<1>3. p[2].uid = f
  BY <1>2 DEF DiskNamed
<1> QED
  BY <1>2, <1>3 DEF Untouched

-----------------------------------------------------------------------------
LEMMA InitEdit ==
  ASSUME UidNamed, OneEventPerFile, StampsAreNew, Init
  PROVE  EditInv
<1>1. /\ ui = "off" /\ thread.fresh = {} /\ job.new = {} /\ seconds = 0
      /\ \A c \in Calendars : component[c] = {}
      /\ \A c \in Calendars, f \in FileNames : disk[c][f] \in Contents[c][f]
  BY DEF Init, NoJob
<1>2. Single
  BY <1>1 DEF Single, OneEventPerFile, AtMostOne
<1>3. \A c \in Calendars, f \in Future : disk[c][f] = {}
  <2> SUFFICES ASSUME NEW c \in Calendars, NEW s \in seconds + 1 .. Len(Stamps)
               PROVE  disk[c][Stamps[s]] = {}
    BY DEF Future
  <2>1. s \in 1 .. Len(Stamps) /\ Stamps[s] \in FileNames
    BY <1>1, CalendarAssumption
  <2> QED
    BY <1>1, <2>1 DEF StampsAreNew
<1>4. Untouched
  BY <1>1, <1>3 DEF Untouched, NoneLater, Editing
<1> QED
  BY <1>1, <1>2, <1>4 DEF EditInv, Exact

\* Steps that neither edit nor touch the disk.
LEMMA EditKept ==
  ASSUME EditInv, UNCHANGED <<disk, seconds>>,
         \/ ui' = ui /\ job' = job
         \/ AtMostOne(job'.new) /\ ui' \in {"off", "loading", "watching", "idle", "joining",
                                           "syncing", "crashed"},
         \A c \in Calendars : NoneLater(component'[c]), NoneLater(thread'.fresh)
  PROVE  EditInv'
<1>1. Future' = Future
  BY DEF Future
<1>2. Single'
  BY DEF EditInv, Single, AtMostOne
<1>3. Untouched'
  <2>1. (Editing => job.uid \notin Future)'
    BY <1>1 DEF EditInv, Untouched, Editing
  <2>2. (\A c \in Calendars, f \in Future : disk[c][f] = {})'
    BY <1>1 DEF EditInv, Untouched
  <2>3. (\A c \in Calendars : NoneLater(component[c]))' /\ NoneLater(thread.fresh)'
    BY <1>1 DEF NoneLater
  <2> QED
    BY <2>1, <2>2, <2>3 DEF Untouched
<1>4. Exact'
  <2>1. CASE ui' = ui /\ job' = job
    BY <2>1 DEF EditInv, Exact, Read, EventsOf
  <2>2. CASE ui' \notin {"found", "truncating", "unlinking", "writing"}
    BY <2>2 DEF Exact
  <2> QED
    BY <2>1, <2>2
<1> QED
  BY <1>2, <1>3, <1>4 DEF EditInv

LEMMA ThreadStepEdit ==
  ASSUME IInv, Current, EditInv, ThreadStep
  PROVE  EditInv'
<1>1. ThreadOK /\ MemoryOK /\ QueueOK
  BY TypeIsParts DEF IInv, TypeParts
<1>2. UNCHANGED <<disk, seconds, ui, job>>
  BY DEF ThreadStep, ThreadStart, LoopHead, Select, BatchDone, Reload, Compare, Replace, user
<1>3. (\A c \in Calendars : NoneLater(component[c])) /\ NoneLater(thread.fresh)
  BY DEF EditInv, Untouched
<1>4. CASE ThreadStart \/ LoopHead \/ Select \/ BatchDone \/ Compare
  <2>1. component' = component /\ thread'.fresh = thread.fresh
    BY <1>1, <1>4 DEF ThreadStart, LoopHead, Select, BatchDone, Compare, Goes, ThreadOK, service
  <2> QED
    BY <1>2, <1>3, <2>1, EditKept
<1>5. CASE Reload
  <2>0. PICK b : b = Head(buf)
    OBVIOUS
  <2>1. b \in Calendars
    BY <1>1, <1>5, <2>0 DEF Reload, QueueOK
  <2>2. component' = component /\ thread'.fresh = Read(b)
    BY <1>5, <2>0 DEF Reload
  <2>3. NoneLater(thread'.fresh)
    BY <2>1, <2>2, ReadNoneLater DEF Current, EditInv
  <2> QED
    BY <1>2, <1>3, <2>2, <2>3, EditKept
<1>6. CASE Replace
  <2>1. /\ component' = [component EXCEPT ![thread.cal] = thread.fresh]
        /\ thread'.fresh = {}
    BY <1>1, <1>6 DEF Replace, ThreadOK
  <2>2. \A c \in Calendars : component'[c] \in {component[c], thread.fresh}
    BY <1>1, <2>1 DEF MemoryOK
  <2>3. \A c \in Calendars : NoneLater(component'[c])
    BY <1>3, <2>2
  <2>4. NoneLater(thread'.fresh)
    BY <2>1 DEF NoneLater
  <2> QED
    BY <1>2, <2>3, <2>4, EditKept
<1> QED
  BY <1>4, <1>5, <1>6 DEF ThreadStep

\* Loading, unloading, and the end of an edit.
LEMMA AsideEdit ==
  ASSUME IInv, Current, EditInv,
         \/ Activate \/ WatchCalendar \/ Start \/ Stop \/ Destroy \/ Synced
         \/ \E c \in Calendars : ReadCalendar(c)
  PROVE  EditInv'
<1>1. JobOK /\ MemoryOK
  BY TypeIsParts DEF IInv, TypeParts
<1>2. (\A c \in Calendars : NoneLater(component[c])) /\ NoneLater(thread.fresh)
      /\ AtMostOne(job.new)
  BY DEF EditInv, Untouched, Single
<1>3. CASE Activate \/ WatchCalendar \/ Start \/ Stop
  <2>1. /\ UNCHANGED <<disk, seconds, component, job>> /\ thread'.fresh = thread.fresh
        /\ ui' \in {"loading", "idle", "joining"}
    BY <1>3, TypeIsParts DEF Activate, WatchCalendar, Start, Stop, service, IInv, TypeParts, ThreadOK
  <2> QED
    BY <1>2, <2>1, EditKept
<1>4. CASE Synced
  <2>1. /\ UNCHANGED <<disk, seconds, component, thread>> /\ job'.new = {} /\ ui' = "idle"
    BY <1>4 DEF Synced, service, NoJob
  <2>2. AtMostOne(job'.new)
    BY <2>1 DEF AtMostOne
  <2> QED
    BY <1>2, <2>1, <2>2, EditKept
<1>5. CASE Destroy
  <2>1. /\ UNCHANGED <<disk, seconds, job, thread>> /\ ui' = "off"
        /\ \A c \in Calendars : component'[c] = {}
    BY <1>5 DEF Destroy
  <2>2. \A c \in Calendars : NoneLater(component'[c])
    BY <2>1 DEF NoneLater
  <2> QED
    BY <1>2, <2>1, <2>2, EditKept
<1>6. ASSUME NEW c \in Calendars, ReadCalendar(c) PROVE EditInv'
  <2>1. /\ UNCHANGED <<disk, seconds, thread>> /\ job'.new = job.new
        /\ ui' \in {"loading", "watching"}
    BY <1>1, <1>6 DEF ReadCalendar, JobOK
  <2>2. \A d \in Calendars : component'[d] \in {component[d], Read(c)}
    BY <1>1, <1>6 DEF ReadCalendar, MemoryOK
  <2>3. \A d \in Calendars : NoneLater(component'[d])
    BY <1>2, <2>2, ReadNoneLater DEF Current, EditInv
  <2> QED
    BY <1>2, <2>1, <2>3, EditKept
<1> QED
  BY <1>3, <1>4, <1>5, <1>6

LEMMA ChangeComponentEdit ==
  ASSUME IInv, Current, EditInv, ChangeComponent
  PROVE  EditInv'
<1>1. JobOK /\ MemoryOK
  BY TypeIsParts DEF IInv, TypeParts
<1>2. /\ UNCHANGED <<disk, seconds, thread, job>> /\ ui = "found"
      /\ ui' \in {"unlinking", "truncating", "crashed"} /\ (ui' = "unlinking" => job.new = {})
  BY DEF ChangeComponent
<1>3. job.uid \notin Future /\ \A e \in job.new : e.uid = job.uid
  BY <1>2 DEF EditInv, Untouched, Editing, Current, JobNamed
<1>4. Future' = Future
  BY <1>2 DEF Future
<1>5. ASSUME NEW c \in Calendars PROVE NoneLater(component[c])'
  <2>1. component'[c] \subseteq component[c] \cup ({job.uid} \X job.new)
    BY <1>1 DEF ChangeComponent, MemoryOK
  <2>2. NoneLater(component[c])
    BY DEF EditInv, Untouched
  <2> QED
    BY <1>3, <1>4, <2>1, <2>2 DEF NoneLater
<1>6. Single'
  BY <1>2 DEF EditInv, Single
<1>7. Untouched'
  <2>1. (\A c \in Calendars, f \in Future : disk[c][f] = {})' /\ NoneLater(thread.fresh)'
    BY <1>2, <1>4 DEF EditInv, Untouched, NoneLater
  <2> QED
    BY <1>2, <1>3, <1>4, <1>5, <2>1 DEF Untouched
<1>8. Exact'
  BY <1>2 DEF EditInv, Exact
<1> QED
  BY <1>6, <1>7, <1>8 DEF EditInv

\* An edit begins with the event that its file has on disk, if the component
\* is what is on disk.
LEMMA BeginEdit ==
  ASSUME IInv, Current, EditInv, ui = "idle", NEW c \in Calendars, NEW uid, NEW old, NEW new,
         NEW fresh, Begin(c, uid, old, new, fresh), UNCHANGED seconds \/ Future' \subseteq Future,
         AtMostOne(new), uid \notin Future',
         component[c] = Read(c) /\ fresh => disk[c][uid] = old
  PROVE  EditInv'
<1>1. /\ UNCHANGED <<disk, component, thread>> /\ ui' = "found"
      /\ job'.cal = c /\ job'.uid = uid /\ job'.old = old /\ job'.new = new
      /\ job'.clean = (component[c] = Read(c) /\ fresh)
  BY DEF Begin, service
<1>2. Future' \subseteq Future
  BY DEF Future
<1>3. Single'
  BY <1>1 DEF EditInv, Single, AtMostOne
<1>4. Untouched'
  <2>1. (\A d \in Calendars : NoneLater(component[d]))' /\ NoneLater(thread.fresh)'
    BY <1>1, <1>2 DEF EditInv, Untouched, NoneLater
  <2>2. (\A d \in Calendars, f \in Future : disk[d][f] = {})'
    BY <1>1, <1>2 DEF EditInv, Untouched
  <2> QED
    BY <1>1, <2>1, <2>2 DEF Untouched
<1>5. job'.clean => disk[c][uid] = old
  BY <1>1
<1>6. Exact'
  BY <1>1, <1>5 DEF Exact
<1> QED
  BY <1>3, <1>4, <1>6 DEF EditInv

\* The event that the loops find is alone in its file.
LEMMA FoundEdit ==
  ASSUME IInv, Current, EditInv, ui = "idle", NEW c \in Calendars, NEW uid,
         NEW target \in Found(c, uid), NEW new, AtMostOne(new),
         Begin(c, uid, {target}, new, TRUE), UNCHANGED seconds
  PROVE  EditInv'
<1>1. target \in EventsOf(component[c]) /\ target.uid = uid
  BY DEF Found
<1>2. PICK p \in component[c] : target = p[2]
  BY <1>1 DEF EventsOf
<1>3. Future' = Future /\ uid \notin Future
  BY <1>1, <1>2 DEF Future, EditInv, Untouched, NoneLater
<1>4. ASSUME component[c] = Read(c) PROVE disk[c][uid] = {target}
  <2>1. PICK f \in FileNames : p \in {f} \X disk[c][f]
    BY <1>2, <1>4 DEF Read
  <2>2. target \in disk[c][f]
    BY <1>2, <2>1
  <2>3. f = uid
    BY <1>1, <2>2 DEF Current, DiskNamed
  <2>4. AtMostOne(disk[c][f])
    BY DEF EditInv, Single
  <2> QED
    BY <2>2, <2>3, <2>4 DEF AtMostOne
<1> QED
  BY <1>3, <1>4, BeginEdit

LEMMA AddEventEdit ==
  ASSUME StampsAreNew, IInv, Current, EditInv, NEW name \in DOMAIN shown, NEW title,
         AddEvent(name, title)
  PROVE  EditInv'
<1>1. GetCalendar(name) \in Calendars /\ seconds \in 0 .. Len(Stamps)
  BY TypeIsParts, CalendarIsFound DEF AddEvent, IInv, TypeParts, UserOK
<1>2. PICK s \in seconds .. Len(Stamps) :
        /\ s > 0 /\ seconds' = s
        /\ Begin(GetCalendar(name), Stamps[s], {},
                 {[uid |-> Stamps[s], title |-> title, text |-> ""]}, s > seconds)
  BY DEF AddEvent
<1>3. Stamps \in Seq(FileNames) /\ Len(Stamps) \in Nat /\ DOMAIN Stamps = 1 .. Len(Stamps)
  BY CalendarAssumption
<1> DEFINE n == Len(Stamps)
<1>9. /\ n \in Nat /\ seconds \in 0 .. n /\ s \in seconds .. n /\ s > 0 /\ seconds' = s
      /\ DOMAIN Stamps = 1 .. n
  BY <1>1, <1>2, <1>3
<1> HIDE DEF n
<1>10. Future = {Stamps[r] : r \in seconds + 1 .. n} /\ Future' = {Stamps[r] : r \in s + 1 .. n}
  BY <1>9 DEF Future, n
<1>4. Future' \subseteq Future
  <2>1. s + 1 .. n \subseteq seconds + 1 .. n
    BY <1>9
  <2> QED
    BY <1>10, <2>1
<1>5. Stamps[s] \notin Future'
  <2>1. s \in DOMAIN Stamps /\ \A r \in s + 1 .. n : r \in DOMAIN Stamps /\ r # s
    BY <1>9
  <2>2. \A r \in s + 1 .. n : Stamps[r] # Stamps[s]
    BY <2>1 DEF StampsAreNew, IsInjective
  <2> QED
    BY <1>10, <2>2
<1>6. s > seconds => disk[GetCalendar(name)][Stamps[s]] = {}
  <2>1. s > seconds => s \in seconds + 1 .. n
    BY <1>9
  <2>2. s > seconds => Stamps[s] \in Future
    BY <1>10, <2>1
  <2> QED
    BY <1>1, <2>2 DEF EditInv, Untouched
<1>7. AtMostOne({[uid |-> Stamps[s], title |-> title, text |-> ""]})
  BY DEF AtMostOne
<1>8. ui = "idle"
  BY DEF AddEvent
<1> QED
  <2> DEFINE c == GetCalendar(name)
             new == {[uid |-> Stamps[s], title |-> title, text |-> ""]}
             fresh == s > seconds
  <2>1. Begin(c, Stamps[s], {}, new, fresh) /\ c \in Calendars /\ AtMostOne(new)
    BY <1>1, <1>2, <1>7
  <2>2. component[c] = Read(c) /\ fresh => disk[c][Stamps[s]] = {}
    BY <1>6
  <2> HIDE DEF c, new, fresh
  <2> QED
    BY <1>4, <1>5, <1>8, <2>1, <2>2, BeginEdit, Zenon

LEMMA UserAsksEdit ==
  ASSUME StampsAreNew, IInv, Current, EditInv, UserAsks
  PROVE  EditInv'
<1>1. ASSUME NEW name \in DOMAIN shown, NEW e \in shown[name], DeleteEvent(name, e)
      PROVE  EditInv'
  <2>1. GetCalendar(name) \in Calendars
    BY TypeIsParts, CalendarIsFound, <1>1 DEF IInv, TypeParts, DeleteEvent
  <2>2. PICK target \in Found(GetCalendar(name), e.uid) :
          Begin(GetCalendar(name), e.uid, {target}, {}, TRUE)
    BY <1>1 DEF DeleteEvent
  <2>3. AtMostOne({}) /\ ui = "idle" /\ UNCHANGED seconds
    BY <1>1 DEF AtMostOne, DeleteEvent
  <2> QED
    BY <2>1, <2>2, <2>3, FoundEdit
<1>2. ASSUME NEW name \in DOMAIN shown, NEW e \in shown[name], NEW field, NEW value,
             UpdateEvent(name, e, field, value)
      PROVE  EditInv'
  <2>1. GetCalendar(name) \in Calendars
    BY TypeIsParts, CalendarIsFound, <1>2 DEF IInv, TypeParts, UpdateEvent
  <2>2. PICK target \in Found(GetCalendar(name), e.uid) :
          Begin(GetCalendar(name), e.uid, {target}, {[target EXCEPT ![field] = value]}, TRUE)
    BY <1>2 DEF UpdateEvent
  <2>3. AtMostOne({[target EXCEPT ![field] = value]}) /\ ui = "idle" /\ UNCHANGED seconds
    BY <1>2 DEF AtMostOne, UpdateEvent
  <2> QED
    BY <2>1, <2>2, <2>3, FoundEdit
<1> QED
  BY <1>1, <1>2, AddEventEdit, AsideEdit DEF UserAsks

-----------------------------------------------------------------------------
(***************************************************************************)
(* The steps that change a file.                                           *)
(***************************************************************************)
\* A file gets at most one event, and none if it is of a second to come.
LEMMA FileChanged ==
  ASSUME IInv, EditInv, NEW c \in Calendars, NEW f \in FileNames, NEW events,
         disk' = [disk EXCEPT ![c][f] = events], AtMostOne(events), f \in Future => events = {},
         UNCHANGED <<component, thread, seconds>>,
         job'.new = job.new, job'.uid = job.uid, Editing' => Editing, Exact'
  PROVE  EditInv'
<1>1. DiskOK
  BY TypeIsParts DEF IInv, TypeParts
<1>2. \A d \in Calendars, g \in FileNames :
        disk'[d][g] = IF d = c /\ g = f THEN events ELSE disk[d][g]
  BY <1>1 DEF DiskOK
<1>3. Future' = Future /\ Future \subseteq FileNames
  <2>1. Future' = Future
    BY DEF Future
  <2>2. \A s \in seconds + 1 .. Len(Stamps) : Stamps[s] \in FileNames
    BY TypeIsParts, CalendarAssumption DEF IInv, TypeParts, UserOK
  <2> QED
    BY <2>1, <2>2 DEF Future
<1>4. Single'
  <2>1. AtMostOne(job'.new)
    BY DEF EditInv, Single
  <2>2. \A d \in Calendars, g \in FileNames : AtMostOne(disk'[d][g])
    BY <1>2 DEF EditInv, Single
  <2> QED
    BY <2>1, <2>2 DEF Single, AtMostOne
<1>5. Untouched'
  <2>1. (\A d \in Calendars, g \in Future : disk[d][g] = {})'
    BY <1>2, <1>3 DEF EditInv, Untouched
  <2>2. (\A d \in Calendars : NoneLater(component[d]))' /\ NoneLater(thread.fresh)'
    BY <1>3 DEF EditInv, Untouched, NoneLater
  <2>3. (Editing => job.uid \notin Future)'
    BY <1>3 DEF EditInv, Untouched
  <2> QED
    BY <2>1, <2>2, <2>3 DEF Untouched
<1> QED
  BY <1>4, <1>5 DEF EditInv

LEMMA RemoteChangeEdit ==
  ASSUME OneEventPerFile, StampsAreNew, IInv, EditInv,
         NEW c \in Calendars, NEW f \in FileNames, RemoteChange(c, f)
  PROVE  EditInv'
<1>1. JobOK /\ UserOK
  BY TypeIsParts DEF IInv, TypeParts
<1>2. PICK events \in Contents[c][f] : disk' = [disk EXCEPT ![c][f] = events]
  BY DEF RemoteChange
<1>3. /\ UNCHANGED <<component, thread, seconds, ui>>
      /\ job'.new = job.new /\ job'.uid = job.uid /\ job'.clean = FALSE
  BY <1>1 DEF RemoteChange, service, JobOK
<1>4. f \in Future => events = {}
  <2>1. ASSUME NEW s \in seconds + 1 .. Len(Stamps), f = Stamps[s] PROVE events = {}
    <3>1. s \in 1 .. Len(Stamps)
      BY <1>1, CalendarAssumption DEF UserOK
    <3> QED
      BY <1>2, <2>1, <3>1 DEF StampsAreNew
  <2> QED
    BY <2>1 DEF Future
<1>5. AtMostOne(events)
  BY <1>2 DEF OneEventPerFile
<1>6. Exact' /\ (Editing' => Editing)
  BY <1>3 DEF EditInv, Exact, Editing
<1> QED
  BY <1>2, <1>3, <1>4, <1>5, <1>6, FileChanged

LEMMA TruncateEdit ==
  ASSUME IInv, Current, EditInv, Truncate
  PROVE  EditInv'
<1> SUFFICES ASSUME NEW c, c = job.cal, NEW f, f = job.uid PROVE EditInv'
  OBVIOUS
<1>1. JobOK /\ DiskOK /\ c \in Calendars /\ f \in FileNames
  BY TypeIsParts DEF IInv, TypeParts, JobOK
<1>2. /\ disk' = [disk EXCEPT ![c][f] = {}] /\ ui = "truncating" /\ ui' = "writing"
      /\ UNCHANGED <<component, thread, seconds>>
  BY DEF Truncate, SaveFile, service
<1>3. /\ job'.new = job.new /\ job'.uid = f /\ job'.cal = c /\ job'.old = job.old
      /\ job'.clean = job.clean /\ job'.was = Read(c)
  BY <1>1 DEF Truncate, JobOK
<1>4. AtMostOne({}) /\ (Editing' => Editing)
  BY <1>2 DEF AtMostOne, Editing
<1>5. /\ EventsOf(Read(c)) = Others(c, f) \cup disk[c][f]
      /\ EventsOf(Read(c))' = Others(c, f) \cup {}
  BY <1>1, <1>2, EventsOfChanged
<1>6. Others(c, f) \cap job.old = {}
  BY <1>1, <1>2, OthersKept DEF Current, Editing
<1>7. ASSUME job.clean
      PROVE  disk'[c][f] = {} /\ EventsOf(Read(c))' = EventsOf(Read(c)) \ job.old
  <2>1. disk[c][f] = job.old
    BY <1>2, <1>7 DEF EditInv, Exact
  <2>2. disk'[c][f] = {}
    BY <1>1, <1>2 DEF DiskOK
  <2> QED
    BY <1>5, <1>6, <2>1, <2>2
<1>8. Exact'
  <2>1. EventsOf(Read(job.cal))' = EventsOf(Read(c))'
    BY <1>3 DEF Read, EventsOf
  <2>2. EventsOf(job'.was) = EventsOf(Read(c))
    BY <1>3
  <2> QED
    BY <1>2, <1>3, <1>7, <2>1, <2>2 DEF Exact
<1> QED
  BY <1>1, <1>2, <1>3, <1>4, <1>8, FileChanged

\* What the property says of a step.
ExactStep ==
  (ui # "syncing" /\ ui' = "syncing" /\ job.clean) =>
    EventsOf(Read(job.cal))' = (EventsOf(job'.was) \ job.old) \cup job.new

LEMMA WriteEdit ==
  ASSUME IInv, Current, EditInv, Write
  PROVE  EditInv' /\ ExactStep
<1> SUFFICES ASSUME NEW c, c = job.cal, NEW f, f = job.uid PROVE EditInv' /\ ExactStep
  OBVIOUS
<1>1. JobOK /\ DiskOK /\ c \in Calendars /\ f \in FileNames
  BY TypeIsParts DEF IInv, TypeParts, JobOK
<1>2. /\ disk' = [disk EXCEPT ![c][f] = job.new] /\ ui = "writing" /\ ui' = "syncing"
      /\ UNCHANGED <<component, thread, seconds, job>>
  BY DEF Write, SaveFile, service
<1>3. AtMostOne(job.new) /\ f \notin Future
  BY <1>2 DEF EditInv, Single, Untouched, Editing
<1>4. Exact' /\ (Editing' => Editing)
  BY <1>2 DEF Exact, Editing
<1>5. EditInv'
  BY <1>1, <1>2, <1>3, <1>4, FileChanged
<1>6. /\ EventsOf(Read(c)) = Others(c, f) \cup disk[c][f]
      /\ EventsOf(Read(c))' = Others(c, f) \cup job.new
  BY <1>1, <1>2, EventsOfChanged
<1>7. ASSUME job.clean
      PROVE  disk[c][f] = {} /\ EventsOf(Read(c)) = EventsOf(job.was) \ job.old
  BY <1>2, <1>7 DEF EditInv, Exact
<1>8. EventsOf(Read(job.cal))' = EventsOf(Read(c))'
  BY <1>2 DEF Read, EventsOf
<1> QED
  BY <1>2, <1>5, <1>6, <1>7, <1>8 DEF ExactStep

LEMMA UnlinkEdit ==
  ASSUME IInv, Current, EditInv, Unlink
  PROVE  EditInv' /\ ExactStep
<1> SUFFICES ASSUME NEW c, c = job.cal, NEW f, f = job.uid PROVE EditInv' /\ ExactStep
  OBVIOUS
<1>1. JobOK /\ DiskOK /\ c \in Calendars /\ f \in FileNames
  BY TypeIsParts DEF IInv, TypeParts, JobOK
<1>2. /\ ui = "unlinking" /\ ui' = "syncing"
      /\ UNCHANGED <<component, thread, seconds>>
  BY DEF Unlink, SaveFile, service
<1>3. /\ job'.new = job.new /\ job'.uid = f /\ job'.cal = c /\ job'.was = Read(c)
  BY <1>1 DEF Unlink, JobOK
<1>4. disk' = [disk EXCEPT ![c][f] = {}]
  <2>1. CASE disk[c][f] # {}
    BY <2>1 DEF Unlink, SaveFile
  <2>2. CASE disk[c][f] = {}
    BY <1>1, <2>2 DEF Unlink, DiskOK
  <2> QED
    BY <2>1, <2>2
<1>5. Exact' /\ (Editing' => Editing) /\ AtMostOne({})
  BY <1>2 DEF Exact, Editing, AtMostOne
<1>6. EditInv'
  BY <1>1, <1>2, <1>3, <1>4, <1>5, FileChanged
<1>7. /\ EventsOf(Read(c)) = Others(c, f) \cup disk[c][f]
      /\ EventsOf(Read(c))' = Others(c, f) \cup {}
  BY <1>1, <1>4, EventsOfChanged
<1>8. Others(c, f) \cap job.old = {} /\ job.new = {}
  BY <1>1, <1>2, OthersKept DEF Current, Editing, EditInv, Exact
<1>9. job.clean => disk[c][f] = job.old
  BY <1>2 DEF EditInv, Exact
<1>10. EventsOf(Read(job.cal))' = EventsOf(Read(c))' /\ EventsOf(job'.was) = EventsOf(Read(c))
  BY <1>3 DEF Read, EventsOf
<1> QED
  BY <1>2, <1>6, <1>7, <1>8, <1>9, <1>10 DEF ExactStep

LEMMA NextEdit ==
  ASSUME OneEventPerFile, StampsAreNew, IInv, Current, EditInv, [Next]_vars
  PROVE  EditInv' /\ ExactStep
<1>1. CASE ThreadStep
  <2>1. ui' = ui
    BY <1>1 DEF ThreadStep, ThreadStart, LoopHead, Select, BatchDone, Reload, Compare, Replace, user
  <2> QED
    BY <1>1, <2>1, ThreadStepEdit DEF ExactStep
<1>2. CASE Write \/ Unlink
  BY <1>2, WriteEdit, UnlinkEdit
<1>3. CASE UserStep /\ ~Write /\ ~Unlink
  <2>1. EditInv'
    BY <1>3, AsideEdit, ChangeComponentEdit, TruncateEdit DEF UserStep
  <2>2. ui' # "syncing"
    BY <1>3, TypeIsParts
    DEF UserStep, ReadCalendar, WatchCalendar, Start, Destroy, ChangeComponent, Truncate, SaveFile,
        Synced
  <2> QED
    BY <2>1, <2>2 DEF ExactStep
<1>4. CASE UserAsks
  <2>1. ui' # "syncing"
    BY <1>4 DEF UserAsks, Activate, Stop, AddEvent, DeleteEvent, UpdateEvent, Begin
  <2> QED
    BY <1>4, <2>1, UserAsksEdit DEF ExactStep
<1>5. ASSUME NEW c \in Calendars, NEW f \in FileNames, RemoteChange(c, f)
      PROVE  EditInv' /\ ExactStep
  <2>1. ui' = ui
    BY <1>5 DEF RemoteChange
  <2> QED
    BY <1>5, <2>1, RemoteChangeEdit DEF ExactStep
<1>6. CASE UNCHANGED vars
  <2>1. UNCHANGED <<disk, component, thread, seconds, job, ui>>
    BY <1>6 DEF vars, service, user
  <2>2. (\A c \in Calendars : NoneLater(component'[c])) /\ NoneLater(thread'.fresh)
    BY <2>1 DEF EditInv, Untouched
  <2> QED
    BY <2>1, <2>2, EditKept DEF ExactStep
<1> QED
  BY <1>1, <1>2, <1>3, <1>4, <1>5, <1>6 DEF Next

\* An edit of a calendar in which nothing else changes loses the event it was
\* given, puts the new one in its place, and leaves the others alone, for any
\* calendars, files and events, provided each file holds only one event, that
\* of its uid, and other programs write none to the files of added events.
THEOREM EditsAlwaysExact ==
  UidNamed /\ OneEventPerFile /\ StampsAreNew => (Spec => EditsAreExact)
<1> SUFFICES ASSUME UidNamed, OneEventPerFile, StampsAreNew PROVE Spec => EditsAreExact
  OBVIOUS
<1>1. Init => IInv /\ Current /\ EditInv
  BY InitHolds, InitCurrent, InitEdit
<1>2. IInv /\ Current /\ EditInv /\ [Next]_vars => (IInv /\ Current /\ EditInv)'
  BY NextHolds, NextCurrent, NextEdit
<1>3. IInv /\ Current /\ EditInv /\ [Next]_vars => [ExactStep]_vars
  BY NextEdit
<1>4. Spec => [][ExactStep]_vars
  BY <1>1, <1>2, <1>3, PTL DEF Spec
<1> QED
  BY <1>4 DEF EditsAreExact, ExactStep
=============================================================================
