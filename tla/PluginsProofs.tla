---------------------------- MODULE PluginsProofs ----------------------------
(***************************************************************************)
(* Proofs about Plugins.  A search of the systemd plugin does not return   *)
(* before its jobs: the counter is the number of units that are still out, *)
(* unread, waiting for a thread of the pool, or being worked on.  The      *)
(* cache of the snippets stays what the next start will load.  The agent   *)
(* iwd was told of is on the bus while no two threads register it.  A      *)
(* result of a file search opens its own file.  The list of downloads      *)
(* follows its folder, and the table of hosts its file.  A date without a  *)
(* year is its next occurrence, and typing on changes no more than the end *)
(* of an event.  At the end, the type invariant of all parts.              *)
(***************************************************************************)
EXTENDS Plugins, LibraryFacts

IsRunning(p, u) == \E job \in running : job.provider = p /\ job.unit = u

Out(p) == {u \in Units : u \in unread[p] \/ <<p, u>> \in queued \/ IsRunning(p, u)}

\* The counter counts; a provider that does not search has nothing out.
Counted ==
  \A p \in Providers :
    /\ search[p] = "units" => lock[p] = Cardinality(Out(p))
    /\ search[p] # "units" => Out(p) = {}

\* A unit is out once: it is counted down once.
OutOnce ==
  /\ \A p \in Providers, u \in Units :
       /\ u \in unread[p] => <<p, u>> \notin queued /\ ~IsRunning(p, u)
       /\ <<p, u>> \in queued => ~IsRunning(p, u)
  /\ \A j, k \in running : j.provider = k.provider /\ j.unit = k.unit => j = k

SystemdInv == SystemdPart!TypeOK /\ Counted /\ OutOnce

-----------------------------------------------------------------------------
\* The instance counts as the module of finite sets does.
LEMMA SameCardinality ==
  ASSUME NEW S
  PROVE  SystemdPart!Cardinality(S) = Cardinality(S)
BY DEF Cardinality, SystemdPart!Cardinality

\* What is out is a finite set, so that it can be counted.
LEMMA OutFinite ==
  ASSUME NEW p
  PROVE  IsFiniteSet(Out(p)) /\ Cardinality(Out(p)) \in Nat
<1>1. Out(p) \in SUBSET Units
  BY DEF Out
<1>2. IsFiniteSet(Out(p))
  BY <1>1, FS_Subset, UnitsAssumption DEF UnitsAssumption
<1> QED
  BY <1>2, FS_CardinalityType

\* A step that moves a unit on, and counts nothing.
LEMMA MovedOn ==
  ASSUME Counted, UNCHANGED <<search, lock>>,
         \A q \in Providers : Out(q)' = Out(q)
  PROVE  Counted'
BY DEF Counted

\* A step that is done with a unit, and counts it.
LEMMA CountedDown ==
  ASSUME SystemdPart!TypeOK, Counted, NEW p \in Providers, NEW u \in Out(p),
         UNCHANGED search, SystemdPart!Decrement(p),
         \A q \in Providers : Out(q)' = IF q = p THEN Out(p) \ {u} ELSE Out(q)
  PROVE  Counted'
<1>1. search[p] = "units"
  BY DEF Counted
<1>2. Cardinality(Out(p) \ {u}) = Cardinality(Out(p)) - 1
  BY OutFinite, FS_RemoveElement
<1>3. lock'[p] = lock[p] - 1 /\ \A q \in Providers \ {p} : lock'[q] = lock[q]
  BY DEF SystemdPart!Decrement, SystemdPart!TypeOK
<1>4. lock[p] = Cardinality(Out(p))
  BY <1>1 DEF Counted
<1>5. lock'[p] = Cardinality(Out(p)')
  BY <1>2, <1>3, <1>4
<1>6. ASSUME NEW q \in Providers
      PROVE  /\ search'[q] = "units" => lock'[q] = Cardinality(Out(q)')
             /\ search'[q] # "units" => Out(q)' = {}
  <2>1. CASE q = p
    BY <2>1, <1>1, <1>5
  <2>2. CASE q # p
    BY <2>2, <1>3 DEF Counted
  <2> QED BY <2>1, <2>2
<1> QED BY <1>6 DEF Counted

-----------------------------------------------------------------------------
\* A job that goes on to another place stays out, once.
LEMMA JobGoesOn ==
  ASSUME SystemdInv, NEW job \in running, NEW where \in SystemdPart!Places,
         SystemdPart!GoOn(job, where), UNCHANGED <<search, unread, lock, queued>>
  PROVE  Counted' /\ OutOnce'
<1> DEFINE next == [job EXCEPT !.at = where]
<1>1. job \in [provider : Providers, unit : Units, at : SystemdPart!Places]
  BY DEF SystemdInv, SystemdPart!TypeOK
<1>2. next.provider = job.provider /\ next.unit = job.unit
  BY <1>1
<1>3. running' = (running \ {job}) \cup {next}
  BY DEF SystemdPart!GoOn
<1> HIDE DEF next
<1>4. \A q, v : IsRunning(q, v)' <=> IsRunning(q, v)
  BY <1>2, <1>3 DEF IsRunning
<1>5. \A q : Out(q)' = Out(q)
  BY <1>4 DEF Out
<1>6. Counted'
  BY <1>5, MovedOn DEF SystemdInv
<1>7. OutOnce'
  BY <1>2, <1>3, <1>4 DEF SystemdInv, OutOnce
<1> QED BY <1>6, <1>7

\* A job that ends takes its unit off the count.
LEMMA JobEnds ==
  ASSUME SystemdInv, NEW job \in running,
         SystemdPart!End(job), SystemdPart!Decrement(job.provider),
         UNCHANGED <<search, unread, queued>>
  PROVE  Counted' /\ OutOnce'
<1> DEFINE p == job.provider
           u == job.unit
<1>1. p \in Providers /\ u \in Units
  BY DEF SystemdInv, SystemdPart!TypeOK
<1>2. running' = running \ {job}
  BY DEF SystemdPart!End
<1>3. IsRunning(p, u) /\ u \notin unread[p] /\ <<p, u>> \notin queued
  BY <1>1 DEF IsRunning, SystemdInv, OutOnce
<1>4. ~IsRunning(p, u)'
  BY <1>2 DEF IsRunning, SystemdInv, OutOnce
<1>5. \A q, v : <<q, v>> # <<p, u>> => (IsRunning(q, v)' <=> IsRunning(q, v))
  BY <1>2 DEF IsRunning
<1>6. \A q, v : IsRunning(q, v)' => IsRunning(q, v)
  BY <1>2 DEF IsRunning
<1>7. u \in Out(p)
  BY <1>1, <1>3 DEF Out
<1>8. ASSUME NEW q \in Providers
      PROVE  Out(q)' = IF q = p THEN Out(p) \ {u} ELSE Out(q)
  BY <1>3, <1>4, <1>5 DEF Out
<1> HIDE DEF u
<1>9. Counted'
  BY <1>1, <1>7, <1>8, CountedDown DEF SystemdInv
<1>10. OutOnce'
  BY <1>2, <1>6 DEF SystemdInv, OutOnce
<1> QED BY <1>9, <1>10

-----------------------------------------------------------------------------
\* Every step of the systemd plugin keeps the types of its variables.
LEMMA TypesKept ==
  ASSUME SystemdPart!TypeOK, SystemdPart!Next
  PROVE  SystemdPart!TypeOK'
<1> PICK p \in Providers :
      SystemdPart!Begin(p) \/ SystemdPart!SearchStep(p) \/ \E u \in Units : SystemdPart!JobStep(p, u)
  BY DEF SystemdPart!Next
<1>1. CASE SystemdPart!Begin(p)
  BY <1>1 DEF SystemdPart!Begin, SystemdPart!TypeOK
<1>2. CASE SystemdPart!ListUnitsFails(p)
  BY <1>2 DEF SystemdPart!ListUnitsFails, SystemdPart!TypeOK
<1>3. ASSUME NEW units \in SUBSET Units, SystemdPart!ListUnits(p, units)
      PROVE  SystemdPart!TypeOK'
  <2>1. SystemdPart!Cardinality(units) \in Int
    BY SameCardinality, FS_Subset, FS_CardinalityType, UnitsAssumption DEF UnitsAssumption
  <2> QED BY <1>3, <2>1 DEF SystemdPart!ListUnits, SystemdPart!TypeOK
<1>4. CASE SystemdPart!Return(p)
  BY <1>4 DEF SystemdPart!Return, SystemdPart!TypeOK
<1>5. ASSUME NEW u \in Units, NEW matches \in BOOLEAN, SystemdPart!NextUnit(p, u, matches)
      PROVE  SystemdPart!TypeOK'
  BY <1>5 DEF SystemdPart!NextUnit, SystemdPart!Decrement, SystemdPart!TypeOK
<1>6. ASSUME NEW u \in Units, SystemdPart!StartJob(<<p, u>>)
      PROVE  SystemdPart!TypeOK'
  BY <1>6 DEF SystemdPart!StartJob, SystemdPart!Job, SystemdPart!Places, SystemdPart!TypeOK
<1>7. ASSUME NEW job \in running, SystemdPart!Match(job) \/ SystemdPart!Ask(job) \/ SystemdPart!Add(job)
      PROVE  SystemdPart!TypeOK'
  <2> job.provider \in Providers /\ job.unit \in Units
    BY DEF SystemdPart!TypeOK
  <2>1. CASE SystemdPart!Match(job)
    BY <2>1 DEF SystemdPart!Match, SystemdPart!Decrement, SystemdPart!End, SystemdPart!GoOn,
                SystemdPart!Places, SystemdPart!TypeOK
  <2>2. CASE SystemdPart!Ask(job)
    BY <2>2 DEF SystemdPart!Ask, SystemdPart!Decrement, SystemdPart!End, SystemdPart!GoOn,
                SystemdPart!Places, SystemdPart!TypeOK
  <2>3. CASE SystemdPart!Add(job)
    BY <2>3 DEF SystemdPart!Add, SystemdPart!Decrement, SystemdPart!End, SystemdPart!GoOn,
                SystemdPart!Places, SystemdPart!TypeOK
  <2> QED BY <1>7, <2>1, <2>2, <2>3
<1> QED
  BY <1>1, <1>2, <1>3, <1>4, <1>5, <1>6, <1>7 DEF SystemdPart!SearchStep, SystemdPart!JobStep

-----------------------------------------------------------------------------
\* Every step of the systemd plugin keeps the count.
LEMMA CountKept ==
  ASSUME SystemdInv, SystemdPart!Next
  PROVE  Counted' /\ OutOnce'
<1> USE DEF SystemdInv
<1> PICK p \in Providers :
      SystemdPart!Begin(p) \/ SystemdPart!SearchStep(p) \/ \E u \in Units : SystemdPart!JobStep(p, u)
  BY DEF SystemdPart!Next
<1>1. ASSUME SystemdPart!Begin(p) \/ SystemdPart!ListUnitsFails(p)
      PROVE  Counted' /\ OutOnce'
  <2>1. search[p] # "units" /\ search'[p] # "units"
    BY <1>1 DEF SystemdPart!Begin, SystemdPart!ListUnitsFails, SystemdPart!TypeOK
  <2>2. \A q \in Providers \ {p} : search'[q] = search[q]
    BY <1>1 DEF SystemdPart!Begin, SystemdPart!ListUnitsFails, SystemdPart!TypeOK
  <2>3. UNCHANGED <<unread, lock, queued, running>>
    BY <1>1 DEF SystemdPart!Begin, SystemdPart!ListUnitsFails
  <2>4. \A q, v : IsRunning(q, v)' <=> IsRunning(q, v)
    BY <2>3 DEF IsRunning
  <2>5. \A q : Out(q)' = Out(q)
    BY <2>3, <2>4 DEF Out
  <2>6. Counted'
    BY <2>1, <2>2, <2>3, <2>5 DEF Counted
  <2>7. OutOnce'
    BY <2>3, <2>4 DEF OutOnce
  <2> QED BY <2>6, <2>7
<1>2. ASSUME NEW units \in SUBSET Units, SystemdPart!ListUnits(p, units)
      PROVE  Counted' /\ OutOnce'
  <2>1. Out(p) = {} /\ search'[p] = "units" /\ lock'[p] = Cardinality(units)
    BY <1>2, SameCardinality DEF Counted, SystemdPart!ListUnits, SystemdPart!TypeOK
  <2>2. UNCHANGED <<queued, running>> /\ unread'[p] = units
    BY <1>2 DEF SystemdPart!ListUnits, SystemdPart!TypeOK
  <2>3. \A q \in Providers \ {p} :
          search'[q] = search[q] /\ lock'[q] = lock[q] /\ unread'[q] = unread[q]
    BY <1>2 DEF SystemdPart!ListUnits, SystemdPart!TypeOK
  <2>4. \A q, v : IsRunning(q, v)' <=> IsRunning(q, v)
    BY <2>2 DEF IsRunning
  <2>5. \A v \in Units : <<p, v>> \notin queued /\ ~IsRunning(p, v)
    BY <2>1 DEF Out
  <2>6. Out(p)' = units
    BY <2>2, <2>4, <2>5 DEF Out
  <2>7. \A q \in Providers \ {p} : Out(q)' = Out(q)
    BY <2>2, <2>3, <2>4 DEF Out
  <2>8. Counted'
    BY <2>1, <2>3, <2>6, <2>7 DEF Counted
  <2>9. OutOnce'
    BY <2>2, <2>3, <2>4, <2>5 DEF OutOnce
  <2> QED BY <2>8, <2>9
<1>3. CASE SystemdPart!Return(p)
  <2>1. search[p] = "units" /\ unread[p] = {} /\ lock[p] <= 0 /\ search'[p] = "idle"
    BY <1>3 DEF SystemdPart!Return, SystemdPart!TypeOK
  <2>2. \A q \in Providers \ {p} : search'[q] = search[q]
    BY <1>3 DEF SystemdPart!Return, SystemdPart!TypeOK
  <2>3. UNCHANGED <<unread, lock, queued, running>>
    BY <1>3 DEF SystemdPart!Return
  <2>4. \A q, v : IsRunning(q, v)' <=> IsRunning(q, v)
    BY <2>3 DEF IsRunning
  <2>5. \A q : Out(q)' = Out(q)
    BY <2>3, <2>4 DEF Out
  <2>6. lock[p] = Cardinality(Out(p))
    BY <2>1 DEF Counted
  <2>7. Cardinality(Out(p)) = 0
    BY <2>1, <2>6, OutFinite
  <2>8. Out(p) = {}
    BY <2>7, OutFinite, FS_EmptySet
  <2>9. Counted'
    BY <2>1, <2>2, <2>3, <2>5, <2>8 DEF Counted
  <2>10. OutOnce'
    BY <2>3, <2>4 DEF OutOnce
  <2> QED BY <2>9, <2>10
<1>4. ASSUME NEW u \in Units, NEW matches \in BOOLEAN, SystemdPart!NextUnit(p, u, matches)
      PROVE  Counted' /\ OutOnce'
  <2>1. UNCHANGED <<search, running>> /\ u \in unread[p]
    BY <1>4 DEF SystemdPart!NextUnit
  <2>2. unread'[p] = unread[p] \ {u} /\ \A q \in Providers \ {p} : unread'[q] = unread[q]
    BY <1>4 DEF SystemdPart!NextUnit, SystemdPart!TypeOK
  <2>3. \A q, v : IsRunning(q, v)' <=> IsRunning(q, v)
    BY <2>1 DEF IsRunning
  <2>4. u \in Out(p) /\ <<p, u>> \notin queued /\ ~IsRunning(p, u)
    BY <2>1 DEF Out, OutOnce
  <2>5. CASE matches
    <3>1. queued' = queued \cup {<<p, u>>} /\ UNCHANGED lock
      BY <1>4, <2>5 DEF SystemdPart!NextUnit
    <3>2. \A q \in Providers : Out(q)' = Out(q)
      BY <2>1, <2>2, <2>3, <3>1 DEF Out
    <3>3. Counted'
      BY <2>1, <3>1, <3>2, MovedOn
    <3>4. OutOnce'
      BY <2>1, <2>2, <2>3, <2>4, <3>1 DEF OutOnce
    <3> QED BY <3>3, <3>4
  <2>6. CASE ~matches
    <3>1. UNCHANGED queued /\ SystemdPart!Decrement(p)
      BY <1>4, <2>6 DEF SystemdPart!NextUnit
    <3>2. \A q \in Providers : Out(q)' = IF q = p THEN Out(p) \ {u} ELSE Out(q)
      BY <2>2, <2>3, <2>4, <3>1 DEF Out
    <3>3. Counted'
      BY <2>1, <2>4, <3>1, <3>2, CountedDown
    <3>4. OutOnce'
      BY <2>1, <2>2, <2>3, <3>1 DEF OutOnce
    <3> QED BY <3>3, <3>4
  <2> QED BY <2>5, <2>6
<1>5. ASSUME NEW u \in Units, SystemdPart!StartJob(<<p, u>>)
      PROVE  Counted' /\ OutOnce'
  <2> DEFINE started == SystemdPart!Job(p, u, "matching")
  <2>1. started.provider = p /\ started.unit = u
    BY DEF SystemdPart!Job
  <2>2. /\ <<p, u>> \in queued /\ queued' = queued \ {<<p, u>>}
        /\ running' = running \cup {started}
        /\ UNCHANGED <<search, unread, lock>>
    BY <1>5 DEF SystemdPart!StartJob
  <2> HIDE DEF started
  <2>3. \A q, v : IsRunning(q, v)' <=> IsRunning(q, v) \/ (q = p /\ v = u)
    BY <2>1, <2>2 DEF IsRunning
  <2>4. ~IsRunning(p, u) /\ u \notin unread[p]
    BY <2>2 DEF OutOnce
  <2>5. \A q \in Providers : Out(q)' = Out(q)
    BY <2>2, <2>3 DEF Out
  <2>6. Counted'
    BY <2>2, <2>5, MovedOn
  <2>7. \A q \in Providers, v \in Units :
          /\ v \in unread'[q] => <<q, v>> \notin queued' /\ ~IsRunning(q, v)'
          /\ <<q, v>> \in queued' => ~IsRunning(q, v)'
    BY <2>2, <2>3, <2>4 DEF OutOnce
  <2>8. \A j, k \in running' : j.provider = k.provider /\ j.unit = k.unit => j = k
    BY <2>1, <2>2, <2>4 DEF OutOnce, IsRunning
  <2> QED BY <2>6, <2>7, <2>8 DEF OutOnce
<1>6. ASSUME NEW job \in running, SystemdPart!Match(job) \/ SystemdPart!Ask(job) \/ SystemdPart!Add(job)
      PROVE  Counted' /\ OutOnce'
  <2>1. UNCHANGED <<search, unread, queued>>
    BY <1>6 DEF SystemdPart!Match, SystemdPart!Ask, SystemdPart!Add
  <2>2. \/ SystemdPart!Decrement(job.provider) /\ SystemdPart!End(job)
        \/ UNCHANGED lock /\ \E where \in SystemdPart!Places : SystemdPart!GoOn(job, where)
    BY <1>6 DEF SystemdPart!Match, SystemdPart!Ask, SystemdPart!Add, SystemdPart!Places
  <2> QED BY <2>1, <2>2, JobEnds, JobGoesOn
<1> QED
  BY <1>1, <1>2, <1>3, <1>4, <1>5, <1>6 DEF SystemdPart!SearchStep, SystemdPart!JobStep

-----------------------------------------------------------------------------
\* The invariant holds at the start, ...
LEMMA SystemdInvInit == Init => SystemdInv
<1> SUFFICES ASSUME SystemdPart!Init PROVE SystemdInv
  BY DEF Init
<1> USE DEF SystemdPart!Init
<1>1. SystemdPart!TypeOK
  BY DEF SystemdPart!TypeOK
<1>2. \A p, u : ~IsRunning(p, u)
  BY DEF IsRunning
<1>3. \A p \in Providers : Out(p) = {} /\ search[p] # "units"
  BY <1>2 DEF Out
<1> QED BY <1>1, <1>2, <1>3 DEF SystemdInv, Counted, OutOnce

\* ... and every step keeps it: those of the other plugins leave the variables alone.
LEMMA SystemdInvNext == SystemdInv /\ [Next]_vars => SystemdInv'
<1> SUFFICES ASSUME SystemdInv, [Next]_vars PROVE SystemdInv'
  OBVIOUS
<1>1. CASE SystemdPart!Next
  BY <1>1, TypesKept, CountKept DEF SystemdInv
<1>2. CASE UNCHANGED systemd
  <2>1. SystemdPart!TypeOK'
    BY <1>2 DEF systemd, SystemdInv, SystemdPart!TypeOK, SystemdPart!Places
  <2>2. \A p : Out(p)' = Out(p)
    BY <1>2 DEF systemd, Out, IsRunning
  <2>3. Counted'
    BY <1>2, <2>2 DEF systemd, SystemdInv, Counted
  <2>4. OutOnce'
    BY <1>2 DEF systemd, SystemdInv, OutOnce, IsRunning
  <2> QED
    BY <2>1, <2>3, <2>4 DEF SystemdInv
<1> QED
  BY <1>1, <1>2 DEF Next, vars, DatesNext, DownloadsNext, SshNext, SnippetsNext, DesktopNext,
     SystemdNext, TransmissionNext, ResultsNext, WifiNext, NotDates, NotDownloads, NotSsh,
     NotSnippets, NotDesktop, NotTransmission, NotResults, NotWifi

\* What is queued or running is out, so its search has not returned.
LEMMA OutWithinSearch == SystemdInv => JobsWithinSearch
<1> SUFFICES ASSUME SystemdInv PROVE JobsWithinSearch
  OBVIOUS
<1>1. ASSUME NEW job \in queued PROVE search[job[1]] = "units"
  <2>1. PICK p \in Providers, u \in Units : job = <<p, u>>
    BY DEF SystemdInv, SystemdPart!TypeOK
  <2>2. u \in Out(p)
    BY <1>1, <2>1 DEF Out
  <2> QED BY <2>1, <2>2 DEF SystemdInv, Counted
<1>2. ASSUME NEW job \in running PROVE search[job.provider] = "units"
  <2>1. job.provider \in Providers /\ job.unit \in Units
    BY DEF SystemdInv, SystemdPart!TypeOK
  <2>2. job.unit \in Out(job.provider)
    BY <2>1 DEF Out, IsRunning
  <2> QED BY <2>1, <2>2 DEF SystemdInv, Counted
<1> QED BY <1>1, <1>2 DEF JobsWithinSearch, SystemdPart!JobsWithinSearch

\* However many units, providers and threads there are, a job of the systemd
\* plugin works only for a search that has not returned: nothing is added to
\* a container the launcher has thrown away
\* (src/systemd-service-plugin.vala).
THEOREM JobsAlwaysWithinSearch == Spec => []JobsWithinSearch
<1>1. Init => SystemdInv
  BY SystemdInvInit
<1>2. SystemdInv /\ [Next]_vars => SystemdInv'
  BY SystemdInvNext
<1>3. SystemdInv => JobsWithinSearch
  BY OutWithinSearch
<1> QED BY <1>1, <1>2, <1>3, PTL DEF Spec

-----------------------------------------------------------------------------
\* Every change of the table and of its cache keeps them together.
LEMMA CacheKept ==
  ASSUME CacheFollowsDatabase, SnippetsPart!Next
  PROVE  CacheFollowsDatabase'
<1> USE DEF CacheFollowsDatabase, SnippetsPart!CacheFollowsDatabase
<1>1. CASE SnippetsPart!Activate
  BY <1>1 DEF SnippetsPart!Activate
<1>2. CASE SnippetsPart!Deactivate
  BY <1>2 DEF SnippetsPart!Deactivate
<1>3. ASSUME NEW key \in Keys, SnippetsPart!Insert(key)
      PROVE  CacheFollowsDatabase'
  <2> DEFINE count == SnippetsPart!CountIn(snippets, key)
  <2>1. /\ db_open /\ unwritten' = unwritten \ {key}
        /\ replaced' = IF key \in DOMAIN snippets THEN replaced \cup {key} ELSE replaced \ {key}
        /\ snippets' = SnippetsPart!With(snippets, key, clock', count)
        /\ snippet_cache' = SnippetsPart!With(snippet_cache, key, clock', 0)
    BY <1>3 DEF SnippetsPart!Insert
  <2>2. key \notin DOMAIN snippets => count = 0
    BY DEF SnippetsPart!CountIn
  <2> HIDE DEF count
  <2>3. /\ DOMAIN snippets' = DOMAIN snippets \cup {key}
        /\ snippets'[key] = [last_used |-> clock', usage_count |-> count]
        /\ \A k \in DOMAIN snippets \ {key} : snippets'[k] = snippets[k]
    BY <2>1 DEF SnippetsPart!With
  <2>4. /\ DOMAIN snippet_cache' = DOMAIN snippet_cache \cup {key}
        /\ snippet_cache'[key] = [last_used |-> clock', usage_count |-> 0]
        /\ \A k \in DOMAIN snippet_cache \ {key} : snippet_cache'[k] = snippet_cache[k]
    BY <2>1 DEF SnippetsPart!With
  <2>5. snippets'[key].last_used = clock' /\ snippet_cache'[key].last_used = clock'
    BY <2>3, <2>4
  <2>6. key \notin replaced' => snippet_cache'[key] = snippets'[key]
    BY <2>1, <2>2, <2>3, <2>4
  <2> QED BY <2>1, <2>3, <2>4, <2>5, <2>6
<1>4. ASSUME NEW key \in Keys, SnippetsPart!Delete(key)
      PROVE  CacheFollowsDatabase'
  <2>1. /\ db_open
        /\ replaced' = replaced \ {key} /\ unwritten' = unwritten \ {key}
        /\ snippets' = SnippetsPart!Drop(snippets, key)
        /\ snippet_cache' = SnippetsPart!Drop(snippet_cache, key)
    BY <1>4 DEF SnippetsPart!Delete
  <2>2. /\ DOMAIN snippets' = DOMAIN snippets \ {key}
        /\ \A k \in DOMAIN snippets \ {key} : snippets'[k] = snippets[k]
    BY <2>1 DEF SnippetsPart!Drop, SnippetsPart!Restrict
  <2>3. /\ DOMAIN snippet_cache' = DOMAIN snippet_cache \ {key}
        /\ \A k \in DOMAIN snippet_cache \ {key} : snippet_cache'[k] = snippet_cache[k]
    BY <2>1 DEF SnippetsPart!Drop, SnippetsPart!Restrict
  <2> QED BY <2>1, <2>2, <2>3
<1>5. ASSUME NEW key \in Keys, SnippetsPart!Use(key, TRUE)
      PROVE  CacheFollowsDatabase'
  <2>1. /\ db_open /\ key \in DOMAIN snippets /\ UNCHANGED <<replaced, unwritten>>
        /\ snippets' = SnippetsPart!With(snippets, key, clock', snippets[key].usage_count + 1)
    BY <1>5 DEF SnippetsPart!Use
  <2>2. snippet_cache' =
          SnippetsPart!With(snippet_cache, key, clock', snippet_cache[key].usage_count + 1)
    BY <1>5, <2>1 DEF SnippetsPart!Use
  <2>3. /\ DOMAIN snippets' = DOMAIN snippets \cup {key}
        /\ snippets'[key] = [last_used |-> clock', usage_count |-> snippets[key].usage_count + 1]
        /\ \A k \in DOMAIN snippets \ {key} : snippets'[k] = snippets[k]
    BY <2>1 DEF SnippetsPart!With
  <2>4. /\ DOMAIN snippet_cache' = DOMAIN snippet_cache \cup {key}
        /\ snippet_cache'[key] =
             [last_used |-> clock', usage_count |-> snippet_cache[key].usage_count + 1]
        /\ \A k \in DOMAIN snippet_cache \ {key} : snippet_cache'[k] = snippet_cache[k]
    BY <2>2 DEF SnippetsPart!With
  <2>5. snippets'[key].last_used = clock' /\ snippet_cache'[key].last_used = clock'
    BY <2>3, <2>4
  <2>6. key \notin unwritten /\ key \notin replaced => snippet_cache'[key] = snippets'[key]
    BY <2>1, <2>3, <2>4
  <2> QED BY <2>1, <2>3, <2>4, <2>5, <2>6
<1>6. ASSUME NEW key \in Keys, SnippetsPart!Use(key, FALSE)
      PROVE  CacheFollowsDatabase'
  <2>1. /\ db_open /\ key \in DOMAIN snippets
        /\ UNCHANGED <<snippets, replaced>> /\ unwritten' = unwritten \cup {key}
    BY <1>6 DEF SnippetsPart!Use
  <2>2. snippet_cache' =
          SnippetsPart!With(snippet_cache, key, clock', snippet_cache[key].usage_count + 1)
    BY <1>6, <2>1 DEF SnippetsPart!Use
  <2>3. /\ DOMAIN snippet_cache' = DOMAIN snippet_cache \cup {key}
        /\ \A k \in DOMAIN snippet_cache \ {key} : snippet_cache'[k] = snippet_cache[k]
    BY <2>2 DEF SnippetsPart!With
  <2> QED BY <2>1, <2>3
<1> QED BY <1>1, <1>2, <1>3, <1>4, <1>5, <1>6 DEF SnippetsPart!Next

\* The cache of snippets is what the next start will load, but for counts of
\* snippets inserted again and for uses the database refused, for any number
\* of snippets and of changes (src/snippets-database.vala).
THEOREM CacheAlwaysFollowsDatabase == Spec => []CacheFollowsDatabase
<1>1. Init => CacheFollowsDatabase
  BY DEF Init, SnippetsPart!Init, CacheFollowsDatabase, SnippetsPart!CacheFollowsDatabase
<1>2. CacheFollowsDatabase /\ [Next]_vars => CacheFollowsDatabase'
  <2> SUFFICES ASSUME CacheFollowsDatabase, [Next]_vars PROVE CacheFollowsDatabase'
    OBVIOUS
  <2>1. CASE SnippetsPart!Next
    BY <2>1, CacheKept
  <2>2. CASE UNCHANGED snippet_vars
    BY <2>2 DEF snippet_vars, CacheFollowsDatabase, SnippetsPart!CacheFollowsDatabase
  <2> QED
    BY <2>1, <2>2 DEF Next, vars, DatesNext, DownloadsNext, SshNext, SnippetsNext, DesktopNext,
       SystemdNext, TransmissionNext, ResultsNext, WifiNext, NotDates, NotDownloads, NotSsh,
       NotSystemd, NotDesktop, NotTransmission, NotResults, NotWifi
<1> QED BY <1>1, <1>2, PTL DEF Spec

-----------------------------------------------------------------------------
(***************************************************************************)
(* The agent of the Wi-Fi plugin.  While one thread at a time activates or *)
(* deactivates, the object and its id agree but between their assignments, *)
(* and iwd has no agent of ours in the meantime; and iwd never has one     *)
(* that deactivate could not tell it to forget.                            *)
(***************************************************************************)
WifiTypes ==
  /\ given \in Nat /\ agent_registration_id \in 0 .. given /\ object \in 0 .. given
  /\ place \in [WifiPart!Callers ->
       WifiPart!Outside \cup {"connecting", "registering", "registered", "asking",
                              "failed", "unregistering", "forgetting"}]

Inside(t) == place[t] \notin WifiPart!Outside
OneInside == \A t, u \in WifiPart!Callers : Inside(t) /\ Inside(u) => t = u

\* What the thread inside knows at each place.
InsideKnows(t) ==
  /\ Inside(t) => ~iwd_agent
  /\ place[t] \in {"connecting", "registering", "forgetting"} =>
       object = 0 /\ agent_registration_id = 0
  /\ place[t] = "registered" => object = given /\ object # 0 /\ agent_registration_id = 0
  /\ place[t] = "asking" => object = agent_registration_id /\ object # 0
  /\ place[t] \in {"failed", "unregistering"} => object = agent_registration_id

WifiAlone == OneInside /\ (\A t \in WifiPart!Callers : InsideKnows(t)) /\ WifiPart!AgentAnswers

WifiInv == WifiTypes /\ (iwd_agent => agent_manager) /\ (~crossed => WifiAlone)

\* A step of a thread that is inside, which is the only one, and that goes on
\* inside or returns.
LEMMA InsideStep ==
  ASSUME WifiInv, ~crossed, NEW t \in WifiPart!Callers, Inside(t), NEW to,
         place' = [place EXCEPT ![t] = to], UNCHANGED crossed,
         InsideKnows(t)',
         to \in WifiPart!Outside =>
           object' = agent_registration_id' /\ (iwd_agent' => object' # 0)
  PROVE  WifiAlone'
<1>1. place'[t] = to /\ \A u \in WifiPart!Callers \ {t} : place'[u] = place[u]
  BY DEF WifiInv, WifiTypes
<1>2. \A u \in WifiPart!Callers \ {t} : ~Inside(u) /\ ~Inside(u)'
  BY <1>1 DEF WifiInv, WifiAlone, OneInside, Inside
<1>3. OneInside'
  BY <1>2 DEF OneInside
<1>4. \A u \in WifiPart!Callers \ {t} : InsideKnows(u)'
  BY <1>2 DEF InsideKnows, Inside, WifiPart!Outside
<1>5. WifiPart!AgentAnswers'
  BY <1>1 DEF WifiPart!AgentAnswers
<1> QED
  BY <1>3, <1>4, <1>5 DEF WifiAlone

\* A thread that goes in while nobody is inside.
LEMMA GoIn ==
  ASSUME WifiInv, ~crossed, NEW t \in WifiPart!Callers, ~Inside(t), NEW to,
         \A u \in WifiPart!Callers \ {t} : ~Inside(u),
         place' = [place EXCEPT ![t] = to], to \notin WifiPart!Outside,
         InsideKnows(t)'
  PROVE  WifiAlone'
<1>1. place'[t] = to /\ \A u \in WifiPart!Callers \ {t} : place'[u] = place[u]
  BY DEF WifiInv, WifiTypes
<1>2. \A u \in WifiPart!Callers \ {t} : ~Inside(u)'
  BY <1>1 DEF Inside
<1>3. OneInside'
  BY <1>2 DEF OneInside
<1>4. \A u \in WifiPart!Callers \ {t} : InsideKnows(u)'
  BY <1>2 DEF InsideKnows, Inside, WifiPart!Outside
<1>5. WifiPart!AgentAnswers'
  BY <1>1 DEF WifiPart!AgentAnswers
<1> QED
  BY <1>3, <1>4, <1>5 DEF WifiAlone

\* A thread outside that stays there disturbs nobody.
LEMMA StayOut ==
  ASSUME WifiInv, ~crossed, NEW t \in WifiPart!Callers, ~Inside(t), NEW to \in WifiPart!Outside,
         place' = [place EXCEPT ![t] = to],
         UNCHANGED <<crossed, object, given, agent_registration_id, iwd_agent>>
  PROVE  WifiAlone'
<1>1. place'[t] = to /\ \A u \in WifiPart!Callers \ {t} : place'[u] = place[u]
  BY DEF WifiInv, WifiTypes
<1>2. \A u \in WifiPart!Callers : Inside(u)' <=> Inside(u)
  BY <1>1 DEF Inside
<1>3. OneInside'
  BY <1>2 DEF OneInside, WifiInv, WifiAlone
<1>4. \A u \in WifiPart!Callers : InsideKnows(u)'
  <2> TAKE u \in WifiPart!Callers
  <2>1. CASE u = t
    BY <2>1, <1>1 DEF InsideKnows, Inside, WifiPart!Outside
  <2>2. CASE u # t
    BY <2>2, <1>1 DEF InsideKnows, Inside, WifiInv, WifiAlone
  <2> QED
    BY <2>1, <2>2
<1>5. WifiPart!AgentAnswers'
  BY <1>2 DEF WifiPart!AgentAnswers, Inside, WifiInv, WifiAlone
<1> QED
  BY <1>3, <1>4, <1>5 DEF WifiAlone

\* Entering activate: with an object registered it returns at once.
LEMMA EnterKeeps ==
  ASSUME WifiInv, NEW t \in WifiPart!Callers, ~Inside(t), WifiPart!Enter(t),
         UNCHANGED <<object, given, agent_registration_id, iwd_agent>>
  PROVE  ~crossed' => WifiAlone'
<1> SUFFICES ASSUME ~crossed' PROVE WifiAlone'
  OBVIOUS
<1>1. CASE agent_registration_id # 0
  <2> DEFINE to == IF t = WifiPart!UI THEN "idle" ELSE "searching"
  <2>1. place' = [place EXCEPT ![t] = to] /\ UNCHANGED crossed
    BY <1>1 DEF WifiPart!Enter, WifiPart!Return, WifiPart!Go
  <2>2. to \in WifiPart!Outside
    BY DEF WifiPart!Outside
  <2> HIDE DEF to
  <2> QED
    BY <2>1, <2>2, StayOut
<1>2. CASE agent_registration_id = 0
  <2>1. place' = [place EXCEPT ![t] = "connecting"] /\ WifiPart!Overlap(t)
    BY <1>2 DEF WifiPart!Enter, WifiPart!Go
  <2>2. ~crossed /\ \A u \in WifiPart!Callers \ {t} : ~Inside(u)
    BY <2>1 DEF WifiPart!Overlap, Inside
  <2>3. object = 0 /\ ~iwd_agent
    BY <1>2, <2>2 DEF WifiInv, WifiAlone, WifiPart!AgentAnswers, Inside
  <2>4. place'[t] = "connecting"
    BY <2>1 DEF WifiInv, WifiTypes
  <2>5. InsideKnows(t)'
    BY <1>2, <2>3, <2>4 DEF InsideKnows
  <2>6. "connecting" \notin WifiPart!Outside
    BY DEF WifiPart!Outside
  <2> QED
    BY <2>1, <2>2, <2>5, <2>6, GoIn
<1> QED
  BY <1>1, <1>2

\* The steps of activate.
LEMMA ActivateKeeps ==
  ASSUME WifiInv, ~crossed, NEW t \in WifiPart!Callers,
         \/ WifiPart!GetBusFails(t) \/ WifiPart!MakeManager(t) \/ WifiPart!RegisterObject(t)
         \/ WifiPart!AssignId(t) \/ WifiPart!RegisterAgent(t) \/ WifiPart!Catch(t)
  PROVE  WifiAlone'
<1> USE DEF WifiPart!fields, WifiPart!around
<1> DEFINE back == IF t = WifiPart!UI THEN "idle" ELSE "searching"
<1>1. /\ back \in WifiPart!Outside
      /\ \A p \in {"connecting", "registering", "registered", "asking", "failed",
                   "unregistering", "forgetting"} :
           p \notin WifiPart!Outside
  BY DEF WifiPart!Outside
<1>2. \A to : place' = [place EXCEPT ![t] = to] => place'[t] = to
  BY DEF WifiInv, WifiTypes
<1>3. InsideKnows(t)
  BY DEF WifiInv, WifiAlone
<1>4. WifiPart!Return(t) => place' = [place EXCEPT ![t] = back]
  BY DEF WifiPart!Return, WifiPart!Go
<1> HIDE DEF back
<1>5. place'[t] = back => InsideKnows(t)'
  BY <1>1 DEF InsideKnows, Inside
<1>6. CASE WifiPart!GetBusFails(t)
  <2>1. /\ place[t] = "connecting" /\ WifiPart!Return(t)
        /\ UNCHANGED <<object, agent_registration_id, iwd_agent, crossed>>
    BY <1>6 DEF WifiPart!GetBusFails
  <2>2. object = 0 /\ agent_registration_id = 0 /\ ~iwd_agent /\ Inside(t)
    BY <1>1, <1>3, <2>1 DEF InsideKnows, Inside
  <2> QED
    BY <1>1, <1>2, <1>4, <1>5, <2>1, <2>2, InsideStep
<1>7. CASE WifiPart!MakeManager(t)
  <2>1. /\ place[t] = "connecting"
        /\ UNCHANGED <<object, agent_registration_id, iwd_agent, crossed>>
    BY <1>7 DEF WifiPart!MakeManager
  <2>2. PICK to \in {"registering", "failed"} : place' = [place EXCEPT ![t] = to]
    BY <1>7 DEF WifiPart!MakeManager, WifiPart!Go
  <2>3. object = 0 /\ agent_registration_id = 0 /\ ~iwd_agent /\ Inside(t)
    BY <1>1, <1>3, <2>1 DEF InsideKnows, Inside
  <2>4. InsideKnows(t)'
    BY <1>2, <2>1, <2>2, <2>3 DEF InsideKnows
  <2> QED
    BY <1>1, <2>1, <2>2, <2>3, <2>4, InsideStep
<1>8. CASE WifiPart!RegisterObject(t)
  <2>1. /\ place[t] = "registering"
        /\ UNCHANGED <<agent_registration_id, iwd_agent, crossed>>
    BY <1>8 DEF WifiPart!RegisterObject
  <2>2. object = 0 /\ agent_registration_id = 0 /\ ~iwd_agent /\ Inside(t)
    BY <1>1, <1>3, <2>1 DEF InsideKnows, Inside
  <2>3. given' = given + 1 /\ object' = given' /\ place' = [place EXCEPT ![t] = "registered"]
    BY <1>8, <2>2 DEF WifiPart!RegisterObject, WifiPart!Go
  <2>4. object' # 0
    BY <2>3 DEF WifiInv, WifiTypes
  <2>5. InsideKnows(t)'
    BY <1>2, <2>1, <2>2, <2>3, <2>4 DEF InsideKnows
  <2> QED
    BY <1>1, <2>1, <2>2, <2>3, <2>5, InsideStep
<1>9. CASE WifiPart!AssignId(t)
  <2>1. /\ place[t] = "registered" /\ agent_registration_id' = given
        /\ place' = [place EXCEPT ![t] = "asking"]
        /\ UNCHANGED <<object, given, iwd_agent, crossed>>
    BY <1>9 DEF WifiPart!AssignId, WifiPart!Go
  <2>2. object = given /\ object # 0 /\ ~iwd_agent /\ Inside(t)
    BY <1>1, <1>3, <2>1 DEF InsideKnows, Inside
  <2>3. InsideKnows(t)'
    BY <1>2, <2>1, <2>2 DEF InsideKnows
  <2> QED
    BY <1>1, <2>1, <2>2, <2>3, InsideStep
<1>10. CASE WifiPart!RegisterAgent(t)
  <2>1. /\ place[t] = "asking" /\ UNCHANGED <<object, given, agent_registration_id, crossed>>
    BY <1>10 DEF WifiPart!RegisterAgent
  <2>2. object = agent_registration_id /\ object # 0 /\ ~iwd_agent /\ Inside(t)
    BY <1>1, <1>3, <2>1 DEF InsideKnows, Inside
  <2>3. CASE place' = [place EXCEPT ![t] = back]
    BY <1>1, <1>2, <1>5, <2>1, <2>2, <2>3, InsideStep
  <2>4. CASE place' = [place EXCEPT ![t] = "failed"] /\ UNCHANGED iwd_agent
    <3>1. InsideKnows(t)'
      BY <1>2, <2>1, <2>2, <2>4 DEF InsideKnows
    <3> QED
      BY <1>1, <2>1, <2>2, <2>4, <3>1, InsideStep
  <2> QED
    BY <1>4, <1>10, <2>3, <2>4 DEF WifiPart!RegisterAgent, WifiPart!Go
<1>11. CASE WifiPart!Catch(t)
  <2>1. /\ place[t] = "failed" /\ WifiPart!Return(t) /\ UNCHANGED <<iwd_agent, crossed>>
        /\ object' = (IF object = agent_registration_id THEN 0 ELSE object)
        /\ agent_registration_id' = 0
    BY <1>11 DEF WifiPart!Catch, WifiPart!Unregister
  <2>2. object = agent_registration_id /\ ~iwd_agent /\ Inside(t)
    BY <1>1, <1>3, <2>1 DEF InsideKnows, Inside
  <2> QED
    BY <1>1, <1>2, <1>4, <1>5, <2>1, <2>2, InsideStep
<1> QED
  BY <1>6, <1>7, <1>8, <1>9, <1>10, <1>11

\* The launcher and iwd.
LEMMA LauncherKeeps ==
  ASSUME WifiInv, ~crossed',
         \/ WifiPart!SwitchOn \/ WifiPart!SwitchOff \/ WifiPart!UnregisterObject
         \/ WifiPart!ForgetManager \/ WifiPart!IwdTurns
         \/ \E t \in Searchers : WifiPart!Search(t) \/ WifiPart!FindManager(t) \/ WifiPart!Cancel(t)
  PROVE  WifiAlone'
<1> USE DEF WifiPart!fields, WifiPart!around
<1> DEFINE ui == WifiPart!UI
<1>1. ui \in WifiPart!Callers /\ Searchers \subseteq WifiPart!Callers
  BY DEF WifiPart!Callers
<1>2. /\ "idle" \in WifiPart!Outside /\ "searching" \in WifiPart!Outside
      /\ \A p \in {"unregistering", "forgetting"} : p \notin WifiPart!Outside
  BY DEF WifiPart!Outside
<1>3. \A t \in WifiPart!Callers : \A to : place' = [place EXCEPT ![t] = to] => place'[t] = to
  BY DEF WifiInv, WifiTypes
<1> HIDE DEF ui
<1>4. CASE WifiPart!SwitchOn
  <2>1. /\ place[ui] = "idle" /\ WifiPart!Enter(ui)
        /\ UNCHANGED <<object, given, agent_registration_id, iwd_agent>>
    BY <1>4 DEF WifiPart!SwitchOn, ui
  <2> QED
    BY <1>1, <1>2, <2>1, EnterKeeps DEF Inside
<1>5. CASE WifiPart!SwitchOff
  <2>1. /\ place[ui] = "idle" /\ place' = [place EXCEPT ![ui] = "unregistering"]
        /\ iwd_agent' = (iwd_agent /\ ~agent_manager) /\ WifiPart!Overlap(ui)
        /\ UNCHANGED <<object, agent_registration_id>>
    BY <1>5 DEF WifiPart!SwitchOff, WifiPart!Go, ui
  <2>2. ~crossed /\ ~Inside(ui) /\ \A u \in WifiPart!Callers \ {ui} : ~Inside(u)
    BY <1>2, <2>1 DEF WifiPart!Overlap, Inside
  <2>3. object = agent_registration_id
    BY <2>2 DEF WifiInv, WifiAlone, WifiPart!AgentAnswers, Inside
  <2>4. ~iwd_agent'
    BY <2>1 DEF WifiInv
  <2>5. InsideKnows(ui)'
    BY <1>1, <1>3, <2>1, <2>3, <2>4 DEF InsideKnows
  <2> QED
    BY <1>1, <1>2, <2>1, <2>2, <2>5, GoIn
<1>6. CASE WifiPart!UnregisterObject
  <2>1. /\ place[ui] = "unregistering" /\ place' = [place EXCEPT ![ui] = "forgetting"]
        /\ object' = (IF object = agent_registration_id THEN 0 ELSE object)
        /\ agent_registration_id' = 0 /\ UNCHANGED <<iwd_agent, crossed>>
    BY <1>6 DEF WifiPart!UnregisterObject, WifiPart!Unregister, WifiPart!Go, ui
  <2>2. object = agent_registration_id /\ ~iwd_agent /\ Inside(ui) /\ ~crossed
    BY <1>1, <1>2, <2>1 DEF WifiInv, WifiAlone, InsideKnows, Inside
  <2>3. InsideKnows(ui)'
    BY <1>1, <1>3, <2>1, <2>2 DEF InsideKnows
  <2> QED
    BY <1>1, <1>2, <2>1, <2>2, <2>3, InsideStep
<1>7. CASE WifiPart!ForgetManager
  <2>1. /\ place[ui] = "forgetting" /\ place' = [place EXCEPT ![ui] = "idle"]
        /\ UNCHANGED <<object, agent_registration_id, iwd_agent, crossed>>
    BY <1>7 DEF WifiPart!ForgetManager, WifiPart!Go, ui
  <2>2. object = 0 /\ agent_registration_id = 0 /\ ~iwd_agent /\ Inside(ui) /\ ~crossed
    BY <1>1, <1>2, <2>1 DEF WifiInv, WifiAlone, InsideKnows, Inside
  <2>3. InsideKnows(ui)'
    BY <1>1, <1>2, <1>3, <2>1 DEF InsideKnows, Inside
  <2> QED
    BY <1>1, <2>1, <2>2, <2>3, InsideStep
<1>8. CASE WifiPart!IwdTurns
  <2>1. ~iwd_agent' /\ UNCHANGED <<object, given, agent_registration_id, place, crossed>>
    BY <1>8 DEF WifiPart!IwdTurns
  <2>2. WifiAlone /\ OneInside' /\ \A t : Inside(t)' <=> Inside(t)
    BY <2>1 DEF WifiInv, WifiAlone, OneInside, Inside
  <2>3. \A t \in WifiPart!Callers : InsideKnows(t)'
    BY <2>1, <2>2 DEF WifiAlone, InsideKnows
  <2>4. WifiPart!AgentAnswers'
    BY <2>1, <2>2 DEF WifiAlone, WifiPart!AgentAnswers
  <2> QED
    BY <2>2, <2>3, <2>4 DEF WifiAlone
<1>9. ASSUME NEW t \in Searchers, WifiPart!Search(t) \/ WifiPart!Cancel(t) PROVE WifiAlone'
  <2>1. PICK to \in WifiPart!Outside : place' = [place EXCEPT ![t] = to]
    BY <1>2, <1>9 DEF WifiPart!Search, WifiPart!Cancel, WifiPart!Go
  <2>2. /\ ~Inside(t) /\ t \in WifiPart!Callers
        /\ UNCHANGED <<crossed, object, given, agent_registration_id, iwd_agent>>
    BY <1>1, <1>2, <1>9 DEF WifiPart!Search, WifiPart!Cancel, Inside
  <2> QED
    BY <2>1, <2>2, StayOut
<1>10. ASSUME NEW t \in Searchers, WifiPart!FindManager(t) PROVE WifiAlone'
  <2>1. /\ ~Inside(t) /\ t \in WifiPart!Callers
        /\ UNCHANGED <<object, given, agent_registration_id, iwd_agent>>
    BY <1>1, <1>2, <1>10 DEF WifiPart!FindManager, Inside
  <2>2. CASE manager
    <3>1. place' = [place EXCEPT ![t] = "idle"] /\ UNCHANGED crossed
      BY <1>10, <2>2 DEF WifiPart!FindManager, WifiPart!Go
    <3> QED
      BY <1>2, <2>1, <3>1, StayOut
  <2>3. CASE ~manager
    <3>1. WifiPart!Enter(t)
      BY <1>10, <2>3 DEF WifiPart!FindManager
    <3> QED
      BY <2>1, <3>1, EnterKeeps
  <2> QED
    BY <2>2, <2>3
<1> QED
  BY <1>4, <1>5, <1>6, <1>7, <1>8, <1>9, <1>10

\* The types, and that iwd knows our agent only through a proxy we still have.
LEMMA WifiTypesKept ==
  ASSUME WifiInv, WifiPart!Next
  PROVE  WifiTypes' /\ (iwd_agent' => agent_manager') /\ (crossed => crossed')
<1> USE DEF WifiInv, WifiTypes, WifiPart!fields, WifiPart!around, WifiPart!Go, WifiPart!Return,
            WifiPart!Outside
<1>1. ASSUME NEW t \in WifiPart!Callers, WifiPart!GetBusFails(t) \/ WifiPart!AssignId(t)
      PROVE  WifiTypes' /\ (iwd_agent' => agent_manager') /\ (crossed => crossed')
  BY <1>1 DEF WifiPart!GetBusFails, WifiPart!AssignId
<1>3. CASE WifiPart!SwitchOn
  BY <1>3 DEF WifiPart!SwitchOn, WifiPart!Enter, WifiPart!Overlap
<1>4. CASE WifiPart!SwitchOff
  BY <1>4 DEF WifiPart!SwitchOff, WifiPart!Overlap
<1>5. CASE WifiPart!UnregisterObject \/ WifiPart!ForgetManager \/ WifiPart!IwdTurns
  BY <1>5 DEF WifiPart!UnregisterObject, WifiPart!ForgetManager, WifiPart!IwdTurns,
     WifiPart!Unregister
<1>6. ASSUME NEW t \in Searchers, WifiPart!Search(t) \/ WifiPart!FindManager(t) \/ WifiPart!Cancel(t)
      PROVE  WifiTypes' /\ (iwd_agent' => agent_manager') /\ (crossed => crossed')
  <2>1. t \in WifiPart!Callers
    BY DEF WifiPart!Callers
  <2>2. UNCHANGED <<agent_registration_id, object, given, iwd_agent, agent_manager>>
    BY <1>6 DEF WifiPart!Search, WifiPart!FindManager, WifiPart!Cancel
  <2>3. crossed => crossed'
    BY <1>6 DEF WifiPart!Search, WifiPart!FindManager, WifiPart!Cancel, WifiPart!Enter,
       WifiPart!Overlap
  <2>4. \E to \in {"idle", "searching", "connecting"} : place' = [place EXCEPT ![t] = to]
    BY <1>6 DEF WifiPart!Search, WifiPart!FindManager, WifiPart!Cancel, WifiPart!Enter
  <2>5. WifiTypes'
    BY <2>1, <2>2, <2>4
  <2> QED
    BY <2>2, <2>3, <2>5
<1>7. ASSUME NEW t \in WifiPart!Callers, WifiPart!MakeManager(t)
      PROVE  WifiTypes' /\ (iwd_agent' => agent_manager') /\ (crossed => crossed')
  <2>1. PICK to \in {"registering", "failed"} : place' = [place EXCEPT ![t] = to]
    BY <1>7 DEF WifiPart!MakeManager
  <2>2. UNCHANGED <<agent_registration_id, object, given, iwd_agent, crossed>>
    BY <1>7 DEF WifiPart!MakeManager
  <2>3. agent_manager => agent_manager'
    <3>1. agent_manager' \in {TRUE, agent_manager} \/ UNCHANGED agent_manager
      BY <1>7 DEF WifiPart!MakeManager
    <3> QED
      BY <3>1, Zenon
  <2>4. WifiTypes'
    BY <2>1, <2>2
  <2> QED
    BY <2>2, <2>3, <2>4
<1>2. ASSUME NEW t \in WifiPart!Callers,
             WifiPart!RegisterObject(t) \/ WifiPart!RegisterAgent(t) \/ WifiPart!Catch(t)
      PROVE  WifiTypes' /\ (iwd_agent' => agent_manager') /\ (crossed => crossed')
  BY <1>2 DEF WifiPart!RegisterObject, WifiPart!RegisterAgent, WifiPart!Catch, WifiPart!Unregister
<1> QED
  BY <1>1, <1>2, <1>3, <1>4, <1>5, <1>6, <1>7 DEF WifiPart!Next

LEMMA WifiInvNext == WifiInv /\ [Next]_vars => WifiInv'
<1> SUFFICES ASSUME WifiInv, [Next]_vars PROVE WifiInv'
  OBVIOUS
<1>1. CASE WifiPart!Next
  <2>1. WifiTypes' /\ (iwd_agent' => agent_manager') /\ (crossed => crossed')
    BY <1>1, WifiTypesKept
  <2>2. ~crossed' => WifiAlone'
    BY <1>1, <2>1, ActivateKeeps, LauncherKeeps DEF WifiPart!Next
  <2> QED
    BY <2>1, <2>2 DEF WifiInv
<1>2. CASE UNCHANGED wifi
  BY <1>2 DEF wifi, WifiInv, WifiTypes, WifiAlone, OneInside, InsideKnows, Inside,
     WifiPart!AgentAnswers
<1> QED
  BY <1>1, <1>2 DEF Next, vars, DatesNext, DownloadsNext, SshNext, SnippetsNext, DesktopNext,
     SystemdNext, TransmissionNext, ResultsNext, WifiNext, NotDates, NotDownloads, NotSsh,
     NotSnippets, NotDesktop, NotSystemd, NotTransmission, NotResults

LEMMA WifiInvInit == Init => WifiInv
<1> SUFFICES ASSUME WifiPart!Init PROVE WifiInv
  BY DEF Init
<1> USE DEF WifiPart!Init, WifiPart!Outside
<1>1. WifiTypes
  BY DEF WifiTypes
<1>2. \A t \in WifiPart!Callers : place[t] = "idle" /\ ~Inside(t)
  BY DEF Inside
<1>3. WifiAlone
  BY <1>2 DEF WifiAlone, OneInside, InsideKnows, WifiPart!AgentAnswers
<1> QED
  BY <1>1, <1>3 DEF WifiInv

\* Whichever of the calls of activate and deactivate failed, whenever iwd
\* stopped and however many threads search: unless two threads are inside at
\* once, the object on the bus can be taken away by its id, and iwd asks no
\* agent that is gone (src/wifi-plugin.vala).
THEOREM AgentAlwaysAnswers == Spec => []AgentAnswers
<1>1. Init => WifiInv
  BY WifiInvInit
<1>2. WifiInv /\ [Next]_vars => WifiInv'
  BY WifiInvNext
<1>3. WifiInv => AgentAnswers
  BY DEF WifiInv, WifiAlone, AgentAnswers, WifiPart!AgentAnswers
<1> QED
  BY <1>1, <1>2, <1>3, PTL DEF Spec

-----------------------------------------------------------------------------
(***************************************************************************)
(* The results of a file search.                                           *)
(***************************************************************************)
ResultType == [i : Nat, hash : Nat, path : Paths, kept : BOOLEAN]

\* A result that is kept stands where it was found.
Stands(r, tables) ==
  LET table == tables[ResultsPart!ShardOf(r.hash)]
  IN  r.kept => r.i < Len(table) /\ table[r.i + 1] = r.path

Sound(r, tables) == r \in ResultType /\ r.hash = Hash[r.path] /\ Stands(r, tables)

\* Every table is in the order of strcmp, and has the paths whose hash is its own.
Ordered(tables) ==
  /\ tables \in [ResultsPart!Tables -> Seq(Paths)]
  /\ \A s \in ResultsPart!Tables :
       /\ InOrder(tables[s], Rank)
       /\ \A p \in ToSet(tables[s]) : ResultsPart!ShardOf(Hash[p]) = s

Shown == \A r \in found : Sound(r, shards)

ResultsInv == Ordered(shards) /\ Shown

LEMMA PathFacts ==
  /\ Ranks(Paths, Rank) /\ Hash \in [Paths -> Nat] /\ MaxCount \in Nat
  /\ \A h \in Nat : ResultsPart!ShardOf(h) \in ResultsPart!Tables
<1>1. \A a \in Nat, n \in Nat \ {0} : a % n \in 0 .. n - 1
  OBVIOUS
<1> QED
  BY <1>1, PathsAssumption
     DEF ResultsPart!StoreAssumption, Ranks, ResultsPart!ShardOf, ResultsPart!Tables

\* What a table becomes when a path comes or goes: all before it stays.
Changed(table, new, p) ==
  /\ new \in Seq(Paths) /\ InOrder(new, Rank) /\ ToSet(new) \subseteq ToSet(table) \cup {p}
  /\ \/ new = table
     \/ /\ p \in ToSet(table) <=> p \notin ToSet(new)
        /\ \A i \in 1 .. Len(table) :
             Rank[table[i]] < Rank[p] => i \in 1 .. Len(new) /\ new[i] = table[i]

LEMMA TableChanges ==
  ASSUME NEW table \in Seq(Paths), InOrder(table, Rank), NEW p \in Paths
  PROVE  /\ Changed(table, ResultsPart!Inserted(table, p), p)
         /\ Changed(table, ResultsPart!Removed(table, p), p)
<1> DEFINE k == FirstNotBefore(table, Rank, p)
           longer == InsertAt(table, k, p)
           shorter == RemoveAt(table, k)
<1>1. ResultsPart!Place(table, p) = k
  <2>1. ASSUME NEW S PROVE ResultsPart!Min(S) = Min(S)
    BY DEF ResultsPart!Min, Min
  <2> QED
    BY <2>1 DEF ResultsPart!Place, FirstNotBefore
<1>2. ResultsPart!Holds(table, p) <=> p \in ToSet(table)
  <2>1. ResultsPart!Holds(table, p) <=> k <= Len(table) /\ table[k] = p
    BY <1>1 DEF ResultsPart!Holds
  <2> HIDE DEF k
  <2>2. k = FirstNotBefore(table, Rank, p)
    BY DEF k
  <2> QED
    BY <2>1, <2>2, PathFacts, FirstIsElement
<1>3. ResultsPart!Inserted(table, p) \in {table, longer}
  BY <1>1 DEF ResultsPart!Inserted, ResultsPart!InsertAt, InsertAt
<1>4. ResultsPart!Inserted(table, p) # table => p \notin ToSet(table)
  BY <1>2 DEF ResultsPart!Inserted
<1>5. ResultsPart!Removed(table, p) = IF p \in ToSet(table) THEN shorter ELSE table
  BY <1>1, <1>2 DEF ResultsPart!Removed, ResultsPart!RemoveAt, RemoveAt
<1> HIDE DEF k
<1>6. ASSUME p \notin ToSet(table) PROVE Changed(table, longer, p)
  BY <1>6, PathFacts, InsertInOrder DEF Changed, k
<1>7. ASSUME p \in ToSet(table) PROVE Changed(table, shorter, p)
  BY <1>7, PathFacts, RemoveInOrder DEF Changed, k
<1>8. Changed(table, table, p)
  BY DEF Changed
<1> HIDE DEF longer, shorter
<1> QED
  BY <1>3, <1>4, <1>5, <1>6, <1>7, <1>8

LEMMA PathComesOrGoes ==
  ASSUME ResultsInv, NEW p \in Paths,
         ResultsPart!AddFile(p) \/ ResultsPart!RemoveFile(p), ResultsPart!Outdate(p)
  PROVE  ResultsInv'
<1> DEFINE h == ResultsPart!ShardOf(Hash[p])
<1>1. /\ h \in ResultsPart!Tables /\ shards[h] \in Seq(Paths) /\ InOrder(shards[h], Rank)
      /\ shards \in [ResultsPart!Tables -> Seq(Paths)]
      /\ \A s \in ResultsPart!Tables : InOrder(shards[s], Rank)
      /\ \A s \in ResultsPart!Tables :
           \A q \in ToSet(shards[s]) : ResultsPart!ShardOf(Hash[q]) = s
  BY PathFacts DEF ResultsInv, Ordered
<1>2. PICK new : shards' = [shards EXCEPT ![h] = new] /\ Changed(shards[h], new, p)
  BY <1>1, TableChanges DEF ResultsPart!AddFile, ResultsPart!RemoveFile
<1>3. h = ResultsPart!ShardOf(Hash[p])
  OBVIOUS
<1> HIDE DEF h
<1>4. new \in Seq(Paths) /\ InOrder(new, Rank) /\ ToSet(new) \subseteq ToSet(shards[h]) \cup {p}
  BY <1>2 DEF Changed
<1>5. /\ shards'[h] = new
      /\ \A s \in ResultsPart!Tables : s # h => shards'[s] = shards[s]
  BY <1>1, <1>2
<1>6. Ordered(shards')
  <2>1. shards' \in [ResultsPart!Tables -> Seq(Paths)]
    BY <1>1, <1>2, <1>4
  <2>2. ASSUME NEW s \in ResultsPart!Tables
        PROVE  /\ InOrder(shards'[s], Rank)
               /\ \A q \in ToSet(shards'[s]) : ResultsPart!ShardOf(Hash[q]) = s
    BY <1>1, <1>3, <1>4, <1>5
  <2> QED
    BY <2>1, <2>2 DEF Ordered
<1>7. ASSUME NEW r \in found, NEW q,
             q = [r EXCEPT !.kept = r.kept /\ ~ResultsPart!Touched(r, p)]
      PROVE  Sound(q, shards')
  <2> DEFINE t == ResultsPart!ShardOf(r.hash)
  <2>1. r \in ResultType /\ r.hash = Hash[r.path] /\ Stands(r, shards)
    BY DEF ResultsInv, Shown, Sound
  <2>2. /\ q \in ResultType
        /\ q.i = r.i /\ q.hash = r.hash /\ q.path = r.path
        /\ q.kept => r.kept /\ ~ResultsPart!Touched(r, p)
    BY <1>7, <2>1 DEF ResultType
  <2>3. r.i \in Nat /\ r.hash \in Nat /\ t \in ResultsPart!Tables
    BY <2>1, PathFacts DEF ResultType
  <2>4. ASSUME r.kept, ~ResultsPart!Touched(r, p)
        PROVE  r.i < Len(shards'[t]) /\ shards'[t][r.i + 1] = r.path
    <3>1. r.i < Len(shards[t]) /\ shards[t][r.i + 1] = r.path
      BY <2>1, <2>4 DEF Stands
    <3>2. CASE t # h \/ new = shards[h]
      <4>1. shards'[t] = shards[t]
        BY <3>2, <1>5, <2>3
      <4> QED
        BY <3>1, <4>1
    <3>3. CASE t = h /\ new # shards[h]
      <4>1. p \in ToSet(shards[t]) <=> p \notin ToSet(shards'[t])
        BY <3>3, <1>2, <1>5 DEF Changed
      <4>2. ~(Rank[p] <= Rank[r.path])
        <5>1. \A table : ResultsPart!ToSet(table) = ToSet(table)
          BY DEF ResultsPart!ToSet, ToSet
        <5> QED
          BY <2>4, <3>3, <4>1, <1>3, <5>1 DEF ResultsPart!Touched
      <4>3. Rank[r.path] < Rank[p]
        BY <4>2, <2>1, PathFacts DEF Ranks, ResultType
      <4>4. r.i + 1 \in 1 .. Len(shards[h]) /\ Rank[shards[h][r.i + 1]] < Rank[p]
        BY <3>1, <3>3, <4>3, <2>3, <1>1
      <4>5. r.i + 1 \in 1 .. Len(new) /\ new[r.i + 1] = shards[h][r.i + 1]
        BY <4>4, <3>3, <1>2 DEF Changed
      <4> QED
        BY <4>5, <3>1, <3>3, <1>4, <1>5, <2>3
    <3> QED
      BY <3>2, <3>3
  <2>5. Stands(q, shards')
    BY <2>2, <2>4 DEF Stands
  <2> QED
    BY <2>1, <2>2, <2>5 DEF Sound
<1>8. Shown'
  <2>1. ASSUME NEW x \in found' PROVE Sound(x, shards')
    <3>1. PICK r \in found : x = [r EXCEPT !.kept = r.kept /\ ~ResultsPart!Touched(r, p)]
      BY DEF ResultsPart!Outdate
    <3> QED
      BY <1>7, <3>1
  <2> QED
    BY <2>1 DEF Shown
<1> QED
  BY <1>6, <1>8 DEF ResultsInv

\* A search of a table replaces its results by what the table has now.
LEMMA TableSearched ==
  ASSUME ResultsInv, NEW s \in ResultsPart!Tables, ResultsPart!TreeManagerShard(s)
  PROVE  ResultsInv'
<1>1. UNCHANGED shards /\ Ordered(shards)
  BY DEF ResultsInv, ResultsPart!TreeManagerShard
<1>2. shards[s] \in Seq(Paths) /\ \A p \in ToSet(shards[s]) : ResultsPart!ShardOf(Hash[p]) = s
  BY <1>1 DEF Ordered
<1>3. ASSUME NEW k \in 1 .. Len(shards[s]), NEW x, x = ResultsPart!Result(k - 1, shards[s][k])
      PROVE  Sound(x, shards)
  <2>1. shards[s][k] \in Paths /\ shards[s][k] \in ToSet(shards[s])
    BY <1>2 DEF ToSet
  <2>2. x = [i |-> k - 1, hash |-> Hash[shards[s][k]], path |-> shards[s][k], kept |-> TRUE]
    BY <1>3 DEF ResultsPart!Result
  <2>3. ResultsPart!ShardOf(x.hash) = s
    BY <1>2, <2>1, <2>2
  <2>4. x \in ResultType
    BY <2>1, <2>2, PathFacts DEF ResultType
  <2>5. x.i < Len(shards[s]) /\ shards[s][x.i + 1] = x.path
    BY <1>2, <2>2
  <2> QED
    BY <2>2, <2>3, <2>4, <2>5 DEF Sound, Stands
<1>4. ASSUME NEW x \in found' PROVE Sound(x, shards)
  <2>1. CASE x \in found
    BY <2>1 DEF ResultsInv, Shown
  <2>2. CASE x \in ResultsPart!Iterate(shards[s])
    BY <2>2, <1>3 DEF ResultsPart!Iterate
  <2> QED
    BY <2>1, <2>2 DEF ResultsPart!TreeManagerShard
<1>5. Ordered(shards')
  BY <1>1
<1>6. Shown'
  BY <1>1, <1>4 DEF Shown
<1> QED
  BY <1>5, <1>6 DEF ResultsInv

LEMMA EmptyOrdered == Ordered(ResultsPart!EmptyShards)
<1>1. \A s \in ResultsPart!Tables : ResultsPart!EmptyShards[s] = <<>>
  BY DEF ResultsPart!EmptyShards
<1>2. <<>> \in Seq(Paths) /\ Len(<<>>) = 0 /\ ToSet(<<>>) = {}
  BY DEF ToSet
<1>3. ResultsPart!EmptyShards \in [ResultsPart!Tables -> Seq(Paths)]
  BY <1>2 DEF ResultsPart!EmptyShards
<1> QED
  BY <1>1, <1>2, <1>3 DEF Ordered, InOrder

LEMMA ResultsInvNext == ResultsInv /\ [Next]_vars => ResultsInv'
<1> SUFFICES ASSUME ResultsInv, [Next]_vars PROVE ResultsInv'
  OBVIOUS
<1>1. CASE ResultsPart!Initialize
  <2>1. Ordered(shards')
    BY <1>1, EmptyOrdered DEF ResultsPart!Initialize
  <2>2. ASSUME NEW x \in found' PROVE Sound(x, shards')
    <3>1. PICK r \in found : x = [r EXCEPT !.kept = FALSE]
      BY <1>1 DEF ResultsPart!Initialize
    <3>2. r \in ResultType /\ r.hash = Hash[r.path]
      BY DEF ResultsInv, Shown, Sound
    <3>3. x \in ResultType /\ x.hash = Hash[x.path] /\ ~x.kept
      BY <3>1, <3>2 DEF ResultType
    <3> QED
      BY <3>3 DEF Sound, Stands
  <2> QED
    BY <2>1, <2>2 DEF ResultsInv, Shown
<1>2. CASE ResultsPart!Next
  BY <1>1, <1>2, PathComesOrGoes, TableSearched DEF ResultsPart!Next
<1>3. CASE UNCHANGED file_results
  BY <1>3 DEF file_results, ResultsInv, Ordered, Shown
<1> QED
  BY <1>2, <1>3 DEF Next, vars, DatesNext, DownloadsNext, SshNext, SnippetsNext, DesktopNext,
     SystemdNext, TransmissionNext, ResultsNext, WifiNext, NotDates, NotDownloads, NotSsh,
     NotSnippets, NotDesktop, NotSystemd, NotTransmission, NotWifi

\* What a position and a hash resolve to.
LEMMA SoundOpensOwn ==
  ASSUME ResultsInv, NEW r \in found
  PROVE  /\ r.kept => ResultsPart!Factory(r) = r.path
         /\ ResultsPart!Factory(r) \in
              {r.path, ResultsPart!TopDirectory} \cup {p \in Paths : Hash[p] = r.hash}
<1> DEFINE table == shards[ResultsPart!ShardOf(r.hash)]
           resolved == {p \in ResultsPart!LookupByIndex(table, r.i) : Hash[p] = r.hash}
<1>1. r \in ResultType /\ r.hash = Hash[r.path] /\ Stands(r, shards)
  BY DEF ResultsInv, Shown, Sound
<1>2. r.i \in Nat /\ table \in Seq(Paths)
  BY <1>1, PathFacts DEF ResultType, ResultsInv, Ordered
<1>3. r.kept => r.i < Len(table) /\ table[r.i + 1] = r.path
  BY <1>1 DEF Stands
<1> HIDE DEF table
<1>4. resolved \subseteq {table[r.i + 1]} /\ (resolved # {} => table[r.i + 1] \in Paths)
  BY <1>2 DEF ResultsPart!LookupByIndex
<1>5. r.kept => resolved = {r.path}
  BY <1>1, <1>3 DEF ResultsPart!LookupByIndex
<1>6. \A p \in resolved : p \in Paths /\ Hash[p] = r.hash
  BY <1>4
<1>7. ResultsPart!Factory(r) =
        IF resolved = {} THEN ResultsPart!TopDirectory ELSE CHOOSE p \in resolved : TRUE
  BY DEF ResultsPart!Factory, table
<1> HIDE DEF resolved
<1> QED
  BY <1>5, <1>6, <1>7

LEMMA ResultsInvInit == Init => ResultsInv
<1> SUFFICES ASSUME ResultsPart!Init PROVE ResultsInv
  BY DEF Init
<1> QED
  BY EmptyOrdered DEF ResultsInv, Shown, ResultsPart!Init

\* However many files there are, and however they are spread over the tables: a
\* result that was shown opens its own file as long as no path before it in
\* its table came or went, though paths after it do, and later that file, the
\* top directory or a file of the same hash, but never any other
\* (src/file-search/file-tree-manager.c, file-hashtable.c).
THEOREM OwnFileAlwaysOpened == Spec => []OpensOwnFile
<1>1. Init => ResultsInv
  BY ResultsInvInit
<1>2. ResultsInv /\ [Next]_vars => ResultsInv'
  BY ResultsInvNext
<1>3. ResultsInv => OpensOwnFile
  BY SoundOpensOwn DEF OpensOwnFile, ResultsPart!OpensOwnFile
<1> QED
  BY <1>1, <1>2, <1>3, PTL DEF Spec

-----------------------------------------------------------------------------
(***************************************************************************)
(* The list of downloads.  What sort_list, update_file, remove_file and    *)
(* add_file make of a list that is in order and has each file once.        *)
(***************************************************************************)
Entry == [file : Files, time : Times]

Entries(list) == {list[i] : i \in 1 .. Len(list)}
Has(list, f)  == \E e \in Entries(list) : e.file = f

Distinct(list) == \A i, j \in 1 .. Len(list) : list[i].file = list[j].file => i = j

Good(list) == list \in Seq(Entry) /\ Distinct(list) /\ DownloadsPart!InOrder(list)

\* Sorting changes the order only.
LEMMA SortedKeeps ==
  ASSUME NEW list \in Seq(Entry), Distinct(list), NEW q \in DownloadsPart!Sorted(list)
  PROVE  Good(q) /\ Entries(q) = Entries(list)
<1>1. PICK p \in DownloadsPart!Bijection(1 .. Len(list), 1 .. Len(list)) :
        q = [i \in 1 .. Len(list) |-> list[p[i]]]
  BY DEF DownloadsPart!Sorted
<1>2. DownloadsPart!InOrder(q)
  BY DEF DownloadsPart!Sorted
<1>3. /\ p \in [1 .. Len(list) -> 1 .. Len(list)]
      /\ \A i, j \in 1 .. Len(list) : p[i] = p[j] => i = j
      /\ \A j \in 1 .. Len(list) : \E i \in 1 .. Len(list) : p[i] = j
  BY DEF DownloadsPart!Bijection, DownloadsPart!Injection, DownloadsPart!Surjection,
     DownloadsPart!IsInjective
<1>4. PICK n \in Nat : n = Len(list) /\ \A i \in 1 .. n : list[i] \in Entry
  OBVIOUS
<1>5. /\ p \in [1 .. n -> 1 .. n]
      /\ \A i, j \in 1 .. n : p[i] = p[j] => i = j
      /\ \A j \in 1 .. n : \E i \in 1 .. n : p[i] = j
  BY <1>3, <1>4
<1>6. q \in Seq(Entry) /\ Len(q) = n /\ \A i \in 1 .. n : q[i] = list[p[i]]
  BY <1>1, <1>4, <1>5
<1>7. Distinct(q)
  <2> SUFFICES ASSUME NEW i \in 1 .. n, NEW j \in 1 .. n, q[i].file = q[j].file
               PROVE  i = j
    BY <1>6 DEF Distinct
  <2>1. p[i] \in 1 .. n /\ p[j] \in 1 .. n /\ q[i] = list[p[i]] /\ q[j] = list[p[j]]
    BY <1>5, <1>6
  <2>2. p[i] = p[j]
    BY <1>4, <2>1 DEF Distinct
  <2> QED
    BY <1>5, <2>2
<1>8. Entries(q) = Entries(list)
  <2>1. ASSUME NEW i \in 1 .. n PROVE q[i] \in Entries(list)
    <3>1. p[i] \in 1 .. n /\ q[i] = list[p[i]]
      BY <1>5, <1>6
    <3> QED
      BY <1>4, <3>1 DEF Entries
  <2>2. ASSUME NEW j \in 1 .. n PROVE list[j] \in Entries(q)
    <3>1. PICK i \in 1 .. n : p[i] = j
      BY <1>5
    <3>2. q[i] = list[j]
      BY <1>6, <3>1
    <3> QED
      BY <1>6, <3>2 DEF Entries
  <2>3. /\ Entries(q) = {q[i] : i \in 1 .. n}
        /\ Entries(list) = {list[j] : j \in 1 .. n}
    BY <1>4, <1>6 DEF Entries
  <2>4. Entries(q) \subseteq Entries(list)
    BY <2>1, <2>3
  <2>5. Entries(list) \subseteq Entries(q)
    BY <2>2, <2>3
  <2> QED
    BY <2>4, <2>5
<1> QED
  BY <1>2, <1>6, <1>7, <1>8 DEF Good

\* find_custom finds the entry of a file.
LEMMA IndexFinds ==
  ASSUME NEW list \in Seq(Entry), NEW f, Has(list, f)
  PROVE  DownloadsPart!Index(list, f) \in 1 .. Len(list)
         /\ list[DownloadsPart!Index(list, f)].file = f
<1> DEFINE T == {i \in 1 .. Len(list) : list[i].file = f}
<1>1. T \in SUBSET Nat /\ T # {}
  BY DEF Has, Entries
<1>2. Min(T) \in T
  BY <1>1, LeastElement
<1>3. DownloadsPart!Index(list, f) = Min(T)
  BY DEF DownloadsPart!Index, DownloadsPart!Min, Min
<1> QED
  BY <1>2, <1>3

\* remove_file takes that entry out.
LEMMA WithoutFile ==
  ASSUME NEW list, Good(list), NEW f, Has(list, f),
         NEW new, new = DownloadsPart!Without(list, f)
  PROVE  Good(new) /\ Entries(new) = {e \in Entries(list) : e.file # f}
<1> DEFINE k == DownloadsPart!Index(list, f)
           old(i) == IF i < k THEN i ELSE i + 1
           moved(i) == IF i < k THEN i ELSE i - 1
<1>1. list \in Seq(Entry) /\ Distinct(list) /\ DownloadsPart!InOrder(list)
  BY DEF Good
<1>2. k \in 1 .. Len(list) /\ list[k].file = f
  BY <1>1, IndexFinds
<1>3. new = RemoveAt(list, k)
  BY DEF DownloadsPart!Without, DownloadsPart!RemoveAt, RemoveAt
<1> HIDE DEF k
<1>4. /\ new \in Seq(Entry) /\ Len(new) = Len(list) - 1
      /\ \A j \in 1 .. Len(list) - 1 : new[j] = IF j < k THEN list[j] ELSE list[j + 1]
  BY <1>1, <1>2, <1>3, RemoveAtProperties
<1>5. \A i \in 1 .. Len(new) : old(i) \in 1 .. Len(list) /\ old(i) # k /\ new[i] = list[old(i)]
  BY <1>1, <1>2, <1>4
<1>6. \A i \in 1 .. Len(list) : i # k => moved(i) \in 1 .. Len(new) /\ list[i] = new[moved(i)]
  BY <1>1, <1>2, <1>4
<1>7. \A i, j \in 1 .. Len(new) : (i < j <=> old(i) < old(j)) /\ (i = j <=> old(i) = old(j))
  BY <1>1, <1>2, <1>4
<1> HIDE DEF old, moved
<1>8. Distinct(new)
  BY <1>1, <1>5, <1>7 DEF Distinct
<1>9. DownloadsPart!InOrder(new)
  BY <1>1, <1>5, <1>7 DEF DownloadsPart!InOrder
<1>10. \A i \in 1 .. Len(list) : list[i].file # f <=> i # k
  BY <1>1, <1>2 DEF Distinct
<1>11. Entries(new) = {e \in Entries(list) : e.file # f}
  <2>1. \A i \in 1 .. Len(new) : new[i] \in Entries(list) /\ new[i].file # f
    BY <1>5, <1>10 DEF Entries
  <2>2. \A i \in 1 .. Len(list) : list[i].file # f => list[i] \in Entries(new)
    BY <1>6, <1>10 DEF Entries
  <2> QED
    BY <2>1, <2>2 DEF Entries
<1> QED
  BY <1>4, <1>8, <1>9, <1>11 DEF Good

\* update_file gives it another time.
LEMMA UpdatedFile ==
  ASSUME NEW list, Good(list), NEW f \in Files, Has(list, f), folder[f].written \in Times,
         NEW new \in DownloadsPart!Updated(list, f)
  PROVE  /\ Good(new)
         /\ Entries(new) = {e \in Entries(list) : e.file # f}
                             \cup {[file |-> f, time |-> folder[f].written]}
<1> DEFINE k == DownloadsPart!Index(list, f)
           e0 == [file |-> f, time |-> folder[f].written]
           q == DownloadsPart!Retimed(list, f)
<1>1. list \in Seq(Entry) /\ Distinct(list)
  BY DEF Good
<1>2. k \in 1 .. Len(list) /\ list[k].file = f
  BY <1>1, IndexFinds
<1>3. q = [list EXCEPT ![k] = e0] /\ new \in DownloadsPart!Sorted(q)
  BY DEF DownloadsPart!Retimed, DownloadsPart!Updated
<1>4. e0 \in Entry /\ e0.file = f
  BY DEF Entry
<1> HIDE DEF k, e0, q
<1>5. /\ q \in Seq(Entry) /\ Len(q) = Len(list) /\ q[k] = e0
      /\ \A i \in 1 .. Len(list) : i # k => q[i] = list[i]
  BY <1>1, <1>2, <1>3, <1>4
<1>6. \A i \in 1 .. Len(list) : q[i].file = list[i].file
  BY <1>2, <1>4, <1>5
<1>7. Distinct(q)
  BY <1>1, <1>5, <1>6 DEF Distinct
<1>8. \A i \in 1 .. Len(list) : list[i].file # f <=> i # k
  BY <1>1, <1>2 DEF Distinct
<1>9. Entries(q) = {e \in Entries(list) : e.file # f} \cup {e0}
  <2>1. \A i \in 1 .. Len(q) : q[i] = e0 \/ (q[i] \in Entries(list) /\ q[i].file # f)
    BY <1>5, <1>8 DEF Entries
  <2>2. \A i \in 1 .. Len(list) : list[i].file # f => list[i] \in Entries(q)
    BY <1>5, <1>8 DEF Entries
  <2>3. e0 \in Entries(q)
    BY <1>2, <1>5 DEF Entries
  <2> QED
    BY <2>1, <2>2, <2>3 DEF Entries
<1> QED
  BY <1>3, <1>5, <1>7, <1>9, SortedKeeps DEF e0

\* add_file adds one.
LEMMA AddedFile ==
  ASSUME NEW list, Good(list), NEW f \in Files, ~Has(list, f), folder[f].created \in Times,
         NEW new \in DownloadsPart!Added(list, f)
  PROVE  /\ Good(new)
         /\ Entries(new) = Entries(list) \cup {[file |-> f, time |-> folder[f].created]}
<1> DEFINE e0 == [file |-> f, time |-> folder[f].created]
           q == Append(list, e0)
<1>1. list \in Seq(Entry) /\ Distinct(list)
  BY DEF Good
<1>2. e0 \in Entry /\ e0.file = f /\ new \in DownloadsPart!Sorted(q)
  BY DEF Entry, DownloadsPart!Added
<1> HIDE DEF e0
<1>3. /\ q \in Seq(Entry) /\ Len(q) = Len(list) + 1 /\ q[Len(list) + 1] = e0
      /\ \A i \in 1 .. Len(list) : q[i] = list[i]
  BY <1>1, <1>2
<1> HIDE DEF q
<1>4. \A i \in 1 .. Len(list) : list[i].file # f
  BY DEF Has, Entries
<1>5. Distinct(q)
  BY <1>1, <1>2, <1>3, <1>4 DEF Distinct
<1>6. Entries(q) = Entries(list) \cup {e0}
  <2>1. \A i \in 1 .. Len(q) : q[i] = e0 \/ q[i] \in Entries(list)
    BY <1>1, <1>3 DEF Entries
  <2>2. \A i \in 1 .. Len(list) : list[i] \in Entries(q)
    BY <1>1, <1>3 DEF Entries
  <2>3. e0 \in Entries(q)
    BY <1>1, <1>3 DEF Entries
  <2> QED
    BY <2>1, <2>2, <2>3 DEF Entries
<1> QED
  BY <1>2, <1>3, <1>5, <1>6, SortedKeeps DEF e0

-----------------------------------------------------------------------------
(***************************************************************************)
(* What the pending reports will do to the entry of a file.  known says    *)
(* whether the file is listed, or about to be, before the first of them.   *)
(***************************************************************************)
IsReport(r, f, kind) == r.file = f /\ r.kind = kind

NoneAbout(rs, f, n) == \A k \in 1 .. n : rs[k].file # f

\* Before the report i the file is not known.
FreeAt(rs, i, f, known) ==
  \/ \E j \in 1 .. i - 1 : IsReport(rs[j], f, "removed")
                           /\ \A k \in j + 1 .. i - 1 : rs[k].file # f
  \/ ~known /\ NoneAbout(rs, f, i - 1)

\* Before the report i the file is known.
KnownAt(rs, i, f, known) ==
  \/ \E j \in 1 .. i - 1 : IsReport(rs[j], f, "added")
                           /\ \A k \in j + 1 .. i - 1 : ~IsReport(rs[k], f, "removed")
  \/ known /\ \A k \in 1 .. i - 1 : ~IsReport(rs[k], f, "removed")

\* The report i is the last about the file.
LastAt(rs, i, f) ==
  i \in 1 .. Len(rs) /\ rs[i].file = f /\ \A k \in i + 1 .. Len(rs) : rs[k].file # f

Known(f) == adding = f \/ Has(sorted_list, f)

\* What the last report says fits what the directory has now, and finds the
\* entry there or not there as it has to be.
Reported(i, f) ==
  LET kind == file_reports[i].kind
  IN  CASE folder[f] = DownloadsPart!Absent -> kind = "removed"
        [] folder[f] # DownloadsPart!Absent /\ f \in modified ->
             kind \in {"added", "modified"} /\ KnownAt(file_reports, i, f, Known(f))
        [] OTHER -> kind = "added" /\ FreeAt(file_reports, i, f, Known(f))

\* No report is pending, and the entry is right, or still to be added.
Settled(f) ==
  CASE folder[f] = DownloadsPart!Absent -> ~Known(f)
    [] folder[f] # DownloadsPart!Absent /\ f \in modified ->
         [file |-> f, time |-> folder[f].written] \in Entries(sorted_list)
    [] OTHER ->
         adding = f \/ [file |-> f, time |-> folder[f].created] \in Entries(sorted_list)

Tracked(f) ==
  \/ NoneAbout(file_reports, f, Len(file_reports)) /\ Settled(f)
  \/ \E i \in 1 .. Len(file_reports) : LastAt(file_reports, i, f) /\ Reported(i, f)

DownloadTypes ==
  /\ folder \in [Files -> [created : Times, written : Times] \cup {DownloadsPart!Absent}]
  /\ file_reports \in Seq([kind : {"added", "modified", "removed"}, file : Files])
  /\ adding \in Files \cup {DownloadsPart!None}
  /\ Good(sorted_list)

DownloadsInv ==
  /\ DownloadTypes
  /\ adding # DownloadsPart!None => monitoring = "on" /\ ~Has(sorted_list, adding)
  /\ monitoring # "on" => file_reports = <<>>
  /\ monitoring \in {"loaded", "on"} => \A f \in Files \ unwatched : Tracked(f)

-----------------------------------------------------------------------------
Report == [kind : {"added", "modified", "removed"}, file : Files]

\* The first report is handled.
LEMMA FirstHandled ==
  ASSUME NEW rs \in Seq(Report), rs # <<>>, NEW f, NEW i \in 2 .. Len(rs),
         NEW known \in BOOLEAN, NEW after \in BOOLEAN,
         rs[1].file # f => (after <=> known),
         IsReport(rs[1], f, "removed") => ~after,
         rs[1].file = f /\ rs[1].kind # "removed" /\ known => after,
         IsReport(rs[1], f, "added") => after
  PROVE  /\ FreeAt(rs, i, f, known) => FreeAt(Tail(rs), i - 1, f, after)
         /\ KnownAt(rs, i, f, known) => KnownAt(Tail(rs), i - 1, f, after)
<1> DEFINE t == Tail(rs)
<1>1. /\ t \in Seq(Report) /\ Len(t) = Len(rs) - 1
      /\ \A k \in 1 .. Len(rs) - 1 : t[k] = rs[k + 1]
  OBVIOUS
<1> HIDE DEF t
<1>2. ASSUME NEW j \in 2 .. i - 1 PROVE j - 1 \in 1 .. (i - 1) - 1 /\ t[j - 1] = rs[j]
  <2>1. j - 1 \in 1 .. Len(rs) - 1 /\ j - 1 \in 1 .. (i - 1) - 1 /\ (j - 1) + 1 = j
    OBVIOUS
  <2> QED
    BY <1>1, <2>1
<1>3. ASSUME NEW k \in 1 .. (i - 1) - 1 PROVE k + 1 \in 2 .. i - 1 /\ t[k] = rs[k + 1]
  BY <1>1
<1>4. ASSUME FreeAt(rs, i, f, known) PROVE FreeAt(t, i - 1, f, after)
  <2>1. ASSUME NEW j \in 2 .. i - 1, IsReport(rs[j], f, "removed"),
               \A k \in j + 1 .. i - 1 : rs[k].file # f
        PROVE  FreeAt(t, i - 1, f, after)
    <3>1. ASSUME NEW k \in (j - 1) + 1 .. (i - 1) - 1 PROVE t[k].file # f
      <4>1. k \in 1 .. (i - 1) - 1 /\ k + 1 \in j + 1 .. i - 1
        OBVIOUS
      <4> QED
        BY <1>3, <2>1, <4>1
    <3>2. j - 1 \in 1 .. (i - 1) - 1 /\ IsReport(t[j - 1], f, "removed")
      BY <1>2, <2>1
    <3> QED
      BY <3>1, <3>2 DEF FreeAt
  <2>2. ASSUME ~after, \A k \in 2 .. i - 1 : rs[k].file # f
        PROVE  FreeAt(t, i - 1, f, after)
    BY <1>3, <2>2 DEF FreeAt, NoneAbout
  <2>3. CASE ~known /\ NoneAbout(rs, f, i - 1)
    BY <2>2, <2>3 DEF NoneAbout
  <2>4. ASSUME NEW j \in 1 .. i - 1, IsReport(rs[j], f, "removed"),
               \A k \in j + 1 .. i - 1 : rs[k].file # f
        PROVE  FreeAt(t, i - 1, f, after)
    <3>1. CASE j = 1
      BY <2>2, <2>4, <3>1
    <3>2. CASE j # 1
      BY <2>1, <2>4, <3>2
    <3> QED
      BY <3>1, <3>2
  <2> QED
    BY <1>4, <2>3, <2>4 DEF FreeAt
<1>5. ASSUME KnownAt(rs, i, f, known) PROVE KnownAt(t, i - 1, f, after)
  <2>1. ASSUME after, \A k \in 2 .. i - 1 : ~IsReport(rs[k], f, "removed")
        PROVE  KnownAt(t, i - 1, f, after)
    BY <1>3, <2>1 DEF KnownAt
  <2>2. ASSUME NEW j \in 2 .. i - 1, IsReport(rs[j], f, "added"),
               \A k \in j + 1 .. i - 1 : ~IsReport(rs[k], f, "removed")
        PROVE  KnownAt(t, i - 1, f, after)
    <3>1. \A k \in (j - 1) + 1 .. (i - 1) - 1 : ~IsReport(t[k], f, "removed")
      BY <1>3, <2>2
    <3> QED
      BY <1>2, <2>2, <3>1 DEF KnownAt
  <2>3. CASE known /\ \A k \in 1 .. i - 1 : ~IsReport(rs[k], f, "removed")
    <3>1. 1 \in 1 .. i - 1 /\ 2 .. i - 1 \subseteq 1 .. i - 1
      OBVIOUS
    <3>2. after
      BY <2>3, <3>1 DEF IsReport
    <3>3. \A k \in 2 .. i - 1 : ~IsReport(rs[k], f, "removed")
      BY <2>3, <3>1
    <3> QED
      BY <2>1, <3>2, <3>3
  <2>4. ASSUME NEW j \in 1 .. i - 1, IsReport(rs[j], f, "added"),
               \A k \in j + 1 .. i - 1 : ~IsReport(rs[k], f, "removed")
        PROVE  KnownAt(t, i - 1, f, after)
    <3>1. CASE j = 1
      <4>1. after /\ \A k \in 2 .. i - 1 : ~IsReport(rs[k], f, "removed")
        BY <2>4, <3>1
      <4> QED
        BY <2>1, <4>1
    <3>2. CASE j # 1
      BY <2>2, <2>4, <3>2
    <3> QED
      BY <3>1, <3>2
  <2> QED
    BY <1>5, <2>3, <2>4 DEF KnownAt
<1> QED
  BY <1>4, <1>5 DEF t

\* A report is appended.
LEMMA ReportAppended ==
  ASSUME NEW rs \in Seq(Report), NEW r \in Report, NEW new, new = Append(rs, r)
  PROVE  /\ new \in Seq(Report) /\ Len(new) = Len(rs) + 1 /\ new[Len(new)] = r
         /\ \A k \in 1 .. Len(rs) : new[k] = rs[k]
         /\ \A f, known : \A i \in 1 .. Len(rs) :
              /\ FreeAt(rs, i, f, known) => FreeAt(new, i, f, known)
              /\ KnownAt(rs, i, f, known) => KnownAt(new, i, f, known)
<1>1. /\ new \in Seq(Report) /\ Len(new) = Len(rs) + 1 /\ new[Len(new)] = r
      /\ \A k \in 1 .. Len(rs) : new[k] = rs[k]
  OBVIOUS
<1>2. ASSUME NEW f, NEW known, NEW i \in 1 .. Len(rs), FreeAt(rs, i, f, known)
      PROVE  FreeAt(new, i, f, known)
  BY <1>1, <1>2 DEF FreeAt, NoneAbout
<1>3. ASSUME NEW f, NEW known, NEW i \in 1 .. Len(rs), KnownAt(rs, i, f, known)
      PROVE  KnownAt(new, i, f, known)
  BY <1>1, <1>3 DEF KnownAt
<1> QED
  BY <1>1, <1>2, <1>3

LEMMA KnownBoolean == \A f : Known(f) \in BOOLEAN /\ Known(f)' \in BOOLEAN
BY DEF Known, Has

\* What the entry of a file and the reports about it were, they are.
LEMMA StaysTracked ==
  ASSUME NEW f, Tracked(f), UNCHANGED file_reports,
         folder'[f] = folder[f], f \in modified' <=> f \in modified,
         folder[f] = DownloadsPart!Absent => (Known(f)' => Known(f)),
         folder[f] # DownloadsPart!Absent => (Known(f) => Known(f)') /\ (Known(f)' => Known(f)),
         \A e \in Entries(sorted_list) : e.file = f => e \in Entries(sorted_list'),
         folder[f] # DownloadsPart!Absent /\ adding = f =>
           adding' = f \/ [file |-> f, time |-> folder[f].created] \in Entries(sorted_list')
  PROVE  Tracked(f)'
<1>1. CASE NoneAbout(file_reports, f, Len(file_reports)) /\ Settled(f)
  <2>1. Settled(f)'
    BY <1>1 DEF Settled
  <2>2. NoneAbout(file_reports, f, Len(file_reports))'
    BY <1>1 DEF NoneAbout
  <2> QED
    BY <2>1, <2>2 DEF Tracked
<1>2. ASSUME NEW i \in 1 .. Len(file_reports), LastAt(file_reports, i, f), Reported(i, f)
      PROVE  Tracked(f)'
  <2>1. CASE folder[f] = DownloadsPart!Absent
    BY <1>2, <2>1 DEF Tracked, Reported, LastAt
  <2>2. CASE folder[f] # DownloadsPart!Absent
    <3>1. Known(f)' = Known(f)
      BY <2>2, KnownBoolean
    <3>2. Reported(i, f)'
      BY <1>2, <2>2, <3>1 DEF Reported
    <3>3. LastAt(file_reports, i, f)'
      BY <1>2
    <3> QED
      BY <3>2, <3>3 DEF Tracked
  <2> QED
    BY <2>1, <2>2
<1> QED
  BY <1>1, <1>2 DEF Tracked

\* The next report about a file that is not there ...
LEMMA NextFree ==
  ASSUME NEW f, Tracked(f), folder[f] = DownloadsPart!Absent, file_reports \in Seq(Report),
         NEW r \in Report, NEW new, new = Append(file_reports, r)
  PROVE  FreeAt(new, Len(new), f, Known(f))
<1>1. /\ Len(new) = Len(file_reports) + 1 /\ Len(file_reports) \in Nat
      /\ \A k \in 1 .. Len(file_reports) : new[k] = file_reports[k]
  BY ReportAppended
<1>2. CASE NoneAbout(file_reports, f, Len(file_reports)) /\ Settled(f)
  <2>1. ~Known(f)
    BY <1>2 DEF Settled
  <2>2. NoneAbout(new, f, Len(new) - 1)
    BY <1>1, <1>2 DEF NoneAbout
  <2> QED
    BY <2>1, <2>2 DEF FreeAt
<1>3. ASSUME NEW i \in 1 .. Len(file_reports), LastAt(file_reports, i, f), Reported(i, f)
      PROVE  FreeAt(new, Len(new), f, Known(f))
  <2>1. i \in 1 .. Len(new) - 1 /\ IsReport(new[i], f, "removed")
    BY <1>1, <1>3 DEF Reported, LastAt, IsReport
  <2>2. \A k \in i + 1 .. Len(new) - 1 : new[k].file # f
    BY <1>1, <1>3 DEF LastAt
  <2> QED
    BY <2>1, <2>2 DEF FreeAt
<1> QED
  BY <1>2, <1>3 DEF Tracked

\* ... and about one that is.
LEMMA NextKnown ==
  ASSUME NEW f, Tracked(f), folder[f] # DownloadsPart!Absent, file_reports \in Seq(Report),
         NEW r \in Report, NEW new, new = Append(file_reports, r)
  PROVE  KnownAt(new, Len(new), f, Known(f))
<1>1. /\ Len(new) = Len(file_reports) + 1 /\ Len(file_reports) \in Nat
      /\ \A k \in 1 .. Len(file_reports) : new[k] = file_reports[k]
  BY ReportAppended
<1>2. CASE NoneAbout(file_reports, f, Len(file_reports)) /\ Settled(f)
  <2>1. Known(f)
    BY <1>2 DEF Settled, Known, Has
  <2>2. \A k \in 1 .. Len(new) - 1 : ~IsReport(new[k], f, "removed")
    BY <1>1, <1>2 DEF NoneAbout, IsReport
  <2> QED
    BY <2>1, <2>2 DEF KnownAt
<1>3. ASSUME NEW i \in 1 .. Len(file_reports), LastAt(file_reports, i, f), Reported(i, f)
      PROVE  KnownAt(new, Len(new), f, Known(f))
  <2>1. i \in 1 .. Len(new) - 1 /\ new[i] = file_reports[i] /\ new[i].file = f
    BY <1>1, <1>3 DEF LastAt
  <2>2. \A k \in i + 1 .. Len(new) - 1 : ~IsReport(new[k], f, "removed")
    BY <1>1, <1>3 DEF LastAt, IsReport
  <2>3. CASE new[i].kind = "added"
    BY <2>1, <2>2, <2>3 DEF KnownAt, IsReport
  <2>4. CASE new[i].kind # "added"
    <3>1. new[i].kind = "modified" /\ KnownAt(file_reports, i, f, Known(f))
      BY <1>3, <2>1, <2>4 DEF Reported
    <3>2. KnownAt(new, i, f, Known(f))
      BY <3>1, ReportAppended
    <3>3. \A k \in 1 .. Len(new) - 1 : k < i \/ k = i \/ k \in i + 1 .. Len(new) - 1
      BY <1>1
    <3>4. ~IsReport(new[i], f, "removed")
      BY <3>1 DEF IsReport
    <3>5. ASSUME NEW j \in 1 .. i - 1, IsReport(new[j], f, "added"),
                 \A k \in j + 1 .. i - 1 : ~IsReport(new[k], f, "removed")
          PROVE  KnownAt(new, Len(new), f, Known(f))
      <4>1. j \in 1 .. Len(new) - 1
        BY <1>1
      <4>2. \A k \in j + 1 .. Len(new) - 1 : ~IsReport(new[k], f, "removed")
        BY <1>1, <2>2, <3>4, <3>5
      <4> QED
        BY <3>5, <4>1, <4>2 DEF KnownAt
    <3>6. ASSUME Known(f), \A k \in 1 .. i - 1 : ~IsReport(new[k], f, "removed")
          PROVE  KnownAt(new, Len(new), f, Known(f))
      <4>1. \A k \in 1 .. Len(new) - 1 : ~IsReport(new[k], f, "removed")
        BY <1>1, <2>2, <3>4, <3>6
      <4> QED
        BY <3>6, <4>1 DEF KnownAt
    <3> QED
      BY <3>2, <3>5, <3>6 DEF KnownAt
  <2> QED
    BY <2>3, <2>4
<1> QED
  BY <1>2, <1>3 DEF Tracked

\* A change of the directory, if it is right for the file itself.
LEMMA ChangeKeeps ==
  ASSUME DownloadsInv, NEW f \in Files, NEW kind \in {"added", "modified", "removed"},
         NEW times \in [created : Times, written : Times] \cup {DownloadsPart!Absent},
         DownloadsPart!Change(kind, f, times),
         \A g \in Files \ {f} : g \in modified' <=> g \in modified,
         monitoring = "on" /\ f \notin unwatched => Tracked(f)'
  PROVE  DownloadsInv'
<1> DEFINE r == [kind |-> kind, file |-> f]
<1>1. /\ folder' = [folder EXCEPT ![f] = times] /\ UNCHANGED <<adding, sorted_list, monitoring>>
      /\ monitoring = "on" => file_reports' = Append(file_reports, r) /\ UNCHANGED unwatched
      /\ monitoring # "on" => UNCHANGED file_reports
      /\ monitoring = "loaded" => unwatched' = unwatched \cup {f}
  BY DEF DownloadsPart!Change, DownloadsPart!plugin
<1>2. r \in Report /\ r.file = f /\ file_reports \in Seq(Report)
  BY DEF Report, DownloadsInv, DownloadTypes
<1> HIDE DEF r
<1>3. DownloadTypes'
  <2>1. file_reports' \in Seq(Report)
    BY <1>1, <1>2
  <2> QED
    BY <1>1, <2>1 DEF DownloadsInv, DownloadTypes, Report
<1>4. \A g \in Files \ {f} : folder'[g] = folder[g]
  BY <1>1 DEF DownloadsInv, DownloadTypes
<1>5. \A g : (Known(g)' <=> Known(g)) /\ Known(g)' = Known(g)
  BY <1>1 DEF Known
<1>6. ASSUME NEW g \in Files \ unwatched', monitoring \in {"loaded", "on"}
      PROVE  Tracked(g)'
  <2>1. CASE g = f
    BY <1>1, <1>6, <2>1
  <2>2. CASE g # f /\ monitoring = "loaded"
    <3>1. Tracked(g)
      BY <1>1, <2>2 DEF DownloadsInv
    <3> QED
      BY <1>1, <1>4, <1>5, <2>2, <3>1, StaysTracked
  <2>3. CASE g # f /\ monitoring = "on"
    <3> DEFINE n == Len(file_reports)
    <3>1. Tracked(g) /\ file_reports' = Append(file_reports, r)
      BY <1>1, <1>6, <2>3 DEF DownloadsInv
    <3>2. /\ Len(file_reports') = n + 1 /\ n \in Nat /\ file_reports'[n + 1].file = f
          /\ \A k \in 1 .. n : file_reports'[k] = file_reports[k]
      BY <1>2, <3>1
    <3>3. CASE NoneAbout(file_reports, g, n) /\ Settled(g)
      <4>1. NoneAbout(file_reports, g, Len(file_reports))'
        BY <2>3, <3>2, <3>3 DEF NoneAbout
      <4>2. Settled(g)'
        BY <1>1, <1>4, <1>5, <2>3, <3>3 DEF Settled
      <4> QED
        BY <4>1, <4>2 DEF Tracked
    <3>4. ASSUME NEW i \in 1 .. n, LastAt(file_reports, i, g), Reported(i, g)
          PROVE  Tracked(g)'
      <4>1. LastAt(file_reports', i, g)
        BY <2>3, <3>2, <3>4 DEF LastAt
      <4>2. /\ FreeAt(file_reports, i, g, Known(g)) => FreeAt(file_reports', i, g, Known(g))
            /\ KnownAt(file_reports, i, g, Known(g)) => KnownAt(file_reports', i, g, Known(g))
        <5>1. \A new : new = Append(file_reports, r) =>
                \A known :
                  /\ FreeAt(file_reports, i, g, known) => FreeAt(new, i, g, known)
                  /\ KnownAt(file_reports, i, g, known) => KnownAt(new, i, g, known)
          BY <1>2, ReportAppended
        <5> QED
          BY <3>1, <5>1
      <4>3. Reported(i, g)'
        BY <1>4, <1>5, <2>3, <3>2, <3>4, <4>2 DEF Reported
      <4> QED
        BY <3>2, <4>1, <4>3 DEF Tracked
    <3> QED
      BY <3>1, <3>3, <3>4 DEF Tracked
  <2> QED
    BY <1>6, <2>1, <2>2, <2>3
<1> QED
  BY <1>1, <1>3, <1>6 DEF DownloadsInv

\* Every change of the directory.
LEMMA DirectoryChanges ==
  ASSUME DownloadsInv, NEW f \in Files,
         \/ \E w \in Times : DownloadsPart!Write(f, w)
         \/ \E c, w \in Times : DownloadsPart!Put(f, c, w)
         \/ DownloadsPart!Delete(f)
  PROVE  DownloadsInv'
<1>1. /\ file_reports \in Seq(Report)
      /\ folder[f] \in [created : Times, written : Times] \cup {DownloadsPart!Absent}
      /\ \A times : folder' = [folder EXCEPT ![f] = times] => folder'[f] = times
      /\ monitoring = "on" /\ f \notin unwatched => Tracked(f)
  BY DEF DownloadsInv, DownloadTypes, Report
\* How the new report is right.
<1>2. ASSUME NEW kind \in {"added", "modified", "removed"}, NEW times,
             DownloadsPart!Change(kind, f, times), monitoring = "on",
             CASE times = DownloadsPart!Absent -> kind = "removed"
               [] times # DownloadsPart!Absent /\ f \in modified' ->
                    kind \in {"added", "modified"} /\ folder[f] # DownloadsPart!Absent
               [] OTHER -> kind = "added" /\ folder[f] = DownloadsPart!Absent,
             f \notin unwatched
      PROVE  Tracked(f)'
  <2> DEFINE r == [kind |-> kind, file |-> f]
  <2> PICK n \in Nat : n = Len(file_reports) + 1
    BY <1>1
  <2>1. /\ folder'[f] = times /\ UNCHANGED <<adding, sorted_list>>
        /\ file_reports' = Append(file_reports, r)
    BY <1>1, <1>2 DEF DownloadsPart!Change, DownloadsPart!plugin
  <2>2. r \in Report /\ r.file = f /\ r.kind = kind
    BY <1>2 DEF Report
  <2> HIDE DEF r
  <2>3. n = Len(file_reports') /\ n \in 1 .. Len(file_reports') /\ file_reports'[n] = r
    BY <1>1, <2>1, <2>2
  <2>4. LastAt(file_reports', n, f)
    BY <2>2, <2>3 DEF LastAt
  <2>5. Known(f)' = Known(f)
    BY <2>1 DEF Known
  <2>6. folder[f] = DownloadsPart!Absent => FreeAt(file_reports', n, f, Known(f))
    <3>1. \A new : new = Append(file_reports, r) /\ folder[f] = DownloadsPart!Absent =>
            FreeAt(new, Len(new), f, Known(f))
      BY <1>1, <1>2, <2>2, NextFree
    <3> QED
      BY <2>1, <2>3, <3>1
  <2>7. folder[f] # DownloadsPart!Absent => KnownAt(file_reports', n, f, Known(f))
    <3>1. \A new : new = Append(file_reports, r) /\ folder[f] # DownloadsPart!Absent =>
            KnownAt(new, Len(new), f, Known(f))
      BY <1>1, <1>2, <2>2, NextKnown
    <3> QED
      BY <2>1, <2>3, <3>1
  <2>8. Reported(n, f)'
    <3>1. CASE times = DownloadsPart!Absent
      BY <1>2, <2>1, <2>2, <2>3, <3>1 DEF Reported
    <3>2. CASE times # DownloadsPart!Absent /\ f \in modified'
      BY <1>2, <2>1, <2>2, <2>3, <2>5, <2>7, <3>2 DEF Reported
    <3>3. CASE times # DownloadsPart!Absent /\ f \notin modified'
      BY <1>2, <2>1, <2>2, <2>3, <2>5, <2>6, <3>3 DEF Reported
    <3> QED
      BY <3>1, <3>2, <3>3
  <2> QED
    BY <2>3, <2>4, <2>8 DEF Tracked
<1>3. 0 \notin Times
  BY FilesAssumption
<1>4. ASSUME NEW w \in Times, DownloadsPart!Write(f, w) PROVE DownloadsInv'
  <2> DEFINE times == [folder[f] EXCEPT !.written = w]
  <2>1. /\ folder[f] # DownloadsPart!Absent /\ DownloadsPart!Change("modified", f, times)
        /\ modified' = modified \cup {f}
    BY <1>4 DEF DownloadsPart!Write
  <2>2. times \in [created : Times, written : Times] /\ times # DownloadsPart!Absent
    BY <1>1, <1>3, <2>1 DEF DownloadsPart!Absent
  <2> HIDE DEF times
  <2>3. monitoring = "on" /\ f \notin unwatched => Tracked(f)'
    BY <1>2, <2>1, <2>2
  <2> QED
    BY <2>1, <2>2, <2>3, ChangeKeeps
<1>5. ASSUME NEW c \in Times, NEW w \in Times, DownloadsPart!Put(f, c, w) PROVE DownloadsInv'
  <2> DEFINE times == [created |-> c, written |-> w]
  <2>1. /\ DownloadsPart!Change("added", f, times)
        /\ modified' = IF folder[f] = DownloadsPart!Absent THEN modified \ {f} ELSE modified \cup {f}
    BY <1>5 DEF DownloadsPart!Put
  <2>2. times \in [created : Times, written : Times] /\ times # DownloadsPart!Absent
    BY <1>3 DEF DownloadsPart!Absent
  <2> HIDE DEF times
  <2>3. f \in modified' <=> folder[f] # DownloadsPart!Absent
    BY <2>1
  <2>4. monitoring = "on" /\ f \notin unwatched => Tracked(f)'
    BY <1>2, <2>1, <2>2, <2>3
  <2>5. \A g \in Files \ {f} : g \in modified' <=> g \in modified
    BY <2>1
  <2> QED
    BY <2>1, <2>2, <2>4, <2>5, ChangeKeeps
<1>6. CASE DownloadsPart!Delete(f)
  <2>1. DownloadsPart!Change("removed", f, DownloadsPart!Absent) /\ modified' = modified \ {f}
    BY <1>6 DEF DownloadsPart!Delete
  <2>2. monitoring = "on" /\ f \notin unwatched => Tracked(f)'
    BY <1>2, <2>1
  <2>3. \A g \in Files \ {f} : g \in modified' <=> g \in modified
    BY <2>1
  <2> QED
    BY <2>1, <2>2, <2>3, ChangeKeeps
<1> QED
  BY <1>4, <1>5, <1>6

\* The directory is read.
LEMMA DirectoryRead == DownloadsInv /\ DownloadsPart!Load => DownloadsInv'
<1> SUFFICES ASSUME DownloadsInv, DownloadsPart!Load PROVE DownloadsInv'
  OBVIOUS
<1> DEFINE present == {g \in Files : folder[g] # DownloadsPart!Absent}
           there == {[file |-> f, time |-> folder[f].created] : f \in present}
           n == DownloadsPart!Cardinality(there)
<1>1. /\ monitoring = "off" /\ monitoring' = "loaded" /\ modified' = {}
      /\ UNCHANGED <<adding, folder, file_reports, unwatched>>
      /\ sorted_list' \in DownloadsPart!Bijection(1 .. n, there)
      /\ DownloadsPart!InOrder(sorted_list')
  BY DEF DownloadsPart!Load
<1>2. \A f \in present : folder[f].created \in Times
  BY DEF DownloadsInv, DownloadTypes
<1>3. there \subseteq Entry
  BY <1>2 DEF Entry
<1>4. n \in Nat
  <2> DEFINE entry == [f \in present |-> [file |-> f, time |-> folder[f].created]]
  <2>1. IsFiniteSet(present)
    BY FS_Subset, FilesAssumption
  <2>2. entry \in Surjection(present, there)
    BY DEF Surjection
  <2>3. IsFiniteSet(there)
    BY <2>1, <2>2, FS_Surjection
  <2>4. n = Cardinality(there)
    BY DEF DownloadsPart!Cardinality, Cardinality
  <2> QED
    BY <2>3, <2>4, FS_CardinalityType
<1> HIDE DEF n
<1>5. /\ sorted_list' \in [1 .. n -> there]
      /\ \A i, j \in 1 .. n : sorted_list'[i] = sorted_list'[j] => i = j
      /\ \A e \in there : \E i \in 1 .. n : sorted_list'[i] = e
  BY <1>1 DEF DownloadsPart!Bijection, DownloadsPart!Injection, DownloadsPart!Surjection,
     DownloadsPart!IsInjective
<1>6. \A d, e \in there : d.file = e.file => d = e
  OBVIOUS
<1> HIDE DEF there
<1>7. sorted_list' \in Seq(Entry) /\ Len(sorted_list') = n
  BY <1>3, <1>4, <1>5
<1>8. Good(sorted_list')
  BY <1>1, <1>5, <1>6, <1>7 DEF Good, Distinct
<1>9. Entries(sorted_list') = there
  BY <1>5, <1>7 DEF Entries
<1>10. adding' = DownloadsPart!None /\ file_reports' = <<>>
  BY <1>1 DEF DownloadsInv
<1>11. ASSUME NEW f \in Files PROVE Tracked(f)'
  <2>1. NoneAbout(file_reports, f, Len(file_reports))'
    BY <1>10 DEF NoneAbout
  <2>2. CASE folder[f] = DownloadsPart!Absent
    <3>1. ~Has(sorted_list', f)
      BY <1>9, <2>2 DEF Has, there
    <3>2. ~Known(f)'
      BY <1>10, <3>1, FilesAssumption DEF Known
    <3> QED
      BY <1>1, <2>1, <2>2, <3>2 DEF Tracked, Settled
  <2>3. CASE folder[f] # DownloadsPart!Absent
    <3>1. [file |-> f, time |-> folder[f].created] \in Entries(sorted_list')
      BY <1>9, <2>3 DEF there
    <3> QED
      BY <1>1, <2>1, <2>3, <3>1 DEF Tracked, Settled
  <2> QED
    BY <2>2, <2>3
<1>12. DownloadTypes'
  BY <1>1, <1>8 DEF DownloadsInv, DownloadTypes
<1> QED
  BY <1>1, <1>10, <1>11, <1>12 DEF DownloadsInv

\* What on_file_changed does to the list and to the file that is looked up.
LEMMA HandlerEffect ==
  ASSUME DownloadsInv, DownloadsPart!OnFileChanged, NEW f, f = Head(file_reports).file
  PROVE  /\ f \in Files /\ adding = DownloadsPart!None /\ adding' \in {DownloadsPart!None, f}
         /\ Good(sorted_list') /\ (adding' # DownloadsPart!None => ~Has(sorted_list', f))
         /\ \A e : e.file # f => (e \in Entries(sorted_list') <=> e \in Entries(sorted_list))
         /\ Head(file_reports).kind = "removed" =>
              ~Has(sorted_list', f) /\ adding' = DownloadsPart!None
         /\ Head(file_reports).kind # "removed" /\ Has(sorted_list, f) =>
              /\ Has(sorted_list', f) /\ adding' = DownloadsPart!None
              /\ folder[f] # DownloadsPart!Absent =>
                   [file |-> f, time |-> folder[f].written] \in Entries(sorted_list')
         /\ Head(file_reports).kind = "added" /\ ~Has(sorted_list, f) => adding' = f
         /\ Head(file_reports).kind = "modified" /\ ~Has(sorted_list, f) =>
              adding' = DownloadsPart!None /\ UNCHANGED sorted_list
<1> DEFINE e0 == Head(file_reports)
<1>1. e0 \in Report /\ f \in Files /\ f # DownloadsPart!None
  <2>1. file_reports \in Seq(Report) /\ file_reports # <<>>
    BY DEF DownloadsInv, DownloadTypes, DownloadsPart!OnFileChanged, Report
  <2>2. e0 \in Report
    BY <2>1
  <2> QED
    BY <2>2, FilesAssumption DEF Report
<1>2. adding = DownloadsPart!None /\ Good(sorted_list)
  BY DEF DownloadsInv, DownloadTypes, DownloadsPart!OnFileChanged
<1>3. \A g : g \in DownloadsPart!Listed <=> Has(sorted_list, g)
  BY DEF DownloadsPart!Listed, Has, Entries
<1>4. CASE e0.kind = "added" /\ ~Has(sorted_list, f)
  <2>1. adding' = f /\ UNCHANGED sorted_list
    BY <1>3, <1>4 DEF DownloadsPart!OnFileChanged
  <2> QED
    BY <1>1, <1>2, <1>4, <2>1
<1>5. CASE e0.kind = "removed"
  <2>1. /\ UNCHANGED adding
        /\ sorted_list' = IF Has(sorted_list, f) THEN DownloadsPart!Without(sorted_list, f)
                                                 ELSE sorted_list
    BY <1>3, <1>5 DEF DownloadsPart!OnFileChanged
  <2>2. Good(sorted_list') /\ Entries(sorted_list') = {e \in Entries(sorted_list) : e.file # f}
    <3>1. CASE Has(sorted_list, f)
      BY <1>2, <2>1, <3>1, WithoutFile
    <3>2. CASE ~Has(sorted_list, f)
      BY <1>2, <2>1, <3>2 DEF Has
    <3> QED
      BY <3>1, <3>2
  <2> QED
    BY <1>1, <1>2, <1>5, <2>1, <2>2 DEF Has
<1>6. CASE e0.kind # "removed" /\ ~(e0.kind = "added" /\ ~Has(sorted_list, f))
  <2>1. /\ UNCHANGED adding
        /\ sorted_list' \in IF Has(sorted_list, f) /\ folder[f] # DownloadsPart!Absent
                            THEN DownloadsPart!Updated(sorted_list, f) ELSE {sorted_list}
    BY <1>3, <1>6 DEF DownloadsPart!OnFileChanged, DownloadsPart!UpdateFile
  <2>2. CASE Has(sorted_list, f) /\ folder[f] # DownloadsPart!Absent
    <3>1. folder[f].written \in Times
      BY <1>1, <2>2 DEF DownloadsInv, DownloadTypes
    <3>2. /\ Good(sorted_list')
          /\ Entries(sorted_list') = {e \in Entries(sorted_list) : e.file # f}
                                       \cup {[file |-> f, time |-> folder[f].written]}
      BY <1>1, <1>2, <2>1, <2>2, <3>1, UpdatedFile
    <3> DEFINE e1 == [file |-> f, time |-> folder[f].written]
    <3>3. e1.file = f /\ e1 \in Entries(sorted_list')
      BY <3>2
    <3>4. Has(sorted_list', f)
      BY <3>3 DEF Has
    <3>5. \A e : e.file # f => (e \in Entries(sorted_list') <=> e \in Entries(sorted_list))
      BY <3>2
    <3> HIDE DEF e1
    <3> QED
      BY <1>1, <1>2, <1>6, <2>1, <2>2, <3>2, <3>3, <3>4, <3>5 DEF e1
  <2>3. CASE ~(Has(sorted_list, f) /\ folder[f] # DownloadsPart!Absent)
    BY <1>1, <1>2, <1>6, <2>1, <2>3
  <2> QED
    BY <2>2, <2>3
<1> QED
  BY <1>4, <1>5, <1>6

\* A report is handled.
LEMMA ReportHandled == DownloadsInv /\ DownloadsPart!OnFileChanged => DownloadsInv'
<1> SUFFICES ASSUME DownloadsInv, DownloadsPart!OnFileChanged PROVE DownloadsInv'
  OBVIOUS
<1> PICK f : f = Head(file_reports).file
  OBVIOUS
<1> DEFINE kind == Head(file_reports).kind
<1>1. /\ f \in Files /\ adding = DownloadsPart!None /\ adding' \in {DownloadsPart!None, f}
      /\ Good(sorted_list') /\ (adding' # DownloadsPart!None => ~Has(sorted_list', f))
      /\ \A e : e.file # f => (e \in Entries(sorted_list') <=> e \in Entries(sorted_list))
      /\ kind = "removed" => ~Has(sorted_list', f) /\ adding' = DownloadsPart!None
      /\ kind # "removed" /\ Has(sorted_list, f) =>
           /\ Has(sorted_list', f) /\ adding' = DownloadsPart!None
           /\ folder[f] # DownloadsPart!Absent =>
                [file |-> f, time |-> folder[f].written] \in Entries(sorted_list')
      /\ kind = "added" /\ ~Has(sorted_list, f) => adding' = f
      /\ kind = "modified" /\ ~Has(sorted_list, f) =>
           adding' = DownloadsPart!None /\ UNCHANGED sorted_list
  BY HandlerEffect
<1>2. /\ monitoring = "on" /\ file_reports # <<>> /\ file_reports' = Tail(file_reports)
      /\ UNCHANGED <<folder, monitoring, unwatched, modified>>
  BY DEF DownloadsPart!OnFileChanged
<1>3. file_reports \in Seq(Report) /\ f # DownloadsPart!None
  BY <1>1, FilesAssumption DEF DownloadsInv, DownloadTypes, Report
<1> PICK n \in Nat : n = Len(file_reports)
  BY <1>3
<1>4. /\ n \in Nat \ {0} /\ Len(file_reports') = n - 1 /\ file_reports' \in Seq(Report)
      /\ \A k \in 1 .. n - 1 : file_reports'[k] = file_reports[k + 1]
      /\ \A k \in 2 .. n : file_reports'[k - 1] = file_reports[k]
      /\ file_reports[1].file = f /\ file_reports[1].kind = kind
      /\ kind \in {"added", "modified", "removed"}
  <2>1. /\ Len(file_reports) = n /\ n # 0 /\ file_reports[1] = Head(file_reports)
        /\ Len(Tail(file_reports)) = n - 1 /\ Tail(file_reports) \in Seq(Report)
        /\ Head(file_reports) \in Report
        /\ \A k \in 1 .. n - 1 : Tail(file_reports)[k] = file_reports[k + 1]
    BY <1>2, <1>3
  <2>2. \A k \in 2 .. n : k - 1 \in 1 .. n - 1 /\ (k - 1) + 1 = k
    OBVIOUS
  <2> QED
    BY <1>2, <2>1, <2>2 DEF Report
<1> HIDE DEF kind
<1>5. DownloadTypes'
  BY <1>1, <1>2, <1>4 DEF DownloadsInv, DownloadTypes, Report
<1>6. \A g \in Files \ {f} : Known(g)' <=> Known(g)
  <2> TAKE g \in Files \ {f}
  <2>1. adding # g /\ adding' # g
    BY <1>1, FilesAssumption
  <2>2. Has(sorted_list', g) <=> Has(sorted_list, g)
    BY <1>1 DEF Has
  <2> QED
    BY <2>1, <2>2 DEF Known
<1>7. /\ kind = "removed" => ~Known(f)'
      /\ kind # "removed" /\ Known(f) => Known(f)'
      /\ kind = "added" => Known(f)'
      /\ Known(f) <=> Has(sorted_list, f)
  BY <1>1, <1>3 DEF Known
<1>8. ASSUME NEW g \in Files, Tracked(g), ~LastAt(file_reports, 1, g)
      PROVE  Tracked(g)'
  <2>1. CASE NoneAbout(file_reports, g, n) /\ Settled(g)
    <3>1. g # f
      BY <1>4, <2>1 DEF NoneAbout
    <3>2. NoneAbout(file_reports, g, Len(file_reports))'
      BY <1>4, <2>1 DEF NoneAbout
    <3>3. \A time : [file |-> g, time |-> time] \in Entries(sorted_list) =>
            [file |-> g, time |-> time] \in Entries(sorted_list')
      BY <1>1, <3>1
    <3>4. adding # g
      BY <1>1, FilesAssumption
    <3>5. Settled(g)'
      BY <1>2, <1>6, <2>1, <3>1, <3>3, <3>4 DEF Settled
    <3> QED
      BY <3>2, <3>5 DEF Tracked
  <2>2. ASSUME NEW i \in 1 .. n, LastAt(file_reports, i, g), Reported(i, g)
        PROVE  Tracked(g)'
    <3>1. i \in 2 .. n /\ i - 1 \in 1 .. n - 1
      BY <1>8, <2>2
    <3>2. LastAt(file_reports', i - 1, g)
      <4>1. file_reports'[i - 1].file = g
        BY <1>4, <2>2, <3>1 DEF LastAt
      <4>2. ASSUME NEW k \in (i - 1) + 1 .. n - 1 PROVE file_reports'[k].file # g
        <5>1. k \in 1 .. n - 1 /\ k + 1 \in i + 1 .. n
          BY <3>1
        <5> QED
          BY <1>4, <2>2, <5>1 DEF LastAt
      <4> QED
        BY <1>4, <3>1, <4>1, <4>2 DEF LastAt
    <3> PICK known \in BOOLEAN, after \in BOOLEAN : known = Known(g) /\ after = Known(g)'
      BY KnownBoolean
    <3>3. /\ file_reports[1].file # g => (after <=> known)
          /\ IsReport(file_reports[1], g, "removed") => ~after
          /\ file_reports[1].file = g /\ file_reports[1].kind # "removed" /\ known => after
          /\ IsReport(file_reports[1], g, "added") => after
      BY <1>4, <1>6, <1>7 DEF IsReport
    <3>4. /\ FreeAt(file_reports, i, g, known) => FreeAt(Tail(file_reports), i - 1, g, after)
          /\ KnownAt(file_reports, i, g, known) => KnownAt(Tail(file_reports), i - 1, g, after)
      BY <1>2, <1>3, <3>1, <3>3, FirstHandled
    <3>5. Reported(i - 1, g)'
      BY <1>2, <1>4, <2>2, <3>1, <3>4 DEF Reported
    <3> QED
      BY <1>4, <3>1, <3>2, <3>5 DEF Tracked
  <2> QED
    BY <1>8, <2>1, <2>2 DEF Tracked
<1>9. ASSUME NEW g \in Files, Tracked(g), LastAt(file_reports, 1, g)
      PROVE  Tracked(g)'
  <2>1. g = f /\ \A k \in 2 .. n : file_reports[k].file # g
    BY <1>4, <1>9 DEF LastAt
  <2>2. NoneAbout(file_reports, g, Len(file_reports))'
    BY <1>4, <2>1 DEF NoneAbout
  <2>3. Reported(1, g)
    <3>1. ~NoneAbout(file_reports, g, n)
      BY <1>4, <2>1 DEF NoneAbout
    <3>2. \A i \in 1 .. n : LastAt(file_reports, i, g) => i = 1
      BY <2>1 DEF LastAt
    <3> QED
      BY <1>9, <3>1, <3>2 DEF Tracked
  <2>4. Settled(g)'
    <3>1. CASE folder[g] = DownloadsPart!Absent
      <4>1. kind = "removed"
        BY <1>4, <2>3, <3>1 DEF Reported
      <4> QED
        BY <1>2, <1>7, <2>1, <3>1, <4>1 DEF Settled
    <3>2. CASE folder[g] # DownloadsPart!Absent /\ g \in modified
      <4>1. kind # "removed" /\ KnownAt(file_reports, 1, g, Known(g))
        BY <1>4, <2>3, <3>2 DEF Reported
      <4>2. Known(g)
        BY <4>1 DEF KnownAt
      <4>3. [file |-> f, time |-> folder[f].written] \in Entries(sorted_list')
        BY <1>1, <1>7, <2>1, <3>2, <4>1, <4>2
      <4> QED
        BY <1>2, <2>1, <3>2, <4>3 DEF Settled
    <3>3. CASE folder[g] # DownloadsPart!Absent /\ g \notin modified
      <4>1. kind = "added" /\ FreeAt(file_reports, 1, g, Known(g))
        BY <1>4, <2>3, <3>3 DEF Reported
      <4>2. ~Known(g)
        BY <4>1 DEF FreeAt
      <4>3. adding' = g
        BY <1>1, <1>7, <2>1, <4>1, <4>2
      <4> QED
        BY <1>2, <3>3, <4>3 DEF Settled
    <3> QED
      BY <3>1, <3>2, <3>3
  <2> QED
    BY <2>2, <2>4 DEF Tracked
<1>10. \A g \in Files \ unwatched' : Tracked(g)'
  BY <1>2, <1>8, <1>9 DEF DownloadsInv
<1> QED
  BY <1>1, <1>2, <1>5, <1>10 DEF DownloadsInv

\* The file that was looked up is added, if it is still there.
LEMMA FileAdded == DownloadsInv /\ DownloadsPart!AddFile => DownloadsInv'
<1> SUFFICES ASSUME DownloadsInv, DownloadsPart!AddFile PROVE DownloadsInv'
  OBVIOUS
<1>1. PICK f \in Files : f = adding /\ f # DownloadsPart!None /\ ~Has(sorted_list, f)
  BY DEF DownloadsInv, DownloadTypes, DownloadsPart!AddFile
<1>2. /\ adding' = DownloadsPart!None /\ Good(sorted_list)
      /\ UNCHANGED <<folder, file_reports, monitoring, unwatched, modified>>
      /\ sorted_list' \in IF folder[f] = DownloadsPart!Absent
                          THEN {sorted_list} ELSE DownloadsPart!Added(sorted_list, f)
  BY <1>1 DEF DownloadsInv, DownloadTypes, DownloadsPart!AddFile, DownloadsPart!directory
<1> DEFINE e0 == [file |-> f, time |-> folder[f].created]
<1>3. /\ Good(sorted_list')
      /\ Entries(sorted_list') = IF folder[f] = DownloadsPart!Absent
                                 THEN Entries(sorted_list) ELSE Entries(sorted_list) \cup {e0}
  <2>1. CASE folder[f] = DownloadsPart!Absent
    BY <1>2, <2>1
  <2>2. CASE folder[f] # DownloadsPart!Absent
    <3>1. folder[f].created \in Times
      BY <2>2 DEF DownloadsInv, DownloadTypes
    <3> QED
      BY <1>1, <1>2, <2>2, <3>1, AddedFile
  <2> QED
    BY <2>1, <2>2
<1>4. e0.file = f
  OBVIOUS
<1> HIDE DEF e0
<1>5. DownloadTypes'
  BY <1>2, <1>3 DEF DownloadsInv, DownloadTypes
<1>6. ASSUME NEW g \in Files, Tracked(g) PROVE Tracked(g)'
  <2>1. Entries(sorted_list) \subseteq Entries(sorted_list')
    BY <1>3
  <2>2. CASE g # f
    <3>1. Has(sorted_list', g) <=> Has(sorted_list, g)
      BY <1>3, <1>4, <2>2 DEF Has
    <3>2. adding # g /\ adding' # g
      BY <1>1, <1>2, <2>2, FilesAssumption
    <3>3. Known(g)' <=> Known(g)
      BY <3>1, <3>2 DEF Known
    <3> QED
      BY <1>2, <1>6, <2>1, <3>2, <3>3, StaysTracked
  <2>3. CASE g = f /\ folder[f] = DownloadsPart!Absent
    <3>1. Known(f)
      BY <1>1 DEF Known
    <3> QED
      BY <1>2, <1>6, <2>1, <2>3, <3>1, StaysTracked
  <2>4. CASE g = f /\ folder[f] # DownloadsPart!Absent
    <3>1. e0 \in Entries(sorted_list')
      BY <1>3, <2>4
    <3>2. Known(f)'
      BY <1>4, <3>1 DEF Known, Has
    <3>3. Known(f)
      BY <1>1 DEF Known
    <3>4. [file |-> f, time |-> folder[f].created] \in Entries(sorted_list')
      BY <3>1 DEF e0
    <3> QED
      BY <1>2, <1>6, <2>1, <2>4, <3>2, <3>3, <3>4, StaysTracked
  <2> QED
    BY <2>2, <2>3, <2>4
<1>7. monitoring = "on"
  BY <1>1 DEF DownloadsInv
<1>8. \A g \in Files \ unwatched' : Tracked(g)'
  BY <1>2, <1>6, <1>7 DEF DownloadsInv
<1> QED
  BY <1>2, <1>5, <1>7, <1>8 DEF DownloadsInv

LEMMA DownloadsInvNext == DownloadsInv /\ [Next]_vars => DownloadsInv'
<1> SUFFICES ASSUME DownloadsInv, [Next]_vars PROVE DownloadsInv'
  OBVIOUS
<1>1. ASSUME UNCHANGED <<folder, file_reports, adding, sorted_list, unwatched, modified>>,
             monitoring' # monitoring => monitoring = "loaded" /\ monitoring' = "on"
      PROVE  DownloadsInv'
  <2>1. \A f : Tracked(f) => Tracked(f)'
    BY <1>1 DEF Tracked, Settled, Reported, Known
  <2> QED
    BY <1>1, <2>1 DEF DownloadsInv, DownloadTypes
<1>2. CASE DownloadsPart!Watch
  BY <1>1, <1>2 DEF DownloadsPart!Watch, DownloadsPart!directory
<1>3. CASE DownloadsPart!Deactivate
  <2>1. /\ adding' = DownloadsPart!None /\ file_reports' = <<>> /\ sorted_list' = <<>>
        /\ monitoring' = "off" /\ UNCHANGED folder
    BY <1>3 DEF DownloadsPart!Deactivate
  <2>2. Good(<<>>)
    BY DEF Good, Distinct, DownloadsPart!InOrder
  <2> QED
    BY <2>1, <2>2 DEF DownloadsInv, DownloadTypes
<1>4. CASE DownloadsPart!Next
  BY <1>2, <1>3, <1>4, DirectoryRead, ReportHandled, FileAdded, DirectoryChanges
     DEF DownloadsPart!Next
<1>5. CASE UNCHANGED downloads
  BY <1>1, <1>5 DEF downloads
<1> QED
  BY <1>4, <1>5 DEF Next, vars, DatesNext, DownloadsNext, SshNext, SnippetsNext, DesktopNext,
     SystemdNext, TransmissionNext, ResultsNext, WifiNext, NotDates, NotResults, NotSsh,
     NotSnippets, NotDesktop, NotSystemd, NotTransmission, NotWifi

\* When nothing is pending any more, the list is right.
LEMMA ListIsRight == DownloadsInv => DownloadsPart!ListFollowsFolder
<1> SUFFICES ASSUME DownloadsInv, monitoring = "on", file_reports = <<>>,
                    adding = DownloadsPart!None
             PROVE  DownloadsPart!ListFollowsFolder
  BY DEF DownloadsPart!ListFollowsFolder
<1>1. /\ sorted_list \in Seq(Entry) /\ Distinct(sorted_list)
      /\ DownloadsPart!InOrder(sorted_list)
  BY DEF DownloadsInv, DownloadTypes, Good
<1>2. \A i, j \in 1 .. Len(sorted_list) : i < j => sorted_list[i].file # sorted_list[j].file
  BY <1>1 DEF Distinct
<1>3. Entries(sorted_list) = DownloadsPart!ToSet(sorted_list)
  <2>1. DOMAIN sorted_list = 1 .. Len(sorted_list)
    BY <1>1
  <2> QED
    BY <2>1 DEF Entries, DownloadsPart!ToSet
<1>4. ASSUME NEW f \in Files \ unwatched
      PROVE  IF folder[f] = DownloadsPart!Absent THEN f \notin DownloadsPart!Listed
             ELSE [file |-> f, time |-> IF f \in modified THEN folder[f].written
                                        ELSE folder[f].created] \in Entries(sorted_list)
  <2>1. Settled(f)
    BY DEF DownloadsInv, Tracked
  <2>2. adding # f
    BY FilesAssumption
  <2>3. f \in DownloadsPart!Listed <=> Has(sorted_list, f)
    BY DEF DownloadsPart!Listed, Has, Entries
  <2> QED
    BY <2>1, <2>2, <2>3 DEF Settled, Known
<1> QED
  BY <1>1, <1>2, <1>3, <1>4 DEF DownloadsPart!ListFollowsFolder

LEMMA DownloadsInvInit == Init => DownloadsInv
<1> SUFFICES ASSUME DownloadsPart!Init PROVE DownloadsInv
  BY DEF Init
<1>1. Good(<<>>)
  BY DEF Good, Distinct, DownloadsPart!InOrder
<1> QED
  BY <1>1 DEF DownloadsPart!Init, DownloadsInv, DownloadTypes

-----------------------------------------------------------------------------
(***************************************************************************)
(* The hosts of the SSH plugin.  The calls of parse_ssh_config that have   *)
(* not ended are a bag; what a step does to the set of them.               *)
(***************************************************************************)
IsBag(b) == b \in [DOMAIN b -> Nat \ {0}]

\* A bag with one more, ...
LEMMA PutIn ==
  ASSUME NEW b, IsBag(b), NEW x, NEW c, c = b (+) SetToBag({x})
  PROVE  IsBag(c) /\ DOMAIN c = DOMAIN b \cup {x}
BY DEF IsBag, (+), SetToBag

\* ... and with one less.
LEMMA TakeOut ==
  ASSUME NEW b, IsBag(b), NEW x, NEW c, c = b (-) SetToBag({x})
  PROVE  /\ IsBag(c) /\ DOMAIN c \subseteq DOMAIN b
         /\ DOMAIN b \subseteq DOMAIN c \cup {x}
<1> DEFINE Left(e) == IF e \in {x} THEN b[e] - 1 ELSE b[e]
           d == [e \in DOMAIN b |-> Left(e)]
<1>1. \A e \in DOMAIN b : Left(e) \in Int /\ (e # x => Left(e) > 0)
  BY DEF IsBag
<1>2. c = [e \in {f \in DOMAIN d : d[f] > 0} |-> d[e]]
  BY DEF (-), SetToBag
<1>3. DOMAIN c = {e \in DOMAIN b : Left(e) > 0} /\ \A e \in DOMAIN c : c[e] = Left(e)
  BY <1>2
<1> HIDE DEF Left
<1>4. \A e \in DOMAIN c : c[e] \in Nat \ {0}
  BY <1>1, <1>3
<1>5. c = [e \in DOMAIN c |-> c[e]]
  BY <1>2
<1>6. IsBag(c)
  BY <1>4, <1>5 DEF IsBag
<1> QED
  BY <1>1, <1>3, <1>6

\* A call begins, ...
LEMMA BeginAdds ==
  ASSUME IsBag(parses), SshPart!Begin
  PROVE  IsBag(parses') /\ DOMAIN parses' = DOMAIN parses \cup {SshPart!Unread}
<1>1. parses' = parses (+) SetToBag({SshPart!Unread})
  BY DEF SshPart!Begin, SshPart!(+), SshPart!SetToBag, (+), SetToBag
<1> QED
  BY <1>1, PutIn

\* ... reads the file, ...
LEMMA ReadFileMoves ==
  ASSUME IsBag(parses), SshPart!ReadFile, NEW new, new = SshPart!Call(TRUE, config_file)
  PROVE  /\ IsBag(parses') /\ new \in DOMAIN parses'
         /\ DOMAIN parses' \subseteq DOMAIN parses \cup {new}
         /\ DOMAIN parses \subseteq DOMAIN parses' \cup {SshPart!Unread}
<1> DEFINE rest == parses (-) SetToBag({SshPart!Unread})
<1>1. parses' = rest (+) SetToBag({new})
  BY DEF SshPart!ReadFile, SshPart!(+), SshPart!(-), SshPart!SetToBag, (+), (-), SetToBag
<1>2. /\ IsBag(rest) /\ DOMAIN rest \subseteq DOMAIN parses
      /\ DOMAIN parses \subseteq DOMAIN rest \cup {SshPart!Unread}
  BY TakeOut
<1> HIDE DEF rest
<1>3. IsBag(parses') /\ DOMAIN parses' = DOMAIN rest \cup {new}
  BY <1>1, <1>2, PutIn
<1> QED
  BY <1>2, <1>3

\* ... and comes to its end, or to the next line.
LEMMA ReadLineMoves ==
  ASSUME IsBag(parses), NEW p, SshPart!ReadLine(p)
  PROVE  /\ IsBag(parses') /\ p \in DOMAIN parses /\ p.read
         /\ DOMAIN parses \subseteq DOMAIN parses' \cup {p}
         /\ \/ /\ p.lines = <<>> /\ hosts' = hosts
               /\ DOMAIN parses' \subseteq DOMAIN parses
            \/ /\ p.lines # <<>> /\ hosts' = hosts \cup Head(p.lines)
               /\ SshPart!Call(TRUE, Tail(p.lines)) \in DOMAIN parses'
               /\ DOMAIN parses' \subseteq DOMAIN parses \cup {SshPart!Call(TRUE, Tail(p.lines))}
<1> DEFINE rest == parses (-) SetToBag({p})
           new == SshPart!Call(TRUE, Tail(p.lines))
<1>1. p \in DOMAIN parses /\ p.read
  BY DEF SshPart!ReadLine, SshPart!BagIn, SshPart!BagToSet
<1>2. /\ IsBag(rest) /\ DOMAIN rest \subseteq DOMAIN parses
      /\ DOMAIN parses \subseteq DOMAIN rest \cup {p}
  BY TakeOut
<1>3. CASE p.lines = <<>>
  <2>1. parses' = rest /\ hosts' = hosts
    BY <1>3 DEF SshPart!ReadLine, SshPart!(-), SshPart!SetToBag, (-), SetToBag
  <2> QED
    BY <1>1, <1>2, <1>3, <2>1
<1>4. CASE p.lines # <<>>
  <2>1. parses' = rest (+) SetToBag({new}) /\ hosts' = hosts \cup Head(p.lines)
    BY <1>4 DEF SshPart!ReadLine, SshPart!(+), SshPart!(-), SshPart!SetToBag, (+), (-), SetToBag
  <2> HIDE DEF rest
  <2>2. IsBag(parses') /\ DOMAIN parses' = DOMAIN rest \cup {new}
    BY <1>2, <2>1, PutIn
  <2> QED
    BY <1>1, <1>2, <1>4, <2>1, <2>2
<1> QED
  BY <1>3, <1>4

Line == SUBSET UNION {SshPart!HostsOf(lines) : lines \in Contents}

\* What the calls that have not ended, and the table, may hold; and who will
\* still bring the hosts of the file: a call that has not read it yet, or one
\* that has with the lines it has left.
WithinFile ==
  /\ hosts \subseteq SshPart!HostsOf(config_file) \cup overlapped
  /\ \A p \in DOMAIN parses :
       SshPart!HostsOf(p.lines) \subseteq SshPart!HostsOf(config_file) \cup overlapped

Brings(p) == p.read /\ SshPart!HostsOf(config_file) \subseteq hosts \cup SshPart!HostsOf(p.lines)

OnTheWay ==
  \/ SshPart!HostsOf(config_file) \subseteq hosts
  \/ SshPart!Unread \in DOMAIN parses
  \/ \E p \in DOMAIN parses : Brings(p)

IsCall(p) == p = SshPart!Unread \/ \E lines \in Seq(Line) : p = SshPart!Call(TRUE, lines)

SshInv ==
  /\ config_file \in Contents /\ IsBag(parses)
  /\ \A p \in DOMAIN parses : IsCall(p)
  /\ listening \in BOOLEAN /\ reported \in BOOLEAN /\ (~listening => ~reported)
  /\ listening /\ ~reported => WithinFile /\ OnTheWay

\* Taking the first line takes its hosts.
LEMMA HostsOfLines ==
  ASSUME NEW lines \in Seq(Line)
  PROVE  \/ lines = <<>> /\ SshPart!HostsOf(lines) = {}
         \/ /\ lines # <<>> /\ Tail(lines) \in Seq(Line)
            /\ SshPart!HostsOf(lines) = Head(lines) \cup SshPart!HostsOf(Tail(lines))
<1> HIDE DEF Line
<1>1. CASE lines = <<>>
  BY <1>1 DEF SshPart!HostsOf
<1>2. CASE lines # <<>>
  <2>1. /\ Tail(lines) \in Seq(Line) /\ Head(lines) = lines[1]
        /\ Len(lines) \in Nat \ {0} /\ Len(Tail(lines)) = Len(lines) - 1
        /\ \A i \in 1 .. Len(Tail(lines)) : Tail(lines)[i] = lines[i + 1]
    BY <1>2
  <2> DEFINE L == SshPart!HostsOf(lines)
             R == Head(lines) \cup SshPart!HostsOf(Tail(lines))
  <2>2. ASSUME NEW h \in L PROVE h \in R
    <3>1. PICK i \in 1 .. Len(lines) : h \in lines[i]
      BY <2>2 DEF SshPart!HostsOf
    <3>2. CASE i = 1
      BY <3>1, <3>2, <2>1
    <3>3. CASE i # 1
      <4>1. i - 1 \in 1 .. Len(Tail(lines)) /\ Tail(lines)[i - 1] = lines[i]
        BY <3>3, <2>1
      <4> QED
        BY <4>1, <3>1 DEF SshPart!HostsOf
    <3> QED
      BY <3>2, <3>3
  <2>3. ASSUME NEW h \in R PROVE h \in L
    <3>1. CASE h \in Head(lines)
      <4>1. 1 \in 1 .. Len(lines) /\ h \in lines[1]
        BY <3>1, <2>1
      <4> QED
        BY <4>1 DEF SshPart!HostsOf
    <3>2. CASE h \in SshPart!HostsOf(Tail(lines))
      <4>1. PICK i \in 1 .. Len(Tail(lines)) : h \in Tail(lines)[i]
        BY <3>2 DEF SshPart!HostsOf
      <4>2. i + 1 \in 1 .. Len(lines) /\ h \in lines[i + 1]
        BY <4>1, <2>1
      <4> QED
        BY <4>2 DEF SshPart!HostsOf
    <3> QED
      BY <2>3, <3>1, <3>2
  <2>4. L = R
    BY <2>2, <2>3
  <2> QED
    BY <1>2, <2>1, <2>4
<1> QED
  BY <1>1, <1>2

\* What a call is.
LEMMA UnreadCall ==
  /\ SshPart!Unread.read = FALSE /\ SshPart!HostsOf(SshPart!Unread.lines) = {}
  /\ \A lines : SshPart!Call(TRUE, lines).read /\ SshPart!Call(TRUE, lines).lines = lines
BY DEF SshPart!Unread, SshPart!Call, SshPart!HostsOf

LEMMA SshInvInit ==
  ASSUME SshPart!Init
  PROVE  SshInv
<1>1. config_file \in Contents
  BY ContentsAssumption DEF SshPart!Init
<1>2. IsBag(parses) /\ DOMAIN parses = {}
  BY DEF SshPart!Init, SshPart!EmptyBag, SshPart!SetToBag, IsBag
<1> QED
  BY <1>1, <1>2 DEF SshPart!Init, SshInv

\* A call that begins empties the table and leaves to the earlier ones what
\* they may add.
LEMMA BeginKeeps ==
  ASSUME SshInv, SshPart!Begin, config_file' = config_file
  PROVE  /\ IsBag(parses') /\ \A p \in DOMAIN parses' : IsCall(p)
         /\ (WithinFile /\ OnTheWay)'
<1>1. IsBag(parses') /\ DOMAIN parses' = DOMAIN parses \cup {SshPart!Unread}
  BY BeginAdds DEF SshInv
<1>2. \A p \in DOMAIN parses : SshPart!HostsOf(p.lines) \subseteq overlapped'
  BY DEF SshPart!Begin, SshPart!BagToSet
<1>3. WithinFile'
  BY <1>1, <1>2, UnreadCall DEF WithinFile, SshPart!Begin
<1>4. \A p \in DOMAIN parses' : IsCall(p)
  BY <1>1 DEF SshInv, IsCall
<1> QED
  BY <1>1, <1>3, <1>4 DEF OnTheWay

\* The call that reads the file brings all of it.
LEMMA SshInvReadFile ==
  ASSUME SshInv, SshPart!ReadFile
  PROVE  SshInv'
<1> DEFINE new == SshPart!Call(TRUE, config_file)
<1>1. /\ IsBag(parses') /\ new \in DOMAIN parses'
      /\ DOMAIN parses' \subseteq DOMAIN parses \cup {new}
  BY ReadFileMoves DEF SshInv
<1>2. UNCHANGED <<config_file, hosts, listening, reported, overlapped>>
  BY DEF SshPart!ReadFile
<1>3. new.read /\ new.lines = config_file
  BY UnreadCall
<1>4. IsCall(new)
  BY ContentsAssumption DEF SshInv, IsCall, Line
<1> HIDE DEF new
<1>5. WithinFile => WithinFile'
  BY <1>1, <1>2, <1>3 DEF WithinFile
<1>6. OnTheWay'
  BY <1>1, <1>2, <1>3 DEF OnTheWay, Brings
<1> QED
  BY <1>1, <1>2, <1>4, <1>5, <1>6 DEF SshInv

\* What a line brings goes from the call to the table.
LEMMA SshInvReadLine ==
  ASSUME SshInv, NEW p, SshPart!ReadLine(p)
  PROVE  SshInv'
<1>1. /\ IsBag(parses') /\ p \in DOMAIN parses /\ p.read
      /\ DOMAIN parses \subseteq DOMAIN parses' \cup {p}
  BY ReadLineMoves DEF SshInv
<1>2. UNCHANGED <<config_file, listening, reported, overlapped>>
  BY DEF SshPart!ReadLine
<1>3. PICK lines \in Seq(Line) : p = SshPart!Call(TRUE, lines)
  BY <1>1, UnreadCall DEF SshInv, IsCall
<1>4. p.lines = lines /\ p # SshPart!Unread
  BY <1>1, <1>3, UnreadCall
<1>5. CASE lines = <<>>
  <2>1. hosts' = hosts /\ DOMAIN parses' \subseteq DOMAIN parses
    BY <1>4, <1>5, ReadLineMoves DEF SshInv
  <2>2. WithinFile => WithinFile'
    BY <1>2, <2>1 DEF WithinFile
  <2>3. SshPart!HostsOf(lines) = {}
    BY <1>5, HostsOfLines
  <2>4. OnTheWay => OnTheWay'
    BY <1>1, <1>2, <1>4, <2>1, <2>3 DEF OnTheWay, Brings
  <2> QED
    BY <1>1, <1>2, <2>1, <2>2, <2>4 DEF SshInv
<1>6. CASE lines # <<>>
  <2> DEFINE new == SshPart!Call(TRUE, Tail(lines))
  <2>1. /\ hosts' = hosts \cup Head(lines) /\ new \in DOMAIN parses'
        /\ DOMAIN parses' \subseteq DOMAIN parses \cup {new}
    BY <1>4, <1>6, ReadLineMoves DEF SshInv
  <2>2. /\ Tail(lines) \in Seq(Line)
        /\ SshPart!HostsOf(lines) = Head(lines) \cup SshPart!HostsOf(Tail(lines))
    BY <1>6, HostsOfLines
  <2>3. new.read /\ new.lines = Tail(lines) /\ IsCall(new)
    BY <2>2, UnreadCall DEF IsCall
  <2> HIDE DEF new
  <2>4. WithinFile => WithinFile'
    BY <1>1, <1>2, <1>4, <2>1, <2>2, <2>3 DEF WithinFile
  <2>5. OnTheWay => OnTheWay'
    BY <1>1, <1>2, <1>4, <2>1, <2>2, <2>3 DEF OnTheWay, Brings
  <2> QED
    BY <1>1, <1>2, <2>1, <2>3, <2>4, <2>5 DEF SshInv
<1> QED
  BY <1>5, <1>6

LEMMA SshInvNext ==
  ASSUME SshInv, [Next]_vars
  PROVE  SshInv'
<1>1. CASE SshPart!Activate
  BY <1>1, BeginKeeps DEF SshPart!Activate, SshInv
<1>2. CASE SshPart!Deactivate
  BY <1>2 DEF SshPart!Deactivate, SshInv, IsCall
<1>3. CASE SshPart!HandleSshConfigUpdate
  BY <1>3, BeginKeeps DEF SshPart!HandleSshConfigUpdate, SshInv
<1>4. CASE SshPart!ReadFile
  BY <1>4, SshInvReadFile
<1>5. ASSUME NEW p, SshPart!ReadLine(p)
      PROVE  SshInv'
  BY <1>5, SshInvReadLine
<1>6. ASSUME NEW lines \in Contents, SshPart!Edit(lines)
      PROVE  SshInv'
  BY <1>6 DEF SshPart!Edit, SshInv, IsCall
<1>7. CASE SshPart!Next
  BY <1>1, <1>2, <1>3, <1>4, <1>5, <1>6, <1>7 DEF SshPart!Next, SshPart!ParseStep
<1>8. CASE UNCHANGED ssh
  BY <1>8 DEF ssh, SshInv, WithinFile, OnTheWay, IsCall, Brings
<1> QED
  BY <1>7, <1>8 DEF Next, vars, DatesNext, DownloadsNext, SshNext, SnippetsNext, DesktopNext,
     SystemdNext, TransmissionNext, ResultsNext, WifiNext, NotDates, NotDownloads, NotResults,
     NotSnippets, NotDesktop, NotSystemd, NotTransmission, NotWifi

\* With no call left nothing is on the way.
LEMMA SshInvFollows ==
  ASSUME SshInv
  PROVE  SshPart!HostsFollowFile
<1> SUFFICES ASSUME listening, ~reported, parses = SshPart!EmptyBag
             PROVE  /\ SshPart!HostsOf(config_file) \subseteq hosts
                    /\ hosts \subseteq SshPart!HostsOf(config_file) \cup overlapped
  BY DEF SshPart!HostsFollowFile
<1>1. DOMAIN parses = {}
  BY DEF SshPart!EmptyBag, SshPart!SetToBag
<1> QED
  BY <1>1 DEF SshInv, WithinFile, OnTheWay

-----------------------------------------------------------------------------
\* For any files, times and contents, and however reports, looks and changes
\* fall: once all reports were handled, the downloads in memory are those of
\* the folder, each once and in the order of their times, and once all calls
\* have ended, the hosts are those of the file, and no other but what an
\* earlier call added late (src/downloads-plugin.vala, src/ssh-plugin.vala).
THEOREM ListsAlwaysFollowFiles == Spec => []ListsFollowFiles
<1>1. Init => DownloadsInv /\ SshInv
  BY DownloadsInvInit, SshInvInit DEF Init
<1>2. DownloadsInv /\ SshInv /\ [Next]_vars => (DownloadsInv /\ SshInv)'
  BY DownloadsInvNext, SshInvNext
<1>3. DownloadsInv /\ SshInv => ListsFollowFiles
  BY ListIsRight, SshInvFollows DEF ListsFollowFiles
<1> QED
  BY <1>1, <1>2, <1>3, PTL DEF Spec

-----------------------------------------------------------------------------
(***************************************************************************)
(* The dates.  Of the calendar: days follow each other, and so do their    *)
(* weekdays, for which a year begins in March.                             *)
(***************************************************************************)
LEMMA NextDayExists ==
  ASSUME NEW d \in DatesPart!Days
  PROVE  DatesPart!NextDay(d) \in DatesPart!Days
BY DEF DatesPart!Days, DatesPart!NextDay, DatesPart!DaysIn, DatesPart!Date

\* What a year adds to the quotients that count leap years.
LEMMA LeapDays ==
  ASSUME NEW y \in Nat
  PROVE  /\ y \div 4 = (y - 1) \div 4 + (IF y % 4 = 0 THEN 1 ELSE 0)
         /\ y \div 100 = (y - 1) \div 100 + (IF y % 100 = 0 THEN 1 ELSE 0)
         /\ y \div 400 = (y - 1) \div 400 + (IF y % 400 = 0 THEN 1 ELSE 0)
         /\ y % 100 = 0 => y % 4 = 0
         /\ y % 400 = 0 => y % 100 = 0
OBVIOUS

\* Days of the week, one and several on.
LEMMA Mod7 ==
  /\ \A a \in Int : a % 7 \in 0 .. 6 /\ (a + 1) % 7 = ((a % 7) + 1) % 7
  /\ \A a, k \in Int : (a + 7 * k) % 7 = a % 7
OBVIOUS

\* The number of a day of which Weekday is the rest.
Leaps(y) == y \div 4 - y \div 100 + y \div 400
Table == <<0, 3, 2, 5, 0, 3, 5, 1, 4, 6, 2, 4>>
Ordinal(y, m, d) == LET z == IF m < 3 THEN y - 1 ELSE y IN z + Leaps(z) + Table[m] + d

LEMMA OrdinalWeekday ==
  ASSUME NEW y \in Nat, NEW m \in 1 .. 12, NEW d \in 1 .. 31
  PROVE  /\ Ordinal(y, m, d) \in Int
         /\ DatesPart!Weekday(DatesPart!Date(y, m, d)) = Ordinal(y, m, d) % 7
<1>1. Table[m] \in Int
  BY DEF Table
<1>2. PICK z \in Int : z = IF m < 3 THEN y - 1 ELSE y
  OBVIOUS
<1>3. Leaps(z) \in Int /\ Leaps(z) = z \div 4 - z \div 100 + z \div 400
  BY DEF Leaps
<1>4. Ordinal(y, m, d) = z + Leaps(z) + Table[m] + d
  BY <1>2 DEF Ordinal
<1>5. DatesPart!Weekday(DatesPart!Date(y, m, d))
        = (z + z \div 4 - z \div 100 + z \div 400 + Table[m] + d) % 7
  BY <1>2 DEF DatesPart!Weekday, DatesPart!Date, Table
<1>6. z + z \div 4 - z \div 100 + z \div 400 + Table[m] + d = Ordinal(y, m, d)
  BY <1>1, <1>3, <1>4
<1> QED
  BY <1>1, <1>3, <1>4, <1>5, <1>6

\* A leap year has one day more, ...
LEMMA LeapsStep ==
  ASSUME NEW y \in Nat
  PROVE  Leaps(y - 1) \in Int /\ Leaps(y) = Leaps(y - 1) + (IF DatesPart!Leap(y) THEN 1 ELSE 0)
BY LeapDays DEF Leaps, DatesPart!Leap

\* ... so that the day after the last of a month has the next number.
LEMMA OrdinalNext ==
  ASSUME NEW y \in Nat, NEW m \in 1 .. 12
  PROVE  /\ \A d \in 1 .. 31 : Ordinal(y, m, d + 1) = Ordinal(y, m, d) + 1
         /\ m < 12 => \E k \in Int : Ordinal(y, m, DatesPart!DaysIn(y, m)) + 1
                                     = Ordinal(y, m + 1, 1) + 7 * k
         /\ m = 12 => \E k \in Int : Ordinal(y, m, 31) + 1 = Ordinal(y + 1, 1, 1) + 7 * k
<1>1. Leaps(y - 1) \in Int /\ Leaps(y) \in Int
  BY LeapsStep
<1>2. Table[m] \in Int
  BY DEF Table
<1>3. \A d \in 1 .. 31 : Ordinal(y, m, d + 1) = Ordinal(y, m, d) + 1
  BY <1>1, <1>2 DEF Ordinal
<1>4. CASE m = 2
  <2>1. Ordinal(y, 2, DatesPart!DaysIn(y, 2)) + 1 = Ordinal(y, 3, 1) + 7 * 4
    BY LeapsStep DEF Ordinal, Table, DatesPart!DaysIn
  <2> QED
    BY <1>3, <1>4, <2>1
<1>5. CASE m = 12
  <2>1. Ordinal(y, 12, 31) + 1 = Ordinal(y + 1, 1, 1) + 7 * 5
    BY <1>1 DEF Ordinal, Table
  <2>2. \E k \in Int : Ordinal(y, 12, 31) + 1 = Ordinal(y + 1, 1, 1) + 7 * k
    <3>1. 5 \in Int
      OBVIOUS
    <3> QED
      BY ONLY <2>1, <3>1
  <2> QED
    BY <1>3, <1>5, <2>2
<1>6. CASE m # 2 /\ m # 12
  <2> DEFINE z == IF m < 3 THEN y - 1 ELSE y
  <2>1. z + Leaps(z) \in Int /\ m + 1 \in 1 .. 12
    BY <1>1, <1>6
  <2>2. /\ Ordinal(y, m, DatesPart!DaysIn(y, m)) = z + Leaps(z) + Table[m] + DatesPart!DaysIn(y, m)
        /\ Ordinal(y, m + 1, 1) = z + Leaps(z) + Table[m + 1] + 1
    BY <1>6 DEF Ordinal
  <2>3. \E k \in {3, 4, 5} : Table[m] + DatesPart!DaysIn(y, m) = Table[m + 1] + 7 * k
    BY <1>6 DEF Table, DatesPart!DaysIn
  <2>4. Table[m + 1] \in Int /\ DatesPart!DaysIn(y, m) \in Int
    BY <2>1 DEF Table, DatesPart!DaysIn
  <2> HIDE DEF z
  <2>5. \E k \in Int : Ordinal(y, m, DatesPart!DaysIn(y, m)) + 1 = Ordinal(y, m + 1, 1) + 7 * k
    BY <1>2, <2>1, <2>2, <2>3, <2>4
  <2> QED
    BY <1>3, <1>6, <2>5
<1> QED
  BY <1>4, <1>5, <1>6

LEMMA WeekdayNext ==
  ASSUME NEW d \in DatesPart!Days, NEW y, y = d.year, NEW m, m = d.month, NEW e, e = d.day
  PROVE  /\ DatesPart!Weekday(d) \in 0 .. 6
         /\ DatesPart!Weekday(DatesPart!NextDay(d)) = (DatesPart!Weekday(d) + 1) % 7
<1> DEFINE last == DatesPart!DaysIn(y, m)
           o == Ordinal(y, m, e)
<1>1. /\ y \in Nat /\ m \in 1 .. 12 /\ e \in 1 .. 31 /\ e <= last /\ last \in 28 .. 31
      /\ d = DatesPart!Date(y, m, e) /\ (m = 12 => last = 31)
  BY DEF DatesPart!Days, DatesPart!Date, DatesPart!DaysIn
<1>2. o \in Int /\ DatesPart!Weekday(d) = o % 7
  BY <1>1, OrdinalWeekday
<1>3. \E k \in Int : \E n \in Int : /\ DatesPart!Weekday(DatesPart!NextDay(d)) = n % 7
                                    /\ o + 1 = n + 7 * k
  <2>1. CASE e < last
    <3>1. DatesPart!NextDay(d) = DatesPart!Date(y, m, e + 1) /\ e + 1 \in 1 .. 31
      BY <1>1, <2>1 DEF DatesPart!NextDay
    <3>2. Ordinal(y, m, e + 1) = o + 1
      BY <1>1, OrdinalNext
    <3>3. DatesPart!Weekday(DatesPart!NextDay(d)) = Ordinal(y, m, e + 1) % 7
      BY <1>1, <3>1, OrdinalWeekday
    <3>4. o + 1 = (o + 1) + 7 * 0
      BY <1>2
    <3> QED
      BY <1>2, <3>2, <3>3, <3>4
  <2>2. CASE e = last /\ m < 12
    <3>1. DatesPart!NextDay(d) = DatesPart!Date(y, m + 1, 1) /\ m + 1 \in 1 .. 12 /\ 1 \in 1 .. 31
      BY <1>1, <2>2 DEF DatesPart!NextDay
    <3>2. \E k \in Int : o + 1 = Ordinal(y, m + 1, 1) + 7 * k
      <4>1. m < 12
        BY <2>2
      <4>2. \E k \in Int : Ordinal(y, m, DatesPart!DaysIn(y, m)) + 1 = Ordinal(y, m + 1, 1) + 7 * k
        BY <1>1, <4>1, OrdinalNext
      <4> QED
        BY ONLY <2>2, <4>2
    <3>3. /\ Ordinal(y, m + 1, 1) \in Int
          /\ DatesPart!Weekday(DatesPart!NextDay(d)) = Ordinal(y, m + 1, 1) % 7
      BY <1>1, <3>1, OrdinalWeekday
    <3> QED
      BY <3>2, <3>3
  <2>3. CASE e = last /\ m = 12
    <3>1. /\ DatesPart!NextDay(d) = DatesPart!Date(y + 1, 1, 1)
          /\ y + 1 \in Nat /\ 1 \in 1 .. 12 /\ 1 \in 1 .. 31
      <4>1. ~(d.day < DatesPart!DaysIn(d.year, d.month)) /\ ~(d.month < 12) /\ d.year = y
        BY <1>1, <2>3
      <4>2. DatesPart!NextDay(d) = DatesPart!Date(y + 1, 1, 1)
        BY ONLY <4>1 DEF DatesPart!NextDay
      <4>3. y \in Nat
        BY ONLY <1>1
      <4>4. y + 1 \in Nat /\ 1 \in 1 .. 12 /\ 1 \in 1 .. 31
        BY ONLY <4>3
      <4> QED
        BY ONLY <4>2, <4>4
    <3>2. \E k \in Int : o + 1 = Ordinal(y + 1, 1, 1) + 7 * k
      BY <1>1, <2>3, OrdinalNext
    <3>3. /\ Ordinal(y + 1, 1, 1) \in Int
          /\ DatesPart!Weekday(DatesPart!NextDay(d)) = Ordinal(y + 1, 1, 1) % 7
      BY <3>1, OrdinalWeekday
    <3> QED
      BY <3>2, <3>3
  <2> QED
    BY <1>1, <2>1, <2>2, <2>3
<1> HIDE DEF o
<1>4. PICK k \in Int, n \in Int : /\ DatesPart!Weekday(DatesPart!NextDay(d)) = n % 7
                                  /\ o + 1 = n + 7 * k
  BY <1>3
<1>5. n % 7 = (o + 1) % 7
  BY <1>4, Mod7
<1> QED
  BY <1>2, <1>4, <1>5, Mod7

\* The days that come are days, each the day after the one before.
LEMMA AddDaysSteps ==
  ASSUME NEW d \in DatesPart!Days, NEW n \in Nat
  PROVE  /\ DatesPart!AddDays(d, 0) = d /\ DatesPart!AddDays(d, n) \in DatesPart!Days
         /\ DatesPart!AddDays(d, n + 1) = DatesPart!NextDay(DatesPart!AddDays(d, n))
<1> DEFINE Days == DatesPart!Days
           next == [i \in Nat |-> [x \in Days |-> DatesPart!NextDay(x)]]
           After(m, f) == f = [i \in 0 .. m |-> IF i = 0 THEN d ELSE DatesPart!NextDay(f[i - 1])]
           chosen(m) == CHOOSE f : After(m, f)
<1>1. next \in [Nat -> [Days -> Days]]
  BY NextDayExists
<1>2. ASSUME NEW m \in Nat
      PROVE  /\ chosen(m) \in [0 .. m -> Days] /\ After(m, chosen(m))
             /\ DatesPart!AddDays(d, m) = chosen(m)[m]
  <2>1. PICK f : /\ f \in [0 .. m -> Days] /\ f[0] = d
                 /\ \A i \in 1 .. m : f[i] = next[i][f[i - 1]]
    <3> HIDE DEF next, Days
    <3> QED
      BY <1>1, StepsExist DEF Days
  <2>2. After(m, f)
    <3>1. ASSUME NEW i \in 1 .. m PROVE f[i] = DatesPart!NextDay(f[i - 1])
      <4>1. f[i - 1] \in Days /\ i \in Nat
        BY <2>1
      <4>2. next[i][f[i - 1]] = DatesPart!NextDay(f[i - 1])
        BY <4>1
      <4> QED
        BY <2>1, <4>2
    <3> QED
      BY <2>1, <3>1
  <2>3. After(m, chosen(m))
    BY <2>2
  <2>4. \A g : After(m, g) => \A i \in 0 .. m : g[i] = f[i]
    <3> SUFFICES ASSUME NEW g, After(m, g) PROVE \A i \in 0 .. m : g[i] = f[i]
      OBVIOUS
    <3>1. g[0] = f[0]
      BY <2>2
    <3>2. \A i \in 1 .. m : g[i - 1] = f[i - 1] => g[i] = f[i]
      BY <2>2
    <3> HIDE DEF After, next, chosen, Days
    <3> QED
      BY <3>1, <3>2, StepsAgree
  <2>5. chosen(m) = f
    BY <2>1, <2>3, <2>4
  <2>6. DatesPart!AddDays(d, m) = chosen(m)[m]
    BY DEF DatesPart!AddDays
  <2> QED
    BY <2>1, <2>3, <2>5, <2>6
<1> HIDE DEF chosen
<1>3. DatesPart!AddDays(d, 0) = d /\ DatesPart!AddDays(d, n) \in Days
  BY <1>2
<1>4. DatesPart!AddDays(d, n + 1) = DatesPart!NextDay(DatesPart!AddDays(d, n))
  <2>1. n + 1 \in Nat
    OBVIOUS
  <2>2. \A i \in 1 .. n : chosen(n)[i - 1] = chosen(n + 1)[i - 1] => chosen(n)[i] = chosen(n + 1)[i]
    BY <1>2, <2>1
  <2>3. chosen(n)[0] = chosen(n + 1)[0]
    BY <1>2, <2>1
  <2>4. chosen(n)[n] = chosen(n + 1)[n]
    BY <2>2, <2>3, StepsAgree
  <2> QED
    BY <1>2, <2>1, <2>4
<1> QED
  BY <1>3, <1>4

\* The weekdays come in their order.
LEMMA AddDaysWeekday ==
  ASSUME NEW d \in DatesPart!Days, NEW n \in Nat
  PROVE  DatesPart!Weekday(DatesPart!AddDays(d, n)) = (DatesPart!Weekday(d) + n) % 7
<1> DEFINE f == [i \in 0 .. n |-> DatesPart!Weekday(DatesPart!AddDays(d, i))]
           g == [i \in 0 .. n |-> (DatesPart!Weekday(d) + i) % 7]
<1>1. PICK w \in 0 .. 6 : w = DatesPart!Weekday(d)
  BY WeekdayNext
<1>2. f[0] = g[0]
  <2>1. 0 \in 0 .. n /\ (w + 0) % 7 = w
    BY <1>1
  <2> QED
    BY <1>1, <2>1, AddDaysSteps
<1>3. ASSUME NEW i \in 1 .. n, f[i - 1] = g[i - 1] PROVE f[i] = g[i]
  <2>1. PICK x \in DatesPart!Days : x = DatesPart!AddDays(d, i - 1)
    BY AddDaysSteps
  <2>2. DatesPart!AddDays(d, i) = DatesPart!NextDay(x)
    <3>1. i - 1 \in Nat /\ (i - 1) + 1 = i
      OBVIOUS
    <3> QED
      BY <2>1, <3>1, AddDaysSteps
  <2>3. DatesPart!Weekday(DatesPart!NextDay(x)) = (DatesPart!Weekday(x) + 1) % 7
    BY WeekdayNext
  <2>4. DatesPart!Weekday(x) = (w + (i - 1)) % 7
    <3>1. i - 1 \in 0 .. n
      OBVIOUS
    <3> QED
      BY <1>1, <1>3, <2>1, <3>1
  <2>5. f[i] = (((w + (i - 1)) % 7) + 1) % 7 /\ g[i] = (w + i) % 7
    <3>1. f[i] = DatesPart!Weekday(DatesPart!AddDays(d, i)) /\ g[i] = (w + i) % 7
      BY <1>1
    <3> HIDE DEF f, g
    <3> QED
      BY <2>2, <2>3, <2>4, <3>1
  <2> HIDE DEF f, g
  <2>6. w + (i - 1) \in Int /\ (w + (i - 1)) + 1 = w + i
    OBVIOUS
  <2> QED
    BY <2>5, <2>6, Mod7
<1>4. f[n] = g[n]
  <2> HIDE DEF f, g
  <2> QED
    BY <1>2, <1>3, StepsAgree
<1> QED
  BY <1>4

\* The days from 1 January of year 0, as if every month had 31.
Number(d) == (d.year * 12 + d.month) * 31 + d.day

LEMMA NumberNext ==
  ASSUME NEW d \in DatesPart!Days
  PROVE  Number(d) \in Nat /\ Number(DatesPart!NextDay(d)) >= Number(d) + 1
BY DEF Number, DatesPart!Days, DatesPart!NextDay, DatesPart!DaysIn, DatesPart!Date

LEMMA AddDaysNumber ==
  ASSUME NEW d \in DatesPart!Days, NEW n \in Nat
  PROVE  Number(DatesPart!AddDays(d, n)) >= Number(d) + n
<1> DEFINE f == [i \in 0 .. n |-> Number(DatesPart!AddDays(d, i)) >= Number(d) + i]
           g == [i \in 0 .. n |-> TRUE]
<1>1. f[0] = g[0]
  <2>1. 0 \in 0 .. n /\ Number(d) >= Number(d) + 0
    BY NumberNext
  <2>2. f[0] = (Number(DatesPart!AddDays(d, 0)) >= Number(d) + 0) /\ g[0] = TRUE
    BY <2>1
  <2> HIDE DEF f, g
  <2> QED
    BY <2>1, <2>2, AddDaysSteps, Zenon
<1>3. ASSUME NEW i \in 1 .. n, f[i - 1] = g[i - 1] PROVE f[i] = g[i]
  <2>1. PICK x \in DatesPart!Days : x = DatesPart!AddDays(d, i - 1)
    BY AddDaysSteps
  <2>2. DatesPart!AddDays(d, i) = DatesPart!NextDay(x)
    <3>1. i - 1 \in Nat /\ (i - 1) + 1 = i
      OBVIOUS
    <3> QED
      BY <2>1, <3>1, AddDaysSteps
  <2>3. Number(x) >= Number(d) + (i - 1)
    <3>1. i - 1 \in 0 .. n
      OBVIOUS
    <3>2. f[i - 1] = (Number(DatesPart!AddDays(d, i - 1)) >= Number(d) + (i - 1)) /\ g[i - 1] = TRUE
      BY <3>1
    <3> HIDE DEF f, g
    <3> QED
      BY <1>3, <2>1, <3>2, Zenon
  <2>4. Number(DatesPart!NextDay(x)) >= Number(x) + 1 /\ Number(x) \in Nat /\ Number(d) \in Nat
        /\ Number(DatesPart!NextDay(x)) \in Nat
    BY NumberNext, NextDayExists
  <2>5. Number(DatesPart!AddDays(d, i)) >= Number(d) + i
    <3>1. i \in Int
      OBVIOUS
    <3> QED
      BY ONLY <2>2, <2>3, <2>4, <3>1
  <2>6. f[i] = (Number(DatesPart!AddDays(d, i)) >= Number(d) + i) /\ g[i] = TRUE
    OBVIOUS
  <2> HIDE DEF f, g
  <2> QED
    BY <2>5, <2>6, Zenon
<1>4. f[n] = g[n]
  <2> HIDE DEF f, g
  <2> QED
    BY <1>1, <1>3, StepsAgree
<1>5. f[n] = (Number(DatesPart!AddDays(d, n)) >= Number(d) + n) /\ g[n] = TRUE
  OBVIOUS
<1> HIDE DEF f, g
<1> QED
  BY <1>4, <1>5, Zenon

-----------------------------------------------------------------------------
(***************************************************************************)
(* Of the parser: what its loop can be in, and that it goes through the    *)
(* tokens one by one, so that one token more is one round more.            *)
(***************************************************************************)
None == DatesPart!None
NoTime == DatesPart!NoTime
Dated == DatesPart!Days \cup {None}
Timed == [hour : Int, minute : Int]
Minutes == 0 .. 1439
State == [start_date : Dated, end_date : Dated, start_time : Timed, end_time : Timed,
          stopped : BOOLEAN]

LEMMA NoneIsNoDay == None \notin DatesPart!Days /\ NoTime \in Timed
BY DEF None, NoTime, Timed, DatesPart!None, DatesPart!NoTime, DatesPart!Days

LEMMA MomentFacts ==
  ASSUME NEW n \in Moments
  PROVE  n = DatesPart!At(n.date, n.minute) /\ n.date \in DatesPart!Days /\ n.minute \in Minutes
BY DatesAssumption DEF DatesPart!Real, Minutes

LEMMA LocalDated ==
  ASSUME NEW y \in Nat, NEW m \in 1 .. 12, NEW d \in 1 .. 31
  PROVE  DatesPart!Local(y, m, d) \in Dated
BY DEF DatesPart!Local, DatesPart!Date, DatesPart!Days, Dated, None

LEMMA DateOfDated ==
  ASSUME NEW n \in Moments, NEW t \in Tokens, DatesPart!IsDate(t)
  PROVE  DatesPart!DateOf(n, t) \in Dated
<1>1. n.date \in DatesPart!Days /\ n.date.year \in Nat
  BY MomentFacts DEF DatesPart!Days
<1>2. t \in DatesPart!Token
  BY DatesAssumption
<1>3. CASE t.kind = "today"
  BY <1>1, <1>3 DEF DatesPart!DateOf, Dated
<1>4. CASE t.kind = "tomorrow"
  <2>1. DatesPart!DateOf(n, t) = DatesPart!AddDays(n.date, 1)
    BY <1>4 DEF DatesPart!DateOf
  <2> QED
    BY <1>1, <2>1, AddDaysSteps DEF Dated
<1>5. CASE t.kind = "weekday"
  <2>1. \E k \in Nat : DatesPart!DateOf(n, t) = DatesPart!AddDays(n.date, k)
    <3>1. t.day \in 0 .. 6 /\ DatesPart!Weekday(n.date) \in 0 .. 6
      BY <1>1, <1>2, <1>5, WeekdayNext DEF DatesPart!Token
    <3>2. PICK a \in 0 .. 6 : a = (t.day - DatesPart!Weekday(n.date) + 7) % 7
      BY <3>1
    <3>3. DatesPart!DateOf(n, t) = DatesPart!AddDays(n.date, IF a = 0 THEN 7 ELSE a)
      BY <1>5, <3>2 DEF DatesPart!DateOf
    <3>4. (IF a = 0 THEN 7 ELSE a) \in Nat
      OBVIOUS
    <3> QED
      BY <3>3, <3>4
  <2> QED
    BY <1>1, <2>1, AddDaysSteps DEF Dated
<1>6. CASE t.kind = "monthday"
  <2>1. DatesPart!DateOf(n, t) = DatesPart!Local(n.date.year, t.month, t.day)
    BY <1>6 DEF DatesPart!DateOf
  <2>2. t.month \in 1 .. 12 /\ t.day \in 1 .. 31
    BY <1>2, <1>6 DEF DatesPart!Token
  <2> QED
    BY <1>1, <2>1, <2>2, LocalDated
<1>7. CASE t.kind = "full"
  <2>1. DatesPart!DateOf(n, t) = DatesPart!Local(t.year, t.month, t.day)
    BY <1>7 DEF DatesPart!DateOf
  <2>2. t.month \in 1 .. 12 /\ t.day \in 1 .. 31 /\ t.year \in Nat
    <3>1. t \in [kind : {"full"}, year : Nat, month : 1 .. 12, day : 1 .. 31]
      BY <1>2, <1>7 DEF DatesPart!Token
    <3>2. t.year \in Nat
      BY <3>1
    <3>3. t.month \in 1 .. 12 /\ t.day \in 1 .. 31
      BY <3>1
    <3> QED
      BY <3>2, <3>3
  <2> QED
    BY <2>1, <2>2, LocalDated
<1> QED
  BY <1>3, <1>4, <1>5, <1>6, <1>7 DEF DatesPart!IsDate

LEMMA TimeOfTimed ==
  ASSUME NEW t \in Tokens, DatesPart!IsTime(t)
  PROVE  DatesPart!TimeOf(t) \in Timed /\ DatesPart!TimeOf(t) # NoTime
<1>1. t \in DatesPart!Token
  BY DatesAssumption
<1>2. t.hour \in 0 .. 99 /\ t.minute \in 0 .. 99
  BY <1>1 DEF DatesPart!Token, DatesPart!IsTime
<1>3. DatesPart!TimeOf(t).hour \in 0 .. 111
  BY <1>2 DEF DatesPart!TimeOf
<1> QED
  BY <1>2, <1>3 DEF DatesPart!TimeOf, Timed, NoTime, DatesPart!NoTime

LEMMA TakeState ==
  ASSUME NEW s \in State, NEW n \in Moments, NEW t \in Tokens
  PROVE  DatesPart!Take(s, n, t) \in State
<1>1. DatesPart!IsDate(t) => DatesPart!DateOf(n, t) \in Dated
  BY DateOfDated
<1>2. DatesPart!IsTime(t) => DatesPart!TimeOf(t) \in Timed
  BY TimeOfTimed
<1> QED
  BY <1>1, <1>2 DEF DatesPart!Take, State

LEMMA EmptyState == DatesPart!Empty \in State
BY NoneIsNoDay DEF DatesPart!Empty, State, Dated, None, NoTime

LEMMA StatesRun ==
  ASSUME NEW next, next \in [Nat -> [State -> State]], NEW m \in Nat
  PROVE  \E run \in [0 .. m -> State] :
           run[0] = DatesPart!Empty /\ \A i \in 1 .. m : run[i] = next[i][run[i - 1]]
<1>1. PICK S, e : S = State /\ e = DatesPart!Empty
  OBVIOUS
<1>2. e \in S /\ next \in [Nat -> [S -> S]] /\ m \in Nat
  BY <1>1, EmptyState
<1>3. \E run \in [0 .. m -> S] : run[0] = e /\ \A i \in 1 .. m : run[i] = next[i][run[i - 1]]
  BY ONLY <1>2, StepsExist
<1> QED
  BY <1>1, <1>3

\* The loop goes from state to state: the function that ReadAll chooses is there.
LEMMA ReadAllStates ==
  ASSUME NEW n \in Moments, NEW y, NEW m \in Nat, Len(y) = m, \A i \in 1 .. m : y[i] \in Tokens
  PROVE  \E f : /\ f \in [0 .. m -> State] /\ f[0] = DatesPart!Empty
                /\ \A i \in 1 .. m : f[i] = DatesPart!Take(f[i - 1], n, y[i])
                /\ DatesPart!ReadAll(n, y) = f[m]
<1> DEFINE After(f) == f = [i \in 0 .. m |-> IF i = 0 THEN DatesPart!Empty
                              ELSE DatesPart!Take(f[i - 1], n, y[i])]
           next == [i \in Nat |-> [s \in State |->
                      IF i \in 1 .. m THEN DatesPart!Take(s, n, y[i]) ELSE s]]
<1>m. m \in Nat /\ n \in Moments
  OBVIOUS
<1>y. \A i \in 1 .. m : y[i] \in Tokens
  OBVIOUS
<1>g. PICK g : g = CHOOSE f : After(f)
  OBVIOUS
<1>r. DatesPart!ReadAll(n, y) = g[m]
  BY <1>g DEF DatesPart!ReadAll
<1>1. next \in [Nat -> [State -> State]]
  BY ONLY <1>m, <1>y, TakeState
<1>2. PICK f : /\ f \in [0 .. m -> State] /\ f[0] = DatesPart!Empty
               /\ \A i \in 1 .. m : f[i] = next[i][f[i - 1]]
  <2> HIDE DEF next
  <2>1. \E run \in [0 .. m -> State] :
          run[0] = DatesPart!Empty /\ \A i \in 1 .. m : run[i] = next[i][run[i - 1]]
    BY ONLY <1>1, <1>m, StatesRun
  <2> QED
    BY ONLY <2>1
<1>3. ASSUME NEW i \in 1 .. m PROVE f[i] = DatesPart!Take(f[i - 1], n, y[i])
  <2>1. f[i - 1] \in State /\ i \in Nat
    BY ONLY <1>2, <1>m, i \in 1 .. m
  <2>2. next[i][f[i - 1]] = DatesPart!Take(f[i - 1], n, y[i])
    BY ONLY <2>1, i \in 1 .. m
  <2> QED
    BY ONLY <1>2, <2>2, i \in 1 .. m
<1>4. After(f)
  BY ONLY <1>m, <1>2, <1>3
<1>5. After(g)
  BY ONLY <1>4, <1>g
<1>s. \A h : After(h) => /\ h[0] = DatesPart!Empty
                         /\ \A i \in 1 .. m : h[i] = DatesPart!Take(h[i - 1], n, y[i])
  <2> SUFFICES ASSUME NEW h, After(h)
               PROVE  /\ h[0] = DatesPart!Empty
                      /\ \A i \in 1 .. m : h[i] = DatesPart!Take(h[i - 1], n, y[i])
    OBVIOUS
  <2> QED
    BY ONLY After(h), <1>m
<1>6. g[0] = f[0]
  <2> HIDE DEF After
  <2> QED
    BY ONLY <1>s, <1>4, <1>5
<1>7. \A i \in 1 .. m : g[i - 1] = f[i - 1] => g[i] = f[i]
  <2> HIDE DEF After
  <2> QED
    BY ONLY <1>s, <1>4, <1>5
<1>8. \A i \in 0 .. m : g[i] = f[i]
  <2> HIDE DEF After, next
  <2> QED
    BY ONLY <1>6, <1>7, StepsAgree, <1>m
<1>9. g[m] = f[m]
  BY ONLY <1>8, <1>m
<1> HIDE DEF After, next
<1> QED
  BY ONLY <1>r, <1>2, <1>3, <1>9

LEMMA ReadAllMore ==
  ASSUME NEW n \in Moments, NEW x, NEW y, NEW m \in Nat, Len(x) = m, Len(y) = m + 1,
         \A i \in 1 .. m : x[i] \in Tokens /\ y[i] = x[i], y[m + 1] \in Tokens
  PROVE  DatesPart!ReadAll(n, y) = DatesPart!Take(DatesPart!ReadAll(n, x), n, y[m + 1])
<1>1. PICK p : /\ p[0] = DatesPart!Empty
               /\ \A i \in 1 .. m : p[i] = DatesPart!Take(p[i - 1], n, x[i])
               /\ DatesPart!ReadAll(n, x) = p[m]
  <2>1. m \in Nat /\ Len(x) = m /\ \A i \in 1 .. m : x[i] \in Tokens
    OBVIOUS
  <2> QED
    BY ONLY <2>1, n \in Moments, ReadAllStates
<1>2. PICK q : /\ q[0] = DatesPart!Empty
               /\ \A i \in 1 .. m + 1 : q[i] = DatesPart!Take(q[i - 1], n, y[i])
               /\ DatesPart!ReadAll(n, y) = q[m + 1]
  <2>1. m + 1 \in Nat /\ \A i \in 1 .. m + 1 : y[i] \in Tokens
    <3>1. \A i \in 1 .. m + 1 : i \in 1 .. m \/ i = m + 1
      OBVIOUS
    <3> QED
      BY <3>1
  <2> QED
    BY <2>1, ReadAllStates
<1>3. p[0] = q[0]
  BY <1>1, <1>2
<1>4. \A i \in 1 .. m : p[i - 1] = q[i - 1] => p[i] = q[i]
  BY <1>1, <1>2
<1>5. p[m] = q[m]
  BY <1>3, <1>4, StepsAgree
<1>6. q[m + 1] = DatesPart!Take(q[m], n, y[m + 1])
  BY <1>2
<1> QED
  BY <1>1, <1>2, <1>5, <1>6

\* The loop reads the tokens one after the other.
LEMMA ReadAllSteps ==
  ASSUME NEW n \in Moments, NEW x \in Seq(Tokens)
  PROVE  /\ DatesPart!ReadAll(n, <<>>) = DatesPart!Empty
         /\ DatesPart!ReadAll(n, x) \in State
         /\ \A t \in Tokens : DatesPart!ReadAll(n, Append(x, t))
                              = DatesPart!Take(DatesPart!ReadAll(n, x), n, t)
<1>1. DatesPart!ReadAll(n, <<>>) = DatesPart!Empty
  <2>1. 0 \in Nat /\ Len(<<>>) = 0 /\ \A i \in 1 .. 0 : <<>>[i] \in Tokens
    OBVIOUS
  <2> QED
    BY <2>1, ReadAllStates
<1>2. DatesPart!ReadAll(n, x) \in State
  <2>1. Len(x) \in Nat /\ \A i \in 1 .. Len(x) : x[i] \in Tokens
    OBVIOUS
  <2>2. \E f : /\ f \in [0 .. Len(x) -> State] /\ DatesPart!ReadAll(n, x) = f[Len(x)]
    BY <2>1, ReadAllStates
  <2> QED
    BY <2>1, <2>2
<1>3. ASSUME NEW t \in Tokens
      PROVE  DatesPart!ReadAll(n, Append(x, t)) = DatesPart!Take(DatesPart!ReadAll(n, x), n, t)
  <2>1. PICK m \in Nat : m = Len(x)
    OBVIOUS
  <2>2. PICK y, z : y = Append(x, t) /\ z = x
    OBVIOUS
  <2>3. /\ m \in Nat /\ Len(z) = m /\ Len(y) = m + 1 /\ y[m + 1] = t /\ y[m + 1] \in Tokens
        /\ \A i \in 1 .. m : z[i] \in Tokens /\ y[i] = z[i]
    BY <2>1, <2>2
  <2>4. DatesPart!ReadAll(n, y) = DatesPart!Take(DatesPart!ReadAll(n, z), n, y[m + 1])
    BY ONLY <2>3, ReadAllMore, n \in Moments
  <2> QED
    BY <2>2, <2>3, <2>4
<1> QED
  BY <1>1, <1>2, <1>3

ExistsOn(n, t) == DatesPart!IsDate(t) /\ DatesPart!DateOf(n, t) # None

\* What the loop has understood of the first m tokens: the first date that
\* exists is the start, and while it goes on nothing was passed over.
Understood(n, x, m, s) ==
  /\ s.start_date # None =>
       \E i \in 1 .. m : /\ ExistsOn(n, x[i]) /\ s.start_date = DatesPart!DateOf(n, x[i])
                         /\ \A j \in 1 .. m : j < i => ~ExistsOn(n, x[j])
  /\ ~s.stopped =>
       /\ s.start_date = None => \A i \in 1 .. m : ~ExistsOn(n, x[i])
       /\ s.start_time = NoTime => \A i \in 1 .. m : ~DatesPart!IsTime(x[i])
       /\ s.end_date = None =>
            \A i, j \in 1 .. m : ExistsOn(n, x[i]) /\ ExistsOn(n, x[j]) => i = j
       /\ s.end_time = NoTime =>
            \A i, j \in 1 .. m : DatesPart!IsTime(x[i]) /\ DatesPart!IsTime(x[j]) => i = j

\* One round more.
LEMMA UnderstoodMore ==
  ASSUME NEW n \in Moments, NEW x, NEW y, NEW m \in Nat, NEW t \in Tokens, NEW s \in State,
         \A i \in 1 .. m : y[i] = x[i], y[m + 1] = t, ~s.stopped, Understood(n, x, m, s)
  PROVE  Understood(n, y, m + 1, DatesPart!Take(s, n, t))
<1> DEFINE r == DatesPart!Take(s, n, t)
<1>1. \A i \in 1 .. m + 1 : (i \in 1 .. m /\ y[i] = x[i]) \/ (i = m + 1 /\ y[i] = t)
  OBVIOUS
<1>2. DatesPart!IsTime(t) => DatesPart!TimeOf(t) # NoTime
  BY TimeOfTimed
<1>3. ~(DatesPart!IsDate(t) /\ DatesPart!IsTime(t))
  BY DEF DatesPart!IsDate, DatesPart!IsTime
<1>4. /\ r.start_date = IF DatesPart!IsDate(t) /\ s.start_date = None
                        THEN DatesPart!DateOf(n, t) ELSE s.start_date
      /\ DatesPart!IsDate(t) /\ s.start_date # None /\ s.end_date = None
           => r.end_date = DatesPart!DateOf(n, t)
      /\ s.end_date # None => r.end_date = s.end_date
      /\ DatesPart!IsTime(t) /\ s.start_time = NoTime => r.start_time = DatesPart!TimeOf(t)
      /\ s.start_time # NoTime => r.start_time = s.start_time
      /\ DatesPart!IsTime(t) /\ s.start_time # NoTime /\ s.end_time = NoTime
           => r.end_time = DatesPart!TimeOf(t)
      /\ s.end_time # NoTime => r.end_time = s.end_time
  BY <1>3 DEF DatesPart!Take, DatesPart!Open, State, None, NoTime
<1>5. ExistsOn(n, t) => DatesPart!IsDate(t) /\ DatesPart!DateOf(n, t) # None
  BY DEF ExistsOn
<1>6. DatesPart!IsDate(t) /\ DatesPart!DateOf(n, t) # None => ExistsOn(n, t)
  BY DEF ExistsOn
<1> HIDE DEF r
<1>7. r.start_date # None =>
       \E i \in 1 .. m + 1 : /\ ExistsOn(n, y[i]) /\ r.start_date = DatesPart!DateOf(n, y[i])
                             /\ \A j \in 1 .. m + 1 : j < i => ~ExistsOn(n, y[j])
  <2> SUFFICES ASSUME r.start_date # None
               PROVE  \E i \in 1 .. m + 1 :
                        /\ ExistsOn(n, y[i]) /\ r.start_date = DatesPart!DateOf(n, y[i])
                        /\ \A j \in 1 .. m + 1 : j < i => ~ExistsOn(n, y[j])
    OBVIOUS
  <2>1. CASE s.start_date = None
    <3>1. ExistsOn(n, t) /\ r.start_date = DatesPart!DateOf(n, t)
      BY <1>4, <1>6, <2>1
    <3>2. \A j \in 1 .. m : ~ExistsOn(n, y[j])
      BY <2>1 DEF Understood
    <3>3. \A j \in 1 .. m + 1 : j < m + 1 => ~ExistsOn(n, y[j])
      BY <3>2
    <3> QED
      BY <3>1, <3>3
  <2>2. CASE s.start_date # None
    <3>1. PICK i \in 1 .. m :
            /\ ExistsOn(n, x[i]) /\ s.start_date = DatesPart!DateOf(n, x[i])
            /\ \A j \in 1 .. m : j < i => ~ExistsOn(n, x[j])
      BY <2>2 DEF Understood
    <3>2. i \in 1 .. m + 1 /\ y[i] = x[i] /\ r.start_date = s.start_date
      BY <1>4, <2>2
    <3>3. \A j \in 1 .. m + 1 : j < i => j \in 1 .. m /\ y[j] = x[j]
      BY <1>1
    <3> QED
      BY <3>1, <3>2, <3>3
  <2> QED
    BY <2>1, <2>2
<1>8. r.start_date = None => \A i \in 1 .. m + 1 : ~ExistsOn(n, y[i])
  BY <1>1, <1>4, <1>5 DEF Understood
<1>9. r.start_time = NoTime => \A i \in 1 .. m + 1 : ~DatesPart!IsTime(y[i])
  BY <1>1, <1>2, <1>4 DEF Understood
<1>10. r.end_date = None =>
         \A i, j \in 1 .. m + 1 : ExistsOn(n, y[i]) /\ ExistsOn(n, y[j]) => i = j
  <2> SUFFICES ASSUME r.end_date = None, NEW i \in 1 .. m + 1, NEW j \in 1 .. m + 1,
                      ExistsOn(n, y[i]), ExistsOn(n, y[j])
               PROVE  i = j
    OBVIOUS
  <2>1. s.end_date = None
    BY <1>4
  <2>2. ExistsOn(n, t) => \A k \in 1 .. m : ~ExistsOn(n, x[k])
    BY <1>4, <1>5, <2>1 DEF Understood
  <2>3. \A k, l \in 1 .. m : ExistsOn(n, x[k]) /\ ExistsOn(n, x[l]) => k = l
    BY <2>1 DEF Understood
  <2> QED
    BY <1>1, <2>2, <2>3
<1>11. r.end_time = NoTime =>
         \A i, j \in 1 .. m + 1 : DatesPart!IsTime(y[i]) /\ DatesPart!IsTime(y[j]) => i = j
  <2> SUFFICES ASSUME r.end_time = NoTime, NEW i \in 1 .. m + 1, NEW j \in 1 .. m + 1,
                      DatesPart!IsTime(y[i]), DatesPart!IsTime(y[j])
               PROVE  i = j
    OBVIOUS
  <2>1. s.end_time = NoTime
    BY <1>4
  <2>2. DatesPart!IsTime(t) => \A k \in 1 .. m : ~DatesPart!IsTime(x[k])
    BY <1>2, <1>4, <2>1 DEF Understood
  <2>3. \A k, l \in 1 .. m : DatesPart!IsTime(x[k]) /\ DatesPart!IsTime(x[l]) => k = l
    BY <2>1 DEF Understood
  <2> QED
    BY <1>1, <2>2, <2>3
<1> QED
  BY <1>7, <1>8, <1>9, <1>10, <1>11 DEF Understood, r

-----------------------------------------------------------------------------
\* The target is what the text means now, and the text was understood.
DatesInv ==
  /\ now \in Moments /\ text \in Seq(Tokens) /\ Len(text) <= MaxTokens
  /\ target = DatesPart!Target(now, text)
  /\ Understood(now, text, Len(text), DatesPart!ReadAll(now, text))

LEMMA UnderstoodNone ==
  ASSUME NEW n \in Moments
  PROVE  /\ DatesPart!Target(n, <<>>) = {}
         /\ Understood(n, <<>>, 0, DatesPart!ReadAll(n, <<>>))
<1>1. DatesPart!ReadAll(n, <<>>) = DatesPart!Empty
  <2>1. <<>> \in Seq(Tokens)
    OBVIOUS
  <2> QED
    BY <2>1, ReadAllSteps
<1>2. DatesPart!Empty.start_date = None
  BY DEF DatesPart!Empty, None
<1>3. Understood(n, <<>>, 0, DatesPart!Empty)
  BY <1>2 DEF Understood
<1> QED
  BY <1>1, <1>2, <1>3 DEF DatesPart!Target, None

LEMMA DatesInvInit == Init => DatesInv
<1> SUFFICES ASSUME Init PROVE DatesInv
  OBVIOUS
<1>1. now \in Moments /\ text = <<>> /\ target = {}
  BY DatesAssumption DEF Init, DatesPart!Init
<1>2. text \in Seq(Tokens) /\ Len(text) = 0 /\ 0 <= MaxTokens
  BY <1>1, DatesAssumption
<1> QED
  BY <1>1, <1>2, UnderstoodNone DEF DatesInv

\* One more token is understood.
LEMMA TypeKeeps ==
  ASSUME DatesInv, NEW t \in Tokens, DatesPart!Type(t)
  PROVE  /\ DatesInv' /\ text' = Append(text, t) /\ now' = now
         /\ DatesPart!ReadAll(now, text) \in State /\ ~DatesPart!ReadAll(now, text).stopped
         /\ DatesPart!ReadAll(now, text') = DatesPart!Take(DatesPart!ReadAll(now, text), now, t)
<1>1. PICK s : s = DatesPart!ReadAll(now, text)
  OBVIOUS
<1>2. /\ Len(text) < MaxTokens /\ ~s.stopped /\ text' = Append(text, t)
      /\ target' = DatesPart!Target(now, text') /\ now' = now
  BY <1>1 DEF DatesPart!Type
<1>3. now \in Moments /\ text \in Seq(Tokens) /\ Understood(now, text, Len(text), s)
  BY <1>1 DEF DatesInv
<1>4. s \in State
  BY <1>1, <1>3, ReadAllSteps
<1>5. DatesPart!ReadAll(now, text') = DatesPart!Take(s, now, t)
  BY <1>1, <1>2, <1>3, ReadAllSteps
<1>6. PICK m : m = Len(text)
  OBVIOUS
<1>7. PICK x, y : x = text /\ y = text'
  OBVIOUS
<1>8. /\ y \in Seq(Tokens) /\ Len(y) = m + 1 /\ m + 1 <= MaxTokens
      /\ m \in Nat /\ y[m + 1] = t /\ \A i \in 1 .. m : y[i] = x[i]
  BY <1>2, <1>3, <1>6, <1>7, DatesAssumption
<1>9. Understood(now, y, m + 1, DatesPart!Take(s, now, t))
  <2>1. m \in Nat /\ y[m + 1] = t /\ \A i \in 1 .. m : y[i] = x[i]
    BY <1>8
  <2>2. now \in Moments /\ Understood(now, x, m, s) /\ ~s.stopped
    BY <1>2, <1>3, <1>6, <1>7
  <2> QED
    BY ONLY <1>4, <2>1, <2>2, t \in Tokens, UnderstoodMore
<1>10. DatesInv'
  <2>1. now' \in Moments /\ text' \in Seq(Tokens) /\ Len(text') <= MaxTokens /\ Len(text') = m + 1
    BY <1>2, <1>3, <1>7, <1>8
  <2>2. target' = DatesPart!Target(now', text')
    BY <1>2
  <2>3. Understood(now', text', Len(text'), DatesPart!ReadAll(now', text'))
    BY <1>2, <1>5, <1>7, <1>9, <2>1
  <2> QED
    BY <2>1, <2>2, <2>3 DEF DatesInv
<1> QED
  BY <1>1, <1>2, <1>4, <1>5, <1>10

\* Instants are in the order of the days, and then of the minutes.
LEMMA InstantOf ==
  ASSUME NEW d \in DatesPart!Days, NEW m \in Minutes
  PROVE  /\ Number(d) \in Nat
         /\ DatesPart!Instant(DatesPart!At(d, m)) = Number(d) * 1440 + m
         /\ DatesPart!Midnight(d) = DatesPart!At(d, 0)
BY NumberNext DEF DatesPart!Instant, DatesPart!At, DatesPart!Midnight, Number, Minutes

LEMMA NextOccurrenceDay ==
  ASSUME NEW n \in Moments, NEW d \in DatesPart!Days
  PROVE  DatesPart!NextOccurrence(n, d) \in DatesPart!Days
<1>1. PICK y \in Nat, m \in 1 .. 12, e \in 1 .. 31 : d = DatesPart!Date(y, m, e)
  BY DEF DatesPart!Days, DatesPart!Date
<1>2. DatesPart!AddYear(d) \in DatesPart!Days
  <2>1. PICK z : z = DatesPart!DaysIn(y + 1, m)
    OBVIOUS
  <2>2. z \in 28 .. 31
    BY <1>1, <2>1 DEF DatesPart!DaysIn
  <2>3. PICK v : v = DatesPart!Min({e, z})
    OBVIOUS
  <2>4. v = IF e <= z THEN e ELSE z
    BY <1>1, <2>2, <2>3 DEF DatesPart!Min
  <2>5. DatesPart!AddYear(d) = DatesPart!Date(y + 1, m, v)
    BY <1>1, <2>1, <2>3 DEF DatesPart!AddYear, DatesPart!Date
  <2>6. y + 1 \in Nat /\ v \in 1 .. 31 /\ v <= DatesPart!DaysIn(y + 1, m)
    BY <1>1, <2>1, <2>2, <2>4
  <2> QED
    BY <1>1, <2>5, <2>6 DEF DatesPart!Days, DatesPart!Date
<1> QED
  BY <1>2 DEF DatesPart!NextOccurrence

\* Whatever the places hold: starts and ends are times of days that exist.
LEMMA CombineReal ==
  ASSUME NEW d \in DatesPart!Days, NEW t \in Timed, NEW x \in DatesPart!Combine(d, t)
  PROVE  x = DatesPart!At(d, x.minute) /\ x.minute \in Minutes /\ DatesPart!Real(x)
<1>1. /\ t.hour \in 0 .. 23 /\ t.minute \in 0 .. 59
      /\ x = DatesPart!At(d, 60 * t.hour + t.minute)
  BY DEF DatesPart!Combine
<1>2. 60 * t.hour + t.minute \in Minutes
  BY <1>1 DEF Minutes
<1>3. PICK m \in Minutes : x = DatesPart!At(d, m)
  BY ONLY <1>1, <1>2
<1>4. x.date = d /\ x.minute = m
  BY ONLY <1>3 DEF DatesPart!At
<1> QED
  BY ONLY <1>3, <1>4, d \in DatesPart!Days DEF DatesPart!Real, Minutes

LEMMA StartOf ==
  ASSUME NEW n \in Moments, NEW s \in State, s.start_date # None, NEW x \in DatesPart!Start(n, s)
  PROVE  /\ DatesPart!NextOccurrence(n, s.start_date) \in DatesPart!Days
         /\ x = DatesPart!At(DatesPart!NextOccurrence(n, s.start_date), x.minute)
         /\ x.minute \in Minutes /\ DatesPart!Real(x)
<1>1. PICK d \in DatesPart!Days : d = DatesPart!NextOccurrence(n, s.start_date)
  BY NextOccurrenceDay DEF State, Dated
<1>2. CASE s.start_time = NoTime
  <2>1. x = DatesPart!At(d, 0)
    BY <1>1, <1>2 DEF DatesPart!Start, DatesPart!Midnight, NoTime
  <2> QED
    BY <1>1, <2>1 DEF DatesPart!At, DatesPart!Real, Minutes
<1>3. CASE s.start_time # NoTime
  <2>1. x \in DatesPart!Combine(d, s.start_time) /\ s.start_time \in Timed
    BY <1>1, <1>3 DEF DatesPart!Start, State, NoTime
  <2> QED
    BY <1>1, <2>1, CombineReal
<1> QED
  BY <1>2, <1>3

LEMMA AddHourReal ==
  ASSUME NEW x, DatesPart!Real(x)
  PROVE  DatesPart!Real(DatesPart!AddHour(x))
<1>1. x.date \in DatesPart!Days /\ x.minute \in Minutes /\ DatesPart!NextDay(x.date) \in DatesPart!Days
  BY NextDayExists DEF DatesPart!Real, Minutes
<1>2. PICK m \in Minutes : m = x.minute
  BY <1>1
<1>3. m \in Minutes /\ (m + 60 < 1440 => m + 60 \in 0 .. 1439)
      /\ (~(m + 60 < 1440) => m - 1380 \in Minutes)
  BY ONLY m \in Minutes DEF Minutes
<1> DEFINE next == DatesPart!AddHour(x)
<1>4. CASE m + 60 < 1440
  <2>1. next = DatesPart!At(x.date, m + 60)
    BY ONLY <1>2, <1>4 DEF DatesPart!AddHour
  <2>2. next.date = x.date /\ next.minute = m + 60
    BY ONLY <2>1 DEF DatesPart!At
  <2>3. next.date \in DatesPart!Days /\ next.minute \in 0 .. 1439
    <3> HIDE DEF next
    <3> QED
      BY ONLY <1>1, <1>3, <1>4, <2>2
  <2> QED
    BY ONLY <2>3 DEF DatesPart!Real
<1>5. CASE ~(m + 60 < 1440)
  <2>1. next = DatesPart!At(DatesPart!NextDay(x.date), m - 1380)
    BY ONLY <1>2, <1>5 DEF DatesPart!AddHour
  <2>2. next.date = DatesPart!NextDay(x.date) /\ next.minute = m - 1380
    BY ONLY <2>1 DEF DatesPart!At
  <2>3. next.date \in DatesPart!Days /\ next.minute \in 0 .. 1439
    <3> HIDE DEF next
    <3> QED
      BY ONLY <1>1, <1>3, <1>5, <2>2 DEF Minutes
  <2> QED
    BY ONLY <2>3 DEF DatesPart!Real
<1> QED
  BY <1>4, <1>5

LEMMA EndReal ==
  ASSUME NEW n \in Moments, NEW s \in State, s.start_date # None, NEW y \in DatesPart!End(n, s)
  PROVE  DatesPart!Real(y)
<1>1. CASE s.end_date = None /\ s.end_time = NoTime
  <2>1. y \in DatesPart!Start(n, s)
        \/ \E x \in DatesPart!Start(n, s) : y = DatesPart!AddHour(x)
    BY <1>1 DEF DatesPart!End, None, NoTime
  <2> QED
    BY <2>1, StartOf, AddHourReal
<1>2. CASE ~(s.end_date = None /\ s.end_time = NoTime)
  <2>1. PICK d, t : /\ d \in DatesPart!Days /\ t \in Timed
                    /\ y \in DatesPart!Combine(DatesPart!NextOccurrence(n, d), t)
    <3> DEFINE d == IF s.end_date # None THEN s.end_date ELSE s.start_date
               t == IF s.end_time # NoTime THEN s.end_time
                    ELSE IF s.start_time # NoTime /\ s.end_date # None THEN s.start_time
                    ELSE [hour |-> 0, minute |-> 0]
    <3>1. y \in DatesPart!Combine(DatesPart!NextOccurrence(n, d), t)
      BY <1>2 DEF DatesPart!End, None, NoTime
    <3>2. d \in DatesPart!Days
      BY DEF State, Dated
    <3>3. t \in Timed
      BY DEF State, Timed
    <3> QED
      BY <3>1, <3>2, <3>3
  <2> QED
    BY <2>1, NextOccurrenceDay, CombineReal
<1> QED
  BY <1>1, <1>2

\* What an event of the text is.
LEMMA TargetIs ==
  ASSUME DatesInv, NEW e \in target
  PROVE  \E s \in State : /\ s = DatesPart!ReadAll(now, text) /\ s.start_date # None
                          /\ Understood(now, text, Len(text), s)
                          /\ e.start \in DatesPart!Start(now, s) /\ e.end \in DatesPart!End(now, s)
                          /\ e = [start |-> e.start, end |-> e.end]
<1>1. PICK s : s = DatesPart!ReadAll(now, text)
  OBVIOUS
<1>2. now \in Moments /\ text \in Seq(Tokens) /\ target = DatesPart!Target(now, text)
      /\ Understood(now, text, Len(text), s)
  BY <1>1 DEF DatesInv
<1>3. s \in State
  BY <1>1, <1>2, ReadAllSteps
<1>4. /\ s.start_date # None
      /\ e \in {[start |-> x, end |-> y] : x \in DatesPart!Start(now, s), y \in DatesPart!End(now, s)}
  BY <1>1, <1>2 DEF DatesPart!Target, None
<1> QED
  BY <1>1, <1>2, <1>3, <1>4

LEMMA TargetsReal ==
  ASSUME DatesInv, NEW e \in target
  PROVE  DatesPart!Real(e.start) /\ DatesPart!Real(e.end)
<1>1. now \in Moments
  BY DEF DatesInv
<1> QED
  BY <1>1, TargetIs, StartOf, EndReal

LEMMA DatesTypes == DatesInv => DatesPart!TypeOK
<1> SUFFICES ASSUME DatesInv PROVE DatesPart!TypeOK
  OBVIOUS
<1>1. text \in DatesPart!BoundedSeq(Tokens, MaxTokens)
  <2>1. text \in [1 .. Len(text) -> Tokens] /\ Len(text) \in 0 .. MaxTokens
    BY DatesAssumption DEF DatesInv
  <2> QED
    BY <2>1 DEF DatesPart!BoundedSeq, DatesPart!SeqOf
<1> QED
  BY <1>1, TargetsReal DEF DatesPart!TypeOK, DatesInv

\* The first date that exists is where it is.
LEMMA FirstDateIs ==
  ASSUME NEW i \in 1 .. Len(text), text \in Seq(Tokens), ExistsOn(now, text[i]),
         \A j \in 1 .. Len(text) : j < i => ~ExistsOn(now, text[j])
  PROVE  DatesPart!FirstDate = text[i]
<1>1. PICK W : W = DatesPart!Where(DatesPart!Existing)
  OBVIOUS
<1>2. \A j : j \in W <=> j \in 1 .. Len(text) /\ ExistsOn(now, text[j])
  BY <1>1 DEF DatesPart!Where, DatesPart!Existing, ExistsOn, None
<1>3. W \subseteq Int /\ i \in W /\ (\A j \in W : i <= j)
  BY <1>2
<1>4. PICK v : v = CHOOSE x \in W : \A y \in W : x <= y
  OBVIOUS
<1>5. v = i
  <2>1. v \in W /\ \A y \in W : v <= y
    BY ONLY <1>3, <1>4
  <2> QED
    BY ONLY <1>3, <2>1
<1> QED
  BY <1>1, <1>4, <1>5 DEF DatesPart!FirstDate, DatesPart!Min

\* The days a word may mean, and the first of them.
LEMMA NextIsFirst ==
  ASSUME now \in Moments, NEW t \in Tokens, ExistsOn(now, t),
         NEW D, D = DatesPart!NextOccurrence(now, DatesPart!DateOf(now, t)),
         NEW a, a = {d \in DatesPart!Meant(t) :
                       DatesPart!Instant(DatesPart!Midnight(d)) >= DatesPart!Instant(now)},
         a # {}
  PROVE  D \in a /\ \A d \in a : d \in DatesPart!Days /\ Number(D) <= Number(d)
<1>1. PICK d0, m0 : d0 = now.date /\ m0 = now.minute
  OBVIOUS
<1>2. d0 \in DatesPart!Days /\ m0 \in Minutes /\ now = DatesPart!At(d0, m0)
  BY <1>1, MomentFacts
<1>3. DatesPart!Instant(now) = Number(d0) * 1440 + m0 /\ Number(d0) \in Nat
  BY <1>2, InstantOf
<1>4. \A d \in DatesPart!Days :
        /\ DatesPart!Instant(DatesPart!Midnight(d)) = Number(d) * 1440 + 0
        /\ Number(d) \in Nat
        /\ DatesPart!Instant(DatesPart!Midnight(d)) >= DatesPart!Instant(now)
           <=> Number(d) * 1440 >= Number(d0) * 1440 + m0
  <2>1. ASSUME NEW d \in DatesPart!Days
        PROVE  /\ DatesPart!Instant(DatesPart!Midnight(d)) = Number(d) * 1440 + 0
               /\ Number(d) \in Nat
    <3>1. 0 \in Minutes
      BY DEF Minutes
    <3> QED
      BY <3>1, InstantOf
  <2> QED
    BY <1>2, <1>3, <2>1 DEF Minutes
<1> DEFINE D0 == DatesPart!DateOf(now, t)
<1>5. D0 \in DatesPart!Days
  BY DateOfDated DEF ExistsOn, Dated
<1>6. t \in DatesPart!Token
  BY DatesAssumption
<1>7. ASSUME Number(D0) > Number(d0)
      PROVE  D = D0 /\ DatesPart!Instant(DatesPart!Midnight(D)) >= DatesPart!Instant(now)
  <2>1. Number(D0) * 1440 >= Number(d0) * 1440 + m0 /\ Number(D0) * 1440 + 0 \in Int
        /\ Number(d0) * 1440 + m0 \in Int
    BY <1>2, <1>3, <1>4, <1>5, <1>7 DEF Minutes
  <2>2. ~(DatesPart!Instant(DatesPart!Midnight(D0)) < DatesPart!Instant(now))
    BY <1>3, <1>4, <1>5, <2>1
  <2> QED
    BY <1>4, <1>5, <2>1, <2>2 DEF DatesPart!NextOccurrence
<1>8. CASE t.kind = "tomorrow"
  <2>1. DatesPart!Meant(t) = {DatesPart!NextDay(d0)}
    BY <1>1, <1>8 DEF DatesPart!Meant
  <2>2. D0 = DatesPart!AddDays(d0, 1)
    BY <1>1, <1>8 DEF DatesPart!DateOf
  <2>3. D0 = DatesPart!NextDay(d0)
    <3>1. 0 \in Nat /\ 0 + 1 = 1
      OBVIOUS
    <3> QED
      BY <1>2, <2>2, <3>1, AddDaysSteps
  <2>4. Number(D0) > Number(d0)
    BY <1>2, <1>4, <1>5, <2>3, NumberNext
  <2>5. D = D0 /\ a = {D0}
    BY <1>7, <2>1, <2>3, <2>4
  <2> QED
    BY <1>4, <1>5, <2>5
<1>9. CASE t.kind = "weekday"
  <2>1. PICK w \in 0 .. 6, v \in 0 .. 6 : w = DatesPart!Weekday(d0) /\ v = t.day
    BY <1>2, <1>6, <1>9, WeekdayNext DEF DatesPart!Token
  <2>2. PICK k \in 1 .. 7 : /\ k = IF (v - w + 7) % 7 = 0 THEN 7 ELSE (v - w + 7) % 7
                            /\ (w + k) % 7 = v
    <3>1. PICK x \in 1 .. 13 : x = v - w + 7
      BY <2>1
    <3>2. PICK z \in 0 .. 6 : z = x % 7 /\ z = IF x < 7 THEN x ELSE x - 7
      BY <3>1
    <3>3. PICK k \in 1 .. 7 : k = IF z = 0 THEN 7 ELSE z
      BY <3>2
    <3>4. w + k = v \/ w + k = v + 7
      BY ONLY <3>1, <3>2, <3>3, w \in 0 .. 6, v \in 0 .. 6
    <3>5. v % 7 = v /\ (v + 7) % 7 = v
      BY ONLY v \in 0 .. 6
    <3> QED
      BY <3>1, <3>2, <3>3, <3>4, <3>5
  <2>3. D0 = DatesPart!AddDays(d0, k)
    BY <1>1, <1>9, <2>1, <2>2 DEF DatesPart!DateOf
  <2>4. Number(D0) > Number(d0)
    <3>1. k \in Nat /\ k > 0
      OBVIOUS
    <3>2. Number(D0) >= Number(d0) + k
      BY <1>2, <2>3, <3>1, AddDaysNumber
    <3> QED
      BY <1>3, <1>4, <1>5, <3>1, <3>2
  <2>5. DatesPart!Meant(t) = {d \in {DatesPart!AddDays(d0, i) : i \in 0 .. 7} :
                               DatesPart!Weekday(d) = v /\ d # d0}
    BY <1>1, <1>9, <2>1 DEF DatesPart!Meant
  <2>6. D0 \in DatesPart!Meant(t)
    <3>1. DatesPart!Weekday(D0) = (w + k) % 7 /\ k \in 0 .. 7
      <4>1. k \in Nat /\ k \in 0 .. 7
        OBVIOUS
      <4>2. DatesPart!Weekday(DatesPart!AddDays(d0, k)) = (DatesPart!Weekday(d0) + k) % 7
        BY <1>2, <4>1, AddDaysWeekday
      <4> QED
        BY <2>1, <2>3, <4>1, <4>2
    <3>2. D0 # d0
      BY <1>3, <2>4
    <3> QED
      BY <2>2, <2>3, <2>5, <3>1, <3>2
  <2>7. ASSUME NEW d \in DatesPart!Meant(t) PROVE d = D0
    <3>1. PICK i \in 0 .. 7 : d = DatesPart!AddDays(d0, i)
      BY <2>5
    <3>2. DatesPart!Weekday(d) = v /\ d # d0
      BY <2>5
    <3>3. DatesPart!Weekday(d) = (w + i) % 7
      BY <1>2, <2>1, <3>1, AddDaysWeekday
    <3>4. i # 0
      BY <1>2, <3>1, <3>2, AddDaysSteps
    <3>5. (w + i) % 7 = (w + k) % 7 /\ i \in 1 .. 7
      BY <2>2, <3>2, <3>3, <3>4
    <3>6. i = k
      BY ONLY <3>5, w \in 0 .. 6, k \in 1 .. 7
    <3> QED
      BY <2>3, <3>1, <3>6
  <2>8. D = D0 /\ D \in a
    BY <1>7, <2>4, <2>6
  <2>9. \A d \in a : d = D0
    BY <2>7
  <2> QED
    BY <1>4, <1>5, <2>8, <2>9
<1>10. CASE t.kind = "monthday"
  <2>1. PICK y \in Nat, m \in 1 .. 12, e \in 1 .. 31 : y = d0.year /\ m = t.month /\ e = t.day
    BY <1>2, <1>6, <1>10 DEF DatesPart!Token, DatesPart!Days
  <2>2. D0 = DatesPart!Local(y, m, e)
    BY <1>1, <1>10, <2>1 DEF DatesPart!DateOf
  <2>3. D0 = DatesPart!Date(y, m, e) /\ e <= DatesPart!DaysIn(y, m)
    BY <2>2 DEF DatesPart!Local, ExistsOn, None
  <2>4. \A d : d \in DatesPart!Meant(t) <=>
          \/ d = DatesPart!Date(y, m, e)
          \/ d = DatesPart!Date(y + 1, m, e) /\ e <= DatesPart!DaysIn(y + 1, m)
    <3>1. DatesPart!Meant(t) = {d \in {DatesPart!Date(y + i, m, e) : i \in {0, 1}} :
                                  d.day <= DatesPart!DaysIn(d.year, d.month)}
      BY <1>1, <1>10, <2>1 DEF DatesPart!Meant
    <3>2. /\ DatesPart!Date(y, m, e).day = e /\ DatesPart!Date(y, m, e).year = y
          /\ DatesPart!Date(y, m, e).month = m
          /\ DatesPart!Date(y + 1, m, e).day = e /\ DatesPart!Date(y + 1, m, e).year = y + 1
          /\ DatesPart!Date(y + 1, m, e).month = m /\ y + 0 = y
      BY DEF DatesPart!Date
    <3> QED
      BY <2>3, <3>1, <3>2
  <2>5. /\ Number(DatesPart!Date(y, m, e)) = (y * 12 + m) * 31 + e
        /\ Number(DatesPart!Date(y + 1, m, e)) = ((y + 1) * 12 + m) * 31 + e
    BY DEF DatesPart!Date, Number
  <2>6. \A d \in a : d \in DatesPart!Days
    <3>1. y + 1 \in Nat
      OBVIOUS
    <3>2. DatesPart!Date(y, m, e) \in DatesPart!Days
      BY <2>3 DEF DatesPart!Date, DatesPart!Days
    <3>3. e <= DatesPart!DaysIn(y + 1, m) => DatesPart!Date(y + 1, m, e) \in DatesPart!Days
      BY <3>1 DEF DatesPart!Date, DatesPart!Days
    <3> QED
      BY <2>4, <3>2, <3>3
  <2>7. CASE DatesPart!Instant(DatesPart!Midnight(D0)) < DatesPart!Instant(now)
    <3>1. D0 \notin a
      <4>1. PICK u, v : u = DatesPart!Instant(DatesPart!Midnight(D0)) /\ v = DatesPart!Instant(now)
        OBVIOUS
      <4>2. u \in Int /\ v \in Int /\ u < v
        <5> HIDE DEF D0
        <5> QED
          BY <1>2, <1>3, <1>4, <1>5, <2>7, <4>1 DEF Minutes
      <4>3. ~(u >= v)
        BY <4>2
      <4> QED
        BY <4>1, <4>3
    <3>2. \A d \in a : d = DatesPart!Date(y + 1, m, e) /\ e <= DatesPart!DaysIn(y + 1, m)
      BY <2>3, <2>4, <3>1
    <3>3. DatesPart!Min({e, DatesPart!DaysIn(y + 1, m)}) = e
      <4>1. DatesPart!DaysIn(y + 1, m) \in Int /\ e <= DatesPart!DaysIn(y + 1, m)
        BY <3>2 DEF DatesPart!DaysIn
      <4> QED
        BY <4>1 DEF DatesPart!Min
    <3>4. D = DatesPart!Date(y + 1, m, e)
      BY <2>3, <2>7, <3>3 DEF DatesPart!NextOccurrence, DatesPart!AddYear, DatesPart!Date
    <3>5. \A d \in a : d = D
      BY <3>2, <3>4
    <3> QED
      BY <1>4, <2>6, <3>5
  <2>8. CASE ~(DatesPart!Instant(DatesPart!Midnight(D0)) < DatesPart!Instant(now))
    <3>1. D = D0
      BY <2>8 DEF DatesPart!NextOccurrence
    <3>2. D0 \in a
      BY <1>2, <1>3, <1>4, <1>5, <2>3, <2>4, <2>8 DEF Minutes
    <3>3. \A d \in a : Number(D0) <= Number(d)
      BY <2>3, <2>4, <2>5
    <3> QED
      BY <2>6, <3>1, <3>2, <3>3
  <2> QED
    BY <2>7, <2>8
<1>11. CASE t.kind \in {"today", "full"}
  BY <1>11 DEF DatesPart!Meant
<1> QED
  BY <1>8, <1>9, <1>10, <1>11 DEF ExistsOn, DatesPart!IsDate

LEMMA DatesInvNext == DatesInv /\ [Next]_vars => DatesInv'
<1> SUFFICES ASSUME DatesInv, [Next]_vars PROVE DatesInv'
  OBVIOUS
<1>1. CASE UNCHANGED <<now, text, target>>
  BY <1>1 DEF DatesInv
<1>2. CASE DatesPart!Next
  <2>1. ASSUME NEW n \in Moments, DatesPart!Clear(n) PROVE DatesInv'
    <3>1. now' \in Moments /\ text' = <<>> /\ target' = {}
      BY <2>1 DEF DatesPart!Clear
    <3>2. text' \in Seq(Tokens) /\ Len(text') = 0 /\ 0 <= MaxTokens
      BY <3>1, DatesAssumption
    <3> QED
      BY <3>1, <3>2, UnderstoodNone DEF DatesInv
  <2> QED
    BY <1>2, <2>1, TypeKeeps DEF DatesPart!Next
<1> QED
  BY <1>1, <1>2
     DEF Next, DatesNext, DownloadsNext, SshNext, SnippetsNext, DesktopNext, SystemdNext,
         TransmissionNext, ResultsNext, WifiNext, NotDownloads, NotSsh, NotSnippets, NotDesktop,
         NotSystemd, NotTransmission, NotResults, NotWifi, vars, dates

\* The start is the next occurrence of the first date that exists.
LEMMA FirstIsStart == DatesInv => DatesPart!FirstOccurrence
<1> SUFFICES ASSUME DatesInv, NEW e \in target,
                    NEW a, a = {d \in DatesPart!Meant(DatesPart!FirstDate) :
                                  DatesPart!Instant(DatesPart!Midnight(d))
                                    >= DatesPart!Instant(now)},
                    a # {}
             PROVE  /\ e.start.date \in a
                    /\ \A d \in a : DatesPart!Instant(DatesPart!Midnight(d))
                                      >= DatesPart!Instant(e.start) - e.start.minute
  BY DEF DatesPart!FirstOccurrence
<1>1. PICK s \in State : /\ s.start_date # None
                         /\ Understood(now, text, Len(text), s)
                         /\ e.start \in DatesPart!Start(now, s)
  BY TargetIs
<1>2. now \in Moments /\ text \in Seq(Tokens)
  BY DEF DatesInv
<1>3. PICK i \in 1 .. Len(text) :
        /\ ExistsOn(now, text[i]) /\ s.start_date = DatesPart!DateOf(now, text[i])
        /\ \A j \in 1 .. Len(text) : j < i => ~ExistsOn(now, text[j])
  BY <1>1 DEF Understood
<1>4. PICK t \in Tokens : t = text[i]
  BY <1>2, <1>3
<1>5. DatesPart!FirstDate = t
  BY <1>2, <1>3, <1>4, FirstDateIs
<1>6. PICK D \in DatesPart!Days, m \in Minutes :
        /\ D = DatesPart!NextOccurrence(now, DatesPart!DateOf(now, t))
        /\ e.start = DatesPart!At(D, m) /\ m = e.start.minute
  <2>1. s.start_date = DatesPart!DateOf(now, t)
    BY <1>3, <1>4
  <2>2. /\ DatesPart!NextOccurrence(now, s.start_date) \in DatesPart!Days
        /\ e.start = DatesPart!At(DatesPart!NextOccurrence(now, s.start_date), e.start.minute)
        /\ e.start.minute \in Minutes
    BY <1>1, <1>2, StartOf
  <2> QED
    BY ONLY <2>1, <2>2
<1>7. D \in a /\ \A d \in a : d \in DatesPart!Days /\ Number(D) <= Number(d)
  BY <1>2, <1>3, <1>4, <1>5, <1>6, NextIsFirst
<1>8. e.start.date = D
  BY <1>6 DEF DatesPart!At
<1>9. DatesPart!Instant(e.start) = Number(D) * 1440 + m /\ Number(D) \in Nat
  <2>1. D \in DatesPart!Days /\ m \in Minutes
    BY <1>6
  <2>2. DatesPart!Instant(DatesPart!At(D, m)) = Number(D) * 1440 + m /\ Number(D) \in Nat
    BY ONLY <2>1, InstantOf
  <2>3. e.start = DatesPart!At(D, m)
    BY <1>6
  <2> QED
    BY ONLY <2>2, <2>3
<1>10. ASSUME NEW d \in a
       PROVE  DatesPart!Instant(DatesPart!Midnight(d)) >= DatesPart!Instant(e.start) - e.start.minute
  <2>1. d \in DatesPart!Days /\ Number(D) <= Number(d)
    BY <1>7
  <2>2. 0 \in Minutes
    BY DEF Minutes
  <2>3. DatesPart!Instant(DatesPart!Midnight(d)) = Number(d) * 1440 + 0 /\ Number(d) \in Nat
    BY <2>1, <2>2, InstantOf
  <2>4. PICK u, v : u = Number(d) /\ v = Number(D)
    OBVIOUS
  <2>5. u \in Nat /\ v \in Nat /\ v <= u
    BY <1>9, <2>1, <2>3, <2>4
  <2>6. u * 1440 + 0 >= (v * 1440 + m) - m
    <3>1. m \in Int
      <4>1. m \in Minutes
        BY ONLY <1>6
      <4> QED
        BY ONLY <4>1 DEF Minutes
    <3> QED
      BY ONLY <2>5, <3>1
  <2> QED
    BY <1>6, <1>9, <2>3, <2>4, <2>6
<1> QED
  BY <1>7, <1>8, <1>10

\* Whenever the user types, and whatever: a day or a weekday typed without a
\* year is the first such day that begins from now on, over the turn of the
\* year and in leap years too, 29 February aside when it has passed
\* (src/calendar/date-parser.vala, parse_date, next_occurrence).
THEOREM AlwaysFirstOccurrence == Spec => []FirstOccurrence
<1>1. DatesInv => FirstOccurrence
  BY FirstIsStart DEF FirstOccurrence
<1> QED
  BY <1>1, DatesInvInit, DatesInvNext, PTL DEF Spec

-----------------------------------------------------------------------------
\* A date and a time make one moment at most.
LEMMA OneCombined ==
  ASSUME NEW d, NEW t, NEW x \in DatesPart!Combine(d, t), NEW y \in DatesPart!Combine(d, t)
  PROVE  x = y
BY DEF DatesPart!Combine

\* Of the start, what was typed first counts.
LEMMA StartStays ==
  ASSUME NEW n \in Moments, NEW s \in State, NEW r \in State, s.start_date # None,
         r.start_date = s.start_date,
         NEW x \in DatesPart!Start(n, s), NEW y \in DatesPart!Start(n, r)
  PROVE  /\ x.date = y.date
         /\ r.start_time = s.start_time => x = y
<1>1. x.date = y.date
  BY StartOf DEF DatesPart!At
<1>2. ASSUME r.start_time = s.start_time PROVE x = y
  <2>1. DatesPart!Start(n, r) = DatesPart!Start(n, s)
    BY <1>2 DEF DatesPart!Start
  <2>2. CASE s.start_time = NoTime
    BY <2>1, <2>2 DEF DatesPart!Start, NoTime
  <2>3. CASE s.start_time # NoTime
    <3>1. DatesPart!Start(n, s)
            = DatesPart!Combine(DatesPart!NextOccurrence(n, s.start_date), s.start_time)
      BY <2>3 DEF DatesPart!Start, NoTime
    <3> QED
      BY <2>1, <3>1, OneCombined
  <2> QED
    BY <2>2, <2>3
<1> QED
  BY <1>1, <1>2

\* One token more changes no event that there was, but for what it may.
LEMMA TokenKeeps ==
  ASSUME DatesInv, NEW t \in Tokens, DatesPart!Type(t), NEW e \in target, NEW f \in target'
  PROVE  /\ f.start.date = e.start.date
         /\ DatesPart!Where(DatesPart!IsTime) # {} => f.start = e.start
         /\ DatesPart!Twice(DatesPart!IsTime) /\ DatesPart!Twice(DatesPart!Existing) => f = e
<1>1. PICK s \in State : /\ s = DatesPart!ReadAll(now, text) /\ s.start_date # None
                         /\ Understood(now, text, Len(text), s)
                         /\ e.start \in DatesPart!Start(now, s) /\ e.end \in DatesPart!End(now, s)
                         /\ e = [start |-> e.start, end |-> e.end]
  BY TargetIs
<1>2. /\ DatesInv' /\ now' = now /\ ~s.stopped
      /\ DatesPart!ReadAll(now, text') = DatesPart!Take(s, now, t)
  BY <1>1, TypeKeeps
<1>3. PICK r : r = DatesPart!ReadAll(now, text')
  OBVIOUS
<1>4. /\ r \in State /\ r.start_date # None
      /\ f.start \in DatesPart!Start(now, r) /\ f.end \in DatesPart!End(now, r)
      /\ f = [start |-> f.start, end |-> f.end]
  <2>1. now \in Moments /\ text' \in Seq(Tokens) /\ target' = DatesPart!Target(now, text')
    BY <1>2 DEF DatesInv
  <2>2. r \in State
    BY <1>3, <2>1, ReadAllSteps
  <2>3. /\ r.start_date # None
        /\ f \in {[start |-> x, end |-> y] : x \in DatesPart!Start(now, r), y \in DatesPart!End(now, r)}
    BY <1>3, <2>1 DEF DatesPart!Target, None
  <2> QED
    BY <2>2, <2>3
<1>5. r = DatesPart!Take(s, now, t)
  BY <1>2, <1>3
<1>6. now \in Moments
  BY DEF DatesInv
<1>7. /\ r.start_date = s.start_date
      /\ s.start_time # NoTime => r.start_time = s.start_time
      /\ s.end_date # None => r.end_date = s.end_date
      /\ s.end_time # NoTime => r.end_time = s.end_time
  BY <1>1, <1>5 DEF DatesPart!Take, DatesPart!Open, State, None, NoTime
<1>8. f.start.date = e.start.date
  BY <1>1, <1>4, <1>6, <1>7, StartStays
<1>9. ASSUME DatesPart!Where(DatesPart!IsTime) # {}
      PROVE  s.start_time # NoTime /\ f.start = e.start
  <2>1. s.start_time # NoTime
    BY <1>1, <1>2, <1>9 DEF DatesPart!Where, Understood
  <2> QED
    BY <1>1, <1>4, <1>6, <1>7, <2>1, StartStays
<1>10. ASSUME DatesPart!Twice(DatesPart!IsTime), DatesPart!Twice(DatesPart!Existing)
       PROVE  f = e
  <2>1. s.end_time # NoTime
    BY <1>1, <1>2, <1>10 DEF DatesPart!Twice, DatesPart!Where, Understood
  <2>2. s.end_date # None
    BY <1>1, <1>2, <1>10
       DEF DatesPart!Twice, DatesPart!Where, DatesPart!Existing, Understood, ExistsOn, None
  <2>3. f.start = e.start
    BY <1>9, <1>10 DEF DatesPart!Twice
  <2>4. /\ DatesPart!End(now, s)
             = DatesPart!Combine(DatesPart!NextOccurrence(now, s.end_date), s.end_time)
        /\ DatesPart!End(now, r)
             = DatesPart!Combine(DatesPart!NextOccurrence(now, s.end_date), s.end_time)
    BY <1>7, <2>1, <2>2 DEF DatesPart!End, None, NoTime
  <2>5. f.end = e.end
    BY <1>1, <1>4, <2>4, OneCombined
  <2> QED
    BY <1>1, <1>4, <2>3, <2>5
<1> QED
  BY <1>8, <1>9, <1>10

\* For every sequence of tokens: when a text that made an event is continued
\* and still makes one, it begins on the same day, at the same time once one
\* was typed, and after two dates and two times it is the same event
\* (src/calendar/date-parser.vala, parse_datetime_range;
\* calendar-match-action-target.vala, target_match).
THEOREM TypingAlwaysKeeps == Spec => TypingOnKeeps
<1> DEFINE Keeps == \A e \in target, f \in target' :
                      /\ f.start.date = e.start.date
                      /\ DatesPart!Where(DatesPart!IsTime) # {} => f.start = e.start
                      /\ DatesPart!Twice(DatesPart!IsTime) /\ DatesPart!Twice(DatesPart!Existing) => f = e
<1>1. DatesInv /\ [Next]_vars => [Keeps]_<<now, text, target>>
  <2> SUFFICES ASSUME DatesInv, [Next]_vars, ~UNCHANGED <<now, text, target>> PROVE Keeps
    OBVIOUS
  <2>1. DatesPart!Next
    BY DEF Next, DatesNext, DownloadsNext, SshNext, SnippetsNext, DesktopNext, SystemdNext,
           TransmissionNext, ResultsNext, WifiNext, NotDownloads, NotSsh, NotSnippets, NotDesktop,
           NotSystemd, NotTransmission, NotResults, NotWifi, vars, dates
  <2>2. ASSUME NEW n \in Moments, DatesPart!Clear(n) PROVE Keeps
    BY <2>2 DEF DatesPart!Clear
  <2>3. ASSUME NEW t \in Tokens, DatesPart!Type(t) PROVE Keeps
    BY <2>3, TokenKeeps
  <2> QED
    BY <2>1, <2>2, <2>3 DEF DatesPart!Next
<1> QED
  BY <1>1, DatesInvInit, DatesInvNext, PTL DEF Spec, TypingOnKeeps, DatesPart!TypingOnKeeps

-----------------------------------------------------------------------------
(***************************************************************************)
(* The types.  The invariants above have most of them; for each part what  *)
(* is left, and that a step keeps it.                                      *)
(***************************************************************************)
LEMMA BoundFacts ==
  /\ MaxChanges \in Nat /\ MaxInstalls \in Nat /\ MaxFaults \in Nat
  /\ Len(Directories) \in Nat /\ Every \in Nat \ {0}
BY BoundsAssumption

\* Downloads.
DownloadsRest ==
  /\ monitoring \in {"off", "loaded", "on"} /\ unwatched \subseteq Files /\ modified \subseteq Files
  /\ changes \in 0 .. MaxChanges

LEMMA DownloadsRestInit == DownloadsPart!Init => DownloadsRest
BY BoundFacts DEF DownloadsRest, DownloadsPart!Init

LEMMA DownloadsRestNext ==
  ASSUME DownloadsRest, DownloadsPart!Next \/ UNCHANGED downloads
  PROVE  DownloadsRest'
<1> USE BoundFacts DEF DownloadsRest, DownloadsPart!plugin, DownloadsPart!directory
<1>1. CASE DownloadsPart!Load
  BY <1>1 DEF DownloadsPart!Load
<1>2. CASE DownloadsPart!Watch
  BY <1>2 DEF DownloadsPart!Watch
<1>3. CASE DownloadsPart!Deactivate
  BY <1>3 DEF DownloadsPart!Deactivate
<1>4. CASE DownloadsPart!OnFileChanged
  BY <1>4 DEF DownloadsPart!OnFileChanged
<1>5. CASE DownloadsPart!AddFile
  BY <1>5 DEF DownloadsPart!AddFile
<1>6. ASSUME NEW f \in Files, NEW kind, NEW times, DownloadsPart!Change(kind, f, times),
             modified' \in {modified \ {f}, modified \cup {f}}
      PROVE  DownloadsRest'
  <2>1. unwatched' \in {unwatched, unwatched \cup {f}}
    BY <1>6 DEF DownloadsPart!Change
  <2> QED
    BY <1>6, <2>1 DEF DownloadsPart!Change
<1>7. ASSUME NEW f \in Files, NEW w, DownloadsPart!Write(f, w)
      PROVE  DownloadsRest'
  BY <1>6, <1>7 DEF DownloadsPart!Write
<1>8. ASSUME NEW f \in Files, NEW c, NEW w, DownloadsPart!Put(f, c, w)
      PROVE  DownloadsRest'
  BY <1>6, <1>8 DEF DownloadsPart!Put
<1>9. ASSUME NEW f \in Files, DownloadsPart!Delete(f)
      PROVE  DownloadsRest'
  BY <1>6, <1>9 DEF DownloadsPart!Delete
<1>10. CASE UNCHANGED downloads
  BY <1>10 DEF downloads
<1> HIDE DEF DownloadsRest
<1> QED
  BY <1>1, <1>2, <1>3, <1>4, <1>5, <1>7, <1>8, <1>9, <1>10 DEF DownloadsPart!Next

LEMMA DownloadsTyped == DownloadsInv /\ DownloadsRest => DownloadsPart!TypeOK
BY DEF DownloadsInv, DownloadTypes, Good, Entry, DownloadsRest, DownloadsPart!TypeOK

-----------------------------------------------------------------------------
\* SshHosts: what a call brings is in some file.
AllHosts == UNION {SshPart!HostsOf(lines) : lines \in Contents}
SshRest == hosts \subseteq AllHosts /\ overlapped \subseteq AllHosts /\ edits \in 0 .. MaxChanges

LEMMA SshRestInit == SshPart!Init => SshRest
BY BoundFacts DEF SshRest, SshPart!Init

LEMMA HostsWithin ==
  ASSUME NEW lines \in Seq(Line)
  PROVE  SshPart!HostsOf(lines) \subseteq AllHosts
<1>1. \A i \in 1 .. Len(lines) : lines[i] \subseteq AllHosts
  BY DEF Line, AllHosts
<1> QED
  BY <1>1 DEF SshPart!HostsOf

LEMMA SshRestNext ==
  ASSUME SshRest, SshInv, SshPart!Next \/ UNCHANGED ssh
  PROVE  SshRest'
<1> USE BoundFacts
<1>1. ASSUME NEW p \in DOMAIN parses PROVE SshPart!HostsOf(p.lines) \subseteq AllHosts
  <2>1. IsCall(p)
    BY DEF SshInv
  <2> QED
    BY <2>1, UnreadCall, HostsWithin DEF IsCall
<1>2. SshPart!Begin => hosts' = {} /\ overlapped' \subseteq AllHosts
  BY <1>1 DEF SshPart!Begin, SshPart!BagToSet
<1>3. CASE SshPart!Activate \/ SshPart!HandleSshConfigUpdate
  BY <1>2, <1>3 DEF SshPart!Activate, SshPart!HandleSshConfigUpdate, SshRest
<1>4. CASE SshPart!Deactivate
  BY <1>4 DEF SshPart!Deactivate, SshPart!ChangesBy, SshRest
<1>5. CASE SshPart!ReadFile
  BY <1>5 DEF SshPart!ReadFile, SshRest
<1>6. ASSUME NEW p, SshPart!ReadLine(p)
      PROVE  SshRest'
  <2>1. p \in DOMAIN parses /\ p.read
    BY <1>6, ReadLineMoves DEF SshInv
  <2>2. PICK lines \in Seq(Line) : p = SshPart!Call(TRUE, lines)
    BY <2>1, UnreadCall DEF SshInv, IsCall
  <2>3. p.lines = lines
    BY <2>2, UnreadCall
  <2>4. hosts' = hosts \/ (lines # <<>> /\ hosts' = hosts \cup Head(lines))
    BY <1>6, <2>3, ReadLineMoves DEF SshInv
  <2>5. lines # <<>> => Head(lines) \subseteq AllHosts
    BY <2>2, HostsOfLines, HostsWithin
  <2>6. UNCHANGED <<overlapped, edits>>
    BY <1>6 DEF SshPart!ReadLine
  <2> QED
    BY <2>4, <2>5, <2>6 DEF SshRest
<1>7. ASSUME NEW lines \in Contents, SshPart!Edit(lines)
      PROVE  SshRest'
  BY <1>7 DEF SshPart!Edit, SshPart!ChangesBy, SshRest
<1>8. CASE UNCHANGED ssh
  BY <1>8 DEF ssh, SshRest
<1> QED
  BY <1>3, <1>4, <1>5, <1>6, <1>7, <1>8 DEF SshPart!Next, SshPart!ParseStep

LEMMA SshTyped == SshInv /\ SshRest => SshPart!TypeOK
BY DEF SshInv, SshRest, AllHosts, SshPart!TypeOK

-----------------------------------------------------------------------------
\* Snippets: no use is counted twice or later than it is, so that times and
\* counts stay within the clock.
UsageOf(entry, time) ==
  entry = [last_used |-> entry.last_used, usage_count |-> entry.usage_count]
  /\ entry.last_used \in 0 .. time /\ entry.usage_count \in 0 .. time
UsedBy(table, time) ==
  /\ DOMAIN table \subseteq Keys
  /\ \A k \in DOMAIN table : UsageOf(table[k], time)

SnippetTypes ==
  /\ UsedBy(snippets, clock) /\ UsedBy(snippet_cache, clock)
  /\ db_open \in BOOLEAN /\ clock \in 0 .. MaxChanges
  /\ replaced \subseteq Keys /\ unwritten \subseteq Keys

LEMMA UsedLater ==
  ASSUME NEW table, NEW time \in Nat, UsedBy(table, time), NEW key \in Keys
  PROVE  /\ UsedBy(table, time + 1) /\ UsedBy(SnippetsPart!Drop(table, key), time + 1)
         /\ \A count \in 0 .. time + 1 :
              UsedBy(SnippetsPart!With(table, key, time + 1, count), time + 1)
         /\ SnippetsPart!CountIn(table, key) \in 0 .. time
         /\ key \in DOMAIN table => table[key].usage_count + 1 \in 0 .. time + 1
<1>1. \A e : UsageOf(e, time) => UsageOf(e, time + 1)
  BY DEF UsageOf
<1>2. UsedBy(table, time + 1)
  BY <1>1 DEF UsedBy
<1>3. \A k \in DOMAIN table : table[k].usage_count \in 0 .. time
  BY DEF UsedBy, UsageOf
<1>4. SnippetsPart!CountIn(table, key) \in 0 .. time
  BY <1>3 DEF SnippetsPart!CountIn
<1>5. UsedBy(SnippetsPart!Drop(table, key), time + 1)
  BY <1>2 DEF UsedBy, SnippetsPart!Drop, SnippetsPart!Restrict
<1>6. ASSUME NEW count \in 0 .. time + 1
      PROVE  UsedBy(SnippetsPart!With(table, key, time + 1, count), time + 1)
  <2> DEFINE new == [last_used |-> time + 1, usage_count |-> count]
             other == SnippetsPart!With(table, key, time + 1, count)
  <2>1. UsageOf(new, time + 1)
    BY DEF UsageOf
  <2>2. /\ DOMAIN other = DOMAIN table \cup {key} /\ other[key] = new
        /\ \A k \in DOMAIN table : k # key => other[k] = table[k]
    BY DEF SnippetsPart!With
  <2> HIDE DEF new, other
  <2>3. UsedBy(other, time + 1)
    BY <1>2, <2>1, <2>2 DEF UsedBy
  <2> QED
    BY <2>3 DEF other
<1> QED
  BY <1>2, <1>3, <1>4, <1>5, <1>6

LEMMA SnippetTypesInit == SnippetsPart!Init => SnippetTypes
<1> SUFFICES ASSUME SnippetsPart!Init PROVE SnippetTypes
  OBVIOUS
<1>1. UsedBy(<<>>, 0)
  BY DEF UsedBy
<1>2. clock \in 0 .. MaxChanges
  BY BoundFacts DEF SnippetsPart!Init
<1>3. db_open \in BOOLEAN
  BY Zenon DEF SnippetsPart!Init
<1> QED
  BY <1>1, <1>2, <1>3 DEF SnippetTypes, SnippetsPart!Init

LEMMA SnippetTypesNext ==
  ASSUME SnippetTypes, SnippetsPart!Next \/ UNCHANGED snippet_vars
  PROVE  SnippetTypes'
<1>1. /\ clock \in Nat /\ clock <= MaxChanges /\ MaxChanges \in Nat
      /\ UsedBy(snippets, clock) /\ UsedBy(snippet_cache, clock)
      /\ replaced \subseteq Keys /\ unwritten \subseteq Keys
  BY BoundFacts DEF SnippetTypes
<1>2. db_open \in BOOLEAN
  BY DEF SnippetTypes
<1>3. SnippetsPart!Now => clock' = clock + 1 /\ clock' \in 0 .. MaxChanges
  BY <1>1 DEF SnippetsPart!Now
<1>4. CASE SnippetsPart!Activate
  <2>1. db_open' \in BOOLEAN
    BY <1>4, Zenon DEF SnippetsPart!Activate
  <2> QED
    BY <1>1, <1>4, <2>1 DEF SnippetsPart!Activate, SnippetTypes
<1>5. CASE SnippetsPart!Deactivate
  <2>1. db_open' \in BOOLEAN
    BY <1>5, Zenon DEF SnippetsPart!Deactivate
  <2>2. UsedBy(<<>>, clock + 1)
    BY DEF UsedBy
  <2>3. UsedBy(snippets, clock + 1)
    BY <1>1 DEF UsedBy, UsageOf
  <2> QED
    BY <1>1, <1>3, <1>5, <2>1, <2>2, <2>3 DEF SnippetsPart!Deactivate, SnippetTypes
<1>6. ASSUME NEW key \in Keys, SnippetsPart!Insert(key)
      PROVE  SnippetTypes'
  <2>1. clock' = clock + 1 /\ clock' \in 0 .. MaxChanges
    BY <1>3, <1>6 DEF SnippetsPart!Insert
  <2>2. SnippetsPart!CountIn(snippets, key) \in 0 .. clock
    BY <1>1, UsedLater
  <2>3. PICK count \in 0 .. clock + 1 :
          snippets' = SnippetsPart!With(snippets, key, clock + 1, count)
    BY <1>1, <1>6, <2>1, <2>2 DEF SnippetsPart!Insert
  <2>4. snippet_cache' = SnippetsPart!With(snippet_cache, key, clock + 1, 0)
    BY <1>6, <2>1 DEF SnippetsPart!Insert
  <2>5. UsedBy(snippets', clock + 1)
    BY <1>1, <2>3, UsedLater
  <2>6. UsedBy(snippet_cache', clock + 1)
    <3>1. 0 \in 0 .. clock + 1
      BY <1>1
    <3> QED
      BY <1>1, <2>4, <3>1, UsedLater
  <2> QED
    BY <1>1, <1>2, <1>6, <2>1, <2>5, <2>6 DEF SnippetsPart!Insert, SnippetTypes
<1>7. ASSUME NEW key \in Keys, SnippetsPart!Delete(key)
      PROVE  SnippetTypes'
  <2>1. clock' = clock + 1 /\ clock' \in 0 .. MaxChanges
    BY <1>3, <1>7 DEF SnippetsPart!Delete
  <2>2. UsedBy(snippets', clock + 1) /\ UsedBy(snippet_cache', clock + 1)
    BY <1>1, <1>7, UsedLater DEF SnippetsPart!Delete
  <2> QED
    BY <1>1, <1>2, <1>7, <2>1, <2>2 DEF SnippetsPart!Delete, SnippetTypes
<1>8. ASSUME NEW key \in Keys, NEW written \in BOOLEAN, SnippetsPart!Use(key, written)
      PROVE  SnippetTypes'
  <2>1. clock' = clock + 1 /\ clock' \in 0 .. MaxChanges /\ key \in DOMAIN snippets
    BY <1>3, <1>8 DEF SnippetsPart!Use
  <2>2. /\ UsedBy(snippets, clock + 1) /\ UsedBy(snippet_cache, clock + 1)
        /\ snippets[key].usage_count + 1 \in 0 .. clock + 1
        /\ key \in DOMAIN snippet_cache => snippet_cache[key].usage_count + 1 \in 0 .. clock + 1
    BY <1>1, <2>1, UsedLater
  <2>3. \/ snippets' = snippets
        \/ \E count \in 0 .. clock + 1 :
             snippets' = SnippetsPart!With(snippets, key, clock + 1, count)
    BY <1>8, <2>1, <2>2 DEF SnippetsPart!Use
  <2>4. \/ snippet_cache' = snippet_cache
        \/ \E count \in 0 .. clock + 1 :
             snippet_cache' = SnippetsPart!With(snippet_cache, key, clock + 1, count)
    BY <1>8, <2>1, <2>2 DEF SnippetsPart!Use
  <2>5. UsedBy(snippets', clock + 1) /\ UsedBy(snippet_cache', clock + 1)
    BY <1>1, <2>2, <2>3, <2>4, UsedLater
  <2>6. unwritten' \in {unwritten, unwritten \cup {key}}
    BY <1>8 DEF SnippetsPart!Use
  <2> QED
    BY <1>1, <1>2, <1>8, <2>1, <2>5, <2>6 DEF SnippetsPart!Use, SnippetTypes
<1>9. CASE UNCHANGED snippet_vars
  BY <1>9 DEF snippet_vars, SnippetTypes
<1> QED
  BY <1>4, <1>5, <1>6, <1>7, <1>8, <1>9 DEF SnippetsPart!Next

LEMMA SnippetsTyped == SnippetTypes => SnippetsPart!TypeOK
<1> SUFFICES ASSUME SnippetTypes PROVE SnippetsPart!TypeOK
  OBVIOUS
<1>1. ASSUME NEW table, UsedBy(table, clock)
      PROVE  SnippetsPart!Range(table) \subseteq SnippetsPart!Usage
  <2>1. \A k \in DOMAIN table : table[k] \in SnippetsPart!Usage
    BY <1>1, BoundFacts DEF UsedBy, UsageOf, SnippetTypes, SnippetsPart!Usage
  <2> QED
    BY <2>1 DEF SnippetsPart!Range
<1> QED
  BY <1>1 DEF SnippetTypes, UsedBy, SnippetsPart!TypeOK

-----------------------------------------------------------------------------
\* Wifi.
WifiFlags ==
  /\ manager \in BOOLEAN /\ agent_manager \in BOOLEAN /\ enabled \in BOOLEAN
  /\ iwd \in BOOLEAN /\ iwd_agent \in BOOLEAN /\ crossed \in BOOLEAN
WifiRest == WifiFlags /\ turns \in 0 .. MaxChanges

LEMMA WifiRestInit == WifiPart!Init => WifiRest
<1>1. WifiPart!Init => WifiFlags
  BY Zenon DEF WifiFlags, WifiPart!Init
<1> QED
  BY <1>1, BoundFacts DEF WifiRest, WifiPart!Init

LEMMA WifiFlagsKept ==
  ASSUME WifiFlags, WifiPart!Next \/ UNCHANGED wifi
  PROVE  WifiFlags'
<1> USE DEF WifiFlags, WifiPart!fields, WifiPart!around
<1>1. CASE WifiPart!SwitchOn
  BY <1>1, Zenon DEF WifiPart!SwitchOn, WifiPart!Enter, WifiPart!Overlap
<1>2. CASE WifiPart!SwitchOff
  BY <1>2, Zenon DEF WifiPart!SwitchOff, WifiPart!Overlap
<1>3. CASE WifiPart!UnregisterObject \/ WifiPart!ForgetManager
  BY <1>3, Zenon DEF WifiPart!UnregisterObject, WifiPart!ForgetManager
<1>4. CASE WifiPart!IwdTurns
  BY <1>4, Zenon DEF WifiPart!IwdTurns
<1>5. ASSUME NEW t, WifiPart!Search(t) \/ WifiPart!Cancel(t) \/ WifiPart!FindManager(t)
      PROVE  WifiFlags'
  BY <1>5, Zenon DEF WifiPart!Search, WifiPart!Cancel, WifiPart!FindManager, WifiPart!Enter,
     WifiPart!Overlap
<1>6. ASSUME NEW t, WifiPart!GetBusFails(t) \/ WifiPart!RegisterObject(t) \/ WifiPart!AssignId(t)
                      \/ WifiPart!Catch(t)
      PROVE  WifiFlags'
  BY <1>6, Zenon DEF WifiPart!GetBusFails, WifiPart!RegisterObject, WifiPart!AssignId, WifiPart!Catch
<1>7. ASSUME NEW t, WifiPart!RegisterAgent(t)
      PROVE  WifiFlags'
  BY <1>7, Zenon DEF WifiPart!RegisterAgent
<1>8. ASSUME NEW t, WifiPart!MakeManager(t)
      PROVE  WifiFlags'
  BY <1>8, Zenon DEF WifiPart!MakeManager
<1>9. CASE UNCHANGED wifi
  BY <1>9 DEF wifi
<1> HIDE DEF WifiFlags
<1> QED
  BY <1>1, <1>2, <1>3, <1>4, <1>5, <1>6, <1>7, <1>8, <1>9 DEF WifiPart!Next

LEMMA WifiRestNext ==
  ASSUME WifiRest, WifiPart!Next \/ UNCHANGED wifi
  PROVE  WifiRest'
<1>1. WifiFlags'
  BY WifiFlagsKept DEF WifiRest
<1>2. turns' = turns \/ WifiPart!Turn
  BY DEF WifiPart!Next, WifiPart!SwitchOn, WifiPart!SwitchOff, WifiPart!UnregisterObject,
     WifiPart!ForgetManager, WifiPart!IwdTurns, WifiPart!Search, WifiPart!Cancel,
     WifiPart!FindManager, WifiPart!GetBusFails, WifiPart!RegisterObject, WifiPart!AssignId,
     WifiPart!Catch, WifiPart!RegisterAgent, WifiPart!MakeManager, WifiPart!around, wifi
<1>3. turns' \in 0 .. MaxChanges
  BY <1>2, BoundFacts DEF WifiRest, WifiPart!Turn
<1> QED
  BY <1>1, <1>3 DEF WifiRest

LEMMA WifiTyped == WifiInv /\ WifiRest => WifiPart!TypeOK
BY DEF WifiInv, WifiTypes, WifiRest, WifiFlags, WifiPart!TypeOK

-----------------------------------------------------------------------------
\* Transmission: an id that was told is one the server has had, of which there
\* is one more than there were faults.
IsPlace(x) ==
  \/ x.at \in {"idle", "connecting", "asked", "sending"}
  \/ x.at = "answered" /\ x.ok \in BOOLEAN /\ x.id \in TransmissionPart!Ids
  \/ x.at = "returning" /\ x.ok \in BOOLEAN

TransmissionTypes ==
  /\ server_id \in 1 .. 1 + faults /\ session_id \in TransmissionPart!Ids
  /\ connected \in BOOLEAN /\ connecting \in BOOLEAN /\ attempts \in 0 .. Every - 1
  /\ answered \in BOOLEAN /\ stuck \in BOOLEAN /\ faults \in 0 .. MaxFaults
  /\ DOMAIN thread = Threads /\ \A t \in Threads : IsPlace(thread[t])

LEMMA TransmissionInit == TransmissionPart!Init => TransmissionTypes
<1> SUFFICES ASSUME TransmissionPart!Init PROVE TransmissionTypes
  OBVIOUS
<1>1. /\ connected \in BOOLEAN /\ connecting \in BOOLEAN
      /\ answered \in BOOLEAN /\ stuck \in BOOLEAN
  BY Zenon DEF TransmissionPart!Init
<1>2. /\ faults \in 0 .. MaxFaults /\ server_id \in 1 .. 1 + faults
      /\ attempts \in 0 .. Every - 1 /\ session_id \in TransmissionPart!Ids
  BY BoundFacts DEF TransmissionPart!Init, TransmissionPart!Ids
<1>3. DOMAIN thread = Threads /\ \A t \in Threads : IsPlace(thread[t])
  BY DEF TransmissionPart!Init, IsPlace, TransmissionPart!Idle
<1> QED
  BY <1>1, <1>2, <1>3 DEF TransmissionTypes

LEMMA TransmissionNextTypes ==
  ASSUME TransmissionTypes, TransmissionPart!Next \/ UNCHANGED transmission
  PROVE  TransmissionTypes'
<1> USE BoundFacts
<1>1. ASSUME NEW t \in Threads, NEW x, IsPlace(x), TransmissionPart!Go(t, x)
      PROVE  DOMAIN thread' = Threads /\ \A u \in Threads : IsPlace(thread'[u])
  BY <1>1 DEF TransmissionPart!Go, TransmissionTypes
<1>2. /\ IsPlace(TransmissionPart!Idle) /\ IsPlace([at |-> "connecting"])
      /\ IsPlace([at |-> "asked"])
      /\ \A f, n : IsPlace(TransmissionPart!Command(f, n))
      /\ \A f, n : \A ok \in BOOLEAN, id \in TransmissionPart!Ids :
           IsPlace(TransmissionPart!Answer(f, n, ok, id))
      /\ \A f : \A ok \in BOOLEAN : IsPlace(TransmissionPart!Reply(f, ok))
  BY DEF IsPlace, TransmissionPart!Idle, TransmissionPart!Command, TransmissionPart!Answer,
     TransmissionPart!Reply
<1>3. server_id \in TransmissionPart!Ids /\ 0 \in TransmissionPart!Ids
  BY DEF TransmissionTypes, TransmissionPart!Ids
<1>4. ASSUME NEW t \in Threads, TransmissionPart!IsConnected(t)
      PROVE  TransmissionTypes'
  <2>1. PICK x : IsPlace(x) /\ TransmissionPart!Go(t, x)
    BY <1>2, <1>4 DEF TransmissionPart!IsConnected
  <2>2. attempts' \in 0 .. Every - 1
    <3>1. \A a \in Nat, n \in Nat \ {0} : a % n \in 0 .. n - 1
      OBVIOUS
    <3>2. attempts \in 0 .. Every - 1
      BY DEF TransmissionTypes
    <3>3. attempts' \in {attempts, (attempts + 1) % Every}
      BY <1>4 DEF TransmissionPart!IsConnected
    <3>4. (attempts + 1) % Every \in 0 .. Every - 1
      <4>1. attempts + 1 \in Nat /\ Every \in Nat \ {0}
        BY <3>2
      <4> QED
        BY <3>1, <4>1
    <3> QED
      BY <3>2, <3>3, <3>4
  <2> QED
    BY <1>1, <1>4, <2>1, <2>2 DEF TransmissionPart!IsConnected, TransmissionTypes
<1>5. ASSUME NEW t \in Threads, TransmissionPart!TryConnect(t)
      PROVE  TransmissionTypes'
  <2>1. PICK x : IsPlace(x) /\ TransmissionPart!Go(t, x)
    BY <1>2, <1>5 DEF TransmissionPart!TryConnect
  <2> QED
    BY <1>1, <1>5, <2>1 DEF TransmissionPart!TryConnect, TransmissionTypes
<1>6. ASSUME NEW t \in Threads, TransmissionPart!Fetch(t)
      PROVE  TransmissionTypes'
  <2>1. PICK x : IsPlace(x) /\ TransmissionPart!Go(t, x)
    BY <1>2, <1>6 DEF TransmissionPart!Fetch
  <2> QED
    BY <1>1, <1>6, <2>1 DEF TransmissionPart!Fetch, TransmissionTypes
<1>7. ASSUME NEW t \in Threads, TransmissionPart!Send(t)
      PROVE  TransmissionTypes'
  <2>1. PICK x : IsPlace(x) /\ TransmissionPart!Go(t, x)
    BY <1>2, <1>3, <1>7 DEF TransmissionPart!Send
  <2> QED
    BY <1>1, <1>7, <2>1 DEF TransmissionPart!Send, TransmissionTypes
<1>8. ASSUME NEW t \in Threads, TransmissionPart!Lose(t)
      PROVE  TransmissionTypes'
  <2>1. PICK x : IsPlace(x) /\ TransmissionPart!Go(t, x)
    BY <1>2, <1>3, <1>8 DEF TransmissionPart!Lose
  <2> QED
    BY <1>1, <1>8, <2>1 DEF TransmissionPart!Lose, TransmissionTypes
<1>9. ASSUME NEW t \in Threads, TransmissionPart!Receive(t)
      PROVE  TransmissionTypes'
  <2>1. thread[t].ok \in BOOLEAN /\ thread[t].id \in TransmissionPart!Ids
    BY <1>9 DEF TransmissionPart!Receive, TransmissionTypes, IsPlace
  <2>2. PICK x : IsPlace(x) /\ TransmissionPart!Go(t, x)
    BY <1>2, <1>9, <2>1 DEF TransmissionPart!Receive
  <2> QED
    BY <1>1, <1>9, <2>1, <2>2 DEF TransmissionPart!Receive, TransmissionTypes
<1>10. ASSUME NEW t \in Threads, TransmissionPart!Return(t)
       PROVE  TransmissionTypes'
  <2>1. thread[t].ok \in BOOLEAN
    BY <1>10 DEF TransmissionPart!Return, TransmissionTypes, IsPlace
  <2>2. PICK x : IsPlace(x) /\ TransmissionPart!Go(t, x)
    BY <1>2, <1>10 DEF TransmissionPart!Return
  <2> QED
    BY <1>1, <1>10, <2>1, <2>2 DEF TransmissionPart!Return, TransmissionTypes
<1>11. CASE TransmissionPart!Restart
  BY <1>11 DEF TransmissionPart!Restart, TransmissionTypes
<1>12. CASE UNCHANGED transmission
  BY <1>12 DEF transmission, TransmissionTypes
<1> QED
  BY <1>4, <1>5, <1>6, <1>7, <1>8, <1>9, <1>10, <1>11, <1>12
     DEF TransmissionPart!Next, TransmissionPart!ThreadStep

LEMMA TransmissionTyped == TransmissionTypes => TransmissionPart!TypeOK
BY BoundFacts DEF TransmissionTypes, IsPlace, TransmissionPart!Ids, TransmissionPart!TypeOK

-----------------------------------------------------------------------------
\* FileResults: no table has more entries than it may, and no result lies beyond them.
ResultsRest ==
  /\ \A s \in ResultsPart!Tables : Len(shards[s]) <= MaxCount
  /\ \A r \in found : r.i < MaxCount

LEMMA LengthKept ==
  ASSUME NEW table \in Seq(Paths), NEW p \in Paths, Len(table) <= MaxCount, NEW new,
         new \in {ResultsPart!Inserted(table, p), ResultsPart!Removed(table, p)}
  PROVE  Len(new) <= MaxCount
<1> DEFINE k == FirstNotBefore(table, Rank, p)
<1>1. ResultsPart!Place(table, p) = k
  <2>1. ASSUME NEW S PROVE ResultsPart!Min(S) = Min(S)
    BY DEF ResultsPart!Min, Min
  <2> QED
    BY <2>1 DEF ResultsPart!Place, FirstNotBefore
<1>2. k \in 1 .. Len(table) + 1
  BY PathFacts, FirstDivides
<1>3. Len(table) \in Nat /\ MaxCount \in Nat
  BY PathFacts
<1>4. \/ new = table
      \/ Len(table) < MaxCount /\ new = InsertAt(table, k, p)
      \/ k <= Len(table) /\ new = RemoveAt(table, k)
  <2>1. ResultsPart!Inserted(table, p) =
          IF Len(table) >= MaxCount \/ ResultsPart!Holds(table, p)
          THEN table ELSE InsertAt(table, k, p)
    BY <1>1 DEF ResultsPart!Inserted, ResultsPart!InsertAt, InsertAt
  <2>2. ResultsPart!Removed(table, p) =
          IF ResultsPart!Holds(table, p) THEN RemoveAt(table, k) ELSE table
    BY <1>1 DEF ResultsPart!Removed, ResultsPart!RemoveAt, RemoveAt
  <2>3. ResultsPart!Holds(table, p) => k <= Len(table)
    BY <1>1 DEF ResultsPart!Holds
  <2> HIDE DEF k
  <2> QED
    BY <1>3, <2>1, <2>2, <2>3
<1> HIDE DEF k
<1>5. ASSUME Len(table) < MaxCount, new = InsertAt(table, k, p) PROVE Len(new) <= MaxCount
  <2>1. Len(new) = Len(table) + 1
    BY <1>2, <1>5, InsertAtProperties
  <2> QED
    BY <1>3, <1>5, <2>1
<1>6. ASSUME k <= Len(table), new = RemoveAt(table, k) PROVE Len(new) <= MaxCount
  <2>1. k \in 1 .. Len(table)
    BY <1>2, <1>3, <1>6
  <2>2. Len(new) = Len(table) - 1
    BY <1>6, <2>1, RemoveAtProperties
  <2> QED
    BY <1>3, <2>2
<1> QED
  BY <1>4, <1>5, <1>6

LEMMA ResultsRestInit == ResultsPart!Init => ResultsRest
BY PathFacts DEF ResultsRest, ResultsPart!Init, ResultsPart!EmptyShards

LEMMA ResultsRestNext ==
  ASSUME ResultsRest, ResultsInv, ResultsPart!Next \/ UNCHANGED file_results
  PROVE  ResultsRest'
<1>1. ASSUME NEW p \in Paths, ResultsPart!AddFile(p) \/ ResultsPart!RemoveFile(p),
             ResultsPart!Outdate(p)
      PROVE  ResultsRest'
  <2> DEFINE h == ResultsPart!ShardOf(Hash[p])
  <2>1. h \in ResultsPart!Tables /\ shards \in [ResultsPart!Tables -> Seq(Paths)]
    BY PathFacts DEF ResultsInv, Ordered
  <2>2. PICK new : /\ shards' = [shards EXCEPT ![h] = new]
                   /\ new \in {ResultsPart!Inserted(shards[h], p), ResultsPart!Removed(shards[h], p)}
    BY <1>1 DEF ResultsPart!AddFile, ResultsPart!RemoveFile
  <2> HIDE DEF h
  <2>3. Len(new) <= MaxCount
    BY <2>1, <2>2, LengthKept DEF ResultsRest
  <2>4. \A x \in found' : \E r \in found : x.i = r.i
    <3>1. ASSUME NEW x \in found' PROVE \E r \in found : x.i = r.i
      <4>1. PICK r \in found : x = [r EXCEPT !.kept = r.kept /\ ~ResultsPart!Touched(r, p)]
        BY <1>1 DEF ResultsPart!Outdate
      <4>2. r \in ResultType
        BY DEF ResultsInv, Shown, Sound
      <4> QED
        BY <4>1, <4>2 DEF ResultType
    <3> QED
      BY <3>1
  <2> QED
    BY <2>1, <2>2, <2>3, <2>4 DEF ResultsRest
<1>2. ASSUME NEW s \in ResultsPart!Tables, ResultsPart!TreeManagerShard(s)
      PROVE  ResultsRest'
  <2>1. Len(shards[s]) \in Nat /\ Len(shards[s]) <= MaxCount
    BY DEF ResultsInv, Ordered, ResultsRest
  <2>2. \A x \in ResultsPart!Iterate(shards[s]) : x.i < MaxCount
    BY <2>1, PathFacts DEF ResultsPart!Iterate, ResultsPart!Result
  <2> QED
    BY <1>2, <2>2 DEF ResultsPart!TreeManagerShard, ResultsRest
<1>3. CASE ResultsPart!Initialize
  <2>1. \A s \in ResultsPart!Tables : Len(shards'[s]) <= MaxCount
    BY <1>3, PathFacts DEF ResultsPart!Initialize, ResultsPart!EmptyShards
  <2>2. ASSUME NEW x \in found' PROVE x.i < MaxCount
    <3>1. PICK r \in found : x = [r EXCEPT !.kept = FALSE]
      BY <1>3 DEF ResultsPart!Initialize
    <3>2. r \in ResultType
      BY DEF ResultsInv, Shown, Sound
    <3>3. x.i = r.i
      BY <3>1, <3>2 DEF ResultType
    <3> QED
      BY <3>3 DEF ResultsRest
  <2> QED
    BY <2>1, <2>2 DEF ResultsRest
<1>4. CASE UNCHANGED file_results
  BY <1>4 DEF file_results, ResultsRest
<1> QED
  BY <1>1, <1>2, <1>3, <1>4 DEF ResultsPart!Next

LEMMA ResultsTyped == ResultsInv /\ ResultsRest => ResultsPart!TypeOK
<1> SUFFICES ASSUME ResultsInv, ResultsRest PROVE ResultsPart!TypeOK
  OBVIOUS
<1>1. ASSUME NEW r \in found
      PROVE  r \in [i : 0 .. MaxCount - 1, hash : Nat, path : Paths, kept : BOOLEAN]
  <2>1. r \in ResultType /\ r.i < MaxCount
    BY DEF ResultsInv, Shown, Sound, ResultsRest
  <2> QED
    BY <2>1, PathFacts DEF ResultType
<1> QED
  BY <1>1 DEF ResultsInv, Ordered, ResultsPart!TypeOK

-----------------------------------------------------------------------------
\* DesktopFiles.
Places == {Directories[i] : i \in 1 .. Len(Directories)} \X FileNames
FileKinds == (SUBSET MimeTypes) \cup {DesktopPart!NoFile}
Pending == IF handler = "add" THEN 1 ELSE 0

DesktopFilesTyped ==
  /\ DOMAIN applications = Places /\ \A f \in Places : applications[f] \in FileKinds
  /\ DOMAIN desktop_files \subseteq FileNames
  /\ \A n \in DOMAIN desktop_files : desktop_files[n] \in SUBSET MimeTypes
  /\ mimetype_map \subseteq MimeTypes \X FileNames
  /\ loading \in 0 .. Len(Directories) + 1 /\ watched \in BOOLEAN /\ unseen \in BOOLEAN

\* A change is reported once at most, and a report sets one timer.
DesktopTimersTyped ==
  /\ last_id \in Nat /\ reports \in Nat /\ installs \in 0 .. MaxInstalls
  /\ handler \in {"idle", "add", "assign"}
  /\ last_id + reports + Pending <= installs
  /\ timeout_id \in 0 .. last_id /\ timers \subseteq 0 .. last_id

LEMMA DesktopInitTyped == DesktopPart!Init => DesktopFilesTyped /\ DesktopTimersTyped
<1> SUFFICES ASSUME DesktopPart!Init PROVE DesktopFilesTyped /\ DesktopTimersTyped
  OBVIOUS
<1>1. watched \in BOOLEAN /\ unseen \in BOOLEAN
  BY Zenon DEF DesktopPart!Init
<1>2. loading \in 0 .. Len(Directories) + 1 /\ installs \in 0 .. MaxInstalls
  BY BoundFacts DEF DesktopPart!Init
<1>3. DOMAIN applications = Places /\ \A f \in Places : applications[f] \in FileKinds
  <2>1. applications = [f \in Places |-> DesktopPart!NoFile]
    BY DEF DesktopPart!Init, Places
  <2> QED
    BY <2>1 DEF FileKinds
<1>4. DesktopFilesTyped
  BY <1>1, <1>2, <1>3 DEF DesktopPart!Init, DesktopFilesTyped
<1>5. DesktopTimersTyped
  BY <1>2 DEF DesktopPart!Init, DesktopTimersTyped, Pending
<1> QED
  BY <1>4, <1>5

LEMMA DesktopTimersKept ==
  ASSUME DesktopTimersTyped, DesktopPart!Next \/ UNCHANGED desktop
  PROVE  DesktopTimersTyped'
<1> USE BoundFacts DEF DesktopTimersTyped, Pending, DesktopPart!indexes, DesktopPart!timing,
       DesktopPart!outside
<1>1. CASE DesktopPart!ProcessDirectory
  BY <1>1 DEF DesktopPart!ProcessDirectory
<1>2. CASE DesktopPart!FinishLoading
  BY <1>2 DEF DesktopPart!FinishLoading
<1>3. ASSUME NEW id, DesktopPart!TimeoutFires(id) PROVE DesktopTimersTyped'
  BY <1>3 DEF DesktopPart!TimeoutFires
<1>4. CASE DesktopPart!RemoveTimeout
  BY <1>4 DEF DesktopPart!RemoveTimeout
<1>5. CASE DesktopPart!AddTimeout
  BY <1>5 DEF DesktopPart!AddTimeout
<1>6. CASE DesktopPart!AssignTimeout
  BY <1>6 DEF DesktopPart!AssignTimeout
<1>7. ASSUME NEW d, NEW n, NEW types, DesktopPart!Install(d, n, types) PROVE DesktopTimersTyped'
  <2>1. /\ installs < MaxInstalls /\ installs' = installs + 1 /\ reports' \in {reports, reports + 1}
        /\ UNCHANGED <<timeout_id, timers, last_id, handler>>
    BY <1>7 DEF DesktopPart!Install
  <2>2. installs' \in 0 .. MaxInstalls /\ reports' \in Nat
    BY <2>1
  <2>3. last_id \in Nat /\ reports \in Nat /\ installs \in Nat /\ Pending \in Nat
    OBVIOUS
  <2>4. last_id + reports' + Pending <= installs'
    <3>1. last_id + reports + Pending <= installs
      OBVIOUS
    <3>2. installs' = installs + 1
      BY <2>1
    <3>3. reports' = reports \/ reports' = reports + 1
      BY <2>1
    <3> HIDE DEF Pending, DesktopTimersTyped
    <3> QED
      BY <2>3, <3>1, <3>2, <3>3
  <2> QED
    BY <2>1, <2>2, <2>4
<1>8. CASE UNCHANGED desktop
  BY <1>8 DEF desktop
<1> QED
  BY <1>1, <1>2, <1>3, <1>4, <1>5, <1>6, <1>7, <1>8 DEF DesktopPart!Next, DesktopPart!Step

LEMMA DesktopFilesKept ==
  ASSUME DesktopFilesTyped, DesktopPart!Next \/ UNCHANGED desktop
  PROVE  DesktopFilesTyped'
<1> USE BoundFacts DEF DesktopPart!indexes, DesktopPart!timing, DesktopPart!outside
<1>1. CASE DesktopPart!ProcessDirectory
  <2> DEFINE d == Directories[loading]
             here == DesktopPart!Present(d)
  <2>1. \A n \in here : n \in FileNames /\ applications[d, n] \in SUBSET MimeTypes
    <3>1. ASSUME NEW n \in here
          PROVE  n \in FileNames /\ applications[d, n] \in SUBSET MimeTypes
      <4>1. n \in FileNames /\ applications[<<d, n>>] # DesktopPart!NoFile
        BY DEF DesktopPart!Present
      <4>2. <<d, n>> \in Places
        BY <1>1, <4>1 DEF Places, DesktopPart!ProcessDirectory
      <4> QED
        BY <4>1, <4>2 DEF DesktopFilesTyped, FileKinds
    <3> QED
      BY <3>1
  <2>2. desktop_files' = [n \in DOMAIN desktop_files \cup here |->
                            IF n \in here THEN applications[d, n] ELSE desktop_files[n]]
    BY <1>1 DEF DesktopPart!ProcessDirectory
  <2> HIDE DEF here, d
  <2>3. /\ DOMAIN desktop_files' \subseteq FileNames
        /\ \A n \in DOMAIN desktop_files' : desktop_files'[n] \in SUBSET MimeTypes
    BY <2>1, <2>2 DEF DesktopFilesTyped
  <2>4. loading' \in 0 .. Len(Directories) + 1
    <3>1. loading \in 1 .. Len(Directories) /\ loading' = loading + 1
      BY <1>1 DEF DesktopPart!ProcessDirectory
    <3> QED
      BY <3>1
  <2>5. UNCHANGED <<applications, mimetype_map, watched, unseen>>
    BY <1>1 DEF DesktopPart!ProcessDirectory
  <2> QED
    BY <2>3, <2>4, <2>5 DEF DesktopFilesTyped
<1>2. CASE DesktopPart!FinishLoading
  <2>1. DesktopPart!MimeTypesOf(desktop_files) \subseteq MimeTypes \X FileNames
    BY DEF DesktopFilesTyped, DesktopPart!MimeTypesOf
  <2> QED
    BY <1>2, <2>1 DEF DesktopPart!FinishLoading, DesktopFilesTyped
<1>3. ASSUME NEW id, DesktopPart!TimeoutFires(id) PROVE DesktopFilesTyped'
  BY <1>3 DEF DesktopPart!TimeoutFires, DesktopFilesTyped
<1>4. CASE DesktopPart!RemoveTimeout \/ DesktopPart!AddTimeout \/ DesktopPart!AssignTimeout
  BY <1>4 DEF DesktopPart!RemoveTimeout, DesktopPart!AddTimeout, DesktopPart!AssignTimeout,
     DesktopFilesTyped
<1>5. ASSUME NEW f \in DOMAIN applications, NEW types \in FileKinds,
             DesktopPart!Install(f[1], f[2], types)
      PROVE  DesktopFilesTyped'
  <2>1. /\ DOMAIN applications' = Places
        /\ \A g \in Places : applications'[g] \in FileKinds
    BY <1>5 DEF DesktopPart!Install, DesktopFilesTyped
  <2>2. unseen' \in BOOLEAN
    BY <1>5 DEF DesktopPart!Install
  <2>3. UNCHANGED <<desktop_files, mimetype_map, loading, watched>>
    BY <1>5 DEF DesktopPart!Install
  <2> QED
    BY <2>1, <2>2, <2>3 DEF DesktopFilesTyped
<1>6. CASE UNCHANGED desktop
  BY <1>6 DEF desktop, DesktopFilesTyped
<1> QED
  BY <1>1, <1>2, <1>3, <1>4, <1>5, <1>6 DEF DesktopPart!Next, DesktopPart!Step, FileKinds

LEMMA DesktopTyped == DesktopFilesTyped /\ DesktopTimersTyped => DesktopPart!TypeOK
BY BoundFacts DEF DesktopFilesTyped, DesktopTimersTyped, FileKinds, Pending, DesktopPart!TypeOK

-----------------------------------------------------------------------------
\* A step of the system is one of each part, or leaves it alone.
LEMMA PartsMove ==
  ASSUME [Next]_vars
  PROVE  /\ DownloadsPart!Next \/ UNCHANGED downloads
         /\ SshPart!Next \/ UNCHANGED ssh
         /\ SnippetsPart!Next \/ UNCHANGED snippet_vars
         /\ DesktopPart!Next \/ UNCHANGED desktop
         /\ TransmissionPart!Next \/ UNCHANGED transmission
         /\ ResultsPart!Next \/ UNCHANGED file_results
         /\ WifiPart!Next \/ UNCHANGED wifi
BY DEF Next, vars, DatesNext, DownloadsNext, SshNext, SnippetsNext, DesktopNext, SystemdNext,
   TransmissionNext, ResultsNext, WifiNext, NotDates, NotDownloads, NotSsh, NotSnippets,
   NotDesktop, NotSystemd, NotTransmission, NotResults, NotWifi

\* What the parts' invariants leave open.
RestTyped ==
  /\ DownloadsRest /\ SshRest /\ SnippetTypes /\ DesktopFilesTyped /\ DesktopTimersTyped
  /\ TransmissionTypes /\ ResultsRest /\ WifiRest

\* Every part keeps to its types, for all values of the constants: above all
\* events begin and end at times of days that exist, the shortened indices of
\* file search stay within a table's bound, no timer of the desktop service is
\* of the future, and use counts never exceed the changes (the plugins' sources
\* under src/).
THEOREM TypesAlwaysRight == Spec => []TypeOK
<1> DEFINE Inv == DatesInv /\ DownloadsInv /\ SshInv /\ SystemdInv /\ ResultsInv /\ WifiInv
<1>1. Init => Inv /\ RestTyped
  <2>1. Init => WifiInv /\ ResultsInv
    BY WifiInvInit, ResultsInvInit
  <2> QED
    BY <2>1, DatesInvInit, DownloadsInvInit, SshInvInit, SystemdInvInit, DownloadsRestInit,
       SshRestInit, SnippetTypesInit, DesktopInitTyped, TransmissionInit, ResultsRestInit,
       WifiRestInit DEF Init, RestTyped
<1>2. Inv /\ [Next]_vars => Inv'
  BY DatesInvNext, DownloadsInvNext, SshInvNext, SystemdInvNext, ResultsInvNext, WifiInvNext
<1>3. Inv /\ RestTyped /\ [Next]_vars => RestTyped'
  BY PartsMove, DownloadsRestNext, SshRestNext, SnippetTypesNext, DesktopFilesKept,
     DesktopTimersKept, TransmissionNextTypes, ResultsRestNext, WifiRestNext DEF RestTyped
<1>4. Inv /\ RestTyped => TypeOK
  BY DatesTypes, DownloadsTyped, SshTyped, SnippetsTyped, DesktopTyped, TransmissionTyped,
     ResultsTyped, WifiTyped DEF RestTyped, SystemdInv, TypeOK
<1> HIDE DEF Inv
<1> QED
  BY <1>1, <1>2, <1>3, <1>4, PTL DEF Spec
=============================================================================
