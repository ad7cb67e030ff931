----------------------------- MODULE SystemdUnits ----------------------------
(***************************************************************************)
(* The search of the systemd plugin (src/systemd-service-plugin.vala): a   *)
(* provider lists the units of its bus and leaves each that matches to the *)
(* launcher's pool of threads, where its properties are asked for; it      *)
(* returns, and the launcher throws the container away, when a counter of  *)
(* units has come down to zero.  A provider that searches keeps a thread   *)
(* of that pool busy.                                                      *)
(*                                                                         *)
(* External: the buses, whose calls end, with or without success, and the  *)
(* launcher with its pool.                                                 *)
(***************************************************************************)
EXTENDS Integers, FiniteSets

CONSTANTS
  Providers, \* one per bus
  Units,     \* services and scopes
  NumThreads \* the threads of the pool

VARIABLES
  search,  \* where search is, per provider: "idle", "calling", "units"
  unread,  \* the units the iterator has still to give
  lock,    \* the counter
  queued, running, \* jobs: <<provider, unit>>; those that run, with their place
  results  \* the container of the search: the units added

vars == <<search, unread, lock, queued, running, results>>

Searching == {p \in Providers : search[p] # "idle"}
Places == {"matching", "asking", "adding", "added"}
Job(p, u, place) == [provider |-> p, unit |-> u, at |-> place]
Busy == Cardinality(Searching) + Cardinality(running)

Decrement(p) == lock' = [lock EXCEPT ![p] = @ - 1]
GoOn(job, place) == running' = (running \ {job}) \cup {[job EXCEPT !.at = place]}
End(job) == running' = running \ {job}

-----------------------------------------------------------------------------
(***************************************************************************)
(* search, on a thread of the launcher.                                    *)
(***************************************************************************)
Begin(p) ==
  /\ search[p] = "idle" /\ Busy < NumThreads
  /\ search' = [search EXCEPT ![p] = "calling"]
  /\ results' = [results EXCEPT ![p] = {}]
  /\ UNCHANGED <<unread, lock, queued, running>>

\* ListUnitsByPatterns fails.
ListUnitsFails(p) ==
  /\ search[p] = "calling"
  /\ search' = [search EXCEPT ![p] = "idle"]
  /\ UNCHANGED <<unread, lock, queued, running, results>>

ListUnits(p, units) ==
  /\ search[p] = "calling"
  /\ search' = [search EXCEPT ![p] = "units"]
  /\ unread' = [unread EXCEPT ![p] = units]
  /\ lock' = [lock EXCEPT ![p] = Cardinality(units)]
  /\ UNCHANGED <<queued, running, results>>

\* The next unit: it does not match, or is left to the pool.
NextUnit(p, u, matches) ==
  /\ search[p] = "units" /\ u \in unread[p]
  /\ unread' = [unread EXCEPT ![p] = @ \ {u}]
  /\ IF matches
     THEN queued' = queued \cup {<<p, u>>} /\ UNCHANGED lock
     ELSE Decrement(p) /\ UNCHANGED queued
  /\ UNCHANGED <<search, running, results>>

\* The counter is zero.
Return(p) ==
  /\ search[p] = "units" /\ unread[p] = {} /\ lock[p] <= 0
  /\ search' = [search EXCEPT ![p] = "idle"]
  /\ UNCHANGED <<unread, lock, queued, running, results>>

-----------------------------------------------------------------------------
(***************************************************************************)
(* A job of the pool.                                                      *)
(***************************************************************************)
StartJob(job) ==
  /\ job \in queued /\ Busy < NumThreads
  /\ queued' = queued \ {job}
  /\ running' = running \cup {Job(job[1], job[2], "matching")}
  /\ UNCHANGED <<search, unread, lock, results>>

\* The score is too low, or it is not and the proxy is made.
Match(job) ==
  /\ job \in running /\ job.at = "matching"
  /\ \/ Decrement(job.provider) /\ End(job)
     \/ GoOn(job, "asking") /\ UNCHANGED lock
  /\ UNCHANGED <<search, unread, queued, results>>

\* Slip: a proxy that cannot be made ends the job.
AskUncounted(job) ==
  /\ job \in running /\ job.at = "asking"
  /\ End(job) \/ GoOn(job, "adding")
  /\ UNCHANGED <<search, unread, lock, queued, results>>

\* The proxy cannot be made, or the properties are asked for: those that
\* cannot be had are left empty.
Ask(job) ==
  /\ job \in running /\ job.at = "asking"
  /\ \/ Decrement(job.provider) /\ End(job)
     \/ GoOn(job, "adding") /\ UNCHANGED lock
  /\ UNCHANGED <<search, unread, queued, results>>

\* Slip: the counter comes first.
AddLast(job) ==
  /\ job \in running
  /\ \/ job.at = "adding" /\ Decrement(job.provider) /\ GoOn(job, "added") /\ UNCHANGED results
     \/ /\ job.at = "added" /\ End(job) /\ UNCHANGED lock
        /\ results' = [results EXCEPT ![job.provider] = @ \cup {job.unit}]
  /\ UNCHANGED <<search, unread, queued>>

\* add_lazy, and then the counter.
Add(job) ==
  /\ job \in running
  /\ \/ /\ job.at = "adding" /\ GoOn(job, "added") /\ UNCHANGED lock
        /\ results' = [results EXCEPT ![job.provider] = @ \cup {job.unit}]
     \/ job.at = "added" /\ Decrement(job.provider) /\ End(job) /\ UNCHANGED results
  /\ UNCHANGED <<search, unread, queued>>

-----------------------------------------------------------------------------
Init ==
  /\ search = [p \in Providers |-> "idle"] /\ unread = [p \in Providers |-> {}]
  /\ lock = [p \in Providers |-> 0] /\ results = [p \in Providers |-> {}]
  /\ queued = {} /\ running = {}

SearchStep(p) ==
  \/ ListUnitsFails(p) \/ (\E units \in SUBSET Units : ListUnits(p, units)) \/ Return(p)
  \/ \E u \in Units, matches \in BOOLEAN : NextUnit(p, u, matches)

JobStep(p, u) ==
  \/ StartJob(<<p, u>>)
  \/ \E job \in running : /\ job.provider = p /\ job.unit = u
                          /\ Match(job) \/ Ask(job) \/ Add(job)

Next == \E p \in Providers : Begin(p) \/ SearchStep(p) \/ \E u \in Units : JobStep(p, u)

Spec == Init /\ [][Next]_vars

-----------------------------------------------------------------------------
TypeOK ==
  /\ search \in [Providers -> {"idle", "calling", "units"}]
  /\ unread \in [Providers -> SUBSET Units]
  /\ lock \in [Providers -> Int]
  /\ queued \subseteq Providers \X Units
  /\ running \subseteq [provider : Providers, unit : Units, at : Places]
  /\ results \in [Providers -> SUBSET Units]

\* A job works only for a search that has not returned, so that nothing is
\* added to a container that is gone: the counter is never too low.
JobsWithinSearch ==
  /\ \A job \in queued : search[job[1]] = "units"
  /\ \A job \in running : search[job.provider] = "units"

\* Every search returns: the counter is never too high.
SearchesReturn == \A p \in Providers : search[p] # "idle" ~> search[p] = "idle"
=============================================================================
