----------------------------- MODULE Transmission ----------------------------
(***************************************************************************)
(* A client of the transmission plugin (src/transmission-plugin.vala):     *)
(* the threads of searches share its session id and its flags without a    *)
(* lock.  A command is tried twice, the second time with the session id    *)
(* the server has told in refusing the first.                              *)
(*                                                                         *)
(* External: the server, which knows one session id until it starts again, *)
(* and the network.                                                        *)
(***************************************************************************)
EXTENDS Integers

CONSTANTS
  Threads,   \* that search
  Every,     \* calls of is_connected for one attempt to connect; 10
  MaxFaults  \* bound: restarts of the server and answers lost

VARIABLES
  server_id,    \* the session id the server knows
  session_id, connected, connecting, attempts, \* the client; no id is 0
  thread,       \* per thread: where it is, with what it has read
  answered,     \* history: the last command brought torrents
  stuck,        \* history: an attempt to connect got an id and then no reply
  faults        \* counter

vars == <<server_id, session_id, connected, connecting, attempts, thread, answered, stuck, faults>>

Idle == [at |-> "idle"]
\* send_torrent_command: for connecting or for the torrents; the try; the
\* answer, once there is one, and the session id with it.
Command(for, try)        == [at |-> "sending", for |-> for, try |-> try]
Answer(for, try, ok, id) == [at |-> "answered", for |-> for, try |-> try, ok |-> ok, id |-> id]
Reply(for, ok)           == [at |-> "returning", for |-> for, ok |-> ok]
Go(t, place) == thread' = [thread EXCEPT ![t] = place]

-----------------------------------------------------------------------------
\* search_shard asks is_connected: the flags are read, ...
IsConnected(t) ==
  /\ thread[t] = Idle
  /\ IF ~connected /\ ~connecting
     THEN /\ attempts' = (attempts + 1) % Every
          /\ Go(t, IF attempts = 0 THEN [at |-> "connecting"] ELSE [at |-> "asked"])
     ELSE Go(t, [at |-> "asked"]) /\ UNCHANGED attempts
  /\ UNCHANGED <<server_id, session_id, connected, connecting, answered, stuck, faults>>

\* ... and try_connect sends only without a session id.
TryConnect(t) ==
  /\ thread[t].at = "connecting"
  /\ IF session_id = 0
     THEN connecting' = TRUE /\ Go(t, Command("session", 1))
     ELSE connecting' = FALSE /\ Go(t, [at |-> "asked"])
  /\ UNCHANGED <<server_id, session_id, connected, attempts, answered, stuck, faults>>

\* The value of is_connected.
Fetch(t) ==
  /\ thread[t].at = "asked"
  /\ Go(t, IF connected THEN Command("torrents", 1) ELSE Idle)
  /\ UNCHANGED <<server_id, session_id, connected, connecting, attempts, answered, stuck, faults>>

\* A message with the session id: the server takes it, or refuses it and
\* tells its own.
Send(t) ==
  /\ thread[t].at = "sending"
  /\ Go(t, Answer(thread[t].for, thread[t].try, session_id = server_id, server_id))
  /\ UNCHANGED <<server_id, session_id, connected, connecting, attempts, answered, stuck, faults>>

\* The message or its answer is lost, or late.
Lose(t) ==
  /\ thread[t].at = "sending"
  /\ faults < MaxFaults /\ faults' = faults + 1
  /\ Go(t, Answer(thread[t].for, thread[t].try, FALSE, 0))
  /\ UNCHANGED <<server_id, session_id, connected, connecting, attempts, answered, stuck>>

\* Slip: the second try is made with the old session id.
ReceiveUnheard(t) ==
  /\ thread[t].at = "answered"
  /\ LET a == thread[t]
     IN  Go(t, IF a.ok \/ a.try = 2 THEN Reply(a.for, a.ok) ELSE Command(a.for, 2))
  /\ UNCHANGED <<server_id, session_id, connected, connecting, attempts, answered, stuck, faults>>

\* The token is stored; then the reply is read, or the command sent again.
Receive(t) ==
  /\ thread[t].at = "answered"
  /\ LET a == thread[t]
     IN  /\ session_id' = IF a.id # 0 THEN a.id ELSE session_id
         /\ Go(t, IF a.ok \/ a.try = 2 THEN Reply(a.for, a.ok) ELSE Command(a.for, 2))
  /\ UNCHANGED <<server_id, connected, connecting, attempts, answered, stuck, faults>>

\* The rest of try_connect, or of fetch_transmission_data.
Return(t) ==
  /\ thread[t].at = "returning"
  /\ IF thread[t].for = "session"
     THEN /\ connected' = thread[t].ok /\ connecting' = FALSE
          /\ stuck' = (~thread[t].ok /\ session_id # 0 /\ faults > 0)
          /\ Go(t, [at |-> "asked"])
          /\ UNCHANGED answered
     ELSE answered' = thread[t].ok /\ Go(t, Idle) /\ UNCHANGED <<connected, connecting, stuck>>
  /\ UNCHANGED <<server_id, session_id, attempts, faults>>

Restart ==
  /\ faults < MaxFaults /\ faults' = faults + 1
  /\ server_id' = server_id + 1
  /\ UNCHANGED <<session_id, connected, connecting, attempts, thread, answered, stuck>>

-----------------------------------------------------------------------------
Init ==
  /\ server_id = 1 /\ session_id = 0 /\ connected = FALSE /\ connecting = FALSE
  /\ attempts = 0 /\ thread = [t \in Threads |-> Idle]
  /\ answered = FALSE /\ stuck = FALSE /\ faults = 0

ThreadStep(t) ==
  IsConnected(t) \/ TryConnect(t) \/ Fetch(t) \/ Send(t) \/ Receive(t) \/ Return(t)

Next == Restart \/ \E t \in Threads : ThreadStep(t) \/ Lose(t)

-----------------------------------------------------------------------------
Ids == 0 .. 1 + MaxFaults
TypeOK ==
  /\ server_id \in Ids \ {0} /\ session_id \in Ids
  /\ connected \in BOOLEAN /\ connecting \in BOOLEAN /\ attempts \in 0 .. Every - 1
  /\ answered \in BOOLEAN /\ stuck \in BOOLEAN /\ faults \in 0 .. MaxFaults
  /\ \A t \in Threads :
       thread[t].at \in {"idle", "connecting", "asked", "sending", "answered", "returning"}

\* While the user goes on searching, and once nothing fails any more, searches
\* bring torrents again and again; unless the first reply was lost after the
\* session id had come: then no further attempt is made.
TorrentsComeBack == []<>(answered \/ stuck)
=============================================================================
