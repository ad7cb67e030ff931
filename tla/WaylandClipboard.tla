-------------------------- MODULE WaylandClipboard --------------------------
(***************************************************************************)
(* The clipboard watcher (src/clipboard/wayland-clipboard.c): the user     *)
(* interface thread puts content on the clipboard and shuts the watcher    *)
(* down; the event thread polls the Wayland connection and a wake-up       *)
(* eventfd, reads every new selection through a blocking pipe and hands it *)
(* to a callback.  The two threads share a flag, a mutex, the connection's *)
(* output buffer and `running'.                                            *)
(*                                                                         *)
(* The compositor, the other programs and their pipes are external: they   *)
(* follow the wlr-data-control protocol.  One step is one handler, or the  *)
(* part of a function between two accesses to what the threads share or    *)
(* two waits.  Allocations, pipe() and pthread calls succeed.              *)
(***************************************************************************)
EXTENDS Integers, SequencesExt

CONSTANTS
  Contents,   \* what other programs copy
  MaxMimes,   \* bound: the most mime types an offer announces
  MaxSets,    \* bound: how often the user puts an entry on the clipboard
  MaxCopies,  \* bound: how often other programs change the selections
  MaxPastes   \* bound: how often other programs ask for what we offer

ASSUME WatcherAssumption ==
  /\ MaxMimes \in Nat \ {0}  \* our own offers announce one type
  /\ {MaxSets, MaxCopies, MaxPastes} \subseteq Nat

VARIABLES
  running,          \* the atomic of that name
  wake,             \* wake_fd is readable
  mutex,            \* the thread that holds manager->mutex, or "free"
  preventDeadlock,  \* manager->prevent_deadlock
  lastHash,         \* manager->last_hash
  ui,               \* where the user interface thread is
  event,            \* where the event thread is
  queue,            \* events wl_display_dispatch has read and not dispatched
  reading,          \* the offer process_offer works on and what it has read
  pipe,             \* the pipe of read_offer_data
  offers,           \* the offer objects the client holds
  live,             \* the sources whose source_data is allocated
  outbox,           \* requests buffered in the client
  connected,        \* the compositor is there
  wire, inbox,      \* requests and events under way
  selection,        \* the compositor's selection, an offer
  history,          \* the hashes the callback was called with
  sets, copies, pastes, ignored,  \* counters
  overlapped        \* has a copy by us overlapped one by us or by others?

shared   == <<running, wake, mutex, preventDeadlock>>
thread   == <<lastHash, queue, reading, pipe, offers, live, history, ignored>>
external == <<connected, wire, inbox, selection>>
vars == <<shared, thread, external, ui, event, outbox, sets, copies, pastes, overlapped>>

\* An offer stands for one selection: who offers it, what, in how many types.
NoOffer == [owner |-> "none", copy |-> 0, what |-> 0, mimes |-> 0]
OwnOffer(source) == [owner |-> "own", copy |-> 0, what |-> source, mimes |-> 1]
TheirOffer(content, n) ==
  [owner |-> "their", copy |-> copies + 1, what |-> content, mimes |-> n]
OfferType ==
  {NoOffer}
  \cup [owner : {"own"}, copy : {0}, what : 1 .. MaxSets, mimes : {1}]
  \cup [owner : {"their"}, copy : 1 .. MaxCopies, what : Contents, mimes : 0 .. MaxMimes]

NoHash == <<>>
NotReading == [offer |-> NoOffer, next |-> 1, got |-> {}]

Init ==
  /\ running = "RUNNING" /\ wake = FALSE /\ mutex = "free"
  /\ preventDeadlock = FALSE /\ lastHash = NoHash
  /\ ui = "idle" /\ event = "loop" /\ queue = <<>>
  /\ reading = NotReading /\ pipe = "none"
  /\ offers = {} /\ live = {} /\ outbox = <<>>
  /\ connected = TRUE /\ wire = <<>> /\ inbox = <<>> /\ selection = NoOffer
  /\ history = {}
  /\ sets = 0 /\ copies = 0 /\ pastes = 0 /\ ignored = 0
  /\ overlapped = FALSE

-----------------------------------------------------------------------------
(***************************************************************************)
(* The user interface thread.                                              *)
(***************************************************************************)

\* Nothing is under way between the watcher and the compositor.
Settled ==
  /\ outbox = <<>> /\ wire = <<>> /\ inbox = <<>> /\ queue = <<>>
  /\ event \in {"loop", "poll"} /\ ~preventDeadlock

\* clipboard_manager_set_clipboard is called ...
SetClipboard ==
  /\ ui = "idle" /\ sets < MaxSets
  /\ ui' = "calling"
  /\ overlapped' = (overlapped \/ ~Settled)
  /\ UNCHANGED <<shared, thread, external, event, outbox, sets, copies, pastes>>

\* ... and, with the mutex, creates the source and its data.
CreateSource ==
  /\ ui = "calling" /\ mutex = "free"
  /\ mutex' = "ui"
  /\ sets' = sets + 1
  /\ live' = live \cup {sets + 1}
  /\ ui' = "marking"
  /\ UNCHANGED <<running, wake, preventDeadlock, lastHash, queue, reading, pipe,
                 offers, history, ignored, external, event, outbox, copies, pastes, overlapped>>

\* Slip: the flag is not raised.
MarkNothing ==
  /\ ui = "marking"
  /\ ui' = "selecting"
  /\ UNCHANGED <<shared, thread, external, event, outbox, sets, copies, pastes, overlapped>>

MarkSelection ==
  /\ ui = "marking"
  /\ preventDeadlock' = TRUE
  /\ ui' = "selecting"
  /\ UNCHANGED <<running, wake, mutex, thread, external, event, outbox,
                 sets, copies, pastes, overlapped>>

SetSelection ==
  /\ ui = "selecting"
  /\ outbox' = Append(outbox, [request |-> "set_selection", source |-> sets])
  /\ ui' = "flushing"
  /\ UNCHANGED <<shared, thread, external, event, sets, copies, pastes, overlapped>>

\* wl_display_flush, by either thread, and a request that goes with it.
Flush(requests) ==
  /\ outbox' = <<>>
  /\ wire' = IF connected THEN wire \o outbox \o requests ELSE wire

FlushAndUnlock ==
  /\ ui = "flushing"
  /\ Flush(<<>>)
  /\ mutex' = "free"
  /\ ui' = "idle"
  /\ UNCHANGED <<running, wake, preventDeadlock, thread, connected, inbox, selection,
                 event, sets, copies, pastes, overlapped>>

\* clipboard_manager_destroy: the store, the wake-up, the join.
Stop ==
  /\ ui = "idle"
  /\ running' = "STOPPED"
  /\ ui' = "waking"
  /\ UNCHANGED <<wake, mutex, preventDeadlock, thread, external, event, outbox,
                 sets, copies, pastes, overlapped>>

\* Slip: the event thread is not woken.
WakeNobody ==
  /\ ui = "waking"
  /\ ui' = "joining"
  /\ UNCHANGED <<shared, thread, external, event, outbox, sets, copies, pastes, overlapped>>

WakeEventThread ==
  /\ ui = "waking"
  /\ wake' = TRUE
  /\ ui' = "joining"
  /\ UNCHANGED <<running, mutex, preventDeadlock, thread, external, event, outbox,
                 sets, copies, pastes, overlapped>>

\* The join, and the disconnection that follows it.
Join ==
  /\ ui = "joining" /\ event = "exited"
  /\ ui' = "gone"
  /\ connected' = FALSE
  /\ wire' = <<>> /\ inbox' = <<>>
  /\ UNCHANGED <<shared, thread, selection, event, outbox, sets, copies, pastes, overlapped>>

-----------------------------------------------------------------------------
(***************************************************************************)
(* The event thread.                                                       *)
(***************************************************************************)
Exit == event' = "exited" /\ running' = "SHUTTING_DOWN"

\* The condition of the while loop.
LoopHead ==
  /\ event = "loop"
  /\ IF running = "RUNNING" THEN event' = "poll" /\ UNCHANGED running ELSE Exit
  /\ UNCHANGED <<wake, mutex, preventDeadlock, thread, external, ui, outbox,
                 sets, copies, pastes, overlapped>>

\* poll returns; the eventfd is drained and wl_display_dispatch flushes the
\* output and reads the events that are there, or fails.
Poll ==
  /\ event = "poll"
  /\ wake \/ inbox # <<>> \/ ~connected
  /\ wake' = FALSE
  /\ IF inbox # <<>>
     THEN event' = "dispatch" /\ Flush(<<>>) /\ UNCHANGED running
     ELSE /\ IF connected THEN event' = "loop" /\ UNCHANGED running ELSE Exit
          /\ UNCHANGED <<outbox, wire>>
  /\ queue' = inbox
  /\ inbox' = <<>>
  /\ UNCHANGED <<mutex, preventDeadlock, lastHash, reading, pipe, offers, live, history,
                 ignored, connected, selection, ui, sets, copies, pastes, overlapped>>

Dispatched ==
  /\ event = "dispatch" /\ queue = <<>>
  /\ event' = "loop"
  /\ UNCHANGED <<shared, thread, external, ui, outbox, sets, copies, pastes, overlapped>>

\* The handler of the first event that was read.
Handling(kind) == event = "dispatch" /\ queue # <<>> /\ Head(queue).event = kind

\* device_handle_data_offer and the offer_handle_offer of its mime types.
HandleDataOffer ==
  /\ Handling("data_offer")
  /\ offers' = offers \cup {Head(queue).offer}
  /\ queue' = Tail(queue)
  /\ UNCHANGED <<shared, lastHash, reading, pipe, live, history, ignored, external,
                 ui, event, outbox, sets, copies, pastes, overlapped>>

HandlePrimarySelection ==
  /\ Handling("primary_selection")
  /\ offers' = offers \ {Head(queue).offer}
  /\ queue' = Tail(queue)
  /\ UNCHANGED <<shared, lastHash, reading, pipe, live, history, ignored, external,
                 ui, event, outbox, sets, copies, pastes, overlapped>>

\* device_handle_selection, its test of the flag and the start of process_offer.
HandleSelection ==
  /\ Handling("selection")
  /\ CASE preventDeadlock ->
            event' = "clearing" /\ UNCHANGED <<queue, reading>>
       [] ~preventDeadlock /\ Head(queue).offer = NoOffer ->
            queue' = Tail(queue) /\ UNCHANGED <<event, reading>>
       [] ~preventDeadlock /\ Head(queue).offer # NoOffer ->
            /\ event' = "reading"
            /\ reading' = [offer |-> Head(queue).offer, next |-> 1, got |-> {}]
            /\ queue' = Tail(queue)
  /\ UNCHANGED <<shared, lastHash, pipe, offers, live, history, ignored, external,
                 ui, outbox, sets, copies, pastes, overlapped>>

\* Slip: the flag stays up.
ClearNothing ==
  /\ event = "clearing"
  /\ ignored' = ignored + 1
  /\ queue' = Tail(queue)
  /\ event' = "dispatch"
  /\ UNCHANGED <<shared, lastHash, reading, pipe, offers, live, history, external,
                 ui, outbox, sets, copies, pastes, overlapped>>

\* The assignment and the return of device_handle_selection.
ClearFlag ==
  /\ event = "clearing"
  /\ preventDeadlock' = FALSE
  /\ ignored' = ignored + 1
  /\ queue' = Tail(queue)
  /\ event' = "dispatch"
  /\ UNCHANGED <<running, wake, mutex, lastHash, reading, pipe, offers, live, history,
                 external, ui, outbox, sets, copies, pastes, overlapped>>

\* Slip: the loop over the mime types runs once too often.
ReceiveOneMore ==
  /\ event = "reading" /\ pipe = "none"
  /\ reading.next <= reading.offer.mimes + 1
  /\ pipe' = "asked"
  /\ Flush(<<[request |-> "receive", offer |-> reading.offer]>>)
  /\ UNCHANGED <<shared, lastHash, queue, reading, offers, live, history, ignored,
                 connected, inbox, selection, ui, event, sets, copies, pastes, overlapped>>

\* read_offer_data up to its read: ask for the next mime type and flush.
Receive ==
  /\ event = "reading" /\ pipe = "none"
  /\ reading.next <= reading.offer.mimes
  /\ IF connected
     THEN pipe' = "asked" /\ Flush(<<[request |-> "receive", offer |-> reading.offer]>>)
     ELSE pipe' = "eof" /\ UNCHANGED <<outbox, wire>>
  /\ UNCHANGED <<shared, lastHash, queue, reading, offers, live, history, ignored,
                 connected, inbox, selection, ui, event, sets, copies, pastes, overlapped>>

\* The blocking read has come to its end, with or without data.
ReadToEnd ==
  /\ event = "reading" /\ pipe \in {"data", "eof"}
  /\ reading' = [reading EXCEPT !.next = @ + 1,
                   !.got = IF pipe = "data" THEN @ \cup {reading.next} ELSE @]
  /\ pipe' = "none"
  /\ UNCHANGED <<shared, lastHash, queue, offers, live, history, ignored, external,
                 ui, event, outbox, sets, copies, pastes, overlapped>>

\* The end of process_offer: the offer is destroyed.
OfferDone ==
  /\ offers' = offers \ {reading.offer}
  /\ reading' = NotReading
  /\ event' = "dispatch"

Hash == <<reading.offer.what, reading.got>>

\* Slip: only the types of the contents are compared.
JudgeTypes ==
  /\ event = "reading" /\ pipe = "none"
  /\ reading.next > reading.offer.mimes
  /\ IF reading.got # {} /\ (lastHash = NoHash \/ reading.got # lastHash[2])
     THEN lastHash' = Hash /\ event' = "locking" /\ UNCHANGED <<offers, reading>>
     ELSE OfferDone /\ UNCHANGED lastHash
  /\ UNCHANGED <<shared, queue, pipe, live, history, ignored, external, ui, outbox,
                 sets, copies, pastes, overlapped>>

\* process_offer after its loop: is there content, and is it new?
JudgeContent ==
  /\ event = "reading" /\ pipe = "none"
  /\ reading.next > reading.offer.mimes
  /\ IF reading.got # {} /\ Hash # lastHash
     THEN lastHash' = Hash /\ event' = "locking" /\ UNCHANGED <<offers, reading>>
     ELSE OfferDone /\ UNCHANGED lastHash
  /\ UNCHANGED <<shared, queue, pipe, live, history, ignored, external, ui, outbox,
                 sets, copies, pastes, overlapped>>

\* The callback pointer is fetched under the mutex ...
LockForCallback ==
  /\ event = "locking" /\ mutex = "free"
  /\ mutex' = "event"
  /\ event' = "unlocking"
  /\ UNCHANGED <<running, wake, preventDeadlock, thread, external, ui, outbox,
                 sets, copies, pastes, overlapped>>

\* Slip: the mutex is released only on the path without a callback.
KeepLock ==
  /\ event = "unlocking"
  /\ event' = "callback"
  /\ UNCHANGED <<shared, thread, external, ui, outbox, sets, copies, pastes, overlapped>>

UnlockForCallback ==
  /\ event = "unlocking"
  /\ mutex' = "free"
  /\ event' = "callback"
  /\ UNCHANGED <<running, wake, preventDeadlock, thread, external, ui, outbox,
                 sets, copies, pastes, overlapped>>

\* ... and called without it: the history gets the content.
Callback ==
  /\ event = "callback"
  /\ history' = history \cup {Hash}
  /\ OfferDone
  /\ UNCHANGED <<shared, lastHash, queue, pipe, live, ignored, external, ui, outbox,
                 sets, copies, pastes, overlapped>>

\* source_send_handler: a blocking write to the program that pastes.
HandleSend ==
  /\ Handling("send")
  /\ event' = "writing"
  /\ UNCHANGED <<shared, thread, external, ui, outbox, sets, copies, pastes, overlapped>>

\* The write returns when the other program has read, and the pipe is closed.
Written ==
  /\ event = "writing"
  /\ queue' = Tail(queue)
  /\ event' = "dispatch"
  /\ UNCHANGED <<shared, lastHash, reading, pipe, offers, live, history, ignored,
                 external, ui, outbox, sets, copies, pastes, overlapped>>

\* Slip: the data of all sources is freed.
HandleCancelledAll ==
  /\ Handling("cancelled")
  /\ live' = {}
  /\ queue' = Tail(queue)
  /\ UNCHANGED <<shared, lastHash, reading, pipe, offers, history, ignored, external,
                 ui, event, outbox, sets, copies, pastes, overlapped>>

\* source_cancelled_handler.
HandleCancelled ==
  /\ Handling("cancelled")
  /\ live' = live \ {Head(queue).source}
  /\ queue' = Tail(queue)
  /\ UNCHANGED <<shared, lastHash, reading, pipe, offers, history, ignored, external,
                 ui, event, outbox, sets, copies, pastes, overlapped>>

-----------------------------------------------------------------------------
(***************************************************************************)
(* External: the compositor and the other programs.                        *)
(***************************************************************************)
Cancelled ==
  IF selection.owner = "own"
  THEN <<[event |-> "cancelled", source |-> selection.what]>> ELSE <<>>

Announce(offer, kind) ==
  IF offer = NoOffer
  THEN <<[event |-> kind, offer |-> NoOffer]>>
  ELSE <<[event |-> "data_offer", offer |-> offer], [event |-> kind, offer |-> offer]>>

\* The selection changes: the owner of the old one is told, then everybody.
Select(offer) ==
  /\ selection' = offer
  /\ inbox' = inbox \o Cancelled \o Announce(offer, "selection")

\* The compositor takes up a request of ours.
CompositorSelects ==
  /\ connected /\ wire # <<>> /\ Head(wire).request = "set_selection"
  /\ Select(OwnOffer(Head(wire).source))
  /\ wire' = Tail(wire)
  /\ UNCHANGED <<shared, thread, connected, ui, event, outbox, sets, copies, pastes, overlapped>>

\* The end of a pipe goes to the owner of the offer, if the offer still stands.
CompositorForwards ==
  /\ connected /\ wire # <<>> /\ Head(wire).request = "receive"
  /\ LET offer == Head(wire).offer
     IN  CASE offer # selection ->
                pipe' = "eof" /\ UNCHANGED inbox
           [] offer = selection /\ offer.owner = "their" ->
                pipe' = "peer" /\ UNCHANGED inbox
           [] offer = selection /\ offer.owner = "own" ->
                /\ pipe' = "self"
                /\ inbox' = Append(inbox, [event |-> "send", source |-> offer.what])
  /\ wire' = Tail(wire)
  /\ UNCHANGED <<shared, lastHash, queue, reading, offers, live, history, ignored,
                 connected, selection, ui, event, outbox, sets, copies, pastes, overlapped>>

\* Others change a selection, perhaps while we are setting it.
OthersAct ==
  /\ connected /\ copies < MaxCopies
  /\ copies' = copies + 1
  /\ overlapped' = (\/ overlapped \/ preventDeadlock
                     \/ ui \in {"calling", "marking", "selecting", "flushing"})

TheyCopy(content, n) ==
  /\ OthersAct
  /\ Select(TheirOffer(content, n))
  /\ UNCHANGED <<shared, thread, connected, wire, ui, event, outbox, sets, pastes>>

\* The program that owns the selection quits: its end of the pipe closes.
TheyQuit ==
  /\ OthersAct /\ selection.owner = "their"
  /\ Select(NoOffer)
  /\ pipe' = IF pipe = "peer" THEN "eof" ELSE pipe
  /\ UNCHANGED <<shared, lastHash, queue, reading, offers, live, history, ignored,
                 connected, wire, ui, event, outbox, sets, pastes>>

TheySelectPrimary(content) ==
  /\ OthersAct
  /\ inbox' = inbox \o Announce(TheirOffer(content, 1), "primary_selection")
  /\ UNCHANGED <<shared, thread, connected, wire, selection, ui, event, outbox,
                 sets, pastes>>

\* The owner of the offer writes its data and closes the pipe; an owner that
\* was replaced may close it without writing.
TheyAnswer ==
  /\ pipe = "peer"
  /\ \/ pipe' = "data"
     \/ reading.offer # selection /\ pipe' = "eof"
  /\ UNCHANGED <<shared, lastHash, queue, reading, offers, live, history, ignored,
                 external, ui, event, outbox, sets, copies, pastes, overlapped>>

TheyPaste ==
  /\ connected /\ selection.owner = "own" /\ pastes < MaxPastes
  /\ inbox' = Append(inbox, [event |-> "send", source |-> selection.what])
  /\ pastes' = pastes + 1
  /\ UNCHANGED <<shared, thread, connected, wire, selection, ui, event, outbox,
                 sets, copies, overlapped>>

\* The compositor goes away: pipe ends it had not passed on are closed.
Disconnect ==
  /\ connected /\ copies < MaxCopies
  /\ connected' = FALSE
  /\ wire' = <<>>
  /\ pipe' = IF pipe = "asked" THEN "eof" ELSE pipe
  /\ copies' = copies + 1
  /\ UNCHANGED <<shared, lastHash, queue, reading, offers, live, history, ignored,
                 inbox, selection, ui, event, outbox, sets, pastes, overlapped>>

-----------------------------------------------------------------------------
UiStep ==
  CreateSource \/ MarkSelection \/ SetSelection \/ FlushAndUnlock \/ WakeEventThread \/ Join

EventStep ==
  \/ LoopHead \/ Poll \/ Dispatched
  \/ HandleDataOffer \/ HandlePrimarySelection \/ HandleSelection \/ ClearFlag
  \/ Receive \/ ReadToEnd \/ JudgeContent
  \/ LockForCallback \/ UnlockForCallback \/ Callback
  \/ HandleSend \/ HandleCancelled

CompositorStep == CompositorSelects \/ CompositorForwards

OthersStep ==
  \/ \E c \in Contents : TheySelectPrimary(c) \/ \E n \in 0 .. MaxMimes : TheyCopy(c, n)
  \/ TheyQuit \/ TheyPaste \/ Disconnect

PeerStep == TheyAnswer \/ Written

\* After the shutdown, or when every bound is reached, nothing need happen.
Next ==
  SetClipboard \/ Stop \/ UiStep \/ EventStep \/ CompositorStep \/ OthersStep \/ PeerStep

Spec == Init /\ [][Next]_vars

\* The threads are scheduled and the compositor answers its requests.
ThreadFairness == WF_vars(UiStep) /\ WF_vars(EventStep) /\ WF_vars(CompositorStep)

\* Other programs read what they paste and write what they offer.
PeerFairness == WF_vars(PeerStep)

FairSpec == Spec /\ ThreadFairness

-----------------------------------------------------------------------------
\* Type invariant.
TypeOK ==
  /\ running \in {"RUNNING", "STOPPED", "SHUTTING_DOWN"}
  /\ wake \in BOOLEAN /\ preventDeadlock \in BOOLEAN /\ connected \in BOOLEAN
  /\ mutex \in {"free", "ui", "event"}
  /\ lastHash = NoHash \/ lastHash \in Contents \X SUBSET (1 .. MaxMimes)
  /\ history \subseteq Contents \X SUBSET (1 .. MaxMimes)
  /\ ui \in {"idle", "calling", "marking", "selecting", "flushing", "waking", "joining", "gone"}
  /\ event \in {"loop", "poll", "dispatch", "clearing", "reading", "locking",
                "unlocking", "callback", "writing", "exited"}
  /\ reading \in [offer : OfferType, next : 1 .. MaxMimes + 1, got : SUBSET (1 .. MaxMimes)]
  /\ pipe \in {"none", "asked", "peer", "self", "data", "eof"}
  /\ selection \in OfferType /\ offers \subseteq OfferType
  /\ live \subseteq 1 .. sets
  /\ overlapped \in BOOLEAN
  /\ sets \in 0 .. MaxSets /\ copies \in 0 .. MaxCopies /\ pastes \in 0 .. MaxPastes

\* "Set flag to avoid processing our own selection": the event thread, which
\* alone can serve our selection, never waits for our selection's data.
NeverReadsOwn == pipe # "self"

\* The same, as long as copies by us and by others do not overlap.
ReadsOthersOnly == ~overlapped => NeverReadsOwn

\* An entry put on the clipboard makes at most one selection event be
\* ignored, so at most that many copies of other programs can be missed.
IgnoresOncePerSet == ignored <= sets

\* The send handler never reaches the data of a source that the cancelled
\* handler has freed, in whatever order pastes and new selections come.
SendsLiveData == Handling("send") => Head(queue).source \in live

\* The user interface never freezes in set_clipboard, though the event
\* thread may be blocked for ever in the pipe of another program, or its own.
SetClipboardReturns == ui = "calling" ~> ui = "idle"

\* Other programs answer, and copies do not overlap.
QuietUse == PeerFairness /\ []~overlapped

\* Closing the watcher ends, in quiet use.
ShutdownEnds == QuietUse => (ui = "waking" ~> ui = "gone")

\* A copy that stays on the clipboard reaches the history, as long as the
\* watcher runs, in quiet use: neither its own selections nor copies that were replaced
\* while they were being read keep it out.
CopiesAreRecorded ==
  QuietUse =>
    \A c \in Contents :
      <>[](/\ selection.owner = "their" /\ selection.what = c /\ selection.mimes > 0
           /\ connected /\ running = "RUNNING")
        => <>(\E h \in history : h[1] = c)

PastePending == \E i \in 1 .. Len(queue \o inbox) : (queue \o inbox)[i].event = "send"

\* An entry we have put on the clipboard can be pasted: every request for it
\* is served, in quiet use, as long as the compositor stays and the watcher runs.
PastesAreServed ==
  QuietUse => (PastePending ~> (~PastePending \/ ~connected \/ running # "RUNNING"))
=============================================================================
