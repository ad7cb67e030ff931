----------------------- MODULE WaylandClipboardProofs -----------------------
(***************************************************************************)
(* Theorems about the clipboard watcher, for any number of copies, pastes  *)
(* and interleavings of the two threads.                                   *)
(***************************************************************************)
EXTENDS WaylandClipboard, SequenceTheorems, TLAPS

(***************************************************************************)
(* Ignored selections.  A raised flag, or an event thread that has seen it *)
(* raised and is about to lower it, stands for one set_clipboard that no   *)
(* selection event has been ignored for yet; one that has not raised the   *)
(* flag does not count.                                                    *)
(***************************************************************************)
Marks   == IF ui = "marking" THEN sets - 1 ELSE sets
Pending == IF preventDeadlock \/ event = "clearing" THEN 1 ELSE 0

Ignoring ==
  /\ sets \in Nat /\ ignored \in Nat /\ (ui = "marking" => sets > 0)
  /\ ignored + Pending <= Marks

\* A step that has nothing to do with the flag.
LEMMA FlagUntouched ==
  ASSUME Ignoring, UNCHANGED <<preventDeadlock, ignored, sets>>,
         ui' = ui \/ (ui # "marking" /\ ui' # "marking"),
         event' = event \/ (event # "clearing" /\ event' # "clearing")
  PROVE  Ignoring'
BY DEF Ignoring, Marks, Pending

LEMMA CreateSourceHolds ==
  ASSUME Ignoring, CreateSource
  PROVE  Ignoring'
BY DEF Ignoring, Marks, Pending, CreateSource, thread

LEMMA MarkSelectionHolds ==
  ASSUME Ignoring, MarkSelection
  PROVE  Ignoring'
<1>1. /\ ui = "marking" /\ ui' = "selecting" /\ preventDeadlock' = TRUE
      /\ sets' = sets /\ ignored' = ignored /\ event' = event
  BY DEF MarkSelection, thread
<1>2. ignored <= sets - 1 /\ sets \in Nat /\ ignored \in Nat
  BY <1>1 DEF Ignoring, Marks, Pending
<1> QED
  BY <1>1, <1>2 DEF Ignoring, Marks, Pending

LEMMA HandleSelectionHolds ==
  ASSUME Ignoring, HandleSelection
  PROVE  Ignoring'
<1>1. UNCHANGED <<preventDeadlock, ignored, sets, ui>> /\ event = "dispatch"
  BY DEF HandleSelection, Handling, shared
<1>2. event' = "clearing" => preventDeadlock
  BY <1>1 DEF HandleSelection
<1> QED
  BY <1>1, <1>2 DEF Ignoring, Marks, Pending

LEMMA ClearFlagHolds ==
  ASSUME Ignoring, ClearFlag
  PROVE  Ignoring'
<1>1. /\ event = "clearing" /\ event' = "dispatch" /\ preventDeadlock' = FALSE
      /\ ignored' = ignored + 1 /\ sets' = sets /\ ui' = ui
  BY DEF ClearFlag
<1> QED
  BY <1>1 DEF Ignoring, Marks, Pending

LEMMA OtherStepsHold ==
  ASSUME Ignoring,
         \/ SetClipboard \/ SetSelection \/ FlushAndUnlock \/ Stop \/ WakeEventThread \/ Join
         \/ LoopHead \/ Poll \/ Dispatched \/ HandleDataOffer \/ HandlePrimarySelection
         \/ Receive \/ ReadToEnd \/ JudgeContent \/ LockForCallback \/ UnlockForCallback
         \/ Callback \/ HandleSend \/ HandleCancelled \/ CompositorStep \/ PeerStep
         \/ OthersStep \/ UNCHANGED vars
  PROVE  Ignoring'
<1> USE FlagUntouched DEF shared, thread
<1>1. CASE SetClipboard \/ SetSelection \/ FlushAndUnlock \/ Stop \/ WakeEventThread \/ Join
  BY <1>1 DEF SetClipboard, SetSelection, FlushAndUnlock, Stop, WakeEventThread, Join
<1>2. CASE LoopHead \/ Poll \/ Dispatched
  BY <1>2 DEF LoopHead, Poll, Dispatched, Exit
<1>3. CASE HandleDataOffer \/ HandlePrimarySelection \/ HandleSend \/ HandleCancelled
  BY <1>3 DEF HandleDataOffer, HandlePrimarySelection, HandleSend, HandleCancelled, Handling
<1>4. CASE Receive \/ ReadToEnd
  BY <1>4 DEF Receive, ReadToEnd
<1>5. CASE JudgeContent
  BY <1>5 DEF JudgeContent, OfferDone
<1>6. CASE LockForCallback \/ UnlockForCallback \/ Callback
  BY <1>6 DEF LockForCallback, UnlockForCallback, Callback, OfferDone
<1>7. CASE CompositorStep
  BY <1>7 DEF CompositorStep, CompositorSelects, CompositorForwards
<1>8. CASE PeerStep
  BY <1>8 DEF PeerStep, TheyAnswer, Written
<1>9. CASE OthersStep
  BY <1>9 DEF OthersStep, TheyCopy, TheyQuit, TheySelectPrimary, TheyPaste, Disconnect
<1>10. CASE UNCHANGED vars
  BY <1>10 DEF vars
<1> QED
  BY <1>1, <1>2, <1>3, <1>4, <1>5, <1>6, <1>7, <1>8, <1>9, <1>10

\* However the threads interleave, each entry the user puts on the clipboard
\* costs at most one selection event: the history never misses more copies
\* of other programs than that.
THEOREM AlwaysIgnoresOncePerSet == Spec => []IgnoresOncePerSet
<1>1. Init => Ignoring
  BY DEF Init, Ignoring, Marks, Pending
<1>2. Ignoring /\ [Next]_vars => Ignoring'
  BY CreateSourceHolds, MarkSelectionHolds, HandleSelectionHolds, ClearFlagHolds,
     OtherStepsHold DEF Next, UiStep, EventStep
<1>3. Ignoring => IgnoresOncePerSet
  BY DEF Ignoring, Marks, Pending, IgnoresOncePerSet
<1> QED
  BY <1>1, <1>2, <1>3, PTL DEF Spec

-----------------------------------------------------------------------------
(***************************************************************************)
(* Events and requests.  What the compositor has sent and the event thread *)
(* has not handled is one stream, whatever part of it has been read; what  *)
(* we have asked for and the compositor has not taken up is another.       *)
(***************************************************************************)
EventType ==
  [event : {"data_offer", "selection", "primary_selection"}, offer : OfferType]
  \cup [event : {"send", "cancelled"}, source : 1 .. MaxSets]
SetRequestType == [request : {"set_selection"}, source : 1 .. MaxSets]
RequestType == SetRequestType \cup [request : {"receive"}, offer : OfferType]

Stream   == queue \o inbox
Requests == wire \o outbox

Channels ==
  /\ queue \in Seq(EventType) /\ inbox \in Seq(EventType)
  /\ wire \in Seq(RequestType) /\ outbox \in Seq(SetRequestType)

\* What each place in the code knows of the state.
Places ==
  /\ ui = "calling" => sets < MaxSets
  /\ ui \in {"marking", "selecting", "flushing"} => sets > 0
  /\ event \in {"loop", "poll", "exited"} => queue = <<>>
  /\ event = "clearing" => queue # <<>> /\ Head(queue).event = "selection"
  /\ event = "writing" => queue # <<>> /\ Head(queue).event = "send"
  /\ event \in {"locking", "unlocking", "callback"} => reading.got # {}

\* A pipe belongs to the offer that is being read, and at most one request to
\* fill it is under way.
PipeOfOffer ==
  /\ pipe # "none" => event = "reading" /\ reading.next <= reading.offer.mimes
  /\ pipe \in {"peer", "data"} \/ reading.got # {} => reading.offer.owner = "their"
  /\ \A i \in 1 .. Len(wire) :
       wire[i].request = "receive" =>
         /\ pipe = "asked" /\ wire[i].offer = reading.offer
         /\ \A j \in 1 .. Len(wire) : wire[j].request = "receive" => i = j

Typed == TypeOK /\ Channels /\ Places /\ PipeOfOffer

\* The rest of a sequence.
LEMMA TailFacts ==
  ASSUME NEW X, NEW S \in Seq(X), S # <<>>
  PROVE  /\ Tail(S) \in Seq(X) /\ Len(Tail(S)) = Len(S) - 1
         /\ Len(S) \in Nat \ {0} /\ Head(S) = S[1] /\ Head(S) \in X
         /\ \A i \in 1 .. Len(S) - 1 : Tail(S)[i] = S[i + 1]
BY HeadTailProperties, EmptySeq

\* An event with an offer, and one with a source.
LEMMA EventFields ==
  ASSUME NEW e \in EventType
  PROVE  /\ e.event \in {"data_offer", "selection", "primary_selection"} => e.offer \in OfferType
         /\ e.event \in {"send", "cancelled"} => e.source \in 1 .. MaxSets
BY DEF EventType

\* What an offer is.
LEMMA OfferFields ==
  ASSUME NEW o \in OfferType
  PROVE  /\ o.mimes \in 0 .. MaxMimes
         /\ o.owner = "own" => o.what \in 1 .. MaxSets /\ o.mimes = 1
         /\ o.owner = "their" => o.what \in Contents
BY WatcherAssumption DEF OfferType, NoOffer

LEMMA OffersTyped ==
  /\ NoOffer \in OfferType /\ NoOffer.owner = "none" /\ NoOffer.mimes = 0
  /\ \A s \in 1 .. MaxSets : OwnOffer(s) \in OfferType
BY DEF OfferType, OwnOffer, NoOffer

LEMMA TheirOfferTyped ==
  ASSUME TypeOK, copies < MaxCopies, NEW c \in Contents, NEW n \in 0 .. MaxMimes
  PROVE  TheirOffer(c, n) \in OfferType
<1>1. copies + 1 \in 1 .. MaxCopies
  BY WatcherAssumption DEF TypeOK
<1> QED
  BY <1>1 DEF OfferType, TheirOffer

\* The steps of the user interface thread but the join.
LEMMA UiTyped ==
  ASSUME Typed,
         \/ SetClipboard \/ CreateSource \/ MarkSelection \/ SetSelection \/ Stop
         \/ WakeEventThread
  PROVE  Typed'
<1> USE WatcherAssumption DEF shared, thread, external
<1>1. CASE SetClipboard
  <2>a. TypeOK'
    BY <1>1 DEF Typed, TypeOK, SetClipboard
  <2>b. Channels'
    BY <1>1 DEF Typed, Channels, SetClipboard
  <2>c. Places'
    BY <1>1 DEF Typed, Places, SetClipboard
  <2>d. PipeOfOffer'
    BY <1>1 DEF Typed, PipeOfOffer, SetClipboard
  <2> QED
    BY <2>a, <2>b, <2>c, <2>d DEF Typed
<1>2. CASE CreateSource
  <2>1. sets + 1 \in 1 .. MaxSets /\ sets \in Nat /\ live' \subseteq 1 .. sets + 1
    BY <1>2 DEF Typed, TypeOK, Places, CreateSource
  <2>a. TypeOK'
    BY <1>2, <2>1 DEF Typed, TypeOK, CreateSource
  <2>b. Channels'
    BY <1>2, <2>1 DEF Typed, Channels, CreateSource
  <2>c. Places'
    BY <1>2, <2>1 DEF Typed, Places, CreateSource
  <2>d. PipeOfOffer'
    BY <1>2, <2>1 DEF Typed, PipeOfOffer, CreateSource
  <2> QED
    BY <2>a, <2>b, <2>c, <2>d DEF Typed
<1>3. CASE MarkSelection
  <2>a. TypeOK'
    BY <1>3 DEF Typed, TypeOK, MarkSelection
  <2>b. Channels'
    BY <1>3 DEF Typed, Channels, MarkSelection
  <2>c. Places'
    BY <1>3 DEF Typed, Places, MarkSelection
  <2>d. PipeOfOffer'
    BY <1>3 DEF Typed, PipeOfOffer, MarkSelection
  <2> QED
    BY <2>a, <2>b, <2>c, <2>d DEF Typed
<1>4. CASE SetSelection
  <2>1. [request |-> "set_selection", source |-> sets] \in SetRequestType
    BY <1>4 DEF SetSelection, SetRequestType, Typed, TypeOK, Places
  <2>2. outbox' \in Seq(SetRequestType)
    BY <1>4, <2>1, AppendProperties DEF SetSelection, Typed, Channels
  <2>a. TypeOK'
    BY <1>4, <2>2 DEF Typed, TypeOK, SetSelection
  <2>b. Channels'
    BY <1>4, <2>2 DEF Typed, Channels, SetSelection
  <2>c. Places'
    BY <1>4, <2>2 DEF Typed, Places, SetSelection
  <2>d. PipeOfOffer'
    BY <1>4, <2>2 DEF Typed, PipeOfOffer, SetSelection
  <2> QED
    BY <2>a, <2>b, <2>c, <2>d DEF Typed
<1>5. CASE Stop
  <2>a. TypeOK'
    BY <1>5 DEF Typed, TypeOK, Stop
  <2>b. Channels'
    BY <1>5 DEF Typed, Channels, Stop
  <2>c. Places'
    BY <1>5 DEF Typed, Places, Stop
  <2>d. PipeOfOffer'
    BY <1>5 DEF Typed, PipeOfOffer, Stop
  <2> QED
    BY <2>a, <2>b, <2>c, <2>d DEF Typed
<1>6. CASE WakeEventThread
  <2>a. TypeOK'
    BY <1>6 DEF Typed, TypeOK, WakeEventThread
  <2>b. Channels'
    BY <1>6 DEF Typed, Channels, WakeEventThread
  <2>c. Places'
    BY <1>6 DEF Typed, Places, WakeEventThread
  <2>d. PipeOfOffer'
    BY <1>6 DEF Typed, PipeOfOffer, WakeEventThread
  <2> QED
    BY <2>a, <2>b, <2>c, <2>d DEF Typed
<1> QED
  BY <1>1, <1>2, <1>3, <1>4, <1>5, <1>6

\* A flush sends what was buffered, which never asks for data.
LEMMA FlushTyped ==
  ASSUME Channels, Flush(<<>>)
  PROVE  /\ outbox' \in Seq(SetRequestType) /\ wire' \in Seq(RequestType)
         /\ \A i \in 1 .. Len(wire') :
              wire'[i].request = "receive" => i \in 1 .. Len(wire) /\ wire'[i] = wire[i]
<1>1. outbox' = <<>> /\ outbox' \in Seq(SetRequestType)
  BY EmptySeq DEF Flush
<1>2. /\ wire \in Seq(RequestType) /\ outbox \in Seq(RequestType)
      /\ \A i \in 1 .. Len(outbox) : outbox[i].request = "set_selection"
  <2>1. wire \in Seq(RequestType) /\ outbox \in Seq(SetRequestType)
    BY DEF Channels
  <2>2. SetRequestType \subseteq RequestType
    BY DEF RequestType
  <2>3. \A i \in 1 .. Len(outbox) : outbox[i] \in SetRequestType
    BY <2>1, ElementOfSeq
  <2>4. \A r \in SetRequestType : r.request = "set_selection"
    BY DEF SetRequestType
  <2>5. outbox \in Seq(RequestType)
    BY <2>1, <2>2, <2>3
  <2> QED
    BY <2>1, <2>3, <2>4, <2>5
<1>3. CASE ~connected
  BY <1>1, <1>2, <1>3 DEF Flush
<1>4. CASE connected
  <2>1. wire' = wire \o outbox
    <3>1. wire' = (wire \o outbox) \o <<>>
      BY <1>4 DEF Flush
    <3>2. wire \o outbox \in Seq(RequestType)
      BY <1>2, ConcatProperties
    <3> QED
      BY <3>1, <3>2, ConcatEmptySeq
  <2> QED
    BY <1>1, <1>2, <2>1, ConcatProperties
<1> QED
  BY <1>3, <1>4

LEMMA FlushAndUnlockTyped ==
  ASSUME Typed, FlushAndUnlock
  PROVE  Typed'
<1>1. Flush(<<>>)
  BY DEF FlushAndUnlock
<1>2. /\ outbox' \in Seq(SetRequestType) /\ wire' \in Seq(RequestType)
      /\ \A i \in 1 .. Len(wire') :
           wire'[i].request = "receive" => i \in 1 .. Len(wire) /\ wire'[i] = wire[i]
  BY <1>1, FlushTyped DEF Typed
<1> HIDE DEF Flush
<1>a. TypeOK'
  BY <1>2 DEF Typed, TypeOK, FlushAndUnlock, thread
<1>b. Channels'
  BY <1>2 DEF Typed, Channels, FlushAndUnlock, thread
<1>c. Places'
  BY <1>2 DEF Typed, Places, FlushAndUnlock, thread
<1>d. PipeOfOffer'
  BY <1>2 DEF Typed, PipeOfOffer, FlushAndUnlock, thread
<1> QED
  BY <1>a, <1>b, <1>c, <1>d DEF Typed

LEMMA JoinTyped ==
  ASSUME Typed, Join
  PROVE  Typed'
<1>1. wire' = <<>> /\ wire' \in Seq(RequestType) /\ inbox' \in Seq(EventType)
  BY EmptySeq DEF Join
<1>a. TypeOK'
  BY <1>1, EmptySeq DEF Typed, TypeOK, Join, shared, thread
<1>b. Channels'
  BY <1>1, EmptySeq DEF Typed, Channels, Join, shared, thread
<1>c. Places'
  BY <1>1, EmptySeq DEF Typed, Places, Join, shared, thread
<1>d. PipeOfOffer'
  BY <1>1, EmptySeq DEF Typed, PipeOfOffer, Join, shared, thread
<1> QED
  BY <1>a, <1>b, <1>c, <1>d DEF Typed

LEMMA LoopHeadTyped ==
  ASSUME Typed, LoopHead \/ Dispatched
  PROVE  Typed'
<1>1. CASE LoopHead
  <2>a. TypeOK'
    BY <1>1 DEF Typed, TypeOK, LoopHead, Exit, shared, thread, external
  <2>b. Channels'
    BY <1>1 DEF Typed, Channels, LoopHead, Exit, shared, thread, external
  <2>c. Places'
    BY <1>1 DEF Typed, Places, LoopHead, Exit, shared, thread, external
  <2>d. PipeOfOffer'
    BY <1>1 DEF Typed, PipeOfOffer, LoopHead, Exit, shared, thread, external
  <2> QED
    BY <2>a, <2>b, <2>c, <2>d DEF Typed
<1>2. CASE Dispatched
  <2>a. TypeOK'
    BY <1>2 DEF Typed, TypeOK, Dispatched, shared, thread, external
  <2>b. Channels'
    BY <1>2 DEF Typed, Channels, Dispatched, shared, thread, external
  <2>c. Places'
    BY <1>2 DEF Typed, Places, Dispatched, shared, thread, external
  <2>d. PipeOfOffer'
    BY <1>2 DEF Typed, PipeOfOffer, Dispatched, shared, thread, external
  <2> QED
    BY <2>a, <2>b, <2>c, <2>d DEF Typed
<1> QED
  BY <1>1, <1>2

LEMMA PollTyped ==
  ASSUME Typed, Poll
  PROVE  Typed'
<1>1. /\ outbox' \in Seq(SetRequestType) /\ wire' \in Seq(RequestType)
      /\ \A i \in 1 .. Len(wire') :
           wire'[i].request = "receive" => i \in 1 .. Len(wire) /\ wire'[i] = wire[i]
  <2>1. CASE inbox # <<>>
    BY <2>1, FlushTyped DEF Poll, Typed
  <2>2. CASE inbox = <<>>
    BY <2>2 DEF Poll, Typed, Channels
  <2> QED
    BY <2>1, <2>2
<1>2. /\ queue' = inbox /\ inbox' = <<>> /\ event = "poll" /\ wake' = FALSE
      /\ event' \in {"dispatch", "loop", "exited"}
      /\ event' \in {"loop", "exited"} => queue' = <<>>
      /\ running' \in {running, "SHUTTING_DOWN"}
      /\ UNCHANGED <<mutex, preventDeadlock, lastHash, reading, pipe, offers, live, history,
                 ignored, connected, selection, ui, sets, copies, pastes, overlapped>>
  BY DEF Poll, Exit
<1>3. inbox' \in Seq(EventType)
  BY <1>2, EmptySeq
<1>a. TypeOK'
  <2>1. running' \in {"RUNNING", "STOPPED", "SHUTTING_DOWN"}
    BY <1>2 DEF Typed, TypeOK
  <2>2. event' \in {"loop", "poll", "dispatch", "exited"}
    BY <1>2
  <2>3. wake' \in BOOLEAN
    BY <1>2
  <2>4. UNCHANGED <<mutex, preventDeadlock, lastHash, reading, pipe, offers, live, history,
                 ignored, connected, selection, ui, sets, copies, pastes, overlapped>>
    BY <1>2
  <2> QED
    BY <2>1, <2>2, <2>3, <2>4 DEF Typed, TypeOK
<1>b. Channels'
  BY <1>1, <1>2, <1>3 DEF Typed, Channels
<1>c. Places'
  BY <1>1, <1>2, <1>3 DEF Typed, Places
<1>d. PipeOfOffer'
  BY <1>1, <1>2, <1>3 DEF Typed, PipeOfOffer
<1> QED
  BY <1>a, <1>b, <1>c, <1>d DEF Typed

\* The handlers that take the first event off the queue.
LEMMA HandlersTyped ==
  ASSUME Typed, HandleDataOffer \/ HandlePrimarySelection \/ HandleCancelled \/ HandleSend
  PROVE  Typed'
<1>1. /\ queue # <<>> /\ event = "dispatch" /\ event' \in {"dispatch", "writing"}
      /\ event' = "writing" => queue' = queue /\ Head(queue).event = "send"
      /\ queue' \in {queue, Tail(queue)}
      /\ UNCHANGED <<shared, lastHash, reading, pipe, history, ignored, external,
                 ui, outbox, sets, copies, pastes, overlapped>>
  BY DEF HandleDataOffer, HandlePrimarySelection, HandleCancelled, HandleSend, Handling, thread
<1>2. Tail(queue) \in Seq(EventType) /\ Head(queue) \in EventType
  BY <1>1, TailFacts DEF Typed, Channels
<1>3. offers' \subseteq OfferType /\ live' \subseteq live
  BY <1>2, EventFields DEF HandleDataOffer, HandlePrimarySelection, HandleCancelled,
     HandleSend, Handling, thread, Typed, TypeOK
<1>a. TypeOK'
  BY <1>1, <1>2, <1>3 DEF Typed, TypeOK, shared, external
<1>b. Channels'
  BY <1>1, <1>2, <1>3 DEF Typed, Channels, shared, external
<1>c. Places'
  BY <1>1, <1>2, <1>3 DEF Typed, Places, shared, external
<1>d. PipeOfOffer'
  BY <1>1, <1>2, <1>3 DEF Typed, PipeOfOffer, shared, external
<1> QED
  BY <1>a, <1>b, <1>c, <1>d DEF Typed

LEMMA HandleSelectionTyped ==
  ASSUME Typed, HandleSelection
  PROVE  Typed'
<1>1. /\ queue # <<>> /\ event = "dispatch" /\ Head(queue).event = "selection"
      /\ UNCHANGED <<shared, lastHash, pipe, offers, live, history, ignored, external,
                 ui, outbox, sets, copies, pastes, overlapped>>
  BY DEF HandleSelection, Handling
<1>2. /\ Tail(queue) \in Seq(EventType)
      /\ Head(queue).offer \in OfferType
  BY <1>1, TailFacts, EventFields DEF Typed, Channels
<1>3. pipe = "none"
  BY <1>1 DEF Typed, PipeOfOffer
<1> USE DEF Typed, TypeOK, Channels, Places, PipeOfOffer, shared, external
<1>4. CASE preventDeadlock
  <2>1. event' = "clearing" /\ UNCHANGED <<queue, reading>>
    BY <1>4 DEF HandleSelection
  <2> QED
    BY <2>1, <1>1
<1>5. CASE ~preventDeadlock /\ Head(queue).offer = NoOffer
  <2>1. queue' = Tail(queue) /\ UNCHANGED <<event, reading>>
    BY <1>5 DEF HandleSelection
  <2> QED
    BY <2>1, <1>1, <1>2
<1>6. CASE ~preventDeadlock /\ Head(queue).offer # NoOffer
  <2>1. /\ event' = "reading" /\ queue' = Tail(queue)
        /\ reading' = [offer |-> Head(queue).offer, next |-> 1, got |-> {}]
    BY <1>6 DEF HandleSelection
  <2>2. reading' \in [offer : OfferType, next : 1 .. MaxMimes + 1, got : SUBSET (1 .. MaxMimes)]
    BY <2>1, <1>2, WatcherAssumption
  <2> QED
    BY <2>1, <2>2, <1>1, <1>2, <1>3
<1> QED
  BY <1>4, <1>5, <1>6

LEMMA ClearedTyped ==
  ASSUME Typed, ClearFlag \/ Written
  PROVE  Typed'
<1>1. /\ queue # <<>> /\ event \in {"clearing", "writing"} /\ event' = "dispatch"
      /\ queue' = Tail(queue)
      /\ UNCHANGED <<running, wake, mutex, lastHash, reading, pipe, offers, live, history,
                     external, ui, outbox, sets, copies, pastes, overlapped>>
  BY DEF ClearFlag, Written, shared, Typed, Places
<1>2. Tail(queue) \in Seq(EventType)
  BY <1>1, TailFacts DEF Typed, Channels
<1>3. CASE ClearFlag
  <2>a. TypeOK'
    <3>1. /\ preventDeadlock' \in BOOLEAN /\ event' = "dispatch"
          /\ UNCHANGED <<running, wake, mutex, lastHash, reading, pipe, offers, live, history,
                 connected, selection, ui, sets, copies, pastes, overlapped>>
      BY <1>3 DEF ClearFlag, external
    <3> QED
      BY <3>1 DEF Typed, TypeOK
  <2>b. Channels'
    BY <1>1, <1>2, <1>3 DEF Typed, Channels, ClearFlag, external
  <2>c. Places'
    BY <1>1, <1>2, <1>3 DEF Typed, Places, ClearFlag, external
  <2>d. PipeOfOffer'
    BY <1>1, <1>2, <1>3 DEF Typed, PipeOfOffer, ClearFlag, external
  <2> QED
    BY <2>a, <2>b, <2>c, <2>d DEF Typed
<1>4. CASE Written
  <2>a. TypeOK'
    BY <1>1, <1>2, <1>4 DEF Typed, TypeOK, Written, shared, external
  <2>b. Channels'
    BY <1>1, <1>2, <1>4 DEF Typed, Channels, Written, shared, external
  <2>c. Places'
    BY <1>1, <1>2, <1>4 DEF Typed, Places, Written, shared, external
  <2>d. PipeOfOffer'
    BY <1>1, <1>2, <1>4 DEF Typed, PipeOfOffer, Written, shared, external
  <2> QED
    BY <2>a, <2>b, <2>c, <2>d DEF Typed
<1> QED
  BY <1>3, <1>4

\* Asking for the next mime type: the request is the only one of its kind.
LEMMA ReceiveTyped ==
  ASSUME Typed, Receive
  PROVE  Typed'
<1> DEFINE ask == [request |-> "receive", offer |-> reading.offer]
<1>1. /\ event = "reading" /\ pipe = "none" /\ reading.next <= reading.offer.mimes
      /\ UNCHANGED <<shared, lastHash, queue, reading, offers, live, history, ignored,
                 connected, inbox, selection, ui, event, sets, copies, pastes, overlapped>>
      /\ pipe' \in {"asked", "eof"}
  BY DEF Receive
<1>2. \A i \in 1 .. Len(wire) : wire[i].request # "receive"
  BY <1>1 DEF Typed, PipeOfOffer
<1>3. /\ outbox' \in Seq(SetRequestType) /\ wire' \in Seq(RequestType)
      /\ \A i \in 1 .. Len(wire') :
           wire'[i].request = "receive" =>
             pipe' = "asked" /\ wire'[i].offer = reading.offer /\ i = Len(wire')
  <2>1. CASE ~connected
    BY <2>1, <1>2 DEF Receive, Typed, Channels
  <2>2. CASE connected
    <3>1. /\ wire' = wire \o outbox \o <<ask>> /\ outbox' = <<>> /\ pipe' = "asked"
      BY <2>2 DEF Receive, Flush
    <3>2. ask \in RequestType /\ <<ask>> \in Seq(RequestType) /\ Len(<<ask>>) = 1 /\ <<ask>>[1] = ask
      BY DEF RequestType, Typed, TypeOK
    <3>3. /\ wire \in Seq(RequestType) /\ outbox \in Seq(RequestType)
          /\ \A i \in 1 .. Len(outbox) : outbox[i].request = "set_selection"
      <4>1. \A i \in 1 .. Len(outbox) : outbox[i] \in SetRequestType
        BY ElementOfSeq DEF Typed, Channels
      <4>2. \A r \in SetRequestType : r.request = "set_selection"
        BY DEF SetRequestType
      <4> QED
        BY <4>1, <4>2 DEF Typed, Channels, RequestType
    <3> HIDE DEF ask
    <3> DEFINE sent == wire \o outbox
    <3>4. /\ sent \in Seq(RequestType) /\ Len(sent) = Len(wire) + Len(outbox)
          /\ \A i \in 1 .. Len(sent) : sent[i].request # "receive"
      <4>1. /\ sent \in Seq(RequestType) /\ Len(sent) = Len(wire) + Len(outbox)
            /\ \A i \in 1 .. Len(wire) + Len(outbox) :
                 sent[i] = IF i <= Len(wire) THEN wire[i] ELSE outbox[i - Len(wire)]
        BY <3>3, ConcatProperties
      <4>2. ASSUME NEW i \in 1 .. Len(sent) PROVE sent[i].request # "receive"
        <5>1. CASE i <= Len(wire)
          BY <5>1, <4>1, <1>2, <3>3
        <5>2. CASE ~(i <= Len(wire))
          <6>1. i - Len(wire) \in 1 .. Len(outbox)
            BY <5>2, <4>1, <3>3
          <6>2. sent[i] = outbox[i - Len(wire)]
            BY <5>2, <4>1
          <6> QED
            BY <6>1, <6>2, <3>3
        <5> QED
          BY <5>1, <5>2
      <4> QED
        BY <4>1, <4>2
    <3>5. wire' = sent \o <<ask>>
      BY <3>1
    <3> HIDE DEF sent
    <3>6. /\ wire' \in Seq(RequestType) /\ Len(wire') = Len(sent) + 1
          /\ \A i \in 1 .. Len(wire') :
               wire'[i] = IF i <= Len(sent) THEN sent[i] ELSE <<ask>>[i - Len(sent)]
      BY <3>2, <3>4, <3>5, ConcatProperties
    <3>7. outbox' \in Seq(SetRequestType)
      BY <3>1, EmptySeq
    <3>8. ASSUME NEW i \in 1 .. Len(wire'), wire'[i].request = "receive"
          PROVE  wire'[i] = ask /\ i = Len(wire')
      <4>1. ~(i <= Len(sent))
        BY <3>8, <3>6, <3>4
      <4>2. i = Len(sent) + 1 /\ Len(sent) \in Nat
        BY <4>1, <3>6, <3>4
      <4>3. wire'[i] = <<ask>>[i - Len(sent)] /\ i - Len(sent) = 1
        BY <4>1, <4>2, <3>6
      <4> QED
        BY <4>2, <4>3, <3>6, <3>2
    <3>9. ask.offer = reading.offer
      BY DEF ask
    <3> QED
      BY <3>1, <3>6, <3>7, <3>8, <3>9
  <2> QED
    BY <2>1, <2>2
<1> HIDE DEF ask
<1>a. TypeOK'
  BY <1>1, <1>3 DEF Typed, TypeOK, shared
<1>b. Channels'
  BY <1>1, <1>3 DEF Typed, Channels, shared
<1>c. Places'
  BY <1>1, <1>3 DEF Typed, Places, shared
<1>d. PipeOfOffer'
  BY <1>1, <1>3 DEF Typed, PipeOfOffer, shared
<1> QED
  BY <1>a, <1>b, <1>c, <1>d DEF Typed

LEMMA ReadToEndTyped ==
  ASSUME Typed, ReadToEnd
  PROVE  Typed'
<1>1. /\ event = "reading" /\ pipe \in {"data", "eof"} /\ pipe' = "none"
      /\ UNCHANGED <<shared, lastHash, queue, offers, live, history, ignored, external,
                 ui, event, outbox, sets, copies, pastes, overlapped>>
  BY DEF ReadToEnd
<1>2. /\ reading.offer \in OfferType /\ reading.next \in 1 .. MaxMimes + 1
      /\ reading.got \subseteq 1 .. MaxMimes /\ reading.next <= reading.offer.mimes
      /\ reading.offer.mimes \in 0 .. MaxMimes
  BY <1>1, OfferFields DEF Typed, TypeOK, PipeOfOffer
<1>3. /\ reading' \in [offer : OfferType, next : 1 .. MaxMimes + 1, got : SUBSET (1 .. MaxMimes)]
      /\ reading'.offer = reading.offer
      /\ reading'.got # {} => reading.got # {} \/ pipe = "data"
  <2> DEFINE got == IF pipe = "data" THEN reading.got \cup {reading.next} ELSE reading.got
  <2>1. got \subseteq 1 .. MaxMimes /\ (got # {} => reading.got # {} \/ pipe = "data")
    BY <1>2, WatcherAssumption
  <2>2. reading.next + 1 \in 1 .. MaxMimes + 1
    BY <1>2, WatcherAssumption
  <2>3. reading' = [reading EXCEPT !.next = reading.next + 1, !.got = got]
    BY DEF ReadToEnd
  <2> HIDE DEF got
  <2>4. reading' = [offer |-> reading.offer, next |-> reading.next + 1, got |-> got]
    BY <2>3 DEF Typed, TypeOK
  <2> QED
    BY <2>1, <2>2, <2>4, <1>2
<1>a. TypeOK'
  BY <1>1, <1>3 DEF Typed, TypeOK, shared, external
<1>b. Channels'
  BY <1>1, <1>3 DEF Typed, Channels, shared, external
<1>c. Places'
  BY <1>1, <1>3 DEF Typed, Places, shared, external
<1>d. PipeOfOffer'
  BY <1>1, <1>3 DEF Typed, PipeOfOffer, shared, external
<1> QED
  BY <1>a, <1>b, <1>c, <1>d DEF Typed

\* The content of an offer that is worth a call of the callback.
LEMMA HashTyped ==
  ASSUME Typed, reading.got # {}
  PROVE  Hash \in Contents \X SUBSET (1 .. MaxMimes)
<1>1. reading.offer.what \in Contents /\ reading.got \in SUBSET (1 .. MaxMimes)
  BY OfferFields DEF Typed, TypeOK, PipeOfOffer
<1> QED
  BY <1>1 DEF Hash

LEMMA OfferDoneTyped ==
  ASSUME Typed, OfferDone
  PROVE  /\ reading' \in [offer : OfferType, next : 1 .. MaxMimes + 1, got : SUBSET (1 .. MaxMimes)]
         /\ reading' = NotReading /\ NotReading.got = {} /\ event' = "dispatch"
         /\ offers' \subseteq OfferType
BY OffersTyped, WatcherAssumption DEF OfferDone, NotReading, Typed, TypeOK

LEMMA JudgeContentTyped ==
  ASSUME Typed, JudgeContent
  PROVE  Typed'
<1>1. /\ event = "reading" /\ pipe = "none"
      /\ UNCHANGED <<shared, queue, pipe, live, history, ignored, external, ui, outbox,
                 sets, copies, pastes, overlapped>>
  BY DEF JudgeContent
<1>2. CASE reading.got # {} /\ Hash # lastHash
  <2>1. lastHash' = Hash /\ event' = "locking" /\ UNCHANGED <<offers, reading>>
    BY <1>2 DEF JudgeContent
  <2>2. lastHash' \in Contents \X SUBSET (1 .. MaxMimes)
    BY <1>2, <2>1, HashTyped
  <2>a. TypeOK'
    BY <1>1, <1>2, <2>1, <2>2 DEF Typed, TypeOK, shared, external
  <2>b. Channels'
    BY <1>1, <1>2, <2>1, <2>2 DEF Typed, Channels, shared, external
  <2>c. Places'
    BY <1>1, <1>2, <2>1, <2>2 DEF Typed, Places, shared, external
  <2>d. PipeOfOffer'
    BY <1>1, <1>2, <2>1, <2>2 DEF Typed, PipeOfOffer, shared, external
  <2> QED
    BY <2>a, <2>b, <2>c, <2>d DEF Typed
<1>3. CASE ~(reading.got # {} /\ Hash # lastHash)
  <2>1. OfferDone /\ UNCHANGED lastHash
    BY <1>3 DEF JudgeContent
  <2>2. /\ reading' \in [offer : OfferType, next : 1 .. MaxMimes + 1, got : SUBSET (1 .. MaxMimes)]
        /\ reading'.got = {} /\ event' = "dispatch" /\ offers' \subseteq OfferType
    BY <2>1, OfferDoneTyped
  <2>3. \A i \in 1 .. Len(wire) : wire[i].request # "receive"
    BY <1>1 DEF Typed, PipeOfOffer
  <2>a. TypeOK'
    BY <1>1, <2>1, <2>2, <2>3 DEF Typed, TypeOK, shared, external
  <2>b. Channels'
    BY <1>1, <2>1, <2>2, <2>3 DEF Typed, Channels, shared, external
  <2>c. Places'
    BY <1>1, <2>1, <2>2, <2>3 DEF Typed, Places, shared, external
  <2>d. PipeOfOffer'
    BY <1>1, <2>1, <2>2, <2>3 DEF Typed, PipeOfOffer, shared, external
  <2> QED
    BY <2>a, <2>b, <2>c, <2>d DEF Typed
<1> QED
  BY <1>2, <1>3

LEMMA CallbackTyped ==
  ASSUME Typed, Callback
  PROVE  Typed'
<1>1. /\ event = "callback" /\ history' = history \cup {Hash} /\ OfferDone
      /\ UNCHANGED <<shared, lastHash, queue, pipe, live, ignored, external, ui, outbox,
                 sets, copies, pastes, overlapped>>
  BY DEF Callback
<1>2. pipe = "none" /\ reading.got # {}
  BY <1>1 DEF Typed, Places, PipeOfOffer
<1>3. /\ reading' \in [offer : OfferType, next : 1 .. MaxMimes + 1, got : SUBSET (1 .. MaxMimes)]
      /\ reading'.got = {} /\ event' = "dispatch" /\ offers' \subseteq OfferType
  BY <1>1, OfferDoneTyped
<1>4. Hash \in Contents \X SUBSET (1 .. MaxMimes)
  BY <1>2, HashTyped
<1>5. \A i \in 1 .. Len(wire) : wire[i].request # "receive"
  BY <1>2 DEF Typed, PipeOfOffer
<1>a. TypeOK'
  BY <1>1, <1>2, <1>3, <1>4, <1>5 DEF Typed, TypeOK, shared, external
<1>b. Channels'
  BY <1>1, <1>2, <1>3, <1>4, <1>5 DEF Typed, Channels, shared, external
<1>c. Places'
  BY <1>1, <1>2, <1>3, <1>4, <1>5 DEF Typed, Places, shared, external
<1>d. PipeOfOffer'
  BY <1>1, <1>2, <1>3, <1>4, <1>5 DEF Typed, PipeOfOffer, shared, external
<1> QED
  BY <1>a, <1>b, <1>c, <1>d DEF Typed

LEMMA LockTyped ==
  ASSUME Typed, LockForCallback \/ UnlockForCallback
  PROVE  Typed'
<1>1. CASE LockForCallback
  <2>a. TypeOK'
    BY <1>1 DEF Typed, TypeOK, LockForCallback, thread, external
  <2>b. Channels'
    BY <1>1 DEF Typed, Channels, LockForCallback, thread, external
  <2>c. Places'
    BY <1>1 DEF Typed, Places, LockForCallback, thread, external
  <2>d. PipeOfOffer'
    BY <1>1 DEF Typed, PipeOfOffer, LockForCallback, thread, external
  <2> QED
    BY <2>a, <2>b, <2>c, <2>d DEF Typed
<1>2. CASE UnlockForCallback
  <2>a. TypeOK'
    BY <1>2 DEF Typed, TypeOK, UnlockForCallback, thread, external
  <2>b. Channels'
    BY <1>2 DEF Typed, Channels, UnlockForCallback, thread, external
  <2>c. Places'
    BY <1>2 DEF Typed, Places, UnlockForCallback, thread, external
  <2>d. PipeOfOffer'
    BY <1>2 DEF Typed, PipeOfOffer, UnlockForCallback, thread, external
  <2> QED
    BY <2>a, <2>b, <2>c, <2>d DEF Typed
<1> QED
  BY <1>1, <1>2

\* The steps of the compositor and the other programs add events of their own.
LEMMA InboxGrows ==
  ASSUME inbox \in Seq(EventType), NEW new \in Seq(EventType)
  PROVE  inbox \o new \in Seq(EventType)
BY ConcatProperties

LEMMA AnnounceTyped ==
  ASSUME NEW o \in OfferType, NEW kind \in {"selection", "primary_selection"}
  PROVE  Announce(o, kind) \in Seq(EventType)
<1>1. /\ [event |-> kind, offer |-> o] \in EventType
      /\ [event |-> "data_offer", offer |-> o] \in EventType
  BY DEF EventType
<1>2. CASE o = NoOffer
  BY <1>1, <1>2 DEF Announce
<1>3. CASE o # NoOffer
  BY <1>1, <1>3 DEF Announce
<1> QED
  BY <1>2, <1>3

LEMMA CancelledTyped ==
  ASSUME selection \in OfferType
  PROVE  Cancelled \in Seq(EventType)
<1>1. CASE selection.owner = "own"
  <2>1. [event |-> "cancelled", source |-> selection.what] \in EventType
    BY <1>1, OfferFields DEF EventType
  <2> QED
    BY <1>1, <2>1 DEF Cancelled
<1>2. CASE selection.owner # "own"
  BY <1>2 DEF Cancelled
<1> QED
  BY <1>1, <1>2

LEMMA SelectTyped ==
  ASSUME Typed, NEW o \in OfferType, Select(o)
  PROVE  selection' \in OfferType /\ inbox' \in Seq(EventType)
<1>1. /\ Cancelled \in Seq(EventType) /\ Announce(o, "selection") \in Seq(EventType)
      /\ inbox \in Seq(EventType)
  BY CancelledTyped, AnnounceTyped DEF Typed, TypeOK, Channels
<1>2. inbox \o Cancelled \in Seq(EventType)
  BY <1>1, ConcatProperties
<1>3. (inbox \o Cancelled) \o Announce(o, "selection") \in Seq(EventType)
  BY <1>1, <1>2, ConcatProperties
<1> QED
  BY <1>3 DEF Select

\* A request that is taken up leaves the others.
LEMMA TakeRequest ==
  ASSUME Typed, wire # <<>>
  PROVE  /\ Head(wire) \in RequestType /\ Tail(wire) \in Seq(RequestType)
         /\ Head(wire) = wire[1] /\ 1 \in 1 .. Len(wire)
         /\ \A i \in 1 .. Len(Tail(wire)) :
              i + 1 \in 1 .. Len(wire) /\ Tail(wire)[i] = wire[i + 1]
<1>1. wire \in Seq(RequestType)
  BY DEF Typed, Channels
<1> QED
  BY <1>1, TailFacts

LEMMA CompositorSelectsTyped ==
  ASSUME Typed, CompositorSelects
  PROVE  Typed'
<1>1. /\ connected /\ wire # <<>> /\ Head(wire).request = "set_selection"
      /\ Select(OwnOffer(Head(wire).source)) /\ wire' = Tail(wire)
      /\ UNCHANGED <<shared, thread, connected, ui, event, outbox, sets, copies, pastes, overlapped>>
  BY DEF CompositorSelects
<1>2. Head(wire).source \in 1 .. MaxSets
  BY <1>1, TakeRequest DEF RequestType, SetRequestType
<1>3. selection' \in OfferType /\ inbox' \in Seq(EventType)
  BY <1>1, <1>2, OffersTyped, SelectTyped
<1>4. /\ wire' \in Seq(RequestType)
      /\ \A i \in 1 .. Len(wire') : i + 1 \in 1 .. Len(wire) /\ wire'[i] = wire[i + 1]
  BY <1>1, TakeRequest
<1>a. TypeOK'
  BY <1>1, <1>3, <1>4 DEF Typed, TypeOK, shared, thread
<1>b. Channels'
  BY <1>1, <1>3, <1>4 DEF Typed, Channels, shared, thread
<1>c. Places'
  BY <1>1, <1>3, <1>4 DEF Typed, Places, shared, thread
<1>d. PipeOfOffer'
  BY <1>1, <1>3, <1>4 DEF Typed, PipeOfOffer, shared, thread
<1> QED
  BY <1>a, <1>b, <1>c, <1>d DEF Typed

\* The offer a request names still stands, or the pipe is closed.
LEMMA ForwardCases ==
  ASSUME Typed, CompositorForwards
  PROVE  /\ pipe = "asked" /\ Head(wire).offer = reading.offer
         /\ \/ pipe' = "eof" /\ UNCHANGED inbox
            \/ pipe' = "peer" /\ reading.offer.owner = "their" /\ UNCHANGED inbox
            \/ /\ pipe' = "self" /\ reading.offer = selection /\ selection.owner = "own"
               /\ inbox' = Append(inbox, [event |-> "send", source |-> selection.what])
<1>1. wire # <<>> /\ Head(wire).request = "receive"
  BY DEF CompositorForwards
<1>2. Head(wire) = wire[1] /\ 1 \in 1 .. Len(wire)
  BY <1>1, TakeRequest
<1>3. pipe = "asked" /\ Head(wire).offer = reading.offer
  BY <1>1, <1>2 DEF Typed, PipeOfOffer
<1>4. CASE Head(wire).offer # selection
  BY <1>3, <1>4 DEF CompositorForwards
<1>5. CASE Head(wire).offer = selection /\ Head(wire).offer.owner = "their"
  BY <1>3, <1>5 DEF CompositorForwards
<1>6. CASE Head(wire).offer = selection /\ Head(wire).offer.owner = "own"
  BY <1>3, <1>6 DEF CompositorForwards
<1>7. Head(wire).offer.owner \in {"their", "own"}
  <2>1. reading.offer.mimes > 0
    BY <1>3, OfferFields DEF Typed, TypeOK, PipeOfOffer
  <2>2. reading.offer # NoOffer
    BY <2>1, OffersTyped
  <2> QED
    BY <1>3, <2>2 DEF Typed, TypeOK, OfferType
<1> QED
  BY <1>4, <1>5, <1>6, <1>7

LEMMA CompositorForwardsTyped ==
  ASSUME Typed, CompositorForwards
  PROVE  Typed'
<1>1. /\ wire # <<>> /\ wire' = Tail(wire)
      /\ UNCHANGED <<shared, lastHash, queue, reading, offers, live, history, ignored,
                 connected, selection, ui, event, outbox, sets, copies, pastes, overlapped>>
  BY DEF CompositorForwards
<1>2. Head(wire).request = "receive" /\ Head(wire) = wire[1] /\ 1 \in 1 .. Len(wire)
  BY <1>1, TakeRequest DEF CompositorForwards
<1>3. pipe = "asked"
  BY ForwardCases
<1>4. /\ wire' \in Seq(RequestType)
      /\ \A i \in 1 .. Len(wire') : wire'[i].request # "receive"
  <2>1. /\ wire' \in Seq(RequestType)
        /\ \A i \in 1 .. Len(wire') : i + 1 \in 1 .. Len(wire) /\ wire'[i] = wire[i + 1]
    BY <1>1, TakeRequest
  <2>2. \A i \in 1 .. Len(wire') : wire[i + 1].request = "receive" => i + 1 = 1
    BY <1>2, <2>1 DEF Typed, PipeOfOffer
  <2>3. \A i \in 1 .. Len(wire') : i + 1 # 1
    OBVIOUS
  <2> QED
    BY <2>1, <2>2, <2>3
<1>5. /\ pipe' \in {"eof", "peer", "self"}
      /\ pipe' = "peer" => reading.offer.owner = "their"
  BY ForwardCases
<1>6. inbox' \in Seq(EventType)
  <2>1. CASE inbox' = inbox
    BY <2>1 DEF Typed, Channels
  <2>2. CASE /\ selection.owner = "own"
             /\ inbox' = Append(inbox, [event |-> "send", source |-> selection.what])
    <3>1. [event |-> "send", source |-> selection.what] \in EventType
      BY <2>2, OfferFields DEF EventType, Typed, TypeOK
    <3> QED
      BY <2>2, <3>1, AppendProperties DEF Typed, Channels
  <2> QED
    BY <2>1, <2>2, ForwardCases
<1>a. TypeOK'
  BY <1>1, <1>3, <1>4, <1>5, <1>6 DEF Typed, TypeOK, shared
<1>b. Channels'
  BY <1>1, <1>3, <1>4, <1>5, <1>6 DEF Typed, Channels, shared
<1>c. Places'
  BY <1>1, <1>3, <1>4, <1>5, <1>6 DEF Typed, Places, shared
<1>d. PipeOfOffer'
  BY <1>1, <1>3, <1>4, <1>5, <1>6 DEF Typed, PipeOfOffer, shared
<1> QED
  BY <1>a, <1>b, <1>c, <1>d DEF Typed

LEMMA OthersActTyped ==
  ASSUME Typed, OthersAct
  PROVE  /\ connected /\ copies < MaxCopies /\ copies' = copies + 1
         /\ copies' \in 0 .. MaxCopies /\ overlapped' \in BOOLEAN
BY WatcherAssumption DEF OthersAct, Typed, TypeOK

LEMMA TheyCopyTyped ==
  ASSUME Typed, NEW c \in Contents, NEW n \in 0 .. MaxMimes, TheyCopy(c, n)
  PROVE  Typed'
<1>1. /\ OthersAct /\ Select(TheirOffer(c, n))
      /\ UNCHANGED <<shared, thread, connected, wire, ui, event, outbox, sets, pastes>>
  BY DEF TheyCopy
<1>2. copies < MaxCopies /\ copies' \in 0 .. MaxCopies /\ overlapped' \in BOOLEAN
  BY <1>1, OthersActTyped
<1>3. selection' \in OfferType /\ inbox' \in Seq(EventType)
  BY <1>1, <1>2, TheirOfferTyped, SelectTyped DEF Typed
<1>a. TypeOK'
  BY <1>1, <1>2, <1>3 DEF Typed, TypeOK, shared, thread
<1>b. Channels'
  BY <1>1, <1>2, <1>3 DEF Typed, Channels, shared, thread
<1>c. Places'
  BY <1>1, <1>2, <1>3 DEF Typed, Places, shared, thread
<1>d. PipeOfOffer'
  BY <1>1, <1>2, <1>3 DEF Typed, PipeOfOffer, shared, thread
<1> QED
  BY <1>a, <1>b, <1>c, <1>d DEF Typed

LEMMA TheyQuitTyped ==
  ASSUME Typed, TheyQuit
  PROVE  Typed'
<1>1. /\ OthersAct /\ Select(NoOffer)
      /\ pipe' = IF pipe = "peer" THEN "eof" ELSE pipe
      /\ UNCHANGED <<shared, lastHash, queue, reading, offers, live, history, ignored,
                 connected, wire, ui, event, outbox, sets, pastes>>
  BY DEF TheyQuit
<1>2. copies' \in 0 .. MaxCopies /\ overlapped' \in BOOLEAN
  BY <1>1, OthersActTyped
<1>3. selection' \in OfferType /\ inbox' \in Seq(EventType)
  BY <1>1, OffersTyped, SelectTyped
<1>a. TypeOK'
  BY <1>1, <1>2, <1>3 DEF Typed, TypeOK, shared
<1>b. Channels'
  BY <1>1, <1>2, <1>3 DEF Typed, Channels, shared
<1>c. Places'
  BY <1>1, <1>2, <1>3 DEF Typed, Places, shared
<1>d. PipeOfOffer'
  BY <1>1, <1>2, <1>3 DEF Typed, PipeOfOffer, shared
<1> QED
  BY <1>a, <1>b, <1>c, <1>d DEF Typed

LEMMA TheySelectPrimaryTyped ==
  ASSUME Typed, NEW c \in Contents, TheySelectPrimary(c)
  PROVE  Typed'
<1>1. /\ OthersAct
      /\ inbox' = inbox \o Announce(TheirOffer(c, 1), "primary_selection")
      /\ UNCHANGED <<shared, thread, connected, wire, selection, ui, event, outbox,
                 sets, pastes>>
  BY DEF TheySelectPrimary
<1>2. copies < MaxCopies /\ copies' \in 0 .. MaxCopies /\ overlapped' \in BOOLEAN
  BY <1>1, OthersActTyped
<1>3. TheirOffer(c, 1) \in OfferType
  BY <1>2, TheirOfferTyped, WatcherAssumption DEF Typed
<1>4. inbox' \in Seq(EventType)
  BY <1>1, <1>3, AnnounceTyped, InboxGrows DEF Typed, Channels
<1>a. TypeOK'
  BY <1>1, <1>2, <1>4 DEF Typed, TypeOK, shared, thread
<1>b. Channels'
  BY <1>1, <1>2, <1>4 DEF Typed, Channels, shared, thread
<1>c. Places'
  BY <1>1, <1>2, <1>4 DEF Typed, Places, shared, thread
<1>d. PipeOfOffer'
  BY <1>1, <1>2, <1>4 DEF Typed, PipeOfOffer, shared, thread
<1> QED
  BY <1>a, <1>b, <1>c, <1>d DEF Typed

LEMMA TheyPasteTyped ==
  ASSUME Typed, TheyPaste
  PROVE  Typed'
<1>1. /\ connected /\ selection.owner = "own" /\ pastes < MaxPastes /\ pastes' = pastes + 1
      /\ inbox' = Append(inbox, [event |-> "send", source |-> selection.what])
      /\ UNCHANGED <<shared, thread, connected, wire, selection, ui, event, outbox,
                 sets, copies, overlapped>>
  BY DEF TheyPaste
<1>2. [event |-> "send", source |-> selection.what] \in EventType
  BY <1>1, OfferFields DEF EventType, Typed, TypeOK
<1>3. inbox' \in Seq(EventType) /\ pastes' \in 0 .. MaxPastes
  BY <1>1, <1>2, AppendProperties, WatcherAssumption DEF Typed, TypeOK, Channels
<1>a. TypeOK'
  BY <1>1, <1>3 DEF Typed, TypeOK, shared, thread
<1>b. Channels'
  BY <1>1, <1>3 DEF Typed, Channels, shared, thread
<1>c. Places'
  BY <1>1, <1>3 DEF Typed, Places, shared, thread
<1>d. PipeOfOffer'
  BY <1>1, <1>3 DEF Typed, PipeOfOffer, shared, thread
<1> QED
  BY <1>a, <1>b, <1>c, <1>d DEF Typed

LEMMA DisconnectTyped ==
  ASSUME Typed, Disconnect
  PROVE  Typed'
<1>1. /\ copies < MaxCopies /\ copies' = copies + 1 /\ connected' = FALSE /\ wire' = <<>>
      /\ pipe' = IF pipe = "asked" THEN "eof" ELSE pipe
      /\ UNCHANGED <<shared, lastHash, queue, reading, offers, live, history, ignored,
                 inbox, selection, ui, event, outbox, sets, pastes, overlapped>>
  BY DEF Disconnect
<1>2. copies' \in 0 .. MaxCopies /\ wire' \in Seq(RequestType) /\ Len(wire') = 0
  BY <1>1, WatcherAssumption, EmptySeq DEF Typed, TypeOK
<1>3. connected' \in BOOLEAN
  BY <1>1
<1>a. TypeOK'
  BY <1>1, <1>2, <1>3 DEF Typed, TypeOK, shared
<1>b. Channels'
  BY <1>1, <1>2, <1>3 DEF Typed, Channels, shared
<1>c. Places'
  BY <1>1, <1>2, <1>3 DEF Typed, Places, shared
<1>d. PipeOfOffer'
  BY <1>1, <1>2, <1>3 DEF Typed, PipeOfOffer, shared
<1> QED
  BY <1>a, <1>b, <1>c, <1>d DEF Typed

LEMMA TheyAnswerTyped ==
  ASSUME Typed, TheyAnswer
  PROVE  Typed'
<1>1. /\ pipe = "peer" /\ pipe' \in {"data", "eof"}
      /\ UNCHANGED <<shared, lastHash, queue, reading, offers, live, history, ignored,
                 external, ui, event, outbox, sets, copies, pastes, overlapped>>
  BY DEF TheyAnswer
<1>a. TypeOK'
  BY <1>1 DEF Typed, TypeOK, shared, external
<1>b. Channels'
  BY <1>1 DEF Typed, Channels, shared, external
<1>c. Places'
  BY <1>1 DEF Typed, Places, shared, external
<1>d. PipeOfOffer'
  BY <1>1 DEF Typed, PipeOfOffer, shared, external
<1> QED
  BY <1>a, <1>b, <1>c, <1>d DEF Typed

LEMMA StutterTyped ==
  ASSUME Typed, UNCHANGED vars
  PROVE  Typed'
<1>a. TypeOK'
  BY DEF Typed, TypeOK, shared, thread, external, vars
<1>b. Channels'
  BY DEF Typed, Channels, shared, thread, external, vars
<1>c. Places'
  BY DEF Typed, Places, shared, thread, external, vars
<1>d. PipeOfOffer'
  BY DEF Typed, PipeOfOffer, shared, thread, external, vars
<1> QED
  BY <1>a, <1>b, <1>c, <1>d DEF Typed

\* Every step keeps the types, the two channels well formed, and at most one
\* request of the event thread under way, for the offer it is reading.
LEMMA TypedHolds ==
  ASSUME Typed, [Next]_vars
  PROVE  Typed'
<1>1. CASE SetClipboard \/ Stop \/ UiStep
  BY <1>1, UiTyped, FlushAndUnlockTyped, JoinTyped DEF UiStep
<1>2. CASE EventStep
  BY <1>2, LoopHeadTyped, PollTyped, HandlersTyped, HandleSelectionTyped, ClearedTyped,
     ReceiveTyped, ReadToEndTyped, JudgeContentTyped, LockTyped, CallbackTyped DEF EventStep
<1>3. CASE CompositorStep
  BY <1>3, CompositorSelectsTyped, CompositorForwardsTyped DEF CompositorStep
<1>4. CASE OthersStep
  BY <1>4, TheyCopyTyped, TheyQuitTyped, TheySelectPrimaryTyped, TheyPasteTyped,
     DisconnectTyped DEF OthersStep
<1>5. CASE PeerStep
  BY <1>5, TheyAnswerTyped, ClearedTyped DEF PeerStep
<1>6. CASE UNCHANGED vars
  BY <1>6, StutterTyped
<1> QED
  BY <1>1, <1>2, <1>3, <1>4, <1>5, <1>6 DEF Next

LEMMA InitTyped ==
  ASSUME Init
  PROVE  Typed
<1>1. reading \in [offer : OfferType, next : 1 .. MaxMimes + 1, got : SUBSET (1 .. MaxMimes)]
  BY OffersTyped, WatcherAssumption DEF Init, NotReading
<1>2. selection \in OfferType
  BY OffersTyped DEF Init
<1>3. TypeOK
  <2>1. sets \in 0 .. MaxSets /\ copies \in 0 .. MaxCopies /\ pastes \in 0 .. MaxPastes
    BY WatcherAssumption DEF Init
  <2>2. lastHash = NoHash /\ history = {} /\ offers = {} /\ live = {}
    BY DEF Init
  <2>3. /\ wake \in BOOLEAN /\ preventDeadlock \in BOOLEAN /\ connected \in BOOLEAN
        /\ overlapped \in BOOLEAN
    BY DEF Init
  <2>4. running = "RUNNING" /\ mutex = "free" /\ ui = "idle" /\ event = "loop" /\ pipe = "none"
    BY DEF Init
  <2> QED
    BY <1>1, <1>2, <2>1, <2>2, <2>3, <2>4 DEF TypeOK
<1>4. Channels
  BY EmptySeq DEF Init, Channels
<1>5. Places /\ PipeOfOffer
  BY EmptySeq DEF Init, Places, PipeOfOffer, NotReading
<1> QED
  BY <1>3, <1>4, <1>5 DEF Typed

\* Every variable has its type in every reachable state: what the callback is
\* called with is content another program offered, in types it announced.
THEOREM WatcherTypeOK == Spec => []TypeOK
<1>1. Init => Typed
  BY InitTyped
<1>2. Typed /\ [Next]_vars => Typed'
  BY TypedHolds
<1>3. Typed => TypeOK
  BY DEF Typed
<1> QED
  BY <1>1, <1>2, <1>3, PTL DEF Spec

(***************************************************************************)
(* Sources.  No source is cancelled while a request or a paste for it can  *)
(* still come: the compositor cancels the source of the selection it       *)
(* replaces, and a source it has not heard of yet is in no event.          *)
(***************************************************************************)
Cancels(S, i, s) == S[i].event = "cancelled" /\ S[i].source = s
NotCancelled(S, s) == \A i \in 1 .. Len(S) : ~Cancels(S, i, s)
SendsLive(S, L) ==
  \A i \in 1 .. Len(S) :
    S[i].event = "send" =>
      S[i].source \in L /\ \A j \in 1 .. i - 1 : ~Cancels(S, j, S[i].source)

\* The source is there, and the compositor has not selected it.
Unused(s) ==
  /\ s \in live /\ NotCancelled(Stream, s)
  /\ ~(selection.owner = "own" /\ selection.what = s)

Serving ==
  selection.owner = "own" => selection.what \in live /\ NotCancelled(Stream, selection.what)
CancelsKnown ==
  \A i \in 1 .. Len(Stream) : Stream[i].event = "cancelled" => Stream[i].source \in 1 .. sets
RequestsUnused ==
  \A i \in 1 .. Len(Requests) :
    Requests[i].request = "set_selection" =>
      /\ Unused(Requests[i].source)
      /\ \A j \in 1 .. Len(Requests) :
           Requests[j].request = "set_selection" /\ Requests[j].source = Requests[i].source
             => j = i
NewUnused ==
  ui \in {"marking", "selecting"} =>
    /\ Unused(sets)
    /\ \A i \in 1 .. Len(Requests) :
         Requests[i].request = "set_selection" => Requests[i].source # sets

Sources == SendsLive(Stream, live) /\ Serving /\ CancelsKnown /\ RequestsUnused /\ NewUnused

\* The streams lose what was at their front, or what was not sent.
StreamShifted(k) ==
  \A i \in 1 .. Len(Stream') : i + k \in 1 .. Len(Stream) /\ Stream'[i] = Stream[i + k]
RequestsShifted(k) ==
  \A i \in 1 .. Len(Requests') :
    Requests'[i].request = "set_selection" =>
      i + k \in 1 .. Len(Requests) /\ Requests'[i] = Requests[i + k]
StreamGrown(new) ==
  /\ Len(Stream') = Len(Stream) + Len(new)
  /\ \A i \in 1 .. Len(Stream) : Stream'[i] = Stream[i]
  /\ \A i \in 1 .. Len(Stream') :
       i \notin 1 .. Len(Stream) =>
         i - Len(Stream) \in 1 .. Len(new) /\ Stream'[i] = new[i - Len(Stream)]

LEMMA StreamsTyped ==
  ASSUME Channels
  PROVE  /\ Stream \in Seq(EventType) /\ Len(Stream) \in Nat
         /\ Requests \in Seq(RequestType) /\ Len(Requests) \in Nat
<1>1. SetRequestType \subseteq RequestType
  BY DEF RequestType
<1>2. /\ queue \in Seq(EventType) /\ inbox \in Seq(EventType)
      /\ wire \in Seq(RequestType) /\ outbox \in Seq(RequestType)
  BY <1>1 DEF Channels
<1>3. Stream \in Seq(EventType) /\ Requests \in Seq(RequestType)
  BY <1>2, ConcatProperties DEF Stream, Requests
<1> QED
  BY <1>3, LenProperties

\* The first event of the stream is the one the event thread is at.
LEMMA StreamFirst ==
  ASSUME Channels, queue # <<>>
  PROVE  1 \in 1 .. Len(Stream) /\ Stream[1] = Head(queue)
<1>1. /\ Len(queue) \in Nat \ {0} /\ Head(queue) = queue[1] /\ Len(inbox) \in Nat
  BY TailFacts, LenProperties DEF Channels
<1>2. Len(Stream) = Len(queue) + Len(inbox)
  BY ConcatProperties DEF Channels, Stream
<1>3. Stream[1] = queue[1]
  BY <1>1, ConcatProperties DEF Channels, Stream
<1> QED
  BY <1>1, <1>2, <1>3

LEMMA StreamKept ==
  ASSUME Channels, UNCHANGED <<queue, inbox>>
  PROVE  StreamShifted(0)
<1>1. Stream' = Stream
  BY DEF Stream
<1> QED
  BY <1>1, StreamsTyped DEF StreamShifted

LEMMA StreamTaken ==
  ASSUME Channels, queue # <<>>, queue' = Tail(queue), inbox' = inbox
  PROVE  StreamShifted(1)
<1>1. /\ Len(queue) \in Nat \ {0} /\ Tail(queue) \in Seq(EventType)
      /\ Len(Tail(queue)) = Len(queue) - 1 /\ inbox \in Seq(EventType) /\ Len(inbox) \in Nat
      /\ \A i \in 1 .. Len(queue) - 1 : Tail(queue)[i] = queue[i + 1]
  BY TailFacts, LenProperties DEF Channels
<1>2. /\ Len(Stream) = Len(queue) + Len(inbox)
      /\ \A i \in 1 .. Len(queue) + Len(inbox) :
           Stream[i] = IF i <= Len(queue) THEN queue[i] ELSE inbox[i - Len(queue)]
  BY ConcatProperties DEF Channels, Stream
<1>3. Stream' = Tail(queue) \o inbox
  BY DEF Stream
<1> DEFINE rest == Tail(queue)
<1>4. /\ Len(Stream') = Len(rest) + Len(inbox)
      /\ \A i \in 1 .. Len(rest) + Len(inbox) :
           Stream'[i] = IF i <= Len(rest) THEN rest[i] ELSE inbox[i - Len(rest)]
  BY <1>1, <1>3, ConcatProperties
<1> HIDE DEF rest
<1>5. Len(rest) = Len(queue) - 1 /\ \A i \in 1 .. Len(queue) - 1 : rest[i] = queue[i + 1]
  BY <1>1 DEF rest
<1>6. ASSUME NEW i \in 1 .. Len(Stream')
      PROVE  i + 1 \in 1 .. Len(Stream) /\ Stream'[i] = Stream[i + 1]
  <2>1. i + 1 \in 1 .. Len(Stream) /\ i \in 1 .. Len(rest) + Len(inbox)
    BY <1>1, <1>2, <1>4, <1>5
  <2>2. CASE i <= Len(rest)
    BY <2>1, <2>2, <1>1, <1>2, <1>4, <1>5
  <2>3. CASE ~(i <= Len(rest))
    <3>1. Stream'[i] = inbox[i - Len(rest)] /\ Stream[i + 1] = inbox[(i + 1) - Len(queue)]
      BY <2>1, <2>3, <1>1, <1>2, <1>4, <1>5
    <3>2. i - Len(rest) = (i + 1) - Len(queue)
      BY <1>1, <1>5
    <3> QED
      BY <2>1, <3>1, <3>2
  <2> QED
    BY <2>2, <2>3
<1> QED
  BY <1>6 DEF StreamShifted

LEMMA StreamRead ==
  ASSUME Channels, queue = <<>>, queue' = inbox, inbox' = <<>>
  PROVE  StreamShifted(0)
<1>1. Stream = inbox /\ Stream' = inbox
  BY ConcatEmptySeq DEF Stream, Channels
<1> QED
  BY <1>1, StreamsTyped DEF StreamShifted

LEMMA StreamGrows ==
  ASSUME Channels, NEW new \in Seq(EventType), queue' = queue, inbox' = inbox \o new
  PROVE  StreamGrown(new)
<1>1. Stream' = Stream \o new
  BY SMTT(20), ConcatAssociative DEF Stream, Channels
<1>2. /\ Len(Stream') = Len(Stream) + Len(new)
      /\ \A i \in 1 .. Len(Stream) + Len(new) :
           Stream'[i] = IF i <= Len(Stream) THEN Stream[i] ELSE new[i - Len(Stream)]
  BY <1>1, StreamsTyped, ConcatProperties
<1>3. Len(Stream) \in Nat /\ Len(new) \in Nat
  BY StreamsTyped, LenProperties
<1> QED
  BY <1>2, <1>3 DEF StreamGrown

LEMMA RequestsKept ==
  ASSUME Channels, UNCHANGED <<wire, outbox>>
  PROVE  RequestsShifted(0)
<1>1. Requests' = Requests
  BY DEF Requests
<1> QED
  BY <1>1, StreamsTyped DEF RequestsShifted

\* A flush keeps the requests in their order, or drops those not yet sent.
LEMMA RequestsFlushed ==
  ASSUME Channels, NEW r \in Seq(RequestType), Flush(r),
         \A i \in 1 .. Len(r) : r[i].request # "set_selection"
  PROVE  RequestsShifted(0)
<1>1. wire \in Seq(RequestType) /\ Len(wire) \in Nat /\ Requests \in Seq(RequestType)
      /\ Len(Requests) \in Nat /\ Len(r) \in Nat
  BY StreamsTyped, LenProperties DEF Channels
<1>2. CASE ~connected
  <2>1. Requests' = wire
    BY <1>1, <1>2, ConcatEmptySeq DEF Flush, Requests
  <2>2. SetRequestType \subseteq RequestType
    BY DEF RequestType
  <2>3. outbox \in Seq(RequestType) /\ Len(outbox) \in Nat
    BY <2>2, LenProperties DEF Channels
  <2>4. /\ Len(Requests) = Len(wire) + Len(outbox)
        /\ \A i \in 1 .. Len(wire) + Len(outbox) :
             Requests[i] = IF i <= Len(wire) THEN wire[i] ELSE outbox[i - Len(wire)]
    BY <1>1, <2>3, ConcatProperties DEF Requests
  <2> QED
    BY <1>1, <2>1, <2>3, <2>4 DEF RequestsShifted
<1>3. CASE connected
  <2>1. wire' = Requests \o r /\ outbox' = <<>>
    BY <1>3 DEF Flush, Requests
  <2>2. Requests \o r \in Seq(RequestType)
    BY <1>1, ConcatProperties
  <2>3. Requests' = Requests \o r
    BY <2>1, <2>2, ConcatEmptySeq DEF Requests
  <2>4. /\ Len(Requests') = Len(Requests) + Len(r)
        /\ \A i \in 1 .. Len(Requests) + Len(r) :
             Requests'[i] = IF i <= Len(Requests) THEN Requests[i] ELSE r[i - Len(Requests)]
    BY <1>1, <2>3, ConcatProperties
  <2> QED
    BY <1>1, <2>4 DEF RequestsShifted
<1> QED
  BY <1>2, <1>3

LEMMA FlushKeepsRequests ==
  ASSUME Channels, Flush(<<>>)
  PROVE  RequestsShifted(0)
<1>1. <<>> \in Seq(RequestType) /\ \A i \in 1 .. Len(<<>>) : FALSE
  BY EmptySeq
<1> QED
  BY <1>1, RequestsFlushed

\* When the connection ends, what was sent and not taken up is lost.
LEMMA RequestsLost ==
  ASSUME Channels, wire' = <<>>, outbox' = outbox
  PROVE  Len(wire) \in Nat /\ RequestsShifted(Len(wire))
<1>1. SetRequestType \subseteq RequestType
  BY DEF RequestType
<1>2. /\ wire \in Seq(RequestType) /\ Len(wire) \in Nat
      /\ outbox \in Seq(RequestType) /\ Len(outbox) \in Nat
  BY <1>1, LenProperties DEF Channels
<1>3. Requests' = outbox
  BY <1>2, ConcatEmptySeq DEF Requests
<1>4. /\ Len(Requests) = Len(wire) + Len(outbox)
      /\ \A i \in 1 .. Len(wire) + Len(outbox) :
           Requests[i] = IF i <= Len(wire) THEN wire[i] ELSE outbox[i - Len(wire)]
  BY <1>2, ConcatProperties DEF Requests
<1>5. ASSUME NEW i \in 1 .. Len(outbox)
      PROVE  i + Len(wire) \in 1 .. Len(Requests) /\ outbox[i] = Requests[i + Len(wire)]
  <2>1. i + Len(wire) \in 1 .. Len(wire) + Len(outbox) /\ ~(i + Len(wire) <= Len(wire))
    BY <1>2
  <2>2. (i + Len(wire)) - Len(wire) = i
    BY <1>2
  <2> QED
    BY <1>4, <2>1, <2>2
<1> QED
  BY <1>2, <1>3, <1>5 DEF RequestsShifted

LEMMA RequestTaken ==
  ASSUME Channels, wire # <<>>, wire' = Tail(wire), outbox' = outbox
  PROVE  /\ RequestsShifted(1) /\ 1 \in 1 .. Len(Requests) /\ Requests[1] = Head(wire)
<1>1. SetRequestType \subseteq RequestType
  BY DEF RequestType
<1>2. /\ Len(wire) \in Nat \ {0} /\ Tail(wire) \in Seq(RequestType) /\ wire \in Seq(RequestType)
      /\ Len(Tail(wire)) = Len(wire) - 1 /\ outbox \in Seq(RequestType) /\ Len(outbox) \in Nat
      /\ \A i \in 1 .. Len(wire) - 1 : Tail(wire)[i] = wire[i + 1]
      /\ Head(wire) = wire[1]
  BY <1>1, TailFacts, LenProperties DEF Channels
<1>3. /\ Len(Requests) = Len(wire) + Len(outbox)
      /\ \A i \in 1 .. Len(wire) + Len(outbox) :
           Requests[i] = IF i <= Len(wire) THEN wire[i] ELSE outbox[i - Len(wire)]
  BY <1>2, ConcatProperties DEF Requests
<1> DEFINE rest == Tail(wire)
<1>4. Requests' = rest \o outbox
  BY DEF Requests
<1>5. /\ Len(Requests') = Len(rest) + Len(outbox)
      /\ \A i \in 1 .. Len(rest) + Len(outbox) :
           Requests'[i] = IF i <= Len(rest) THEN rest[i] ELSE outbox[i - Len(rest)]
  BY <1>2, <1>4, ConcatProperties
<1>6. Len(rest) = Len(wire) - 1 /\ \A i \in 1 .. Len(wire) - 1 : rest[i] = wire[i + 1]
  BY <1>2
<1> HIDE DEF rest
<1>7. ASSUME NEW i \in 1 .. Len(Requests')
      PROVE  i + 1 \in 1 .. Len(Requests) /\ Requests'[i] = Requests[i + 1]
  <2>1. i + 1 \in 1 .. Len(Requests) /\ i \in 1 .. Len(rest) + Len(outbox)
    BY <1>2, <1>3, <1>5, <1>6
  <2>2. CASE i <= Len(rest)
    BY <2>1, <2>2, <1>2, <1>3, <1>5, <1>6
  <2>3. CASE ~(i <= Len(rest))
    <3>1. Requests'[i] = outbox[i - Len(rest)] /\ Requests[i + 1] = outbox[(i + 1) - Len(wire)]
      BY <2>1, <2>3, <1>2, <1>3, <1>5, <1>6
    <3>2. i - Len(rest) = (i + 1) - Len(wire)
      BY <1>2, <1>6
    <3> QED
      BY <2>1, <3>1, <3>2
  <2> QED
    BY <2>2, <2>3
<1>8. 1 \in 1 .. Len(Requests) /\ Requests[1] = Head(wire)
  BY <1>2, <1>3
<1> QED
  BY <1>7, <1>8 DEF RequestsShifted

LEMMA RequestAdded ==
  ASSUME Channels, NEW r \in RequestType, wire' = wire, outbox' = Append(outbox, r)
  PROVE  /\ Len(Requests') = Len(Requests) + 1 /\ Requests'[Len(Requests) + 1] = r
         /\ \A i \in 1 .. Len(Requests) : Requests'[i] = Requests[i]
<1>1. SetRequestType \subseteq RequestType
  BY DEF RequestType
<1>2. wire \in Seq(RequestType) /\ outbox \in Seq(RequestType)
  BY <1>1 DEF Channels
<1>3. outbox' = outbox \o <<r>> /\ <<r>> \in Seq(RequestType)
  BY <1>2, AppendIsConcat
<1>4. Requests' = Requests \o <<r>>
  BY <1>2, <1>3, ConcatAssociative DEF Requests
<1>5. Requests \o <<r>> = Append(Requests, r)
  BY StreamsTyped, AppendIsConcat
<1> QED
  BY <1>4, <1>5, StreamsTyped, AppendProperties

\* Steps that take the first event, a cancelled one with its source, or none;
\* the requests lose some, and the threads make no new source.
LEMMA SourcesShrink ==
  ASSUME Typed, Sources, NEW k \in {0, 1}, StreamShifted(k), NEW m \in Nat, RequestsShifted(m),
         UNCHANGED <<selection, sets>>,
         ui' \in {"marking", "selecting"} => ui \in {"marking", "selecting"},
         \A s \in live : s \in live' \/ (k = 1 /\ Len(Stream) > 0 /\ Cancels(Stream, 1, s))
  PROVE  Sources'
<1> USE DEF Cancels, NotCancelled
<1>1. Len(Stream) \in Nat /\ Len(Requests) \in Nat
  BY StreamsTyped DEF Typed
<1>2. \A s : NotCancelled(Stream, s) => NotCancelled(Stream', s)
  BY DEF StreamShifted
<1>3. \A s \in live : NotCancelled(Stream, s) => s \in live'
  BY <1>1
<1>4. \A s : Unused(s) => Unused(s)'
  BY <1>2, <1>3 DEF Unused
<1>5. SendsLive(Stream, live)'
  <2> SUFFICES ASSUME NEW i \in 1 .. Len(Stream'), Stream'[i].event = "send"
               PROVE  /\ Stream'[i].source \in live'
                      /\ \A j \in 1 .. i - 1 : ~Cancels(Stream', j, Stream'[i].source)
    BY DEF SendsLive
  <2>1. i + k \in 1 .. Len(Stream) /\ Stream'[i] = Stream[i + k]
    BY DEF StreamShifted
  <2>2. /\ Stream[i + k].source \in live
        /\ \A j \in 1 .. (i + k) - 1 : ~Cancels(Stream, j, Stream[i + k].source)
    BY <2>1 DEF Sources, SendsLive
  <2>3. Stream'[i].source \in live'
    BY <2>1, <2>2, <1>1
  <2>4. ASSUME NEW j \in 1 .. i - 1 PROVE ~Cancels(Stream', j, Stream'[i].source)
    <3>1. j \in 1 .. Len(Stream') /\ j + k \in 1 .. (i + k) - 1
      BY <2>1, <1>1
    <3>2. Stream'[j] = Stream[j + k]
      BY <3>1 DEF StreamShifted
    <3> QED
      BY <3>1, <3>2, <2>1, <2>2
  <2> QED
    BY <2>3, <2>4
<1>6. Serving'
  BY <1>2, <1>3 DEF Sources, Serving
<1>7. CancelsKnown'
  BY DEF Sources, CancelsKnown, StreamShifted
<1>8. RequestsUnused'
  <2>1. ASSUME NEW i \in 1 .. Len(Requests'), Requests'[i].request = "set_selection",
               NEW s, s = Requests'[i].source
        PROVE  /\ Unused(s)'
               /\ \A j \in 1 .. Len(Requests') :
                    Requests'[j].request = "set_selection" /\ Requests'[j].source = s => j = i
    <3>1. i + m \in 1 .. Len(Requests) /\ Requests'[i] = Requests[i + m]
      BY <2>1 DEF RequestsShifted
    <3>2. /\ Unused(s)
          /\ \A j \in 1 .. Len(Requests) :
               Requests[j].request = "set_selection" /\ Requests[j].source = s => j = i + m
      BY <2>1, <3>1 DEF Sources, RequestsUnused
    <3>3. ASSUME NEW j \in 1 .. Len(Requests'), Requests'[j].request = "set_selection",
                 Requests'[j].source = s
          PROVE  j = i
      <4>1. j + m \in 1 .. Len(Requests) /\ Requests'[j] = Requests[j + m]
        BY <3>3 DEF RequestsShifted
      <4>2. j + m = i + m
        BY <4>1, <3>2, <3>3
      <4> QED
        BY <4>2
    <3> QED
      BY <1>4, <3>2, <3>3
  <2> QED
    BY <2>1 DEF RequestsUnused, Unused
<1>9. NewUnused'
  BY <1>4 DEF Sources, NewUnused, RequestsShifted
<1> QED
  BY <1>5, <1>6, <1>7, <1>8, <1>9 DEF Sources

\* Steps of the compositor and the others that add events: pastes of what is
\* selected, or the end of the selection and the start of another.
LEMMA SourcesGrow ==
  ASSUME Typed, Sources, NEW new \in Seq(EventType), StreamGrown(new),
         NEW m \in Nat, RequestsShifted(m), UNCHANGED <<live, sets, ui>>,
         \A i \in 1 .. Len(new) :
           new[i].event = "send" =>
             /\ selection.owner = "own" /\ new[i].source = selection.what
             /\ \A j \in 1 .. Len(new) : new[j].event # "cancelled",
         \A i \in 1 .. Len(new) :
           new[i].event = "cancelled" =>
             /\ selection.owner = "own" /\ new[i].source = selection.what
             /\ ~(selection'.owner = "own" /\ selection'.what = selection.what),
         \/ selection' = selection
         \/ selection'.owner # "own"
         \/ /\ Unused(selection'.what)
            /\ \A i \in 1 .. Len(Requests') :
                 Requests'[i].request = "set_selection" => Requests'[i].source # selection'.what
            /\ ui \in {"marking", "selecting"} => selection'.what # sets
  PROVE  Sources'
<1> USE DEF Cancels, NotCancelled
<1>1. Len(Stream) \in Nat /\ Len(Requests) \in Nat /\ Len(new) \in Nat
  BY StreamsTyped, LenProperties DEF Typed
<1>2. ASSUME NEW i \in 1 .. Len(Stream'), i \notin 1 .. Len(Stream)
      PROVE  /\ i - Len(Stream) \in 1 .. Len(new) /\ Stream'[i] = new[i - Len(Stream)]
             /\ i > Len(Stream)
  BY <1>2, <1>1 DEF StreamGrown
<1>3. ASSUME NEW s, NotCancelled(Stream, s), ~(selection.owner = "own" /\ selection.what = s)
      PROVE  NotCancelled(Stream', s)
  BY <1>2, <1>3 DEF StreamGrown
<1>4. ASSUME NEW s, NotCancelled(Stream, s), selection'.owner = "own", selection'.what = s
      PROVE  NotCancelled(Stream', s)
  BY <1>2, <1>4 DEF StreamGrown
<1>5. SendsLive(Stream, live)'
  <2>1. ASSUME NEW i \in 1 .. Len(Stream'), Stream'[i].event = "send",
               NEW s, s = Stream'[i].source
        PROVE  s \in live /\ \A j \in 1 .. i - 1 : ~Cancels(Stream', j, s)
    <3>1. CASE i \in 1 .. Len(Stream)
      <4>1. Stream'[i] = Stream[i] /\ \A j \in 1 .. i - 1 : Stream'[j] = Stream[j]
        BY <3>1, <1>1 DEF StreamGrown
      <4> QED
        BY <2>1, <3>1, <4>1 DEF Sources, SendsLive
    <3>2. CASE i \notin 1 .. Len(Stream)
      <4>1. /\ i - Len(Stream) \in 1 .. Len(new) /\ Stream'[i] = new[i - Len(Stream)]
            /\ i > Len(Stream)
        BY <1>2, <3>2
      <4>2. /\ selection.owner = "own" /\ s = selection.what
            /\ \A j \in 1 .. Len(new) : new[j].event # "cancelled"
        BY <2>1, <4>1
      <4>3. s \in live /\ NotCancelled(Stream, s)
        BY <4>2 DEF Sources, Serving
      <4>4. ASSUME NEW j \in 1 .. i - 1 PROVE ~Cancels(Stream', j, s)
        <5>1. j \in 1 .. Len(Stream')
          BY <2>1, <1>1 DEF StreamGrown
        <5>2. CASE j \in 1 .. Len(Stream)
          BY <5>2, <4>3 DEF StreamGrown
        <5>3. CASE j \notin 1 .. Len(Stream)
          BY <5>1, <5>3, <1>2, <4>2
        <5> QED
          BY <5>2, <5>3
      <4> QED
        BY <4>3, <4>4
    <3> QED
      BY <3>1, <3>2
  <2> QED
    BY <2>1 DEF SendsLive
<1>6. Serving'
  <2>1. CASE selection' = selection
    <3>1. selection'.owner = "own" => selection'.what \in live /\ NotCancelled(Stream, selection'.what)
      BY <2>1 DEF Sources, Serving
    <3> QED
      BY <3>1, <1>4 DEF Serving
  <2>2. CASE selection'.owner # "own"
    BY <2>2 DEF Serving
  <2>3. CASE Unused(selection'.what)
    <3>1. selection'.what \in live /\ NotCancelled(Stream, selection'.what)
      BY <2>3 DEF Unused
    <3> QED
      BY <3>1, <1>4 DEF Serving
  <2> QED
    BY <2>1, <2>2, <2>3
<1>7. CancelsKnown'
  <2>1. selection.owner = "own" => selection.what \in 1 .. sets
    BY DEF Sources, Serving, Typed, TypeOK
  <2>2. ASSUME NEW i \in 1 .. Len(Stream'), Stream'[i].event = "cancelled"
        PROVE  Stream'[i].source \in 1 .. sets
    <3>1. CASE i \in 1 .. Len(Stream)
      BY <2>2, <3>1 DEF StreamGrown, Sources, CancelsKnown
    <3>2. CASE i \notin 1 .. Len(Stream)
      BY <2>1, <2>2, <3>2, <1>2
    <3> QED
      BY <3>1, <3>2
  <2> QED
    BY <2>2 DEF CancelsKnown
<1>8. ASSUME NEW s, Unused(s),
             ~(selection'.owner = "own" /\ selection'.what = s /\ selection' # selection)
      PROVE  Unused(s)'
  BY <1>3, <1>8 DEF Unused
<1>9. RequestsUnused'
  <2>1. ASSUME NEW i \in 1 .. Len(Requests'), Requests'[i].request = "set_selection",
               NEW s, s = Requests'[i].source
        PROVE  /\ Unused(s)'
               /\ \A j \in 1 .. Len(Requests') :
                    Requests'[j].request = "set_selection" /\ Requests'[j].source = s => j = i
    <3>1. i + m \in 1 .. Len(Requests) /\ Requests'[i] = Requests[i + m]
      BY <2>1 DEF RequestsShifted
    <3>2. /\ Unused(s)
          /\ \A j \in 1 .. Len(Requests) :
               Requests[j].request = "set_selection" /\ Requests[j].source = s => j = i + m
      BY <2>1, <3>1 DEF Sources, RequestsUnused
    <3>3. ~(selection'.owner = "own" /\ selection'.what = s /\ selection' # selection)
      BY <2>1
    <3>4. ASSUME NEW j \in 1 .. Len(Requests'), Requests'[j].request = "set_selection",
                 Requests'[j].source = s
          PROVE  j = i
      <4>1. j + m \in 1 .. Len(Requests) /\ Requests'[j] = Requests[j + m]
        BY <3>4 DEF RequestsShifted
      <4>2. j + m = i + m
        BY <4>1, <3>2, <3>4
      <4> QED
        BY <4>2
    <3> QED
      BY <1>8, <3>2, <3>3, <3>4
  <2> QED
    BY <2>1 DEF RequestsUnused, Unused
<1>10. NewUnused'
  <2> SUFFICES ASSUME ui' \in {"marking", "selecting"}
               PROVE  /\ Unused(sets)'
                      /\ \A i \in 1 .. Len(Requests') :
                           Requests'[i].request = "set_selection" => Requests'[i].source # sets'
    BY DEF NewUnused
  <2>1. /\ Unused(sets)
        /\ \A i \in 1 .. Len(Requests) :
             Requests[i].request = "set_selection" => Requests[i].source # sets
    BY DEF Sources, NewUnused
  <2>2. ASSUME NEW s, s = sets PROVE Unused(s)'
    BY <2>1, <2>2, <1>8
  <2> QED
    BY <2>1, <2>2 DEF RequestsShifted, Unused
<1> QED
  BY <1>5, <1>6, <1>7, <1>9, <1>10 DEF Sources

\* The first event is a cancelled one in HandleCancelled; the other steps of
\* the two threads leave the sources alone.
LEMMA ThreadsKeepSources ==
  ASSUME Typed, Sources,
         \/ SetClipboard \/ MarkSelection \/ FlushAndUnlock \/ Stop \/ WakeEventThread \/ Join
         \/ LoopHead \/ Poll \/ Dispatched \/ HandleDataOffer \/ HandlePrimarySelection
         \/ HandleSelection \/ ClearFlag \/ Receive \/ ReadToEnd \/ JudgeContent
         \/ LockForCallback \/ UnlockForCallback \/ Callback \/ HandleSend \/ Written
         \/ HandleCancelled \/ TheyAnswer \/ Disconnect \/ UNCHANGED vars
  PROVE  Sources'
<1> USE DEF shared, thread, external
<1>1. Channels
  BY DEF Typed
<1>2. ASSUME UNCHANGED <<queue, inbox, wire, outbox, live, selection, sets>>,
             ui' \in {"marking", "selecting"} => ui \in {"marking", "selecting"}
      PROVE  Sources'
  <2>1. StreamShifted(0) /\ RequestsShifted(0)
    BY <1>1, <1>2, StreamKept, RequestsKept
  <2> QED
    BY <1>2, <2>1, SourcesShrink
<1>3. ASSUME queue # <<>>, queue' = Tail(queue), UNCHANGED <<inbox, wire, outbox, selection, sets, ui>>,
             \A s \in live : s \in live' \/ Cancels(queue, 1, s)
      PROVE  Sources'
  <2>1. StreamShifted(1) /\ RequestsShifted(0)
    BY <1>1, <1>3, StreamTaken, RequestsKept
  <2>2. 1 \in 1 .. Len(Stream) /\ Stream[1] = queue[1]
    BY <1>1, <1>3, StreamFirst, TailFacts DEF Channels
  <2>3. Len(Stream) > 0
    BY <2>2, StreamsTyped, <1>1
  <2>4. \A s \in live : s \in live' \/ (1 = 1 /\ Len(Stream) > 0 /\ Cancels(Stream, 1, s))
    BY <1>3, <2>2, <2>3 DEF Cancels
  <2> QED
    BY <1>3, <2>1, <2>4, SourcesShrink
<1>4. CASE SetClipboard \/ MarkSelection \/ Stop \/ WakeEventThread
  BY <1>2, <1>4 DEF SetClipboard, MarkSelection, Stop, WakeEventThread
<1>5. CASE FlushAndUnlock
  <2>1. /\ Flush(<<>>) /\ ui' = "idle"
        /\ UNCHANGED <<queue, inbox, live, selection, sets>>
    BY <1>5 DEF FlushAndUnlock
  <2>2. StreamShifted(0) /\ RequestsShifted(0)
    BY <2>1, <1>1, StreamKept, FlushKeepsRequests
  <2> QED
    BY <2>1, <2>2, SourcesShrink
<1>6. CASE Join
  <2>1. /\ wire' = <<>> /\ inbox' = <<>> /\ queue' = queue /\ queue = <<>> /\ ui' = "gone"
        /\ UNCHANGED <<outbox, live, selection, sets>>
    BY <1>6 DEF Join, Typed, Places
  <2>2. Len(wire) \in Nat /\ RequestsShifted(Len(wire))
    BY <2>1, <1>1, RequestsLost
  <2>3. StreamShifted(0)
    <3>1. Stream' = <<>>
      BY <2>1 DEF Stream
    <3> QED
      BY <3>1, EmptySeq DEF StreamShifted
  <2> QED
    BY <2>1, <2>2, <2>3, SourcesShrink
<1>7. CASE LoopHead \/ Dispatched
  BY <1>2, <1>7 DEF LoopHead, Dispatched
<1>8. CASE Poll
  <2>1. /\ queue' = inbox /\ inbox' = <<>> /\ queue = <<>>
        /\ UNCHANGED <<live, selection, sets, ui>>
    BY <1>8 DEF Poll, Typed, Places
  <2>2. Flush(<<>>) \/ UNCHANGED <<outbox, wire>>
    BY <1>8 DEF Poll
  <2>3. StreamShifted(0)
    BY <2>1, <1>1, StreamRead
  <2>4. RequestsShifted(0)
    BY <2>2, <1>1, RequestsKept, FlushKeepsRequests
  <2> QED
    BY <2>1, <2>3, <2>4, SourcesShrink
<1>9. CASE HandleDataOffer \/ HandlePrimarySelection
  BY <1>3, <1>9 DEF HandleDataOffer, HandlePrimarySelection, Handling
<1>10. CASE HandleSelection
  <2>1. /\ queue # <<>> /\ queue' \in {queue, Tail(queue)}
        /\ UNCHANGED <<inbox, wire, outbox, live, selection, sets, ui>>
    BY <1>10 DEF HandleSelection, Handling
  <2> QED
    BY <1>2, <1>3, <2>1
<1>11. CASE ClearFlag \/ Written
  BY <1>3, <1>11 DEF ClearFlag, Written, Typed, Places
<1>12. CASE Receive
  <2>1. /\ \/ Flush(<<[request |-> "receive", offer |-> reading.offer]>>)
           \/ UNCHANGED <<wire, outbox>>
        /\ UNCHANGED <<queue, inbox, live, selection, sets, ui>>
    BY <1>12 DEF Receive
  <2> DEFINE r == <<[request |-> "receive", offer |-> reading.offer]>>
  <2>2. r \in Seq(RequestType) /\ \A i \in 1 .. Len(r) : r[i].request # "set_selection"
    BY DEF RequestType, Typed, TypeOK
  <2> HIDE DEF r
  <2>3. RequestsShifted(0)
    <3>1. CASE Flush(r)
      BY <3>1, <2>2, <1>1, RequestsFlushed
    <3>2. CASE UNCHANGED <<wire, outbox>>
      BY <3>2, <1>1, RequestsKept
    <3> QED
      BY <2>1, <3>1, <3>2 DEF r
  <2>4. StreamShifted(0)
    BY <2>1, <1>1, StreamKept
  <2> QED
    BY <2>1, <2>3, <2>4, SourcesShrink
<1>13. CASE ReadToEnd \/ LockForCallback \/ UnlockForCallback \/ HandleSend \/ TheyAnswer
  BY <1>2, <1>13 DEF ReadToEnd, LockForCallback, UnlockForCallback, HandleSend, TheyAnswer
<1>14. CASE JudgeContent \/ Callback
  BY <1>2, <1>14 DEF JudgeContent, Callback
<1>15. CASE HandleCancelled
  <2>1. queue # <<>> /\ Head(queue) = queue[1] /\ Head(queue).event = "cancelled"
    BY <1>1, <1>15, TailFacts DEF HandleCancelled, Handling, Channels
  <2>2. \A s \in live : s \in live' \/ Cancels(queue, 1, s)
    BY <1>15, <2>1 DEF HandleCancelled, Cancels
  <2> QED
    BY <1>3, <1>15, <2>1, <2>2 DEF HandleCancelled
<1>16. CASE Disconnect
  <2>1. /\ wire' = <<>> /\ UNCHANGED <<outbox, queue, inbox, live, selection, sets, ui>>
    BY <1>16 DEF Disconnect
  <2>2. Len(wire) \in Nat /\ RequestsShifted(Len(wire)) /\ StreamShifted(0)
    BY <2>1, <1>1, RequestsLost, StreamKept
  <2> QED
    BY <2>1, <2>2, SourcesShrink
<1>17. CASE UNCHANGED vars
  BY <1>2, <1>17 DEF vars
<1> QED
  BY <1>4, <1>5, <1>6, <1>7, <1>8, <1>9, <1>10, <1>11, <1>12, <1>13, <1>14, <1>15, <1>16, <1>17

\* A new source is in no event and in no request.
LEMMA CreateSourceKeepsSources ==
  ASSUME Typed, Sources, CreateSource
  PROVE  Sources'
<1>1. /\ UNCHANGED <<queue, inbox, wire, outbox, selection>> /\ ui' = "marking"
      /\ sets' = sets + 1 /\ live' = live \cup {sets + 1}
  BY DEF CreateSource, external
<1>2. Stream' = Stream /\ Requests' = Requests
  BY <1>1 DEF Stream, Requests
<1>3. sets \in Nat /\ live \subseteq 1 .. sets
  BY WatcherAssumption DEF Typed, TypeOK
<1>4. SendsLive(Stream, live)' /\ Serving' /\ CancelsKnown'
  BY <1>1, <1>2, <1>3 DEF Sources, SendsLive, Serving, CancelsKnown
<1>5. \A s : Unused(s) => Unused(s)'
  BY <1>1, <1>2 DEF Unused
<1>6. RequestsUnused'
  BY <1>1, <1>2 DEF Sources, RequestsUnused, Unused
<1>7. NewUnused'
  <2>1. NotCancelled(Stream, sets + 1)
    BY <1>3 DEF Sources, CancelsKnown, NotCancelled, Cancels
  <2>2. ~(selection.owner = "own" /\ selection.what = sets + 1)
    BY <1>3 DEF Sources, Serving
  <2>3. \A i \in 1 .. Len(Requests) :
          Requests[i].request = "set_selection" => Requests[i].source # sets + 1
    BY <1>3 DEF Sources, RequestsUnused, Unused
  <2> QED
    BY <1>1, <1>2, <2>1, <2>2, <2>3 DEF NewUnused, Unused
<1> QED
  BY <1>4, <1>6, <1>7 DEF Sources

LEMMA SetSelectionKeepsSources ==
  ASSUME Typed, Sources, SetSelection
  PROVE  Sources'
<1> DEFINE r == [request |-> "set_selection", source |-> sets]
<1>1. /\ UNCHANGED <<queue, inbox, wire, selection, live, sets>>
      /\ ui = "selecting" /\ ui' = "flushing" /\ outbox' = Append(outbox, r)
  BY DEF SetSelection, external, thread
<1>2. r \in RequestType /\ r.request = "set_selection" /\ r.source = sets
  BY <1>1 DEF RequestType, SetRequestType, Typed, TypeOK, Places
<1> HIDE DEF r
<1>3. /\ Len(Requests') = Len(Requests) + 1 /\ Requests'[Len(Requests) + 1] = r
      /\ \A i \in 1 .. Len(Requests) : Requests'[i] = Requests[i]
  BY <1>1, <1>2, RequestAdded DEF Typed
<1>4. Stream' = Stream /\ Len(Requests) \in Nat
  BY <1>1, StreamsTyped DEF Stream, Typed
<1>5. SendsLive(Stream, live)' /\ Serving' /\ CancelsKnown'
  BY <1>1, <1>4 DEF Sources, SendsLive, Serving, CancelsKnown
<1>6. NewUnused'
  BY <1>1 DEF NewUnused
<1>7. /\ Unused(sets)
      /\ \A i \in 1 .. Len(Requests) :
           Requests[i].request = "set_selection" => Requests[i].source # sets
  BY <1>1 DEF Sources, NewUnused
<1>8. RequestsUnused'
  <2>1. ASSUME NEW i \in 1 .. Len(Requests'), Requests'[i].request = "set_selection",
               NEW s, s = Requests'[i].source
        PROVE  /\ Unused(s)
               /\ \A j \in 1 .. Len(Requests') :
                    Requests'[j].request = "set_selection" /\ Requests'[j].source = s => j = i
    <3>1. CASE i \in 1 .. Len(Requests)
      <4>1. /\ Unused(s) /\ s # sets
            /\ \A j \in 1 .. Len(Requests) :
                 Requests[j].request = "set_selection" /\ Requests[j].source = s => j = i
        BY <2>1, <3>1, <1>3, <1>7 DEF Sources, RequestsUnused
      <4> QED
        BY <4>1, <1>2, <1>3, <1>4
    <3>2. CASE i = Len(Requests) + 1
      <4>1. s = sets
        BY <2>1, <3>2, <1>2, <1>3
      <4> QED
        BY <4>1, <3>2, <1>3, <1>4, <1>7
    <3> QED
      BY <3>1, <3>2, <1>3, <1>4
  <2> QED
    BY <2>1, <1>1, <1>4 DEF RequestsUnused, Unused
<1> QED
  BY <1>5, <1>6, <1>8 DEF Sources

\* What is announced is an offer or nothing; what ends is told to its owner.
LEMMA SelectEvents ==
  ASSUME Typed, NEW o \in OfferType, Select(o)
  PROVE  \E new \in Seq(EventType) :
           /\ inbox' = inbox \o new
           /\ \A i \in 1 .. Len(new) : new[i].event \in {"cancelled", "data_offer", "selection"}
           /\ \A i \in 1 .. Len(new) :
                new[i].event = "cancelled" =>
                  selection.owner = "own" /\ new[i].source = selection.what
           /\ \A i \in 1 .. Len(new) : new[i].event = "selection" => new[i].offer = o
           /\ \A i, j \in 1 .. Len(new) :
                new[i].event = "selection" /\ new[j].event = "selection" => i = j
<1> DEFINE a == Announce(o, "selection")
<1>1. /\ Cancelled \in Seq(EventType) /\ a \in Seq(EventType)
      /\ inbox \in Seq(EventType) /\ Len(Cancelled) \in Nat /\ Len(a) \in Nat
  BY CancelledTyped, AnnounceTyped, LenProperties DEF Typed, TypeOK, Channels
<1>2. /\ \A i \in 1 .. Len(Cancelled) : Cancelled[i].event = "cancelled"
      /\ \A i \in 1 .. Len(Cancelled) :
           selection.owner = "own" /\ Cancelled[i].source = selection.what
  BY DEF Cancelled
<1>3. /\ \A i \in 1 .. Len(a) : a[i].event \in {"data_offer", "selection"}
      /\ \A i \in 1 .. Len(a) : a[i].event = "selection" => a[i].offer = o /\ i = Len(a)
  <2>1. CASE o = NoOffer
    BY <2>1 DEF Announce
  <2>2. CASE o # NoOffer
    BY <2>2 DEF Announce
  <2> QED
    BY <2>1, <2>2
<1> HIDE DEF a
<1> DEFINE new == Cancelled \o a
<1>4. /\ new \in Seq(EventType) /\ Len(new) = Len(Cancelled) + Len(a)
      /\ \A i \in 1 .. Len(Cancelled) + Len(a) :
           new[i] = IF i <= Len(Cancelled) THEN Cancelled[i] ELSE a[i - Len(Cancelled)]
  BY <1>1, ConcatProperties
<1>5. inbox' = inbox \o new
  BY <1>1, ConcatAssociative DEF Select, a
<1> HIDE DEF new
<1>6. ASSUME NEW i \in 1 .. Len(new)
      PROVE  \/ i \in 1 .. Len(Cancelled) /\ new[i] = Cancelled[i]
             \/ i - Len(Cancelled) \in 1 .. Len(a) /\ new[i] = a[i - Len(Cancelled)]
  BY <1>1, <1>4
<1>7. \A i \in 1 .. Len(new) :
        /\ new[i].event \in {"cancelled", "data_offer", "selection"}
        /\ new[i].event = "cancelled" => selection.owner = "own" /\ new[i].source = selection.what
        /\ new[i].event = "selection" => new[i].offer = o /\ i = Len(new)
  <2> TAKE i \in 1 .. Len(new)
  <2>1. CASE i \in 1 .. Len(Cancelled) /\ new[i] = Cancelled[i]
    BY <2>1, <1>2
  <2>2. CASE i - Len(Cancelled) \in 1 .. Len(a) /\ new[i] = a[i - Len(Cancelled)]
    <3>1. new[i].event = "selection" => i - Len(Cancelled) = Len(a)
      BY <2>2, <1>3
    <3> QED
      BY <2>2, <3>1, <1>3, <1>1, <1>4
  <2> QED
    BY <1>6, <2>1, <2>2
<1> QED
  BY <1>4, <1>5, <1>7

LEMMA CompositorSelectsKeepsSources ==
  ASSUME Typed, Sources, CompositorSelects
  PROVE  Sources'
<1>1. /\ wire # <<>> /\ Head(wire).request = "set_selection" /\ Select(OwnOffer(Head(wire).source))
      /\ wire' = Tail(wire) /\ UNCHANGED <<queue, outbox, live, sets, ui>>
  BY DEF CompositorSelects, thread
<1> DEFINE s == Head(wire).source
<1>2. s \in 1 .. MaxSets
  BY <1>1, TakeRequest DEF RequestType, SetRequestType
<1>3. RequestsShifted(1) /\ 1 \in 1 .. Len(Requests) /\ Requests[1] = Head(wire)
  BY <1>1, RequestTaken DEF Typed
<1>4. /\ selection' = OwnOffer(s) /\ selection'.owner = "own" /\ selection'.what = s
  BY <1>1 DEF Select, OwnOffer
<1>5. /\ Unused(s)
      /\ \A j \in 1 .. Len(Requests) :
           Requests[j].request = "set_selection" /\ Requests[j].source = s => j = 1
      /\ ui \in {"marking", "selecting"} => s # sets
  BY <1>1, <1>3 DEF Sources, RequestsUnused, NewUnused
<1>6. \A i \in 1 .. Len(Requests') :
        Requests'[i].request = "set_selection" => Requests'[i].source # s
  BY <1>3, <1>5 DEF RequestsShifted
<1>7. OwnOffer(s) \in OfferType
  BY <1>2, OffersTyped
<1>8. PICK new \in Seq(EventType) :
        /\ inbox' = inbox \o new
        /\ \A i \in 1 .. Len(new) : new[i].event \in {"cancelled", "data_offer", "selection"}
        /\ \A i \in 1 .. Len(new) :
             new[i].event = "cancelled" =>
               selection.owner = "own" /\ new[i].source = selection.what
  BY <1>1, <1>7, SelectEvents
<1>9. StreamGrown(new)
  BY <1>1, <1>8, StreamGrows DEF Typed
<1> HIDE DEF s
<1>10. ~(selection.owner = "own" /\ selection.what = s)
  BY <1>5 DEF Unused
<1> QED
  BY <1>1, <1>3, <1>4, <1>5, <1>6, <1>8, <1>9, <1>10, SourcesGrow

\* A paste of what is selected.
LEMMA PasteKeepsSources ==
  ASSUME Typed, Sources, selection.owner = "own",
         inbox' = Append(inbox, [event |-> "send", source |-> selection.what]),
         NEW m \in Nat, RequestsShifted(m), UNCHANGED <<queue, live, sets, ui, selection>>
  PROVE  Sources'
<1> DEFINE e == [event |-> "send", source |-> selection.what]
           new == <<e>>
<1>1. e \in EventType /\ e.event = "send" /\ e.source = selection.what
  BY OfferFields DEF EventType, Typed, TypeOK
<1> HIDE DEF e
<1>2. inbox' = inbox \o new /\ new \in Seq(EventType) /\ \A i \in 1 .. Len(new) : new[i] = e
  BY <1>1, AppendIsConcat DEF Typed, Channels, e
<1> HIDE DEF new
<1>3. StreamGrown(new)
  BY <1>2, StreamGrows DEF Typed
<1> QED
  BY <1>1, <1>2, <1>3, SourcesGrow

LEMMA CompositorForwardsKeepsSources ==
  ASSUME Typed, Sources, CompositorForwards
  PROVE  Sources'
<1>1. /\ wire # <<>> /\ wire' = Tail(wire)
      /\ UNCHANGED <<queue, outbox, live, sets, ui, selection>>
  BY DEF CompositorForwards
<1>2. RequestsShifted(1)
  BY <1>1, RequestTaken DEF Typed
<1>3. CASE inbox' = inbox
  <2>1. StreamShifted(0)
    BY <1>1, <1>3, StreamKept DEF Typed
  <2> QED
    BY <1>1, <1>2, <2>1, SourcesShrink
<1>4. CASE /\ selection.owner = "own"
           /\ inbox' = Append(inbox, [event |-> "send", source |-> selection.what])
  BY <1>1, <1>2, <1>4, PasteKeepsSources
<1> QED
  BY <1>3, <1>4, ForwardCases

LEMMA OthersKeepSources ==
  ASSUME Typed, Sources,
         \/ \E c \in Contents : TheySelectPrimary(c) \/ \E n \in 0 .. MaxMimes : TheyCopy(c, n)
         \/ TheyQuit \/ TheyPaste
  PROVE  Sources'
<1>1. ASSUME NEW o \in OfferType, o.owner # "own", Select(o),
             UNCHANGED <<queue, wire, outbox, live, sets, ui>>
      PROVE  Sources'
  <2>1. selection' = o /\ selection'.owner # "own"
    BY <1>1 DEF Select
  <2>2. PICK new \in Seq(EventType) :
          /\ inbox' = inbox \o new
          /\ \A i \in 1 .. Len(new) : new[i].event \in {"cancelled", "data_offer", "selection"}
          /\ \A i \in 1 .. Len(new) :
               new[i].event = "cancelled" =>
                 selection.owner = "own" /\ new[i].source = selection.what
    BY <1>1, SelectEvents
  <2>3. StreamGrown(new) /\ RequestsShifted(0)
    BY <1>1, <2>2, StreamGrows, RequestsKept DEF Typed
  <2> QED
    BY <1>1, <2>1, <2>2, <2>3, SourcesGrow
<1>2. ASSUME NEW c \in Contents, NEW n \in 0 .. MaxMimes, TheyCopy(c, n) PROVE Sources'
  <2>1. /\ OthersAct /\ Select(TheirOffer(c, n)) /\ UNCHANGED <<queue, wire, outbox, live, sets, ui>>
    BY <1>2 DEF TheyCopy, thread
  <2>2. TheirOffer(c, n) \in OfferType /\ TheirOffer(c, n).owner # "own"
    <3>1. TheirOffer(c, n).owner # "own"
      BY DEF TheirOffer
    <3> QED
      BY <2>1, <3>1, OthersActTyped, TheirOfferTyped DEF Typed
  <2> QED
    BY <2>1, <2>2, <1>1
<1>3. CASE TheyQuit
  <2>1. Select(NoOffer) /\ UNCHANGED <<queue, wire, outbox, live, sets, ui>>
    BY <1>3 DEF TheyQuit
  <2> QED
    BY <2>1, OffersTyped, <1>1
<1>4. ASSUME NEW c \in Contents, TheySelectPrimary(c) PROVE Sources'
  <2>1. /\ OthersAct /\ inbox' = inbox \o Announce(TheirOffer(c, 1), "primary_selection")
        /\ UNCHANGED <<queue, wire, outbox, live, sets, ui, selection>>
    BY <1>4 DEF TheySelectPrimary, thread
  <2> DEFINE new == Announce(TheirOffer(c, 1), "primary_selection")
  <2>2. TheirOffer(c, 1) \in OfferType
    BY <2>1, OthersActTyped, TheirOfferTyped, WatcherAssumption DEF Typed
  <2>3. /\ new \in Seq(EventType)
        /\ \A i \in 1 .. Len(new) : new[i].event \notin {"send", "cancelled"}
    <3>1. new \in Seq(EventType)
      BY <2>2, AnnounceTyped
    <3>2. CASE TheirOffer(c, 1) = NoOffer
      BY <3>1, <3>2 DEF Announce
    <3>3. CASE TheirOffer(c, 1) # NoOffer
      BY <3>1, <3>3 DEF Announce
    <3> QED
      BY <3>1, <3>2, <3>3
  <2> HIDE DEF new
  <2>4. StreamGrown(new) /\ RequestsShifted(0)
    BY <2>1, <2>3, StreamGrows, RequestsKept DEF Typed, new
  <2> QED
    BY <2>1, <2>3, <2>4, SourcesGrow
<1>5. CASE TheyPaste
  <2>1. /\ selection.owner = "own"
        /\ inbox' = Append(inbox, [event |-> "send", source |-> selection.what])
        /\ UNCHANGED <<queue, wire, outbox, live, sets, ui, selection>>
    BY <1>5 DEF TheyPaste, thread
  <2>2. RequestsShifted(0)
    BY <2>1, RequestsKept DEF Typed
  <2> QED
    BY <2>1, <2>2, PasteKeepsSources
<1> QED
  BY <1>2, <1>3, <1>4, <1>5

LEMMA SourcesHold ==
  ASSUME Typed, Sources, [Next]_vars
  PROVE  Sources'
BY ThreadsKeepSources, CreateSourceKeepsSources, SetSelectionKeepsSources,
   CompositorSelectsKeepsSources, CompositorForwardsKeepsSources, OthersKeepSources
   DEF Next, UiStep, EventStep, CompositorStep, OthersStep, PeerStep

LEMMA InitSources ==
  ASSUME Init
  PROVE  Sources
<1>1. Stream = <<>> /\ Requests = <<>> /\ ui = "idle" /\ selection.owner = "none"
  BY OffersTyped DEF Init, Stream, Requests
<1> QED
  BY <1>1 DEF Sources, SendsLive, Serving, CancelsKnown, RequestsUnused, NewUnused

\* Whatever order pastes, cancellations and new selections come in, for any
\* number of them: the data the send handler writes has not been freed.
THEOREM AlwaysSendsLiveData == Spec => []SendsLiveData
<1>1. Init => Typed /\ Sources
  BY InitTyped, InitSources
<1>2. Typed /\ Sources /\ [Next]_vars => Typed' /\ Sources'
  BY TypedHolds, SourcesHold
<1>3. Typed /\ Sources => SendsLiveData
  <2> SUFFICES ASSUME Typed, Sources, Handling("send") PROVE Head(queue).source \in live
    BY DEF SendsLiveData
  <2>1. 1 \in 1 .. Len(Stream) /\ Stream[1] = Head(queue) /\ Stream[1].event = "send"
    BY StreamFirst DEF Handling, Typed
  <2> QED
    BY <2>1 DEF Sources, SendsLive
<1> QED
  BY <1>1, <1>2, <1>3, PTL DEF Spec

(***************************************************************************)
(* Quiet use.  While copies by us and by others do not overlap, the raised *)
(* flag stands for the one selection event of ours that is asked for or on *)
(* its way, and no selection event of another program is.                  *)
(***************************************************************************)
Own(S, i)   == S[i].event = "selection" /\ S[i].offer.owner = "own"
Other(S, i) == S[i].event = "selection" /\ S[i].offer.owner # "own"
NoOwn    == \A i \in 1 .. Len(Stream) : ~Own(Stream, i)
NoOther  == \A i \in 1 .. Len(Stream) : ~Other(Stream, i)
NoAsking == \A i \in 1 .. Len(Requests) : Requests[i].request # "set_selection"

OneReturning ==
  /\ NoOwn \/ NoAsking
  /\ \A i, j \in 1 .. Len(Stream) : Own(Stream, i) /\ Own(Stream, j) => i = j
  /\ \A i, j \in 1 .. Len(Requests) :
       Requests[i].request = "set_selection" /\ Requests[j].request = "set_selection" => i = j

FlagKnown ==
  /\ event = "clearing" => preventDeadlock
  /\ ui \in {"calling", "marking"} => ~preventDeadlock
  /\ ~preventDeadlock => NoOwn /\ NoAsking /\ ui # "selecting"
  /\ preventDeadlock \/ ui \in {"calling", "marking"} => NoOther
  /\ ui = "selecting" => NoOwn /\ NoAsking

ReadingOthers == reading.offer.owner # "own" /\ pipe # "self"

Quiet == OneReturning /\ FlagKnown /\ ReadingOthers

LEMMA QuietShrinks ==
  ASSUME Typed, Quiet, NEW k \in {0, 1}, StreamShifted(k), NEW m \in Nat, RequestsShifted(m),
         ReadingOthers', event' = "clearing" => preventDeadlock, preventDeadlock' = preventDeadlock,
         ui' \in {"calling", "marking", "selecting"} => ui' = ui \/ (ui = "calling" /\ ui' = "marking")
  PROVE  Quiet'
<1> USE DEF Own, Other
<1>1. Len(Stream) \in Nat /\ Len(Requests) \in Nat
  BY StreamsTyped DEF Typed
<1>2. (NoOwn => NoOwn') /\ (NoOther => NoOther') /\ (NoAsking => NoAsking')
  BY DEF NoOwn, NoOther, NoAsking, StreamShifted, RequestsShifted
<1>3. OneReturning'
  <2>1. ASSUME NEW i \in 1 .. Len(Stream'), NEW j \in 1 .. Len(Stream'),
               Own(Stream', i), Own(Stream', j)
        PROVE  i = j
    <3>1. i + k \in 1 .. Len(Stream) /\ j + k \in 1 .. Len(Stream)
          /\ Own(Stream, i + k) /\ Own(Stream, j + k)
      BY <2>1 DEF StreamShifted
    <3>2. i + k = j + k
      BY <3>1 DEF Quiet, OneReturning
    <3> QED
      BY <3>2
  <2>2. ASSUME NEW i \in 1 .. Len(Requests'), NEW j \in 1 .. Len(Requests'),
               Requests'[i].request = "set_selection", Requests'[j].request = "set_selection"
        PROVE  i = j
    <3>1. i + m \in 1 .. Len(Requests) /\ j + m \in 1 .. Len(Requests)
          /\ Requests[i + m].request = "set_selection" /\ Requests[j + m].request = "set_selection"
      BY <2>2 DEF RequestsShifted
    <3>2. i + m = j + m
      BY <3>1 DEF Quiet, OneReturning
    <3> QED
      BY <3>2
  <2>3. (NoOwn \/ NoAsking)'
    BY <1>2 DEF Quiet, OneReturning
  <2> QED
    BY <2>1, <2>2, <2>3 DEF OneReturning
<1>4. FlagKnown'
  BY <1>2 DEF Quiet, FlagKnown
<1> QED
  BY <1>3, <1>4 DEF Quiet

\* Events of others come only when the flag is down.
LEMMA QuietGrows ==
  ASSUME Typed, Quiet, NEW new \in Seq(EventType), StreamGrown(new), RequestsShifted(0),
         UNCHANGED <<preventDeadlock, ui, event>>, ReadingOthers',
         \A i \in 1 .. Len(new) :
           new[i].event = "selection" =>
             /\ new[i].offer.owner # "own"
             /\ ~preventDeadlock /\ ui \notin {"calling", "marking"}
  PROVE  Quiet'
<1> USE DEF Own, Other
<1>1. Len(Stream) \in Nat /\ Len(new) \in Nat
  BY StreamsTyped, LenProperties DEF Typed
<1>2. ASSUME NEW i \in 1 .. Len(Stream'), Own(Stream', i)
      PROVE  i \in 1 .. Len(Stream) /\ Own(Stream, i)
  BY <1>2 DEF StreamGrown
<1>3. (NoOwn => NoOwn') /\ (NoAsking => NoAsking')
  BY <1>2 DEF NoOwn, NoAsking, RequestsShifted
<1>4. preventDeadlock \/ ui \in {"calling", "marking"} => NoOther'
  <2> SUFFICES ASSUME preventDeadlock \/ ui \in {"calling", "marking"},
                      NEW i \in 1 .. Len(Stream'), Other(Stream', i)
               PROVE  FALSE
    BY DEF NoOther
  <2>1. i \in 1 .. Len(Stream) /\ Other(Stream, i)
    BY DEF StreamGrown
  <2> QED
    BY <2>1 DEF Quiet, FlagKnown, NoOther
<1>5. OneReturning'
  <2>1. \A i, j \in 1 .. Len(Stream') : Own(Stream', i) /\ Own(Stream', j) => i = j
    BY <1>2 DEF Quiet, OneReturning
  <2>2. \A i, j \in 1 .. Len(Requests') :
          Requests'[i].request = "set_selection" /\ Requests'[j].request = "set_selection" => i = j
    BY DEF Quiet, OneReturning, RequestsShifted
  <2> QED
    BY <1>3, <2>1, <2>2 DEF Quiet, OneReturning
<1>6. FlagKnown'
  BY <1>3, <1>4 DEF Quiet, FlagKnown
<1> QED
  BY <1>5, <1>6 DEF Quiet

\* A copy by us begins when nothing is under way.
LEMMA SetClipboardQuiet ==
  ASSUME Typed, Quiet, SetClipboard, ~overlapped'
  PROVE  Quiet'
<1>1. /\ outbox = <<>> /\ wire = <<>> /\ inbox = <<>> /\ queue = <<>>
      /\ event \in {"loop", "poll"} /\ ~preventDeadlock
  BY DEF SetClipboard, Settled
<1>2. /\ UNCHANGED <<outbox, wire, inbox, queue, event, preventDeadlock, reading, pipe>>
      /\ ui' = "calling"
  BY DEF SetClipboard, shared, thread, external
<1>3. Stream' = <<>> /\ Requests' = <<>>
  BY <1>1, <1>2 DEF Stream, Requests
<1>4. NoOwn' /\ NoOther' /\ NoAsking'
  BY <1>3 DEF NoOwn, NoOther, NoAsking
<1>5. OneReturning'
  BY <1>3 DEF OneReturning, NoOwn, NoAsking
<1>6. FlagKnown' /\ ReadingOthers'
  BY <1>1, <1>2, <1>4 DEF FlagKnown, ReadingOthers, Quiet
<1> QED
  BY <1>5, <1>6 DEF Quiet

LEMMA MarkSelectionQuiet ==
  ASSUME Typed, Quiet, MarkSelection
  PROVE  Quiet'
<1>1. /\ ui = "marking" /\ ui' = "selecting" /\ preventDeadlock'
      /\ UNCHANGED <<outbox, wire, inbox, queue, event, reading, pipe>>
  BY DEF MarkSelection, thread, external
<1>2. Stream' = Stream /\ Requests' = Requests
  BY <1>1 DEF Stream, Requests
<1>3. NoOwn /\ NoOther /\ NoAsking
  BY <1>1 DEF Quiet, FlagKnown
<1>4. NoOwn' /\ NoOther' /\ NoAsking'
  BY <1>2, <1>3 DEF NoOwn, NoOther, NoAsking
<1>5. OneReturning'
  BY <1>2, <1>4 DEF Quiet, OneReturning
<1>6. FlagKnown' /\ ReadingOthers'
  BY <1>1, <1>4 DEF FlagKnown, ReadingOthers, Quiet
<1> QED
  BY <1>5, <1>6 DEF Quiet

LEMMA SetSelectionQuiet ==
  ASSUME Typed, Quiet, SetSelection
  PROVE  Quiet'
<1> DEFINE r == [request |-> "set_selection", source |-> sets]
<1>1. /\ UNCHANGED <<queue, inbox, wire, event, reading, pipe, preventDeadlock>>
      /\ ui = "selecting" /\ ui' = "flushing" /\ outbox' = Append(outbox, r)
  BY DEF SetSelection, external, thread, shared
<1>2. r \in RequestType
  BY <1>1 DEF RequestType, SetRequestType, Typed, TypeOK, Places
<1> HIDE DEF r
<1>3. /\ Len(Requests') = Len(Requests) + 1 /\ Len(Requests) \in Nat
      /\ \A i \in 1 .. Len(Requests) : Requests'[i] = Requests[i]
  BY <1>1, <1>2, RequestAdded, StreamsTyped DEF Typed
<1>4. Stream' = Stream
  BY <1>1 DEF Stream
<1>5. NoOwn /\ NoAsking /\ preventDeadlock
  BY <1>1 DEF Quiet, FlagKnown
<1>6. NoOwn' /\ (NoOther => NoOther')
  BY <1>4, <1>5 DEF NoOwn, NoOther
<1>7. \A i, j \in 1 .. Len(Requests') :
        Requests'[i].request = "set_selection" /\ Requests'[j].request = "set_selection" => i = j
  BY <1>3, <1>5 DEF NoAsking
<1>8. OneReturning'
  BY <1>6, <1>7 DEF OneReturning, NoOwn
<1>9. FlagKnown' /\ ReadingOthers'
  BY <1>1, <1>5, <1>6 DEF FlagKnown, ReadingOthers, Quiet
<1> QED
  BY <1>8, <1>9 DEF Quiet

\* The selection event the flag is lowered for is the one that was awaited.
LEMMA ClearFlagQuiet ==
  ASSUME Typed, Quiet, ClearFlag
  PROVE  Quiet'
<1> USE DEF Own, Other
<1>1. /\ event = "clearing" /\ event' = "dispatch" /\ ~preventDeadlock' /\ queue' = Tail(queue)
      /\ UNCHANGED <<inbox, wire, outbox, reading, pipe, ui>>
  BY DEF ClearFlag, external
<1>2. queue # <<>> /\ Head(queue).event = "selection" /\ preventDeadlock
  BY <1>1 DEF Typed, Places, Quiet, FlagKnown
<1>3. 1 \in 1 .. Len(Stream) /\ Stream[1] = Head(queue)
  BY <1>2, StreamFirst DEF Typed
<1>4. Own(Stream, 1)
  BY <1>2, <1>3 DEF Quiet, FlagKnown, NoOther
<1>5. StreamShifted(1) /\ RequestsShifted(0)
  BY <1>1, <1>2, StreamTaken, RequestsKept DEF Typed
<1>6. NoAsking /\ ~NoOwn
  BY <1>3, <1>4 DEF Quiet, OneReturning, NoOwn
<1>7. NoOwn'
  <2> SUFFICES ASSUME NEW i \in 1 .. Len(Stream'), Own(Stream', i) PROVE FALSE
    BY DEF NoOwn
  <2>1. i + 1 \in 1 .. Len(Stream) /\ Own(Stream, i + 1)
    BY <1>5 DEF StreamShifted
  <2>2. i + 1 = 1
    BY <1>3, <1>4, <2>1 DEF Quiet, OneReturning
  <2> QED
    BY <2>2
<1>8. NoAsking' /\ Requests' = Requests
  BY <1>1, <1>6 DEF NoAsking, Requests
<1>9. ui \notin {"calling", "marking", "selecting"}
  BY <1>2, <1>6 DEF Quiet, FlagKnown
<1>10. OneReturning'
  BY <1>7, <1>8 DEF OneReturning, NoOwn, NoAsking
<1>11. FlagKnown' /\ ReadingOthers'
  BY <1>1, <1>7, <1>8, <1>9 DEF FlagKnown, ReadingOthers, Quiet
<1> QED
  BY <1>10, <1>11 DEF Quiet

LEMMA HandleSelectionQuiet ==
  ASSUME Typed, Quiet, HandleSelection
  PROVE  Quiet'
<1>1. /\ queue # <<>> /\ Head(queue).event = "selection"
      /\ UNCHANGED <<inbox, wire, outbox, pipe, ui, preventDeadlock>>
  BY DEF HandleSelection, Handling, shared, external
<1>2. RequestsShifted(0)
  BY <1>1, RequestsKept DEF Typed
<1>3. CASE preventDeadlock
  <2>1. event' = "clearing" /\ UNCHANGED <<queue, reading>>
    BY <1>3 DEF HandleSelection
  <2>2. StreamShifted(0)
    BY <1>1, <2>1, StreamKept DEF Typed
  <2>3. ReadingOthers'
    BY <1>1, <2>1 DEF Quiet, ReadingOthers
  <2> QED
    BY <1>1, <1>2, <1>3, <2>1, <2>2, <2>3, QuietShrinks
<1>4. CASE ~preventDeadlock
  <2>1. 1 \in 1 .. Len(Stream) /\ Stream[1] = Head(queue)
    BY <1>1, StreamFirst DEF Typed
  <2>2. Head(queue).offer.owner # "own"
    BY <1>1, <1>4, <2>1 DEF Quiet, FlagKnown, NoOwn, Own
  <2>3. /\ queue' = Tail(queue) /\ event' # "clearing"
        /\ reading' = reading \/ reading'.offer = Head(queue).offer
    <3>1. event = "dispatch"
      BY DEF HandleSelection, Handling
    <3>2. CASE Head(queue).offer = NoOffer
      BY <1>4, <3>1, <3>2 DEF HandleSelection
    <3>3. CASE Head(queue).offer # NoOffer
      <4>1. /\ event' = "reading" /\ queue' = Tail(queue)
            /\ reading' = [offer |-> Head(queue).offer, next |-> 1, got |-> {}]
        BY <1>4, <3>3 DEF HandleSelection
      <4> QED
        BY <4>1
    <3> QED
      BY <3>2, <3>3
  <2>4. StreamShifted(1)
    BY <1>1, <2>3, StreamTaken DEF Typed
  <2>5. ReadingOthers'
    BY <1>1, <2>2, <2>3 DEF Quiet, ReadingOthers
  <2> QED
    BY <1>1, <1>2, <2>3, <2>4, <2>5, QuietShrinks
<1> QED
  BY <1>3, <1>4

\* The other steps of the threads neither raise nor lower the flag.
LEMMA ThreadsStayQuiet ==
  ASSUME Typed, Quiet,
         \/ CreateSource \/ FlushAndUnlock \/ Stop \/ WakeEventThread \/ Join
         \/ LoopHead \/ Poll \/ Dispatched \/ HandleDataOffer \/ HandlePrimarySelection
         \/ Receive \/ ReadToEnd \/ JudgeContent
         \/ LockForCallback \/ UnlockForCallback \/ Callback \/ HandleSend \/ Written
         \/ HandleCancelled \/ TheyAnswer \/ Disconnect \/ UNCHANGED vars
  PROVE  Quiet'
<1> USE DEF shared, thread, external
<1>1. Channels
  BY DEF Typed
<1>2. NoOffer.owner # "own" /\ reading.offer.owner # "own" /\ pipe # "self"
      /\ NotReading.offer.owner # "own"
  BY DEF NotReading, NoOffer, Quiet, ReadingOthers
<1>3. ASSUME UNCHANGED <<queue, inbox, wire, outbox, preventDeadlock>>, ReadingOthers',
             event' # "clearing" \/ event' = event,
             ui' \in {"calling", "marking", "selecting"} => ui' = ui \/ (ui = "calling" /\ ui' = "marking")
      PROVE  Quiet'
  <2>1. StreamShifted(0) /\ RequestsShifted(0)
    BY <1>1, <1>3, StreamKept, RequestsKept
  <2>2. event' = "clearing" => preventDeadlock
    BY <1>3 DEF Quiet, FlagKnown
  <2> QED
    BY <1>3, <2>1, <2>2, QuietShrinks
<1>4. ASSUME queue # <<>>, queue' = Tail(queue),
             UNCHANGED <<inbox, wire, outbox, ui, preventDeadlock, reading, pipe>>,
             event' # "clearing"
      PROVE  Quiet'
  <2>1. StreamShifted(1) /\ RequestsShifted(0)
    BY <1>1, <1>4, StreamTaken, RequestsKept
  <2>2. ReadingOthers'
    BY <1>2, <1>4 DEF ReadingOthers
  <2> QED
    BY <1>4, <2>1, <2>2, QuietShrinks
<1>5. CASE CreateSource \/ Stop \/ WakeEventThread
  <2>1. ReadingOthers'
    BY <1>2, <1>5 DEF CreateSource, Stop, WakeEventThread, ReadingOthers
  <2> QED
    BY <1>3, <1>5, <2>1 DEF CreateSource, Stop, WakeEventThread
<1>6. CASE FlushAndUnlock
  <2>1. /\ Flush(<<>>) /\ ui' = "idle"
        /\ UNCHANGED <<queue, inbox, preventDeadlock, event, reading, pipe>>
    BY <1>6 DEF FlushAndUnlock
  <2>2. StreamShifted(0) /\ RequestsShifted(0)
    BY <2>1, <1>1, StreamKept, FlushKeepsRequests
  <2>3. ReadingOthers' /\ (event' = "clearing" => preventDeadlock)
    BY <1>2, <2>1 DEF ReadingOthers, Quiet, FlagKnown
  <2> QED
    BY <2>1, <2>2, <2>3, QuietShrinks
<1>7. CASE Join
  <2>1. /\ wire' = <<>> /\ inbox' = <<>> /\ queue' = queue /\ queue = <<>> /\ ui' = "gone"
        /\ UNCHANGED <<outbox, preventDeadlock, event, reading, pipe>>
    BY <1>7 DEF Join, Typed, Places
  <2>2. Len(wire) \in Nat /\ RequestsShifted(Len(wire))
    BY <2>1, <1>1, RequestsLost
  <2>3. StreamShifted(0)
    <3>1. Stream' = <<>>
      BY <2>1 DEF Stream
    <3> QED
      BY <3>1, EmptySeq DEF StreamShifted
  <2>4. ReadingOthers' /\ (event' = "clearing" => preventDeadlock)
    BY <1>2, <2>1 DEF ReadingOthers, Quiet, FlagKnown
  <2> QED
    BY <2>1, <2>2, <2>3, <2>4, QuietShrinks
<1>8. CASE LoopHead \/ Dispatched
  <2>1. /\ event' # "clearing" /\ UNCHANGED <<queue, inbox, wire, outbox, preventDeadlock, ui>>
        /\ ReadingOthers'
    BY <1>2, <1>8 DEF LoopHead, Dispatched, Exit, ReadingOthers
  <2> QED
    BY <1>3, <2>1
<1>9. CASE Poll
  <2>1. /\ queue' = inbox /\ inbox' = <<>> /\ queue = <<>> /\ event' # "clearing"
        /\ UNCHANGED <<preventDeadlock, ui, reading, pipe>>
    BY <1>9 DEF Poll, Typed, Places, Exit
  <2>2. Flush(<<>>) \/ UNCHANGED <<outbox, wire>>
    BY <1>9 DEF Poll
  <2>3. StreamShifted(0)
    BY <2>1, <1>1, StreamRead
  <2>4. RequestsShifted(0)
    BY <2>2, <1>1, RequestsKept, FlushKeepsRequests
  <2>5. ReadingOthers'
    BY <1>2, <2>1 DEF ReadingOthers
  <2> QED
    BY <2>1, <2>3, <2>4, <2>5, QuietShrinks
<1>10. CASE HandleDataOffer \/ HandlePrimarySelection \/ HandleCancelled
  BY <1>4, <1>10 DEF HandleDataOffer, HandlePrimarySelection, HandleCancelled, Handling
<1>11. CASE Written
  BY <1>4, <1>11 DEF Written, Typed, Places
<1>12. CASE Receive
  <2> DEFINE r == <<[request |-> "receive", offer |-> reading.offer]>>
  <2>1. /\ Flush(r) \/ UNCHANGED <<wire, outbox>>
        /\ UNCHANGED <<queue, inbox, preventDeadlock, ui, event, reading>> /\ pipe' # "self"
        /\ event = "reading"
    BY <1>12 DEF Receive
  <2>2. r \in Seq(RequestType) /\ \A i \in 1 .. Len(r) : r[i].request # "set_selection"
    BY DEF RequestType, Typed, TypeOK
  <2> HIDE DEF r
  <2>3. RequestsShifted(0)
    BY <2>1, <2>2, <1>1, RequestsFlushed, RequestsKept
  <2>4. StreamShifted(0)
    BY <2>1, <1>1, StreamKept
  <2>5. ReadingOthers'
    BY <1>2, <2>1 DEF ReadingOthers
  <2> QED
    BY <2>1, <2>3, <2>4, <2>5, QuietShrinks
<1>13. CASE ReadToEnd
  <2>1. reading'.offer = reading.offer /\ pipe' = "none"
    BY <1>13 DEF ReadToEnd, Typed, TypeOK
  <2>2. ReadingOthers'
    BY <1>2, <2>1 DEF ReadingOthers
  <2> QED
    BY <1>3, <1>13, <2>2 DEF ReadToEnd
<1>14. CASE LockForCallback \/ UnlockForCallback \/ HandleSend \/ TheyAnswer
  <2>1. ReadingOthers'
    BY <1>2, <1>14 DEF LockForCallback, UnlockForCallback, HandleSend, TheyAnswer, ReadingOthers
  <2> QED
    BY <1>3, <1>14, <2>1 DEF LockForCallback, UnlockForCallback, HandleSend, TheyAnswer
<1>15. CASE JudgeContent \/ Callback
  <2>1. /\ UNCHANGED <<queue, inbox, wire, outbox, preventDeadlock, ui, pipe>>
        /\ event' # "clearing" /\ (reading' = reading \/ reading' = NotReading)
    BY <1>15 DEF JudgeContent, Callback, OfferDone
  <2>2. ReadingOthers'
    BY <1>2, <2>1 DEF ReadingOthers
  <2> QED
    BY <1>3, <2>1, <2>2
<1>16. CASE Disconnect
  <2>1. /\ wire' = <<>> /\ pipe' # "self"
        /\ UNCHANGED <<outbox, queue, inbox, preventDeadlock, ui, event, reading>>
    BY <1>2, <1>16 DEF Disconnect
  <2>2. Len(wire) \in Nat /\ RequestsShifted(Len(wire)) /\ StreamShifted(0)
    BY <2>1, <1>1, RequestsLost, StreamKept
  <2>3. ReadingOthers' /\ (event' = "clearing" => preventDeadlock)
    BY <1>2, <2>1 DEF ReadingOthers, Quiet, FlagKnown
  <2> QED
    BY <2>1, <2>2, <2>3, QuietShrinks
<1>17. CASE UNCHANGED vars
  <2>1. ReadingOthers'
    BY <1>2, <1>17 DEF vars, ReadingOthers
  <2> QED
    BY <1>3, <1>17, <2>1 DEF vars
<1> QED
  BY <1>5, <1>6, <1>7, <1>8, <1>9, <1>10, <1>11, <1>12, <1>13, <1>14, <1>15, <1>16, <1>17

\* Our request becomes our event: the one that was awaited.
LEMMA CompositorSelectsQuiet ==
  ASSUME Typed, Quiet, CompositorSelects
  PROVE  Quiet'
<1> USE DEF Own, Other
<1>1. /\ wire # <<>> /\ Head(wire).request = "set_selection" /\ Select(OwnOffer(Head(wire).source))
      /\ wire' = Tail(wire)
      /\ UNCHANGED <<queue, outbox, ui, event, preventDeadlock, reading, pipe>>
  BY DEF CompositorSelects, thread, shared
<1> DEFINE o == OwnOffer(Head(wire).source)
<1>2. o \in OfferType /\ o.owner = "own"
  <2>1. Head(wire).source \in 1 .. MaxSets
    BY <1>1, TakeRequest DEF RequestType, SetRequestType
  <2> QED
    BY <2>1, OffersTyped DEF OwnOffer
<1>3. RequestsShifted(1) /\ 1 \in 1 .. Len(Requests) /\ Requests[1] = Head(wire)
  BY <1>1, RequestTaken DEF Typed
<1>4. PICK new \in Seq(EventType) :
        /\ inbox' = inbox \o new
        /\ \A i \in 1 .. Len(new) : new[i].event = "selection" => new[i].offer = o
        /\ \A i, j \in 1 .. Len(new) :
             new[i].event = "selection" /\ new[j].event = "selection" => i = j
  BY <1>1, <1>2, SelectEvents
<1> HIDE DEF o
<1>5. StreamGrown(new)
  BY <1>1, <1>4, StreamGrows DEF Typed
<1>6. Len(Stream) \in Nat /\ Len(new) \in Nat
  BY StreamsTyped, LenProperties DEF Typed
<1>7. ~NoAsking /\ NoOwn /\ preventDeadlock /\ ui # "selecting"
  BY <1>1, <1>3 DEF Quiet, OneReturning, FlagKnown, NoAsking
<1>8. NoAsking'
  <2> SUFFICES ASSUME NEW i \in 1 .. Len(Requests'), Requests'[i].request = "set_selection"
               PROVE  FALSE
    BY DEF NoAsking
  <2>1. i + 1 \in 1 .. Len(Requests) /\ Requests[i + 1].request = "set_selection"
    BY <1>3 DEF RequestsShifted
  <2>2. i + 1 = 1
    BY <1>1, <1>3, <2>1 DEF Quiet, OneReturning
  <2> QED
    BY <2>2
<1>9. ASSUME NEW i \in 1 .. Len(Stream'), Stream'[i].event = "selection"
      PROVE  /\ i \in 1 .. Len(Stream) => Own(Stream, i) \/ Other(Stream, i)
             /\ i \notin 1 .. Len(Stream) =>
                  /\ i - Len(Stream) \in 1 .. Len(new) /\ Stream'[i].offer = o
                  /\ new[i - Len(Stream)].event = "selection"
  BY <1>9, <1>4, <1>5 DEF StreamGrown
<1>10. NoOther /\ \A i \in 1 .. Len(Stream) : Stream[i].event # "selection"
  BY <1>7 DEF Quiet, FlagKnown, NoOwn, NoOther
<1>11. NoOther'
  BY <1>2, <1>5, <1>9, <1>10 DEF NoOther, StreamGrown
<1>12. ASSUME NEW i \in 1 .. Len(Stream'), NEW j \in 1 .. Len(Stream'),
              Own(Stream', i), Own(Stream', j)
       PROVE  i = j
  <2>1. i \notin 1 .. Len(Stream) /\ j \notin 1 .. Len(Stream)
    BY <1>12, <1>5, <1>10 DEF StreamGrown
  <2>2. i - Len(Stream) = j - Len(Stream)
    BY <1>4, <1>9, <1>12, <2>1
  <2> QED
    BY <2>2, <1>6
<1>13. OneReturning'
  BY <1>8, <1>12 DEF OneReturning, NoAsking
<1>14. FlagKnown' /\ ReadingOthers'
  BY <1>1, <1>7, <1>11 DEF FlagKnown, ReadingOthers, Quiet
<1> QED
  BY <1>13, <1>14 DEF Quiet

\* The end of a pipe of ours never comes back to us.
LEMMA CompositorForwardsQuiet ==
  ASSUME Typed, Quiet, CompositorForwards
  PROVE  Quiet'
<1>1. /\ wire # <<>> /\ wire' = Tail(wire)
      /\ UNCHANGED <<queue, outbox, ui, event, preventDeadlock, reading>>
  BY DEF CompositorForwards, shared
<1>2. RequestsShifted(1)
  BY <1>1, RequestTaken DEF Typed
<1>3. inbox' = inbox /\ pipe' # "self"
  BY ForwardCases DEF Quiet, ReadingOthers
<1>4. StreamShifted(0)
  BY <1>1, <1>3, StreamKept DEF Typed
<1>5. ReadingOthers' /\ (event' = "clearing" => preventDeadlock)
  BY <1>1, <1>3 DEF ReadingOthers, Quiet, FlagKnown
<1> QED
  BY <1>1, <1>2, <1>4, <1>5, QuietShrinks

\* Others change a selection only while the flag is down and we are not copying.
LEMMA OthersStayQuiet ==
  ASSUME Typed, Quiet, ~overlapped',
         \/ \E c \in Contents : TheySelectPrimary(c) \/ \E n \in 0 .. MaxMimes : TheyCopy(c, n)
         \/ TheyQuit \/ TheyPaste
  PROVE  Quiet'
<1>1. OthersAct => ~preventDeadlock /\ ui \notin {"calling", "marking"}
  BY DEF OthersAct
<1>2. ASSUME NEW o \in OfferType, o.owner # "own", Select(o), OthersAct, ReadingOthers',
             UNCHANGED <<queue, wire, outbox, ui, event, preventDeadlock>>
      PROVE  Quiet'
  <2>1. PICK new \in Seq(EventType) :
          /\ inbox' = inbox \o new
          /\ \A i \in 1 .. Len(new) : new[i].event = "selection" => new[i].offer = o
    BY <1>2, SelectEvents
  <2>2. StreamGrown(new) /\ RequestsShifted(0)
    BY <1>2, <2>1, StreamGrows, RequestsKept DEF Typed
  <2> QED
    BY <1>1, <1>2, <2>1, <2>2, QuietGrows
<1>3. ASSUME NEW c \in Contents, NEW n \in 0 .. MaxMimes, TheyCopy(c, n) PROVE Quiet'
  <2>1. /\ OthersAct /\ Select(TheirOffer(c, n))
        /\ UNCHANGED <<queue, wire, outbox, ui, event, preventDeadlock, reading, pipe>>
    BY <1>3 DEF TheyCopy, thread, shared
  <2>2. TheirOffer(c, n).owner # "own"
    BY DEF TheirOffer
  <2>3. TheirOffer(c, n) \in OfferType
    BY <2>1, OthersActTyped, TheirOfferTyped DEF Typed
  <2>4. ReadingOthers'
    BY <2>1 DEF Quiet, ReadingOthers
  <2> QED
    BY <2>1, <2>2, <2>3, <2>4, <1>2
<1>4. CASE TheyQuit
  <2>1. /\ OthersAct /\ Select(NoOffer)
        /\ UNCHANGED <<queue, wire, outbox, ui, event, preventDeadlock, reading>>
        /\ pipe' = IF pipe = "peer" THEN "eof" ELSE pipe
    BY <1>4 DEF TheyQuit, shared
  <2>2. ReadingOthers'
    BY <2>1 DEF Quiet, ReadingOthers
  <2> QED
    BY <2>1, <2>2, OffersTyped, <1>2
<1>5. ASSUME NEW c \in Contents, TheySelectPrimary(c) PROVE Quiet'
  <2>1. /\ OthersAct /\ inbox' = inbox \o Announce(TheirOffer(c, 1), "primary_selection")
        /\ UNCHANGED <<queue, wire, outbox, ui, event, preventDeadlock, reading, pipe>>
    BY <1>5 DEF TheySelectPrimary, thread, shared
  <2> DEFINE new == Announce(TheirOffer(c, 1), "primary_selection")
  <2>2. TheirOffer(c, 1) \in OfferType
    BY <2>1, OthersActTyped, TheirOfferTyped, WatcherAssumption DEF Typed
  <2>3. new \in Seq(EventType) /\ \A i \in 1 .. Len(new) : new[i].event # "selection"
    <3>1. new \in Seq(EventType)
      BY <2>2, AnnounceTyped
    <3>2. CASE TheirOffer(c, 1) = NoOffer
      BY <3>1, <3>2 DEF Announce
    <3>3. CASE TheirOffer(c, 1) # NoOffer
      BY <3>1, <3>3 DEF Announce
    <3> QED
      BY <3>1, <3>2, <3>3
  <2> HIDE DEF new
  <2>4. StreamGrown(new) /\ RequestsShifted(0)
    BY <2>1, <2>3, StreamGrows, RequestsKept DEF Typed, new
  <2>5. ReadingOthers'
    BY <2>1 DEF Quiet, ReadingOthers
  <2> QED
    BY <2>1, <2>3, <2>4, <2>5, QuietGrows
<1>6. CASE TheyPaste
  <2> DEFINE e == [event |-> "send", source |-> selection.what]
             new == <<e>>
  <2>1. /\ selection.owner = "own" /\ inbox' = Append(inbox, e)
        /\ UNCHANGED <<queue, wire, outbox, ui, event, preventDeadlock, reading, pipe>>
    BY <1>6 DEF TheyPaste, thread, shared
  <2>2. e \in EventType /\ e.event # "selection"
    BY <2>1, OfferFields DEF EventType, Typed, TypeOK
  <2> HIDE DEF e
  <2>3. inbox' = inbox \o new /\ new \in Seq(EventType) /\ \A i \in 1 .. Len(new) : new[i] = e
    BY <2>1, <2>2, AppendIsConcat DEF Typed, Channels
  <2> HIDE DEF new
  <2>4. StreamGrown(new) /\ RequestsShifted(0)
    BY <2>1, <2>3, StreamGrows, RequestsKept DEF Typed
  <2>5. ReadingOthers'
    BY <2>1 DEF Quiet, ReadingOthers
  <2> QED
    BY <2>1, <2>2, <2>3, <2>4, <2>5, QuietGrows
<1> QED
  BY <1>3, <1>4, <1>5, <1>6

LEMMA QuietHolds ==
  ASSUME Typed, Quiet, [Next]_vars, ~overlapped'
  PROVE  Quiet'
BY SetClipboardQuiet, MarkSelectionQuiet, SetSelectionQuiet, ClearFlagQuiet,
   HandleSelectionQuiet, ThreadsStayQuiet, CompositorSelectsQuiet, CompositorForwardsQuiet,
   OthersStayQuiet DEF Next, UiStep, EventStep, CompositorStep, OthersStep, PeerStep

\* Once copies have overlapped, the state is never called quiet again.
LEMMA OverlapStays ==
  ASSUME [Next]_vars, overlapped
  PROVE  overlapped'
<1> USE DEF shared, thread, external
<1>1. CASE SetClipboard \/ Stop \/ UiStep
  BY <1>1 DEF SetClipboard, Stop, UiStep, CreateSource, MarkSelection, SetSelection,
     FlushAndUnlock, WakeEventThread, Join
<1>2. CASE EventStep
  BY <1>2 DEF EventStep, LoopHead, Poll, Dispatched, HandleDataOffer, HandlePrimarySelection,
     HandleSelection, ClearFlag, Receive, ReadToEnd, JudgeContent, LockForCallback,
     UnlockForCallback, Callback, HandleSend, HandleCancelled
<1>3. CASE CompositorStep
  BY <1>3 DEF CompositorStep, CompositorSelects, CompositorForwards
<1>4. CASE OthersStep \/ PeerStep
  BY <1>4 DEF OthersStep, PeerStep, TheyCopy, TheyQuit, TheySelectPrimary, TheyPaste, Disconnect,
     OthersAct, TheyAnswer, Written
<1>5. CASE UNCHANGED vars
  BY <1>5 DEF vars
<1> QED
  BY <1>1, <1>2, <1>3, <1>4, <1>5 DEF Next

LEMMA InitQuiet ==
  ASSUME Init
  PROVE  Quiet
<1>1. /\ Stream = <<>> /\ Requests = <<>> /\ ui = "idle" /\ event = "loop" /\ ~preventDeadlock
      /\ reading = NotReading /\ pipe = "none"
  BY DEF Init, Stream, Requests
<1> QED
  BY <1>1 DEF Quiet, OneReturning, FlagKnown, ReadingOthers, NotReading, NoOffer, NoOwn, NoOther,
     NoAsking

\* As long as copies by us and by others do not overlap, the event thread
\* never waits at a pipe it would have to fill itself: the flag is up exactly
\* while a selection of ours is to come back, and it is the one it meets.
THEOREM AlwaysReadsOthersOnly == Spec => []ReadsOthersOnly
<1> DEFINE Inv == Typed /\ (~overlapped => Quiet)
<1>1. Init => Inv
  BY InitTyped, InitQuiet
<1>2. Inv /\ [Next]_vars => Inv'
  <2> SUFFICES ASSUME Inv, [Next]_vars PROVE Inv'
    OBVIOUS
  <2>1. Typed'
    BY TypedHolds
  <2>2. ASSUME ~overlapped' PROVE Quiet'
    BY <2>2, OverlapStays, QuietHolds
  <2> QED
    BY <2>1, <2>2
<1>3. Inv => ReadsOthersOnly
  BY DEF ReadsOthersOnly, NeverReadsOwn, Quiet, ReadingOthers
<1> QED
  BY <1>1, <1>2, <1>3, PTL DEF Spec

=============================================================================
