----------------------- MODULE ClipboardHistoryProofs -----------------------
(***************************************************************************)
(* Theorems about the clipboard history, for any items and pieces of       *)
(* content, any interleaving of the two threads and any number of crashes. *)
(***************************************************************************)
EXTENDS ClipboardHistory, LibraryFacts

\* No two items have a piece of content in common.
SeparateItems ==
  \A i, j \in Items : i # j => PartsOf[i] \cap PartsOf[j] = {}

\* The inductive invariant.  A row of content belongs to an item made of it,
\* a listed item has all its rows, and so has the item insert_item is about
\* to list but for the pieces that are still to do.
Stored ==
  /\ Listed \subseteq Items
  /\ DOMAIN content \subseteq Parts
  /\ \A p \in DOMAIN content : content[p] \in Items /\ p \in PartsOf[content[p]]
  /\ \A i \in Listed : PartsOf[i] \subseteq DOMAIN content

Working ==
  /\ DOMAIN at = Threads /\ DOMAIN item = Threads
  /\ at["event"] # "idle" => item["event"] \in Items
  /\ at["event"] \in {"contents_known", "contents_new"} =>
       /\ todo \subseteq PartsOf[item["event"]]
       /\ PartsOf[item["event"]] \ todo \subseteq DOMAIN content

IInv == Stored /\ Working

LEMMA InitHolds == Init => IInv
BY DEF Init, IInv, Stored, Working, Listed, Threads

\* A step that keeps the database and the work of the event thread.
LEMMA Untouched ==
  ASSUME IInv, UNCHANGED <<database, todo>>,
         DOMAIN at' = Threads, DOMAIN item' = Threads,
         item'["event"] = item["event"],
         \/ at'["event"] = at["event"]
         \/ at["event"] # "idle" /\ at'["event"] \notin {"contents_known", "contents_new"}
  PROVE  IInv'
BY DEF IInv, Stored, Working, Listed, database

LEMMA EventIsThread == "event" \in Threads /\ "ui" \in Threads /\ "event" # "ui"
BY DEF Threads

LEMMA CopyArrivesHolds ==
  ASSUME IInv, NEW i \in Items, CopyArrives(i)
  PROVE  IInv'
<1>1. CASE UNCHANGED <<at, item>>
  BY <1>1, Untouched DEF CopyArrives, IInv, Working
<1>2. CASE item' = [item EXCEPT !["event"] = i] /\ at' = [at EXCEPT !["event"] = "add"]
  <2>1. UNCHANGED <<database, todo>>
    BY DEF CopyArrives
  <2>2. /\ DOMAIN at' = Threads /\ DOMAIN item' = Threads
        /\ item'["event"] = i /\ at'["event"] = "add"
    BY <1>2, EventIsThread DEF IInv, Working
  <2> QED
    BY <2>1, <2>2 DEF IInv, Stored, Working, Listed, database
<1> QED
  BY <1>1, <1>2 DEF CopyArrives, Goes

LEMMA CheckIfExistsHolds ==
  ASSUME IInv, CheckIfExists
  PROVE  IInv'
<1>1. /\ UNCHANGED <<database, item>> /\ todo' = PartsOf[item["event"]]
      /\ item["event"] \in Items
      /\ DOMAIN at' = DOMAIN at
  BY EventIsThread DEF CheckIfExists, Goes, IInv, Working
<1> QED
  BY <1>1 DEF IInv, Stored, Working, Listed, database

LEMMA InsertContentHolds ==
  ASSUME IInv, NEW p \in Parts, InsertContent(p)
  PROVE  IInv'
<1> DEFINE x == item["event"]
<1>1. /\ at["event"] \in {"contents_known", "contents_new"} /\ p \in todo
      /\ content' = [q \in DOMAIN content \cup {p} |-> IF q = p THEN x ELSE content[q]]
      /\ todo' = todo \ {p} /\ items' = items /\ at' = at /\ item' = item
  BY DEF InsertContent
<1>2. x \in Items /\ todo \subseteq PartsOf[x] /\ PartsOf[x] \ todo \subseteq DOMAIN content
  BY <1>1 DEF IInv, Working
<1>3. DOMAIN content' = DOMAIN content \cup {p}
  BY <1>1
<1>4. \A q \in DOMAIN content' : content'[q] \in Items /\ q \in PartsOf[content'[q]]
  BY <1>1, <1>2 DEF IInv, Stored
<1>5. Stored'
  BY <1>1, <1>3, <1>4 DEF IInv, Stored, Listed
<1>6. Working'
  BY <1>1, <1>2, <1>3 DEF IInv, Working
<1> QED
  BY <1>5, <1>6 DEF IInv

LEMMA InsertUiItemHolds ==
  ASSUME IInv, InsertUiItem
  PROVE  IInv'
<1>1. /\ at["event"] = "contents_new" /\ todo = {}
      /\ DOMAIN items' = Listed \cup {item["event"]}
      /\ content' = content /\ item' = item /\ todo' = todo
      /\ DOMAIN at' = DOMAIN at /\ at'["event"] = "idle"
  BY EventIsThread DEF InsertUiItem, Goes, IInv, Working
<1>2. item["event"] \in Items /\ PartsOf[item["event"]] \subseteq DOMAIN content
  BY <1>1 DEF IInv, Working
<1>3. Stored'
  BY <1>1, <1>2 DEF IInv, Stored, Listed
<1>4. Working'
  BY <1>1 DEF IInv, Working
<1> QED
  BY <1>3, <1>4 DEF IInv

\* Stamping changes no row's item, deleting takes one away.
LEMMA StepStatementHolds ==
  ASSUME IInv, NEW t \in Threads, StepStatement(t)
  PROVE  IInv'
<1>1. /\ at[t] = "step" /\ DOMAIN items' = Listed
      /\ content' = content /\ item' = item /\ todo' = todo
      /\ DOMAIN at' = DOMAIN at
      /\ at'["event"] = at["event"] \/ (t = "event" /\ at'["event"] = "idle")
  BY EventIsThread DEF StepStatement, Goes, IInv, Working, Threads
<1>2. Stored'
  BY <1>1 DEF IInv, Stored, Listed
<1>3. Working'
  BY <1>1 DEF IInv, Working
<1> QED
  BY <1>2, <1>3 DEF IInv

LEMMA DeleteItemHolds ==
  ASSUME IInv, NEW i \in Items, DeleteItem(i)
  PROVE  IInv'
<1>1. /\ DOMAIN items' = Listed \ {i} /\ content' = content /\ todo' = todo
      /\ DOMAIN item' = DOMAIN item /\ item'["event"] = item["event"]
      /\ DOMAIN at' = DOMAIN at /\ at'["event"] = at["event"]
  BY EventIsThread DEF DeleteItem, Goes, IInv, Working
<1>2. Stored'
  BY <1>1 DEF IInv, Stored, Listed
<1>3. Working'
  BY <1>1 DEF IInv, Working
<1> QED
  BY <1>2, <1>3 DEF IInv

LEMMA RestartHolds ==
  ASSUME IInv, Restart
  PROVE  IInv'
<1>1. /\ UNCHANGED database /\ DOMAIN at' = Threads /\ DOMAIN item' = Threads
      /\ at'["event"] = "idle"
  BY EventIsThread DEF Restart
<1> QED
  BY <1>1 DEF IInv, Stored, Working, Listed, database

\* The remaining steps leave the database alone.
LEMMA OtherStepsHold ==
  ASSUME IInv,
         \/ AddEntry \/ InsertedContents \/ RemoveEntry \/ RemoveRecent
         \/ \E i \in Items : SetClipboard(i)
         \/ \E t \in Threads : MoveToFront(t) \/ BindTime(t) \/ BindItem(t)
         \/ \E n \in 1 .. MaxRecent : LoadRecentEntries(n)
         \/ UNCHANGED vars
  PROVE  IInv'
<1> USE EventIsThread
<1>1. CASE AddEntry
  BY <1>1, Untouched DEF AddEntry, Goes, IInv, Working
<1>2. CASE InsertedContents
  BY <1>2, Untouched DEF InsertedContents, Goes, IInv, Working
<1>3. CASE RemoveEntry
  BY <1>3, Untouched DEF RemoveEntry, Goes, IInv, Working
<1>4. CASE RemoveRecent
  BY <1>4, Untouched DEF RemoveRecent, Goes, IInv, Working
<1>5. ASSUME NEW i \in Items, SetClipboard(i) PROVE IInv'
  BY <1>5, Untouched DEF SetClipboard, Goes, IInv, Working
<1>6. ASSUME NEW t \in Threads, MoveToFront(t) PROVE IInv'
  BY <1>6, Untouched DEF MoveToFront, Goes, IInv, Working, Threads
<1>7. ASSUME NEW t \in Threads, BindTime(t) PROVE IInv'
  BY <1>7, Untouched DEF BindTime, Goes, IInv, Working, Threads
<1>8. ASSUME NEW t \in Threads, BindItem(t) PROVE IInv'
  BY <1>8, Untouched DEF BindItem, Goes, IInv, Working, Threads
<1>9. ASSUME NEW n \in 1 .. MaxRecent, LoadRecentEntries(n) PROVE IInv'
  BY <1>9, Untouched DEF LoadRecentEntries, IInv, Working
<1>10. CASE UNCHANGED vars
  BY <1>10, Untouched DEF vars, IInv, Working
<1> QED
  BY <1>1, <1>2, <1>3, <1>4, <1>5, <1>6, <1>7, <1>8, <1>9, <1>10

LEMMA NextHolds ==
  ASSUME IInv, [Next]_vars
  PROVE  IInv'
BY CopyArrivesHolds, CheckIfExistsHolds, InsertContentHolds, InsertUiItemHolds,
   StepStatementHolds, DeleteItemHolds, RestartHolds, OtherStepsHold DEF Next

\* When no two items share a piece of content, every item of the history has
\* all of its content at every moment: insert_item stores the content before
\* it lists the item, so neither a crash between two statements nor the user
\* deleting or using items meanwhile leaves a listed item incomplete.
THEOREM AlwaysComplete ==
  ASSUME SeparateItems
  PROVE  Spec => []ItemsAreComplete
<1>1. IInv => ItemsAreComplete
  BY HistoryAssumption DEF HistoryAssumption, IInv, Stored, ItemsAreComplete, PieceOwner,
     SeparateItems
<1>2. Init => IInv
  BY InitHolds
<1>3. IInv /\ [Next]_vars => IInv'
  BY NextHolds
<1> QED
  BY <1>1, <1>2, <1>3, PTL DEF Spec

-----------------------------------------------------------------------------
(***************************************************************************)
(* Types.  Recent items are distinct, a stamp is of the past, and a thread *)
(* has stamped before it stores or binds; no overlap changes these.        *)
(***************************************************************************)
Rows ==
  /\ Listed \subseteq Items /\ IsFiniteSet(Listed)
  /\ \A i \in Listed : items[i] \in 1 .. MaxTime

Contents ==
  /\ DOMAIN content \subseteq Parts
  /\ \A p \in DOMAIN content : content[p] \in Items

Memory ==
  /\ tree \subseteq Items
  /\ recents \in Seq(Items) /\ IsInjective(recents)
  /\ limit \in 1 .. MaxRecent /\ lastHash \in Items \cup {NoItem}

EventPlaces == {"idle", "add", "front", "check", "contents_known",
                "contents_new", "bind_time", "bind_item", "step"}
UiPlaces == {"idle", "bind_time", "bind_item", "step", "front", "remove", "unlist"}

Work ==
  /\ at \in [Threads -> EventPlaces \cup UiPlaces]
  /\ at["event"] \in EventPlaces /\ at["ui"] \in UiPlaces
  /\ item \in [Threads -> Items \cup {NoItem}]
  /\ \A t \in Threads : ~Idle(t) => item[t] \in Items
  /\ time \in [Threads -> 0 .. MaxTime]
  /\ todo \subseteq Parts

Binding == bound \in [time : 0 .. MaxTime, item : Items \cup {NoItem}]

Typed == Rows /\ Contents /\ Memory /\ Work /\ Binding /\ overlapped \in BOOLEAN

Stamped ==
  /\ clock \in Nat \ {0}
  /\ \A i \in Listed : items[i] < clock
  /\ \A t \in Threads :
       /\ time[t] < clock
       /\ at[t] \in {"contents_known", "contents_new", "bind_time"} => time[t] >= 1
       /\ at[t] \in {"bind_item", "step"} => bound.time >= 1
  /\ bound.time < clock /\ (bound.item # NoItem => bound.time >= 1)

LEMMA RangeElements ==
  ASSUME NEW S, NEW q \in Seq(S)
  PROVE  Range(q) \subseteq S /\ Range(q) = {q[i] : i \in 1 .. Len(q)}
<1>1. DOMAIN q = 1 .. Len(q)
  OBVIOUS
<1> QED
  BY <1>1 DEF Range

LEMMA TypedIsTypeOK == Typed => TypeOK
<1> SUFFICES ASSUME Typed PROVE TypeOK
  OBVIOUS
<1>1. Range(recents) \subseteq Items
  BY RangeElements DEF Typed, Memory
<1>2. \A t \in Threads : ~Idle(t) => item[t] \in Items
  BY DEF Typed, Work
<1> QED
  BY <1>1, <1>2 DEF Typed, Rows, Contents, Memory, Work, Binding, TypeOK, EventPlaces, UiPlaces

LEMMA TypedAtFirst == Init => Typed /\ Stamped
<1> SUFFICES ASSUME Init PROVE Typed /\ Stamped
  OBVIOUS
<1>1. items = <<>> /\ content = <<>> /\ DOMAIN <<>> = {}
  BY DEF Init
<1>2. Rows /\ Contents
  BY <1>1, FS_EmptySet DEF Rows, Contents, Listed
<1>3. Memory
  <2>1. recents = <<>> /\ <<>> \in Seq(Items) /\ IsInjective(<<>>)
    BY <1>1 DEF Init, IsInjective
  <2> QED
    BY <2>1 DEF Init, Memory
<1>4. Work
  <2>1. /\ at = [t \in Threads |-> "idle"] /\ item = [t \in Threads |-> NoItem]
        /\ time = [t \in Threads |-> 0] /\ todo = {}
    BY DEF Init
  <2> QED
    BY <2>1, HistoryAssumption, EventIsThread DEF HistoryAssumption, Work, EventPlaces, UiPlaces, Idle
<1>5. Binding
  BY HistoryAssumption DEF HistoryAssumption, Init, Binding, Unbound
<1>6. overlapped \in BOOLEAN
  BY DEF Init
<1>7. Stamped
  BY <1>1 DEF Init, Stamped, Listed, Unbound
<1> QED
  BY <1>2, <1>3, <1>4, <1>5, <1>6, <1>7 DEF Typed

\* Only three statements change the rows.
LEMMA RowsKept ==
  ASSUME Typed, Stamped, [Next]_vars
  PROVE  Rows'
<1> USE DEF Typed, Rows, Listed
<1>1. CASE InsertUiItem
  <2> DEFINE x == item["event"]
             s == time["event"]
  <2>1. x \in Items /\ s \in 1 .. MaxTime
    BY <1>1, EventIsThread DEF InsertUiItem, Work, Idle, Stamped
  <2>2. items' = [i \in Listed \cup {x} |-> IF i = x THEN s ELSE items[i]]
    BY <1>1 DEF InsertUiItem
  <2> HIDE DEF x, s
  <2>3. DOMAIN items' = Listed \cup {x} /\ IsFiniteSet(Listed \cup {x})
    BY <2>2, FS_AddElement
  <2> QED
    BY <2>1, <2>2, <2>3
<1>2. ASSUME NEW t \in Threads, StepStatement(t) PROVE Rows'
  <2>1. items' = [i \in Listed |-> IF i = bound.item THEN bound.time ELSE items[i]]
    BY <1>2 DEF StepStatement
  <2>2. bound.time \in 0 .. MaxTime /\ (bound.item # NoItem => bound.time >= 1)
    BY DEF Binding, Stamped
  <2>3. bound.item \in Listed => bound.time \in 1 .. MaxTime
    BY <2>2, HistoryAssumption DEF HistoryAssumption
  <2> QED
    BY <2>1, <2>3
<1>3. ASSUME NEW i \in Items, DeleteItem(i) PROVE Rows'
  <2>1. items' = [j \in Listed \ {i} |-> items[j]] /\ IsFiniteSet(Listed \ {i})
    BY <1>3, FS_RemoveElement DEF DeleteItem
  <2> QED
    BY <2>1
<1>4. CASE items' = items
  BY <1>4
<1> QED
  BY <1>1, <1>2, <1>3, <1>4 DEF Next, vars, database, CopyArrives, SetClipboard, AddEntry,
     CheckIfExists, InsertedContents, InsertContent, MoveToFront, BindTime, BindItem,
     RemoveEntry, RemoveRecent, LoadRecentEntries, Restart

LEMMA ContentsKept ==
  ASSUME Typed, [Next]_vars
  PROVE  Contents'
<1> USE DEF Typed, Contents
<1>1. ASSUME NEW p \in Parts, InsertContent(p) PROVE Contents'
  <2> DEFINE x == item["event"]
  <2>1. x \in Items
    BY <1>1, EventIsThread DEF InsertContent, Work, Idle
  <2>2. content' = [q \in DOMAIN content \cup {p} |-> IF q = p THEN x ELSE content[q]]
    BY <1>1 DEF InsertContent
  <2> HIDE DEF x
  <2> QED
    BY <2>1, <2>2
<1>2. CASE content' = content
  BY <1>2
<1> QED
  BY <1>1, <1>2 DEF Next, vars, database, CopyArrives, SetClipboard, DeleteItem, AddEntry,
     CheckIfExists, InsertedContents, InsertUiItem, StepStatement, MoveToFront, BindTime,
     BindItem, RemoveEntry, RemoveRecent, LoadRecentEntries, Restart

\* What load_recent_entries puts in the table: listed items, none twice, in
\* the order of their stamps.
LEMMA LatestIsInOrder ==
  ASSUME Typed, NEW n \in Nat
  PROVE  /\ Latest(n) \in Seq(Items) /\ IsInjective(Latest(n))
         /\ Range(Latest(n)) \subseteq Listed
         /\ \A i, j \in 1 .. Len(Latest(n)) :
              i < j => items[Latest(n)[i]] >= items[Latest(n)[j]]
<1> DEFINE f == [i \in Listed |-> items[i]]
           N == {n, Cardinality(Listed)}
           m == Min(N)
           Right(s) ==
             /\ IsInjective(s)
             /\ \A k \in DOMAIN s : \A i \in Listed :
                  items[i] > items[s[k]] => \E l \in 1 .. k - 1 : s[l] = i
           s == Latest(n)
<1>1. IsFiniteSet(Listed) /\ Listed \subseteq Items /\ \A i \in Listed : items[i] \in 1 .. MaxTime
  BY DEF Typed, Rows
<1>2. Cardinality(Listed) \in Nat
  BY <1>1, FS_CardinalityType
<1>3. m \in Nat /\ m <= Cardinality(Listed)
  <2>1. N \in SUBSET Nat /\ N # {} /\ Cardinality(Listed) \in N
    BY <1>2
  <2> HIDE DEF N
  <2> QED
    BY <2>1, LeastElement
<1> HIDE DEF m
<1>4. f \in [Listed -> Nat] /\ MaxTime \in Nat /\ \A i \in Listed : f[i] <= MaxTime /\ f[i] = items[i]
  BY <1>1, HistoryAssumption DEF HistoryAssumption
<1> HIDE DEF f
<1>5. \E r \in [1 .. m -> Listed] :
        /\ IsInjective(r)
        /\ \A k \in DOMAIN r : \A i \in Listed :
             f[i] > f[r[k]] => \E l \in 1 .. k - 1 : r[l] = i
  BY <1>1, <1>3, <1>4, DescendingListExists
<1>6. \E r \in [1 .. m -> Listed] : Right(r)
  <2>1. PICK r \in [1 .. m -> Listed] :
        /\ IsInjective(r)
        /\ \A k \in DOMAIN r : \A i \in Listed :
             f[i] > f[r[k]] => \E l \in 1 .. k - 1 : r[l] = i
    BY <1>5
  <2>2. DOMAIN r = 1 .. m /\ \A k \in 1 .. m : r[k] \in Listed
    OBVIOUS
  <2>3. \A k \in DOMAIN r : \A i \in Listed :
          items[i] > items[r[k]] => \E l \in 1 .. k - 1 : r[l] = i
    BY <1>4, <2>1, <2>2
  <2>4. Right(r)
    BY <2>1, <2>3
  <2> QED
    BY <2>4
<1>7. s = CHOOSE r \in [1 .. m -> Listed] : Right(r)
  BY DEF Latest, m
<1> HIDE DEF s
<1>8. s \in [1 .. m -> Listed] /\ Right(s)
  <2> HIDE DEF Right
  <2> QED
    BY <1>6, <1>7
<1>9. s \in Seq(Items) /\ Len(s) = m /\ DOMAIN s = 1 .. m
  BY <1>1, <1>3, <1>8
<1>10. Range(s) \subseteq Listed
  BY <1>8, <1>9 DEF Range
<1>11. ASSUME NEW i \in 1 .. m, NEW j \in 1 .. m, i < j
       PROVE  items[s[i]] >= items[s[j]]
  <2> SUFFICES ASSUME ~(items[s[i]] >= items[s[j]]) PROVE FALSE
    OBVIOUS
  <2>1. s[i] \in Listed /\ s[j] \in Listed /\ i \in DOMAIN s /\ j \in DOMAIN s
    BY <1>8, <1>9
  <2>2. items[s[j]] > items[s[i]]
    BY <1>1, <2>1
  <2>3. PICK l \in 1 .. i - 1 : s[l] = s[j]
    BY <1>8, <2>1, <2>2
  <2>4. l \in DOMAIN s /\ l # j
    BY <1>3, <1>9, <1>11
  <2> QED
    BY <1>8, <2>1, <2>3, <2>4 DEF IsInjective
<1> QED
  BY <1>8, <1>9, <1>10, <1>11 DEF s

\* The memory: taking an item out, putting it in front and loading the rows
\* never list an item twice.
LEMMA MemoryKept ==
  ASSUME Typed, [Next]_vars
  PROVE  Memory'
<1> DEFINE x == item["event"]
           y == item["ui"]
<1>0. /\ at["event"] # "idle" => x \in Items
      /\ at["ui"] # "idle" => y \in Items
  BY EventIsThread DEF Typed, Work, Idle
<1>1. Memory
  BY DEF Typed
<1>2. ASSUME NEW i \in Items, CopyArrives(i) PROVE Memory'
  <2>1. UNCHANGED <<tree, recents, limit>> /\ lastHash' = i
    BY <1>2 DEF CopyArrives
  <2> QED
    BY <1>1, <2>1 DEF Memory
<1>3. CASE AddEntry
  <2>1. UNCHANGED <<recents, limit, lastHash>> /\ tree' = tree \cup {x} /\ x \in Items
    BY <1>0, <1>3 DEF AddEntry
  <2> QED
    BY <1>1, <2>1 DEF Memory
<1>4. CASE RemoveEntry
  <2>1. UNCHANGED <<recents, limit, lastHash>> /\ tree' \subseteq tree
    BY <1>4 DEF RemoveEntry
  <2> QED
    BY <1>1, <2>1 DEF Memory
<1>5. CASE RemoveRecent
  <2>1. UNCHANGED <<tree, limit, lastHash>> /\ recents' = RemoveFirst(recents, y)
    BY <1>5 DEF RemoveRecent
  <2>2. RemoveFirst(recents, y) \in Seq(Items) /\ IsInjective(RemoveFirst(recents, y))
    BY <1>1, RemoveFirstProperties DEF Memory
  <2> QED
    BY <1>1, <2>1, <2>2 DEF Memory
<1>6. ASSUME NEW t \in Threads, MoveToFront(t) PROVE Memory'
  <2> DEFINE z == item[t]
             rest == RemoveFirst(recents, z)
  <2>1. UNCHANGED <<tree, limit, lastHash>> /\ recents' = <<z>> \o rest
    BY <1>6 DEF MoveToFront, InFront
  <2>2. z \in Items
    BY <1>6 DEF MoveToFront, Typed, Work, Idle
  <2>3. rest \in Seq(Items) /\ IsInjective(rest) /\ Range(rest) = Range(recents) \ {z}
    BY <1>1, RemoveFirstProperties DEF Memory
  <2> HIDE DEF rest, z
  <2>4. <<z>> \o rest \in Seq(Items) /\ IsInjective(<<z>> \o rest)
    BY <2>2, <2>3, InFrontProperties
  <2> QED
    BY <1>1, <2>1, <2>4 DEF Memory
<1>7. ASSUME NEW n \in 1 .. MaxRecent, LoadRecentEntries(n) PROVE Memory'
  <2>1. UNCHANGED <<tree, lastHash>> /\ limit' = n /\ recents' = Latest(n)
    BY <1>7 DEF LoadRecentEntries
  <2>2. Latest(n) \in Seq(Items) /\ IsInjective(Latest(n))
    BY LatestIsInOrder
  <2> QED
    BY <1>1, <2>1, <2>2 DEF Memory
<1>8. CASE Restart
  <2>1. limit' = limit /\ tree' = Listed /\ lastHash' = NoItem /\ recents' = Latest(limit)
    BY <1>8 DEF Restart
  <2>2. limit \in Nat /\ Listed \subseteq Items
    BY <1>1 DEF Memory, Typed, Rows
  <2>3. Latest(limit) \in Seq(Items) /\ IsInjective(Latest(limit))
    BY <2>2, LatestIsInOrder
  <2> QED
    BY <1>1, <2>1, <2>2, <2>3 DEF Memory
<1>9. CASE UNCHANGED <<tree, recents, limit, lastHash>>
  BY <1>1, <1>9 DEF Memory
<1> QED
  BY <1>2, <1>3, <1>4, <1>5, <1>6, <1>7, <1>8, <1>9 DEF Next, vars, memory, SetClipboard,
     DeleteItem, CheckIfExists, InsertedContents, InsertUiItem, InsertContent, BindTime,
     BindItem, StepStatement

\* The places of the threads, one at a time.
LEMMA PlaceKept ==
  ASSUME Typed, NEW t \in Threads, NEW p, at' = [at EXCEPT ![t] = p],
         t = "event" => p \in EventPlaces, t = "ui" => p \in UiPlaces
  PROVE  /\ at' \in [Threads -> EventPlaces \cup UiPlaces]
         /\ at'["event"] \in EventPlaces /\ at'["ui"] \in UiPlaces
         /\ at'[t] = p /\ \A u \in Threads \ {t} : at'[u] = at[u]
<1>1. t = "event" \/ t = "ui"
  BY DEF Threads
<1> QED
  BY <1>1, EventIsThread DEF Typed, Work

\* A thread begins an operation on an item.
LEMMA BeginKept ==
  ASSUME Typed, NEW t \in Threads, NEW i \in Items, NEW p,
         at' = [at EXCEPT ![t] = p], item' = [item EXCEPT ![t] = i],
         t = "event" => p \in EventPlaces, t = "ui" => p \in UiPlaces,
         time' \in [Threads -> 0 .. MaxTime], todo' = todo
  PROVE  Work'
<1>1. /\ at' \in [Threads -> EventPlaces \cup UiPlaces]
      /\ at'["event"] \in EventPlaces /\ at'["ui"] \in UiPlaces
      /\ at'[t] = p /\ \A u \in Threads \ {t} : at'[u] = at[u]
  BY PlaceKept
<1>2. item' \in [Threads -> Items \cup {NoItem}] /\ item'[t] = i
      /\ \A u \in Threads \ {t} : item'[u] = item[u]
  BY DEF Typed, Work
<1>3. \A u \in Threads : ~Idle(u)' => item'[u] \in Items
  BY <1>1, <1>2 DEF Typed, Work, Idle
<1> QED
  BY <1>1, <1>2, <1>3 DEF Typed, Work

\* A thread goes on with the operation it is inside, or ends it.
LEMMA GoKept ==
  ASSUME Typed, NEW t \in Threads, NEW p, ~Idle(t),
         at' = [at EXCEPT ![t] = p], item' = item,
         t = "event" => p \in EventPlaces, t = "ui" => p \in UiPlaces,
         time' \in [Threads -> 0 .. MaxTime], todo' \subseteq Parts
  PROVE  Work'
<1>1. /\ at' \in [Threads -> EventPlaces \cup UiPlaces]
      /\ at'["event"] \in EventPlaces /\ at'["ui"] \in UiPlaces
      /\ at'[t] = p /\ \A u \in Threads \ {t} : at'[u] = at[u]
  BY PlaceKept
<1>2. item' \in [Threads -> Items \cup {NoItem}] /\ item[t] \in Items
  BY DEF Typed, Work
<1>3. \A u \in Threads : ~Idle(u)' => item'[u] \in Items
  BY <1>1, <1>2 DEF Typed, Work, Idle
<1> QED
  BY <1>1, <1>2, <1>3 DEF Typed, Work

\* A stamp is within the bound on the clock.
LEMMA StampTyped ==
  ASSUME Typed, Stamped, NEW t \in Threads, Stamps(t)
  PROVE  /\ time' \in [Threads -> 0 .. MaxTime] /\ time'[t] = clock
         /\ \A u \in Threads \ {t} : time'[u] = time[u]
BY HistoryAssumption DEF HistoryAssumption, Typed, Work, Stamped, Stamps

LEMMA WorkKept ==
  ASSUME Typed, Stamped, [Next]_vars
  PROVE  Work'
<1> USE EventIsThread DEF Goes
<1>1. Work /\ time \in [Threads -> 0 .. MaxTime] /\ todo \subseteq Parts
  BY DEF Typed, Work
<1>2. ASSUME NEW i \in Items, CopyArrives(i) PROVE Work'
  <2>1. UNCHANGED <<time, todo>>
    BY <1>2 DEF CopyArrives
  <2>2. CASE UNCHANGED <<at, item>>
    BY <1>1, <2>1, <2>2 DEF Work, Idle
  <2>3. CASE item' = [item EXCEPT !["event"] = i] /\ at' = [at EXCEPT !["event"] = "add"]
    BY <1>1, <2>1, <2>3, BeginKept DEF EventPlaces
  <2> QED
    BY <1>2, <2>2, <2>3 DEF CopyArrives
<1>3. CASE AddEntry
  BY <1>1, <1>3, GoKept DEF AddEntry, EventPlaces, Idle
<1>4. ASSUME NEW t \in Threads, MoveToFront(t) PROVE Work'
  <2> DEFINE p == IF t = "event" THEN "check" ELSE "idle"
  <2>1. at' = [at EXCEPT ![t] = p] /\ ~Idle(t) /\ UNCHANGED <<item, time, todo>>
    BY <1>4 DEF MoveToFront, Idle
  <2>2. (t = "event" => p \in EventPlaces) /\ (t = "ui" => p \in UiPlaces)
    BY DEF EventPlaces, UiPlaces
  <2> HIDE DEF p
  <2> QED
    BY <1>1, <2>1, <2>2, GoKept
<1>5. CASE CheckIfExists
  <2> DEFINE p == IF item["event"] \in Listed THEN "contents_known" ELSE "contents_new"
             x == item["event"]
  <2>1. /\ at' = [at EXCEPT !["event"] = p] /\ ~Idle("event") /\ item' = item
        /\ todo' = PartsOf[x] /\ Stamps("event")
    BY <1>5 DEF CheckIfExists, Idle
  <2>2. p \in EventPlaces
    BY DEF EventPlaces
  <2>3. x \in Items
    BY <2>1 DEF Typed, Work
  <2>4. todo' \subseteq Parts
    BY <2>1, <2>3, HistoryAssumption DEF HistoryAssumption
  <2> HIDE DEF p, x
  <2>5. time' \in [Threads -> 0 .. MaxTime]
    BY <2>1, StampTyped
  <2> QED
    BY <2>1, <2>2, <2>4, <2>5, GoKept
<1>6. ASSUME NEW p \in Parts, InsertContent(p) PROVE Work'
  <2>1. UNCHANGED <<at, item, time>> /\ todo' \subseteq todo
    BY <1>6 DEF InsertContent
  <2> QED
    BY <1>1, <2>1 DEF Work, Idle
<1>7. CASE InsertedContents
  BY <1>1, <1>7, GoKept DEF InsertedContents, EventPlaces, Idle
<1>8. CASE InsertUiItem
  BY <1>1, <1>8, GoKept DEF InsertUiItem, EventPlaces, Idle
<1>9. ASSUME NEW t \in Threads, BindTime(t) PROVE Work'
  BY <1>1, <1>9, GoKept DEF BindTime, EventPlaces, UiPlaces, Idle
<1>10. ASSUME NEW t \in Threads, BindItem(t) PROVE Work'
  BY <1>1, <1>10, GoKept DEF BindItem, EventPlaces, UiPlaces, Idle
<1>11. ASSUME NEW t \in Threads, StepStatement(t) PROVE Work'
  <2> DEFINE p == IF t = "event" THEN "idle" ELSE "front"
  <2>1. at' = [at EXCEPT ![t] = p] /\ ~Idle(t) /\ UNCHANGED <<item, time, todo>>
    BY <1>11 DEF StepStatement, Idle
  <2>2. (t = "event" => p \in EventPlaces) /\ (t = "ui" => p \in UiPlaces)
    BY DEF EventPlaces, UiPlaces
  <2> HIDE DEF p
  <2> QED
    BY <1>1, <2>1, <2>2, GoKept
<1>12. ASSUME NEW i \in Items, SetClipboard(i) PROVE Work'
  <2>1. /\ at' = [at EXCEPT !["ui"] = "bind_time"] /\ item' = [item EXCEPT !["ui"] = i]
        /\ Stamps("ui") /\ todo' = todo
    BY <1>12 DEF SetClipboard
  <2>2. time' \in [Threads -> 0 .. MaxTime]
    BY <2>1, StampTyped
  <2> QED
    BY <1>1, <2>1, <2>2, BeginKept DEF UiPlaces
<1>13. ASSUME NEW i \in Items, DeleteItem(i) PROVE Work'
  BY <1>1, <1>13, BeginKept DEF DeleteItem, UiPlaces
<1>14. CASE RemoveEntry
  BY <1>1, <1>14, GoKept DEF RemoveEntry, UiPlaces, Idle
<1>15. CASE RemoveRecent
  BY <1>1, <1>15, GoKept DEF RemoveRecent, UiPlaces, Idle
<1>16. CASE Restart
  <2>1. /\ at' = [t \in Threads |-> "idle"] /\ item' = [t \in Threads |-> NoItem]
        /\ time' = [t \in Threads |-> 0] /\ todo' = {}
    BY <1>16 DEF Restart
  <2> QED
    BY <2>1, HistoryAssumption DEF HistoryAssumption, Work, EventPlaces, UiPlaces, Idle
<1>17. CASE UNCHANGED <<at, item, time, todo>>
  BY <1>1, <1>17 DEF Work, Idle
<1> QED
  BY <1>2, <1>3, <1>4, <1>5, <1>6, <1>7, <1>8, <1>9, <1>10, <1>11, <1>12, <1>13, <1>14, <1>15,
     <1>16, <1>17 DEF Next, vars, LoadRecentEntries

LEMMA BindingKept ==
  ASSUME Typed, Stamped, [Next]_vars
  PROVE  Binding'
<1>1. bound \in [time : 0 .. MaxTime, item : Items \cup {NoItem}]
  BY DEF Typed, Binding
<1>2. ASSUME NEW t \in Threads, BindTime(t) PROVE Binding'
  <2>1. bound' = [time |-> time[t], item |-> NoItem] /\ time[t] \in 0 .. MaxTime
    BY <1>2 DEF BindTime, Typed, Work
  <2> QED
    BY <2>1 DEF Binding
<1>3. ASSUME NEW t \in Threads, BindItem(t) PROVE Binding'
  <2>1. bound' = [bound EXCEPT !.item = item[t]] /\ item[t] \in Items \cup {NoItem}
    BY <1>3 DEF BindItem, Typed, Work
  <2> QED
    BY <1>1, <2>1 DEF Binding
<1>4. CASE Restart
  <2>1. bound' = [time |-> 0, item |-> NoItem]
    BY <1>4 DEF Restart, Unbound
  <2> QED
    BY <2>1, HistoryAssumption DEF HistoryAssumption, Binding
<1>5. CASE bound' = bound
  BY <1>1, <1>5 DEF Binding
<1> QED
  BY <1>2, <1>3, <1>4, <1>5 DEF Next, vars, CopyArrives, SetClipboard, DeleteItem, AddEntry,
     CheckIfExists, InsertedContents, InsertUiItem, InsertContent, MoveToFront, StepStatement,
     RemoveEntry, RemoveRecent, LoadRecentEntries

LEMMA FlagKept ==
  ASSUME Typed, [Next]_vars
  PROVE  overlapped' \in BOOLEAN
<1>1. overlapped \in BOOLEAN
  BY DEF Typed
<1>2. CASE \E t \in Threads : Begins(t)
  BY <1>2, Zenon DEF Begins
<1>3. CASE overlapped' = overlapped
  BY <1>1, <1>3, Zenon
<1>4. CASE overlapped' = FALSE
  BY <1>4, Zenon
<1> QED
  BY <1>2, <1>3, <1>4, EventIsThread DEF Next, vars, CopyArrives, SetClipboard, DeleteItem,
     AddEntry, CheckIfExists, InsertedContents, InsertUiItem, InsertContent, MoveToFront,
     BindTime, BindItem, StepStatement, RemoveEntry, RemoveRecent, LoadRecentEntries, Restart

\* A step that neither stamps, stores nor binds, and takes no thread to
\* where it would need a stamp.
LEMMA StampsUntouched ==
  ASSUME Typed, Stamped, UNCHANGED <<items, bound, time, clock>>,
         \A t \in Threads :
           at'[t] \in {"contents_known", "contents_new", "bind_time", "bind_item", "step"} =>
             \/ at'[t] = at[t]
             \/ at[t] = "contents_known" /\ at'[t] = "bind_time"
  PROVE  Stamped'
BY DEF Stamped, Listed

LEMMA StampsKept ==
  ASSUME Typed, Stamped, [Next]_vars
  PROVE  Stamped'
<1> USE EventIsThread DEF Goes
<1>1. /\ clock \in Nat \ {0} /\ MaxTime \in Nat
      /\ \A u \in Threads : u = "event" \/ u = "ui"
  BY HistoryAssumption DEF HistoryAssumption, Stamped, Threads
<1>2. \A t \in Threads : \A p : at' = [at EXCEPT ![t] = p] =>
        at'[t] = p /\ \A u \in Threads \ {t} : at'[u] = at[u]
  BY DEF Typed, Work
<1>3. /\ \A i \in Listed : items[i] \in 1 .. MaxTime /\ items[i] < clock
      /\ \A t \in Threads : time[t] \in 0 .. MaxTime /\ time[t] < clock
      /\ bound.time \in 0 .. MaxTime /\ bound.time < clock
  BY DEF Stamped, Typed, Rows, Work, Binding
<1>4. ASSUME NEW i \in Items, CopyArrives(i) PROVE Stamped'
  <2>1. UNCHANGED <<items, bound, time, clock>>
    BY <1>4 DEF CopyArrives, database
  <2>2. at' = at \/ at' = [at EXCEPT !["event"] = "add"]
    BY <1>4 DEF CopyArrives
  <2> QED
    BY <1>2, <2>1, <2>2, StampsUntouched
<1>5. CASE AddEntry
  BY <1>2, <1>5, StampsUntouched DEF AddEntry, database
<1>6. ASSUME NEW t \in Threads, MoveToFront(t) PROVE Stamped'
  BY <1>2, <1>6, StampsUntouched DEF MoveToFront, database
<1>7. ASSUME NEW t \in Threads, Stamps(t), UNCHANGED <<items, bound>>, NEW p,
             at' = [at EXCEPT ![t] = p], p \in {"contents_known", "contents_new", "bind_time"}
      PROVE  Stamped'
  <2>1. clock' = clock + 1 /\ time'[t] = clock /\ \A u \in Threads \ {t} : time'[u] = time[u]
    BY <1>7, StampTyped DEF Stamps
  <2>2. \A i \in Listed : items'[i] < clock'
    BY <1>1, <1>3, <1>7, <2>1
  <2>3. \A u \in Threads : time'[u] < clock'
    BY <1>1, <1>3, <2>1
  <2>4. \A u \in Threads : at'[u] \in {"contents_known", "contents_new", "bind_time"} => time'[u] >= 1
    BY <1>1, <1>2, <1>7, <2>1 DEF Stamped
  <2>5. \A u \in Threads : at'[u] \in {"bind_item", "step"} => bound'.time >= 1
    BY <1>2, <1>7 DEF Stamped
  <2>6. bound'.time < clock' /\ (bound'.item # NoItem => bound'.time >= 1)
    BY <1>1, <1>3, <1>7, <2>1 DEF Stamped
  <2> QED
    BY <1>1, <1>7, <2>1, <2>2, <2>3, <2>4, <2>5, <2>6 DEF Stamped, Listed
<1>8. CASE CheckIfExists
  <2> DEFINE p == IF item["event"] \in Listed THEN "contents_known" ELSE "contents_new"
  <2>1. p \in {"contents_known", "contents_new", "bind_time"}
    OBVIOUS
  <2>2. at' = [at EXCEPT !["event"] = p] /\ Stamps("event") /\ UNCHANGED <<items, bound>>
    BY <1>8 DEF CheckIfExists, database
  <2> HIDE DEF p
  <2> QED
    BY <1>7, <2>1, <2>2
<1>9. ASSUME NEW i \in Items, SetClipboard(i) PROVE Stamped'
  <2>1. at' = [at EXCEPT !["ui"] = "bind_time"] /\ Stamps("ui") /\ UNCHANGED <<items, bound>>
    BY <1>9 DEF SetClipboard, database
  <2> QED
    BY <1>7, <2>1
<1>10. ASSUME NEW p \in Parts, InsertContent(p) PROVE Stamped'
  BY <1>10, StampsUntouched DEF InsertContent
<1>11. CASE InsertedContents
  BY <1>2, <1>11, StampsUntouched DEF InsertedContents, database
<1>12. CASE InsertUiItem
  <2> DEFINE x == item["event"]
             s == time["event"]
  <2>1. items' = [i \in Listed \cup {x} |-> IF i = x THEN s ELSE items[i]]
    BY <1>12 DEF InsertUiItem
  <2>2. s < clock
    BY <1>3
  <2> HIDE DEF x, s
  <2>3. UNCHANGED <<bound, time, clock>> /\ \A u \in Threads : at'[u] \in {"idle", at[u]}
    BY <1>2, <1>12 DEF InsertUiItem
  <2>4. \A i \in Listed' : items'[i] < clock'
    BY <1>3, <2>1, <2>2, <2>3 DEF Listed
  <2> QED
    BY <2>3, <2>4 DEF Stamped
<1>13. ASSUME NEW t \in Threads, StepStatement(t) PROVE Stamped'
  <2>1. items' = [i \in Listed |-> IF i = bound.item THEN bound.time ELSE items[i]]
    BY <1>13 DEF StepStatement
  <2>2. UNCHANGED <<bound, time, clock>> /\ \A u \in Threads : at'[u] \in {"idle", "front", at[u]}
    BY <1>2, <1>13 DEF StepStatement
  <2>3. \A i \in Listed' : items'[i] < clock'
    BY <1>3, <2>1, <2>2 DEF Listed
  <2> QED
    BY <2>2, <2>3 DEF Stamped
<1>14. ASSUME NEW i \in Items, DeleteItem(i) PROVE Stamped'
  <2>1. items' = [j \in Listed \ {i} |-> items[j]]
    BY <1>14 DEF DeleteItem
  <2>2. UNCHANGED <<bound, time, clock>> /\ \A u \in Threads : at'[u] \in {"remove", at[u]}
    BY <1>2, <1>14 DEF DeleteItem
  <2>3. \A j \in Listed' : items'[j] < clock'
    BY <1>3, <2>1, <2>2 DEF Listed
  <2> QED
    BY <2>2, <2>3 DEF Stamped
<1>15. ASSUME NEW t \in Threads, BindTime(t) PROVE Stamped'
  <2> DEFINE s == time[t]
  <2>1. s >= 1 /\ s < clock
    BY <1>3, <1>15 DEF BindTime, Stamped
  <2>2. bound' = [time |-> s, item |-> NoItem]
    BY <1>15 DEF BindTime
  <2> HIDE DEF s
  <2>3. UNCHANGED <<items, time, clock>> /\ \A u \in Threads : at'[u] \in {"bind_item", at[u]}
    BY <1>2, <1>15 DEF BindTime, database
  <2> QED
    BY <2>1, <2>2, <2>3 DEF Stamped, Listed
<1>16. ASSUME NEW t \in Threads, BindItem(t) PROVE Stamped'
  <2>1. bound.time >= 1 /\ bound'.time = bound.time
    BY <1>16 DEF BindItem, Stamped, Typed, Binding
  <2>2. UNCHANGED <<items, time, clock>> /\ \A u \in Threads : at'[u] \in {"step", at[u]}
    BY <1>2, <1>16 DEF BindItem, database
  <2> QED
    BY <2>1, <2>2 DEF Stamped, Listed
<1>17. CASE RemoveEntry
  BY <1>2, <1>17, StampsUntouched DEF RemoveEntry, database
<1>18. CASE RemoveRecent
  BY <1>2, <1>18, StampsUntouched DEF RemoveRecent, database
<1>19. ASSUME NEW n \in 1 .. MaxRecent, LoadRecentEntries(n) PROVE Stamped'
  BY <1>19, StampsUntouched DEF LoadRecentEntries, database
<1>20. CASE Restart
  <2>1. /\ at' = [t \in Threads |-> "idle"] /\ time' = [t \in Threads |-> 0]
        /\ bound' = [time |-> 0, item |-> NoItem] /\ UNCHANGED <<items, clock>>
    BY <1>20 DEF Restart, Unbound, database
  <2> QED
    BY <1>1, <1>3, <2>1 DEF Stamped, Listed
<1>21. CASE UNCHANGED vars
  BY <1>21, StampsUntouched DEF vars, database
<1> QED
  BY <1>4, <1>5, <1>6, <1>8, <1>9, <1>10, <1>11, <1>12, <1>13, <1>14, <1>15, <1>16, <1>17, <1>18,
     <1>19, <1>20, <1>21 DEF Next

LEMMA TypesKept ==
  ASSUME Typed, Stamped, [Next]_vars
  PROVE  Typed' /\ Stamped'
<1>1. Rows' /\ Contents' /\ Memory' /\ Work' /\ Binding'
  BY RowsKept, ContentsKept, MemoryKept, WorkKept, BindingKept
<1>2. overlapped' \in BOOLEAN
  BY FlagKept
<1>3. Stamped'
  BY StampsKept
<1> QED
  BY <1>1, <1>2, <1>3, Zenon DEF Typed

\* The types, in which the stamps matter: no row carries the time zero of an
\* empty binding, however the two threads share the prepared statement.
THEOREM HistoryTypeOK == Spec => []TypeOK
<1>1. Init => Typed /\ Stamped
  BY TypedAtFirst
<1>2. Typed /\ Stamped /\ [Next]_vars => (Typed /\ Stamped)'
  BY TypesKept
<1>3. Typed => TypeOK
  BY TypedIsTypeOK
<1> QED
  BY <1>1, <1>2, <1>3, PTL DEF Spec

-----------------------------------------------------------------------------
(***************************************************************************)
(* The memory and the database.                                            *)
(***************************************************************************)
\* The recent items other than x are in the order of their stamps.
OrderedBut(x) ==
  \A i, j \in 1 .. Len(recents) :
    i < j /\ recents[i] # x /\ recents[j] # x => items[recents[i]] >= items[recents[j]]

Acting == {"contents_known", "contents_new", "bind_time", "bind_item", "step"}

\* What the memory and the database agree on while thread t is inside an
\* operation on item x: all but x, and of x what the thread has done already.
Behind(t, x) ==
  /\ tree \ {x} = Listed \ {x} /\ Range(recents) \subseteq Listed \cup {x}
  /\ OrderedBut(x)
  /\ at[t] = "add" => (x \in tree <=> x \in Listed)
  /\ at[t] \in Acting \cup {"front", "check"} => x \in tree
  /\ t = "event" /\ at[t] \in Acting \cup {"check"} => recents # <<>> /\ recents[1] = x
  /\ at[t] \in Acting \ {"contents_new"} => x \in Listed
  /\ t = "ui" /\ at[t] = "front" => x \in Listed /\ \A i \in Listed : items[i] <= items[x]
  /\ at[t] \in Acting => \A i \in Listed : items[i] <= time[t]
  /\ at[t] \in {"bind_item", "step"} => bound.time = time[t]
  /\ at[t] = "step" => bound.item = x
  /\ at[t] \in {"remove", "unlist"} => x \notin Listed
  /\ at[t] = "unlist" => x \notin tree

Settled ==
  /\ tree = Listed /\ Range(recents) \subseteq Listed
  /\ \A i, j \in 1 .. Len(recents) : i < j => items[recents[i]] >= items[recents[j]]

OneBusy == \A t, u \in Threads : Idle(t) \/ Idle(u) \/ t = u

\* While operations do not overlap, one thread at most is inside one.
Follows ==
  ~overlapped =>
    /\ OneBusy
    /\ AtRest => Settled
    /\ \A t \in Threads : Idle(t) \/ Behind(t, item[t])

HistoryInv == Typed /\ Stamped /\ Follows

LEMMA FollowsAtFirst == Init => Follows
<1> SUFFICES ASSUME Init PROVE Follows
  OBVIOUS
<1>1. items = <<>> /\ recents = <<>> /\ tree = {} /\ \A t \in Threads : Idle(t)
  BY DEF Init, Idle
<1>2. Listed = {} /\ Range(recents) = {} /\ Len(recents) = 0
  BY <1>1 DEF Listed, Range
<1> QED
  BY <1>1, <1>2 DEF Follows, OneBusy, Settled

\* At rest, an operation that begins without overlap.
LEMMA BeginsAtRest ==
  ASSUME HistoryInv, NEW t \in Threads, Begins(t), ~overlapped'
  PROVE  ~overlapped /\ Settled /\ \A u \in Threads : Idle(u)
BY DEF HistoryInv, Follows, Begins, AtRest

\* A thread inside an operation is alone.
LEMMA InsideAlone ==
  ASSUME HistoryInv, NEW t \in Threads, ~Idle(t), ~overlapped
  PROVE  Behind(t, item[t]) /\ \A u \in Threads \ {t} : Idle(u)
BY DEF HistoryInv, Follows, OneBusy

\* The only thread inside an operation goes on with it, or ends it.
LEMMA GoesOn ==
  ASSUME Typed', NEW t \in Threads, NEW x, item'[t] = x, ~Idle(t)', Behind(t, x)',
         \A u \in Threads \ {t} : Idle(u)'
  PROVE  Follows'
BY DEF Follows, OneBusy, AtRest

LEMMA ComesToRest ==
  ASSUME \A u \in Threads : Idle(u)', Settled'
  PROVE  Follows'
BY DEF Follows, OneBusy, AtRest

\* The order of the recent items when one of them has been taken out.
LEMMA OrderWithout ==
  ASSUME Typed, NEW x, OrderedBut(x), NEW i \in 1 .. Len(RemoveFirst(recents, x)),
         NEW j \in 1 .. Len(RemoveFirst(recents, x)), i < j
  PROVE  items[RemoveFirst(recents, x)[i]] >= items[RemoveFirst(recents, x)[j]]
<1> DEFINE r == RemoveFirst(recents, x)
<1>1. recents \in Seq(Items) /\ IsInjective(recents)
  BY DEF Typed, Memory
<1>2. Range(r) = Range(recents) \ {x} /\ r \in Seq(Items)
  BY <1>1, RemoveFirstProperties
<1>3. PICK k \in 1 .. Len(recents), l \in 1 .. Len(recents) :
        k < l /\ r[i] = recents[k] /\ r[j] = recents[l]
  BY <1>1, RemoveFirstProperties
<1> HIDE DEF r
<1>4. r[i] # x /\ r[j] # x
  <2>1. Range(r) = {r[n] : n \in 1 .. Len(r)}
    BY <1>2, RangeElements
  <2>2. r[i] \in Range(r) /\ r[j] \in Range(r)
    BY <2>1 DEF r
  <2> QED
    BY <1>2, <2>2
<1>5. items[r[i]] >= items[r[j]]
  BY <1>3, <1>4 DEF OrderedBut
<1> QED
  BY <1>5 DEF r

\* insert_shift of an item that is the latest, or is being stamped.
LEMMA FrontOrder ==
  ASSUME Typed, NEW x \in Items, OrderedBut(x), recents' = InFront(x), items' = items
  PROVE  /\ Range(recents') = Range(recents) \cup {x}
         /\ recents' # <<>> /\ recents'[1] = x
         /\ OrderedBut(x)'
         /\ (\A i \in Range(recents) : items[i] <= items[x]) =>
              \A i, j \in 1 .. Len(recents') : i < j => items[recents'[i]] >= items[recents'[j]]
<1> DEFINE r == RemoveFirst(recents, x)
           s == <<x>> \o r
<1>1. recents \in Seq(Items) /\ IsInjective(recents)
  BY DEF Typed, Memory
<1>2. Range(r) = Range(recents) \ {x} /\ r \in Seq(Items)
  BY <1>1, RemoveFirstProperties
<1>3. \A i, j \in 1 .. Len(r) : i < j => items[r[i]] >= items[r[j]]
  BY OrderWithout
<1> HIDE DEF r
<1>4. /\ s \in Seq(Items) /\ Len(s) = Len(r) + 1 /\ s[1] = x
      /\ \A i \in 1 .. Len(r) : s[i + 1] = r[i]
      /\ Range(s) = Range(r) \cup {x}
  BY <1>2, InFrontProperties
<1>5. recents' = s
  BY DEF InFront, r
<1> HIDE DEF s
<1>6. Len(r) \in Nat /\ s # <<>>
  <2>1. Len(r) \in Nat
    BY <1>2
  <2>2. Len(s) # 0
    BY <1>4, <2>1
  <2> QED
    BY <2>1, <2>2
<1>7. \A i \in 1 .. Len(s) : i = 1 \/ (i - 1 \in 1 .. Len(r) /\ s[i] = r[i - 1])
  <2> TAKE i \in 1 .. Len(s)
  <2>1. i = 1 \/ (i - 1 \in 1 .. Len(r) /\ (i - 1) + 1 = i)
    BY <1>4, <1>6
  <2> QED
    BY <1>4, <2>1
<1>8. ASSUME NEW i \in 1 .. Len(s), NEW j \in 1 .. Len(s), i < j, i # 1
      PROVE  items[s[i]] >= items[s[j]]
  <2>1. /\ i - 1 \in 1 .. Len(r) /\ s[i] = r[i - 1]
        /\ j - 1 \in 1 .. Len(r) /\ s[j] = r[j - 1] /\ i - 1 < j - 1
    <3>1. j # 1
      BY <1>4, <1>6, <1>8
    <3> QED
      BY <1>7, <1>8, <3>1
  <2> QED
    BY <1>3, <2>1
<1>9. OrderedBut(x)'
  BY <1>4, <1>5, <1>8 DEF OrderedBut
<1>10. ASSUME \A i \in Range(recents) : items[i] <= items[x],
              NEW i \in 1 .. Len(s), NEW j \in 1 .. Len(s), i < j
       PROVE  items[s[i]] >= items[s[j]]
  <2>1. CASE i = 1
    <3>1. j - 1 \in 1 .. Len(r) /\ s[j] = r[j - 1]
      BY <1>7, <1>10, <2>1
    <3>2. s[j] \in Range(recents)
      BY <1>2, <3>1, RangeElements
    <3> DEFINE y == s[j]
    <3>3. items[y] <= items[x]
      BY <1>10, <3>2
    <3>4. items[x] >= items[y]
      BY <3>3
    <3> QED
      BY <1>4, <2>1, <3>4
  <2>2. CASE i # 1
    BY <1>8, <1>10, <2>2
  <2> QED
    BY <2>1, <2>2
<1>11. Range(s) = Range(recents) \cup {x}
  BY <1>2, <1>4
<1> QED
  BY <1>4, <1>5, <1>6, <1>9, <1>10, <1>11

\* A step inside an operation.
LEMMA InsideStep ==
  ASSUME HistoryInv, Typed', NEW t \in Threads, NEW x, x = item[t], ~Idle(t), ~overlapped,
         item' = item, \A u \in Threads \ {t} : at'[u] = at[u],
         \/ at'[t] = "idle" /\ Settled'
         \/ at'[t] # "idle" /\ Behind(t, x)'
  PROVE  Follows'
<1>1. \A u \in Threads \ {t} : Idle(u)'
  BY InsideAlone DEF Idle
<1>2. CASE at'[t] = "idle" /\ Settled'
  <2>1. \A u \in Threads : Idle(u)'
    BY <1>1, <1>2 DEF Idle
  <2> QED
    BY <1>2, <2>1, ComesToRest
<1>3. CASE at'[t] # "idle" /\ Behind(t, x)'
  <2>1. ~Idle(t)' /\ item'[t] = x
    BY <1>3 DEF Idle
  <2> QED
    BY <1>1, <1>3, <2>1, GoesOn
<1> QED
  BY <1>2, <1>3

\* A step that begins an operation and leaves memory and database alone.
LEMMA BeginsBehind ==
  ASSUME HistoryInv, NEW t \in Threads, NEW i \in Items, Settled, UNCHANGED <<tree, recents, items>>,
         \/ at'[t] = "add"
         \/ /\ t = "ui" /\ at'[t] = "bind_time" /\ i \in Listed
            /\ \A j \in Listed : items[j] <= time'[t]
  PROVE  Behind(t, i)'
<1>1. OrderedBut(i)'
  BY DEF Settled, OrderedBut
<1>2. tree' \ {i} = Listed' \ {i} /\ Range(recents') \subseteq Listed' \cup {i}
  BY DEF Settled, Listed
<1>3. Listed' = Listed /\ tree' = Listed
  BY DEF Settled, Listed
<1> QED
  BY <1>1, <1>2, <1>3, EventIsThread DEF Behind, Acting, Listed

LEMMA CopyArrivesFollows ==
  ASSUME HistoryInv, Typed', NEW i \in Items, CopyArrives(i)
  PROVE  Follows'
<1> SUFFICES ASSUME ~overlapped' PROVE Follows'
  BY DEF Follows
<1>1. ~overlapped /\ Settled /\ \A u \in Threads : Idle(u)
  BY BeginsAtRest, EventIsThread DEF CopyArrives
<1>2. UNCHANGED <<tree, recents, items>>
  BY DEF CopyArrives, database
<1>3. CASE UNCHANGED <<at, item>>
  <2>1. \A u \in Threads : Idle(u)'
    BY <1>1, <1>3 DEF Idle
  <2>2. Settled'
    BY <1>1, <1>2 DEF Settled, Listed
  <2> QED
    BY <2>1, <2>2, ComesToRest
<1>4. CASE item' = [item EXCEPT !["event"] = i] /\ at' = [at EXCEPT !["event"] = "add"]
  <2>1. /\ item'["event"] = i /\ at'["event"] = "add"
        /\ \A u \in Threads \ {"event"} : at'[u] = at[u]
    BY <1>4, EventIsThread DEF HistoryInv, Typed, Work
  <2>2. Behind("event", i)'
    BY <1>1, <1>2, <2>1, EventIsThread, BeginsBehind
  <2>3. ~Idle("event")' /\ \A u \in Threads \ {"event"} : Idle(u)'
    BY <1>1, <2>1 DEF Idle
  <2> QED
    BY <2>1, <2>2, <2>3, EventIsThread, GoesOn
<1> QED
  BY <1>3, <1>4 DEF CopyArrives, Goes

LEMMA SetClipboardFollows ==
  ASSUME HistoryInv, Typed', NEW i \in Items, SetClipboard(i)
  PROVE  Follows'
<1> SUFFICES ASSUME ~overlapped' PROVE Follows'
  BY DEF Follows
<1>1. ~overlapped /\ Settled /\ \A u \in Threads : Idle(u)
  BY BeginsAtRest, EventIsThread DEF SetClipboard
<1>2. UNCHANGED <<tree, recents, items>>
  BY DEF SetClipboard, database, memory
<1>3. i \in Listed
  BY <1>1 DEF SetClipboard, Shown, Settled
<1>4. /\ item'["ui"] = i /\ at'["ui"] = "bind_time"
      /\ \A u \in Threads \ {"ui"} : at'[u] = at[u]
  BY EventIsThread DEF SetClipboard, Goes, HistoryInv, Typed, Work
<1>5. time'["ui"] = clock
  BY StampTyped, EventIsThread DEF SetClipboard, HistoryInv
<1>6. \A j \in Listed : items[j] <= time'["ui"]
  BY <1>5 DEF HistoryInv, Stamped, Typed, Rows
<1>7. Behind("ui", i)'
  BY <1>1, <1>2, <1>3, <1>4, <1>6, EventIsThread, BeginsBehind
<1>8. ~Idle("ui")' /\ \A u \in Threads \ {"ui"} : Idle(u)'
  BY <1>1, <1>4 DEF Idle
<1> QED
  BY <1>4, <1>7, <1>8, EventIsThread, GoesOn

LEMMA DeleteItemFollows ==
  ASSUME HistoryInv, Typed', NEW i \in Items, DeleteItem(i)
  PROVE  Follows'
<1> SUFFICES ASSUME ~overlapped' PROVE Follows'
  BY DEF Follows
<1>1. ~overlapped /\ Settled /\ \A u \in Threads : Idle(u)
  BY BeginsAtRest, EventIsThread DEF DeleteItem
<1>2. UNCHANGED <<tree, recents>> /\ items' = [j \in Listed \ {i} |-> items[j]]
  BY DEF DeleteItem, memory
<1>3. /\ item'["ui"] = i /\ at'["ui"] = "remove"
      /\ \A u \in Threads \ {"ui"} : at'[u] = at[u]
  BY EventIsThread DEF DeleteItem, Goes, HistoryInv, Typed, Work
<1>4. Listed' = Listed \ {i} /\ \A j \in Listed \ {i} : items'[j] = items[j]
  BY <1>2 DEF Listed
<1>5. tree' \ {i} = Listed' \ {i} /\ Range(recents') \subseteq Listed' \cup {i} /\ i \notin Listed'
  BY <1>1, <1>2, <1>4 DEF Settled
<1>6. OrderedBut(i)'
  <2>1. Range(recents) = {recents[k] : k \in 1 .. Len(recents)}
    BY RangeElements DEF HistoryInv, Typed, Memory
  <2>2. \A k \in 1 .. Len(recents) : recents[k] \in Listed
    BY <1>1, <2>1 DEF Settled
  <2> QED
    BY <1>1, <1>2, <1>4, <2>2 DEF Settled, OrderedBut
<1>7. Behind("ui", i)'
  BY <1>3, <1>5, <1>6 DEF Behind, Acting
<1>8. ~Idle("ui")' /\ \A u \in Threads \ {"ui"} : Idle(u)'
  BY <1>1, <1>3 DEF Idle
<1> QED
  BY <1>3, <1>7, <1>8, EventIsThread, GoesOn

LEMMA AddEntryFollows ==
  ASSUME HistoryInv, Typed', AddEntry
  PROVE  Follows'
<1> SUFFICES ASSUME ~overlapped' PROVE Follows'
  BY DEF Follows
<1> SUFFICES ASSUME NEW x, x = item["event"] PROVE Follows'
  OBVIOUS
<1>1. ~overlapped /\ ~Idle("event") /\ Behind("event", x)
  BY InsideAlone, EventIsThread DEF AddEntry, Idle
<1>2. /\ tree' = tree \cup {x} /\ UNCHANGED <<recents, items, item>>
      /\ at'["event"] = "front" /\ \A u \in Threads \ {"event"} : at'[u] = at[u]
  BY EventIsThread DEF AddEntry, Goes, HistoryInv, Typed, Work, database
<1>3. OrderedBut(x)'
  BY <1>1, <1>2 DEF Behind, OrderedBut
<1>4. tree' \ {x} = Listed' \ {x} /\ Range(recents') \subseteq Listed' \cup {x} /\ x \in tree'
  BY <1>1, <1>2 DEF Behind, Listed
<1>5. Behind("event", x)'
  BY <1>2, <1>3, <1>4, EventIsThread DEF Behind, Acting
<1> QED
  BY <1>1, <1>2, <1>5, EventIsThread, InsideStep

LEMMA MoveToFrontFollows ==
  ASSUME HistoryInv, Typed', NEW t \in Threads, MoveToFront(t)
  PROVE  Follows'
<1> SUFFICES ASSUME ~overlapped' PROVE Follows'
  BY DEF Follows
<1> SUFFICES ASSUME NEW x, x = item[t] PROVE Follows'
  OBVIOUS
<1>1. ~overlapped /\ ~Idle(t) /\ Behind(t, x) /\ at[t] = "front" /\ x \in Items
  BY InsideAlone DEF MoveToFront, Idle, HistoryInv, Typed, Work
<1>2. /\ recents' = InFront(x) /\ UNCHANGED <<tree, items, item>>
      /\ at'[t] = (IF t = "event" THEN "check" ELSE "idle")
      /\ \A u \in Threads \ {t} : at'[u] = at[u]
  BY DEF MoveToFront, Goes, HistoryInv, Typed, Work, database
<1>3. OrderedBut(x) /\ x \in tree /\ tree \ {x} = Listed \ {x}
      /\ Range(recents) \subseteq Listed \cup {x}
  BY <1>1 DEF Behind, Acting
<1>4. /\ Range(recents') = Range(recents) \cup {x}
      /\ recents' # <<>> /\ recents'[1] = x /\ OrderedBut(x)'
  BY <1>1, <1>2, <1>3, FrontOrder DEF HistoryInv
<1>5. tree' \ {x} = Listed' \ {x} /\ Range(recents') \subseteq Listed' \cup {x} /\ x \in tree'
  BY <1>2, <1>3, <1>4 DEF Listed
<1>6. CASE t = "event"
  <2>1. at'[t] = "check"
    BY <1>2, <1>6
  <2>2. Behind(t, x)'
    BY <1>4, <1>5, <1>6, <2>1, EventIsThread DEF Behind, Acting
  <2> QED
    BY <1>1, <1>2, <2>1, <2>2, InsideStep
<1>7. CASE t # "event"
  <2>1. t = "ui"
    BY <1>7 DEF Threads
  <2>2. x \in Listed /\ \A i \in Listed : items[i] <= items[x]
    BY <1>1, <2>1 DEF Behind
  <2>3. \A i \in Range(recents) : items[i] <= items[x]
    BY <1>3, <2>2
  <2>4. \A i, j \in 1 .. Len(recents') : i < j => items[recents'[i]] >= items[recents'[j]]
    BY <1>1, <1>2, <1>3, <2>3, FrontOrder DEF HistoryInv
  <2>5. tree' = Listed' /\ Range(recents') \subseteq Listed'
    <3>1. x \in Listed'
      BY <1>2, <2>2 DEF Listed
    <3> QED
      BY <1>5, <3>1
  <2>6. Settled'
    BY <1>2, <2>4, <2>5 DEF Settled
  <2> QED
    BY <1>1, <1>2, <1>7, <2>6, InsideStep
<1> QED
  BY <1>6, <1>7

LEMMA CheckIfExistsFollows ==
  ASSUME HistoryInv, Typed', CheckIfExists
  PROVE  Follows'
<1> SUFFICES ASSUME ~overlapped' PROVE Follows'
  BY DEF Follows
<1> SUFFICES ASSUME NEW x, x = item["event"] PROVE Follows'
  OBVIOUS
<1> DEFINE p == IF x \in Listed THEN "contents_known" ELSE "contents_new"
<1>1. ~overlapped /\ ~Idle("event") /\ Behind("event", x) /\ at["event"] = "check"
  BY InsideAlone, EventIsThread DEF CheckIfExists, Idle
<1>2. /\ UNCHANGED <<tree, recents, items, item>>
      /\ at'["event"] = p /\ \A u \in Threads \ {"event"} : at'[u] = at[u]
  BY EventIsThread DEF CheckIfExists, Goes, HistoryInv, Typed, Work, database, memory
<1>3. time'["event"] = clock
  BY StampTyped, EventIsThread DEF CheckIfExists, HistoryInv
<1>4. \A j \in Listed : items[j] <= time'["event"]
  BY <1>3 DEF HistoryInv, Stamped, Typed, Rows
<1>5. p \in {"contents_known", "contents_new"} /\ (p = "contents_known" => x \in Listed)
  OBVIOUS
<1>6. OrderedBut(x)'
  BY <1>1, <1>2 DEF Behind, OrderedBut
<1>7. /\ tree' \ {x} = Listed' \ {x} /\ Range(recents') \subseteq Listed' \cup {x}
      /\ x \in tree' /\ recents' # <<>> /\ recents'[1] = x
  BY <1>1, <1>2 DEF Behind, Listed
<1> HIDE DEF p
<1>8. Behind("event", x)'
  BY <1>2, <1>4, <1>5, <1>6, <1>7, EventIsThread DEF Behind, Acting, Listed
<1> QED
  BY <1>1, <1>2, <1>5, <1>8, EventIsThread, InsideStep

LEMMA FollowsUntouched ==
  ASSUME HistoryInv, UNCHANGED <<at, item, tree, recents, items, time, bound, overlapped>>
  PROVE  Follows'
<1>1. /\ \A t : Idle(t)' <=> Idle(t)
      /\ Settled' <=> Settled
      /\ \A t, x : Behind(t, x)' <=> Behind(t, x)
  BY DEF Idle, Settled, Behind, OrderedBut, Listed
<1>2. ASSUME ~overlapped'
      PROVE  OneBusy' /\ (AtRest' => Settled') /\ \A t \in Threads : Idle(t)' \/ Behind(t, item[t])'
  <2>1. OneBusy /\ (AtRest => Settled) /\ \A t \in Threads : Idle(t) \/ Behind(t, item[t])
    BY <1>2 DEF HistoryInv, Follows
  <2>2. ASSUME NEW t \in Threads, NEW x, x = item[t] PROVE Idle(t)' \/ Behind(t, x)'
    BY <1>1, <2>1, <2>2
  <2> QED
    BY <1>1, <2>1, <2>2 DEF OneBusy, AtRest
<1> QED
  BY <1>2 DEF Follows

LEMMA InsertedContentsFollows ==
  ASSUME HistoryInv, Typed', InsertedContents
  PROVE  Follows'
<1> SUFFICES ASSUME ~overlapped' PROVE Follows'
  BY DEF Follows
<1> SUFFICES ASSUME NEW x, x = item["event"] PROVE Follows'
  OBVIOUS
<1>1. /\ ~overlapped /\ ~Idle("event") /\ Behind("event", x) /\ at["event"] = "contents_known"
  BY InsideAlone, EventIsThread DEF InsertedContents, Idle
<1>2. /\ UNCHANGED <<tree, recents, items, item, time>>
      /\ at'["event"] = "bind_time" /\ \A u \in Threads \ {"event"} : at'[u] = at[u]
  BY EventIsThread DEF InsertedContents, Goes, HistoryInv, Typed, Work, database, memory
<1>3. OrderedBut(x)'
  BY <1>1, <1>2 DEF Behind, OrderedBut
<1>4. Behind("event", x)'
  BY <1>1, <1>2, <1>3, EventIsThread DEF Behind, Acting, Listed
<1> QED
  BY <1>1, <1>2, <1>4, EventIsThread, InsideStep

\* Listing an item, or stamping it, when it is the first of the recent items.
LEMMA FirstIsLatest ==
  ASSUME Typed, NEW x \in Items, NEW s \in Nat, OrderedBut(x), recents # <<>>, recents[1] = x,
         Range(recents) \subseteq Listed \cup {x}, \A i \in Listed : items[i] <= s,
         recents' = recents,
         items' = [i \in Listed \cup {x} |-> IF i = x THEN s ELSE items[i]]
  PROVE  \A i, j \in 1 .. Len(recents') : i < j => items'[recents'[i]] >= items'[recents'[j]]
<1>1. recents \in Seq(Items) /\ DOMAIN recents = 1 .. Len(recents) /\ IsInjective(recents)
  BY DEF Typed, Memory
<1>2. Range(recents) = {recents[k] : k \in 1 .. Len(recents)}
  BY <1>1, RangeElements
<1>3. \A k \in 1 .. Len(recents) : recents[k] \in Listed \cup {x} /\ (k # 1 => recents[k] # x)
  <2> TAKE k \in 1 .. Len(recents)
  <2>1. recents[k] \in Range(recents)
    BY <1>2
  <2>2. 1 \in DOMAIN recents /\ k \in DOMAIN recents
    BY <1>1
  <2> QED
    BY <2>1, <2>2 DEF IsInjective, Typed, Memory
<1>4. \A i \in Listed : items[i] \in Nat
  BY DEF Typed, Rows
<1>5. ASSUME NEW i \in 1 .. Len(recents), NEW j \in 1 .. Len(recents), i < j
      PROVE  items'[recents[i]] >= items'[recents[j]]
  <2> DEFINE y == recents[i]
             z == recents[j]
  <2>1. j # 1 /\ z # x /\ z \in Listed /\ items'[z] = items[z]
    BY <1>3, <1>5
  <2>2. CASE i = 1
    <3>1. items'[y] = s
      BY <2>2
    <3>2. items[z] <= s /\ items[z] \in Nat
      BY <1>4, <2>1
    <3> QED
      BY <2>1, <3>1, <3>2
  <2>3. CASE i # 1
    <3>1. y # x /\ y \in Listed /\ items'[y] = items[y]
      BY <1>3, <2>3
    <3>2. items[y] >= items[z]
      BY <1>5, <2>1, <3>1 DEF OrderedBut
    <3> QED
      BY <2>1, <3>1, <3>2
  <2> QED
    BY <2>2, <2>3
<1> QED
  BY <1>5

LEMMA InsertUiItemFollows ==
  ASSUME HistoryInv, Typed', InsertUiItem
  PROVE  Follows'
<1> SUFFICES ASSUME ~overlapped' PROVE Follows'
  BY DEF Follows
<1> SUFFICES ASSUME NEW x, x = item["event"], NEW s, s = time["event"] PROVE Follows'
  OBVIOUS
<1>1. /\ ~overlapped /\ ~Idle("event") /\ Behind("event", x) /\ at["event"] = "contents_new"
      /\ x \in Items /\ s \in Nat
  BY InsideAlone, EventIsThread DEF InsertUiItem, Idle, HistoryInv, Typed, Work
<1>2. /\ items' = [i \in Listed \cup {x} |-> IF i = x THEN s ELSE items[i]]
      /\ UNCHANGED <<tree, recents, item>>
      /\ at'["event"] = "idle" /\ \A u \in Threads \ {"event"} : at'[u] = at[u]
  BY EventIsThread DEF InsertUiItem, Goes, HistoryInv, Typed, Work, memory
<1>3. /\ OrderedBut(x) /\ recents # <<>> /\ recents[1] = x
      /\ Range(recents) \subseteq Listed \cup {x} /\ \A i \in Listed : items[i] <= s
      /\ tree \ {x} = Listed \ {x} /\ x \in tree
  BY <1>1 DEF Behind, Acting
<1>4. Listed' = Listed \cup {x}
  BY <1>2 DEF Listed
<1>5. \A i, j \in 1 .. Len(recents') : i < j => items'[recents'[i]] >= items'[recents'[j]]
  BY <1>1, <1>2, <1>3, FirstIsLatest DEF HistoryInv
<1>6. Settled'
  BY <1>2, <1>3, <1>4, <1>5 DEF Settled
<1> QED
  BY <1>1, <1>2, <1>6, EventIsThread, InsideStep

LEMMA BindTimeFollows ==
  ASSUME HistoryInv, Typed', NEW t \in Threads, BindTime(t)
  PROVE  Follows'
<1> SUFFICES ASSUME ~overlapped' PROVE Follows'
  BY DEF Follows
<1> SUFFICES ASSUME NEW x, x = item[t] PROVE Follows'
  OBVIOUS
<1>1. ~overlapped /\ ~Idle(t) /\ Behind(t, x) /\ at[t] = "bind_time"
  BY InsideAlone DEF BindTime, Idle
<1>2. /\ UNCHANGED <<tree, recents, items, item, time>> /\ bound'.time = time[t]
      /\ at'[t] = "bind_item" /\ \A u \in Threads \ {t} : at'[u] = at[u]
  BY DEF BindTime, Goes, HistoryInv, Typed, Work, database, memory
<1>3. OrderedBut(x)'
  BY <1>1, <1>2 DEF Behind, OrderedBut
<1>4. Behind(t, x)'
  BY <1>1, <1>2, <1>3 DEF Behind, Acting, Listed
<1> QED
  BY <1>1, <1>2, <1>4, InsideStep

LEMMA BindItemFollows ==
  ASSUME HistoryInv, Typed', NEW t \in Threads, BindItem(t)
  PROVE  Follows'
<1> SUFFICES ASSUME ~overlapped' PROVE Follows'
  BY DEF Follows
<1> SUFFICES ASSUME NEW x, x = item[t] PROVE Follows'
  OBVIOUS
<1>1. ~overlapped /\ ~Idle(t) /\ Behind(t, x) /\ at[t] = "bind_item"
  BY InsideAlone DEF BindItem, Idle
<1>2. /\ UNCHANGED <<tree, recents, items, item, time>>
      /\ bound'.time = bound.time /\ bound'.item = x
      /\ at'[t] = "step" /\ \A u \in Threads \ {t} : at'[u] = at[u]
  BY DEF BindItem, Goes, HistoryInv, Typed, Work, Binding, database, memory
<1>3. OrderedBut(x)'
  BY <1>1, <1>2 DEF Behind, OrderedBut
<1>4. Behind(t, x)'
  BY <1>1, <1>2, <1>3 DEF Behind, Acting, Listed
<1> QED
  BY <1>1, <1>2, <1>4, InsideStep

LEMMA StepStatementFollows ==
  ASSUME HistoryInv, Typed', NEW t \in Threads, StepStatement(t)
  PROVE  Follows'
<1> SUFFICES ASSUME ~overlapped' PROVE Follows'
  BY DEF Follows
<1> SUFFICES ASSUME NEW x, x = item[t], NEW s, s = time[t] PROVE Follows'
  OBVIOUS
<1>1. /\ ~overlapped /\ ~Idle(t) /\ Behind(t, x) /\ at[t] = "step"
      /\ x \in Items /\ s \in Nat
  BY InsideAlone DEF StepStatement, Idle, HistoryInv, Typed, Work
<1>2. bound.item = x /\ bound.time = s
  BY <1>1 DEF Behind
<1>3. /\ items' = [i \in Listed |-> IF i = x THEN s ELSE items[i]]
      /\ UNCHANGED <<tree, recents, item>>
      /\ at'[t] = (IF t = "event" THEN "idle" ELSE "front")
      /\ \A u \in Threads \ {t} : at'[u] = at[u]
  BY <1>2 DEF StepStatement, Goes, HistoryInv, Typed, Work, memory
<1>4. /\ OrderedBut(x) /\ x \in Listed /\ \A i \in Listed : items[i] <= s
      /\ Range(recents) \subseteq Listed \cup {x}
      /\ tree \ {x} = Listed \ {x} /\ x \in tree
      /\ t = "event" => recents # <<>> /\ recents[1] = x
  BY <1>1 DEF Behind, Acting
<1>5. Listed' = Listed /\ Listed \cup {x} = Listed
  BY <1>3, <1>4 DEF Listed
<1>6. CASE t = "event"
  <2>1. \A i, j \in 1 .. Len(recents') : i < j => items'[recents'[i]] >= items'[recents'[j]]
    BY <1>1, <1>3, <1>4, <1>5, <1>6, FirstIsLatest DEF HistoryInv
  <2>2. Settled'
    BY <1>3, <1>4, <1>5, <2>1 DEF Settled
  <2> QED
    BY <1>1, <1>3, <1>6, <2>2, InsideStep
<1>7. CASE t # "event"
  <2>1. t = "ui" /\ at'[t] = "front"
    BY <1>3, <1>7 DEF Threads
  <2>2. OrderedBut(x)'
    <3>1. Range(recents) = {recents[k] : k \in 1 .. Len(recents)}
      BY RangeElements DEF HistoryInv, Typed, Memory
    <3>2. \A k \in 1 .. Len(recents) : recents[k] # x => items'[recents[k]] = items[recents[k]]
      BY <1>3, <1>4, <3>1
    <3> QED
      BY <1>3, <1>4, <3>2 DEF OrderedBut
  <2>3. x \in Listed' /\ \A i \in Listed' : items'[i] <= items'[x]
    BY <1>1, <1>3, <1>4, <1>5
  <2>4. Behind(t, x)'
    BY <1>3, <1>4, <1>5, <1>7, <2>1, <2>2, <2>3 DEF Behind, Acting
  <2> QED
    BY <1>1, <1>3, <2>1, <2>4, InsideStep
<1> QED
  BY <1>6, <1>7

LEMMA RemoveEntryFollows ==
  ASSUME HistoryInv, Typed', RemoveEntry
  PROVE  Follows'
<1> SUFFICES ASSUME ~overlapped' PROVE Follows'
  BY DEF Follows
<1> SUFFICES ASSUME NEW x, x = item["ui"] PROVE Follows'
  OBVIOUS
<1>1. ~overlapped /\ ~Idle("ui") /\ Behind("ui", x) /\ at["ui"] = "remove"
  BY InsideAlone, EventIsThread DEF RemoveEntry, Idle
<1>2. /\ tree' = tree \ {x} /\ UNCHANGED <<recents, items, item>>
      /\ at'["ui"] = "unlist" /\ \A u \in Threads \ {"ui"} : at'[u] = at[u]
  BY EventIsThread DEF RemoveEntry, Goes, HistoryInv, Typed, Work, database
<1>3. OrderedBut(x)'
  BY <1>1, <1>2 DEF Behind, OrderedBut
<1>4. Behind("ui", x)'
  BY <1>1, <1>2, <1>3, EventIsThread DEF Behind, Acting, Listed
<1> QED
  BY <1>1, <1>2, <1>4, EventIsThread, InsideStep

LEMMA RemoveRecentFollows ==
  ASSUME HistoryInv, Typed', RemoveRecent
  PROVE  Follows'
<1> SUFFICES ASSUME ~overlapped' PROVE Follows'
  BY DEF Follows
<1> SUFFICES ASSUME NEW x, x = item["ui"] PROVE Follows'
  OBVIOUS
<1>1. ~overlapped /\ ~Idle("ui") /\ Behind("ui", x) /\ at["ui"] = "unlist"
  BY InsideAlone, EventIsThread DEF RemoveRecent, Idle
<1>2. /\ recents' = RemoveFirst(recents, x) /\ UNCHANGED <<tree, items, item>>
      /\ at'["ui"] = "idle" /\ \A u \in Threads \ {"ui"} : at'[u] = at[u]
  BY EventIsThread DEF RemoveRecent, Goes, HistoryInv, Typed, Work, database
<1>3. OrderedBut(x) /\ tree = Listed /\ x \notin Listed /\ Range(recents) \subseteq Listed \cup {x}
  BY <1>1 DEF Behind, Acting
<1>4. Range(recents') = Range(recents) \ {x}
  BY <1>2, RemoveFirstProperties DEF HistoryInv, Typed, Memory
<1>5. \A i, j \in 1 .. Len(recents') : i < j => items'[recents'[i]] >= items'[recents'[j]]
  BY <1>2, <1>3, OrderWithout DEF HistoryInv
<1>6. Settled'
  BY <1>2, <1>3, <1>4, <1>5 DEF Settled, Listed
<1> QED
  BY <1>1, <1>2, <1>6, EventIsThread, InsideStep

\* The recent items are read again from the rows.
LEMMA ReadAgain ==
  ASSUME Typed, NEW n \in Nat, recents' = Latest(n), items' = items, tree' = Listed
  PROVE  Settled'
<1>1. /\ Range(Latest(n)) \subseteq Listed
      /\ \A i, j \in 1 .. Len(Latest(n)) : i < j => items[Latest(n)[i]] >= items[Latest(n)[j]]
  BY LatestIsInOrder
<1> QED
  BY <1>1 DEF Settled, Listed

LEMMA LoadRecentEntriesFollows ==
  ASSUME HistoryInv, Typed', NEW n \in 1 .. MaxRecent, LoadRecentEntries(n)
  PROVE  Follows'
<1> SUFFICES ASSUME ~overlapped' PROVE Follows'
  BY DEF Follows
<1>1. ~overlapped /\ Settled /\ \A u \in Threads : Idle(u)
  BY BeginsAtRest, EventIsThread DEF LoadRecentEntries
<1>2. recents' = Latest(n) /\ items' = items /\ tree' = Listed /\ at' = at
  BY <1>1 DEF LoadRecentEntries, database, Settled
<1>3. Settled'
  BY <1>2, ReadAgain DEF HistoryInv
<1>4. \A u \in Threads : Idle(u)'
  BY <1>1, <1>2 DEF Idle
<1> QED
  BY <1>3, <1>4, ComesToRest

LEMMA RestartFollows ==
  ASSUME HistoryInv, Typed', Restart
  PROVE  Follows'
<1>1. /\ recents' = Latest(limit) /\ items' = items /\ tree' = Listed
      /\ at' = [t \in Threads |-> "idle"]
  BY DEF Restart, database
<1>2. limit \in Nat
  BY DEF HistoryInv, Typed, Memory
<1>3. Settled'
  BY <1>1, <1>2, ReadAgain DEF HistoryInv
<1>4. \A u \in Threads : Idle(u)'
  BY <1>1 DEF Idle
<1> QED
  BY <1>3, <1>4, ComesToRest

LEMMA HistoryInvKept ==
  ASSUME HistoryInv, [Next]_vars
  PROVE  HistoryInv'
<1>1. Typed' /\ Stamped'
  BY TypesKept DEF HistoryInv
<1>2. Follows'
  <2>1. ASSUME NEW p \in Parts, InsertContent(p) PROVE Follows'
    BY <2>1, FollowsUntouched DEF InsertContent, memory
  <2>2. CASE UNCHANGED vars
    BY <2>2, FollowsUntouched DEF vars, database, memory
  <2> QED
    BY <1>1, <2>1, <2>2, CopyArrivesFollows, SetClipboardFollows, DeleteItemFollows,
       AddEntryFollows, MoveToFrontFollows, CheckIfExistsFollows, InsertedContentsFollows,
       InsertUiItemFollows, BindTimeFollows, BindItemFollows, StepStatementFollows,
       RemoveEntryFollows, RemoveRecentFollows, LoadRecentEntriesFollows, RestartFollows DEF Next
<1> QED
  BY <1>1, <1>2 DEF HistoryInv

LEMMA HistoryInvAlways == Spec => []HistoryInv
<1>1. Init => HistoryInv
  BY TypedAtFirst, FollowsAtFirst DEF HistoryInv
<1>2. HistoryInv /\ [Next]_vars => HistoryInv'
  BY HistoryInvKept
<1> QED
  BY <1>1, <1>2, PTL DEF Spec

\* Between operations that did not overlap, what can be searched is what the
\* database holds, whatever was copied, used and deleted and however often the
\* program was killed inside an operation.
THEOREM MemoryIsDatabase == Spec => []MemoryMatchesDatabase
<1>1. HistoryInv => MemoryMatchesDatabase
  BY DEF HistoryInv, Follows, MemoryMatchesDatabase, Settled
<1> QED
  BY <1>1, HistoryInvAlways, PTL

\* Between operations that did not overlap, the recent items stand in the
\* order the database will give them after a restart.
THEOREM RecentsAlwaysInOrder == Spec => []RecentsInOrder
<1>1. HistoryInv => RecentsInOrder
  BY DEF HistoryInv, Follows, RecentsInOrder, Settled
<1> QED
  BY <1>1, HistoryInvAlways, PTL
=============================================================================
