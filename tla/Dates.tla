-------------------------------- MODULE Dates --------------------------------
(***************************************************************************)
(* The date parser (src/calendar/date-parser.vala) and the target of a new *)
(* event that is made of it at every change of the text                    *)
(* (calendar-match-action-target.vala).                                    *)
(*                                                                         *)
(* A text is a sequence of tokens: what one regular expression matches.    *)
(* Separators are left out, and so is daylight saving time.                *)
(***************************************************************************)
EXTENDS Integers, SequencesExt

CONSTANTS
  Tokens,   \* what the user may type
  Moments,  \* when: dates with a minute of the day
  MaxTokens \* bound: tokens of a text

VARIABLES now, text, target

-----------------------------------------------------------------------------
(***************************************************************************)
(* GLib.DateTime.                                                          *)
(***************************************************************************)
None == [year |-> 0, month |-> 0, day |-> 0]
Date(y, m, d) == [year |-> y, month |-> m, day |-> d]
Leap(y) == y % 4 = 0 /\ (y % 100 # 0 \/ y % 400 = 0)
DaysIn(y, m) ==
  IF m = 2 THEN IF Leap(y) THEN 29 ELSE 28 ELSE IF m \in {4, 6, 9, 11} THEN 30 ELSE 31

\* new DateTime.local: null where there is no such day.
Local(y, m, d) == IF d <= DaysIn(y, m) THEN Date(y, m, d) ELSE None

NextDay(d) ==
  IF d.day < DaysIn(d.year, d.month) THEN Date(d.year, d.month, d.day + 1)
  ELSE IF d.month < 12 THEN Date(d.year, d.month + 1, 1)
  ELSE Date(d.year + 1, 1, 1)

AddDays(d, n) == LET f[i \in 0 .. n] == IF i = 0 THEN d ELSE NextDay(f[i - 1]) IN f[n]
AddYear(d)    == Date(d.year + 1, d.month, Min({d.day, DaysIn(d.year + 1, d.month)}))

\* 0 is Sunday.
Weekday(d) ==
  LET y == IF d.month < 3 THEN d.year - 1 ELSE d.year
  IN  (y + y \div 4 - y \div 100 + y \div 400
         + <<0, 3, 2, 5, 0, 3, 5, 1, 4, 6, 2, 4>>[d.month] + d.day) % 7

At(d, minute) == [date |-> d, minute |-> minute]
Instant(x) == ((x.date.year * 12 + x.date.month) * 31 + x.date.day) * 1440 + x.minute
Midnight(d) == At(d, 0)
AddHour(x) ==
  IF x.minute + 60 < 1440 THEN At(x.date, x.minute + 60) ELSE At(NextDay(x.date), x.minute - 1380)

-----------------------------------------------------------------------------
(***************************************************************************)
(* parse_date and parse_time on the token at the position.                 *)
(***************************************************************************)
DateOf(n, t) ==
  CASE t.kind = "today"    -> n.date
    [] t.kind = "tomorrow" -> AddDays(n.date, 1)
    [] t.kind = "weekday"  -> LET ahead == (t.day - Weekday(n.date) + 7) % 7
                              IN  AddDays(n.date, IF ahead = 0 THEN 7 ELSE ahead)
    [] t.kind = "monthday" -> Local(n.date.year, t.month, t.day)
    [] t.kind = "full"     -> Local(t.year, t.month, t.day)

\* What the regular expressions take for a day or a time, of any year.
Token ==
  [kind : {"today", "tomorrow"}] \cup [kind : {"weekday"}, day : 0 .. 6]
  \cup [kind : {"monthday"}, month : 1 .. 12, day : 1 .. 31]
  \cup [kind : {"full"}, year : Nat, month : 1 .. 12, day : 1 .. 31]
  \cup [kind : {"time"}, hour : 0 .. 99, minute : 0 .. 99, period : {"am", "pm", "none"}]

IsTime(t) == t.kind = "time"
IsDate(t) == t.kind \in {"today", "tomorrow", "weekday", "monthday", "full"}

\* Hours and minutes that no day has are read, too.
TimeOf(t) ==
  [hour   |-> IF t.period = "pm" /\ t.hour < 12 THEN t.hour + 12
              ELSE IF t.period = "am" /\ t.hour = 12 THEN 0 ELSE t.hour,
   minute |-> t.minute]

-----------------------------------------------------------------------------
(***************************************************************************)
(* parse_datetime_range.                                                   *)
(***************************************************************************)
NoTime == [hour |-> -1, minute |-> 0]
Empty == [start_date |-> None, start_time |-> NoTime,
          end_date |-> None, end_time |-> NoTime, stopped |-> FALSE]

\* Slip: a place that was filled is filled again.
OpenAgain(place, free) == TRUE

Open(place, free) == place = free

\* One round of the loop: the first open place for the token, or the end.
\* A date that does not exist is read over.
Take(s, n, t) ==
  IF s.stopped THEN s
  ELSE IF IsDate(t) /\ Open(s.start_date, None)   THEN [s EXCEPT !.start_date = DateOf(n, t)]
  ELSE IF IsTime(t) /\ Open(s.start_time, NoTime) THEN [s EXCEPT !.start_time = TimeOf(t)]
  ELSE IF IsDate(t) /\ Open(s.end_date, None)     THEN [s EXCEPT !.end_date = DateOf(n, t)]
  ELSE IF IsTime(t) /\ Open(s.end_time, NoTime)   THEN [s EXCEPT !.end_time = TimeOf(t)]
  ELSE [s EXCEPT !.stopped = TRUE]

\* The state of the loop after all tokens.
ReadAll(n, tokens) ==
  LET after[i \in 0 .. Len(tokens)] ==
        IF i = 0 THEN Empty ELSE Take(after[i - 1], n, tokens[i])
  IN  after[Len(tokens)]

\* Slip: the minutes are added to the day, however many.
CombineAny(d, time) == {At(d, 60 * time.hour + time.minute)}

\* new DateTime.local of a date and a time; null if there is no such time.
Combine(d, time) ==
  IF time.hour \in 0 .. 23 /\ time.minute \in 0 .. 59
  THEN {At(d, 60 * time.hour + time.minute)} ELSE {}

\* Slip: a date that has passed stays in this year.
ThisYear(n, d) == d

NextOccurrence(n, d) == IF Instant(Midnight(d)) < Instant(n) THEN AddYear(d) ELSE d

Start(n, s) ==
  IF s.start_time = NoTime
  THEN {Midnight(NextOccurrence(n, s.start_date))}
  ELSE Combine(NextOccurrence(n, s.start_date), s.start_time)

End(n, s) ==
  IF s.end_date = None /\ s.end_time = NoTime
  THEN IF s.start_time = NoTime THEN Start(n, s) ELSE {AddHour(x) : x \in Start(n, s)}
  ELSE Combine(NextOccurrence(n, IF s.end_date # None THEN s.end_date ELSE s.start_date),
               IF s.end_time # NoTime THEN s.end_time
               ELSE IF s.start_time # NoTime /\ s.end_date # None THEN s.start_time
               ELSE [hour |-> 0, minute |-> 0])

\* target_match: the events the text makes, one or none.
Target(n, tokens) ==
  LET s == ReadAll(n, tokens)
  IN  IF s.start_date = None THEN {}
      ELSE {[start |-> x, end |-> y] : x \in Start(n, s), y \in End(n, s)}

-----------------------------------------------------------------------------
\* Days that exist, and times.
Days == {d \in [year : Nat, month : 1 .. 12, day : 1 .. 31] : d.day <= DaysIn(d.year, d.month)}
Real(x) == x.date \in Days /\ x.minute \in 0 .. 1439

Init == now = (CHOOSE n \in Moments : TRUE) /\ text = <<>> /\ target = {}

\* The user starts anew, later.
Clear(n) == text # <<>> /\ now' = n /\ text' = <<>> /\ target' = {}

\* What follows the token that ends the range is the description.
Type(t) ==
  /\ Len(text) < MaxTokens /\ ~ReadAll(now, text).stopped
  /\ text' = Append(text, t)
  /\ target' = Target(now, text')
  /\ UNCHANGED now

Next == (\E n \in Moments : Clear(n)) \/ (\E t \in Tokens : Type(t))

-----------------------------------------------------------------------------
TypeOK ==
  /\ now \in Moments /\ text \in BoundedSeq(Tokens, MaxTokens)
  /\ \A e \in target : Real(e.start) /\ Real(e.end)

Existing(t) == IsDate(t) /\ DateOf(now, t) # None
Where(Is(_)) == {i \in 1 .. Len(text) : Is(text[i])}
Twice(Is(_)) == \E i, j \in Where(Is) : i # j

\* The first date of the text that exists, if there is one.
FirstDate == text[Min(Where(Existing))]

\* The days of this year and the next that a word without a year may mean.
Meant(t) ==
  CASE t.kind = "monthday" -> {d \in {Date(now.date.year + i, t.month, t.day) : i \in {0, 1}} :
                                 d.day <= DaysIn(d.year, d.month)}
    [] t.kind = "weekday"  -> {d \in {AddDays(now.date, i) : i \in 0 .. 7} :
                                 Weekday(d) = t.day /\ d # now.date}
    [] t.kind = "tomorrow" -> {NextDay(now.date)}
    [] OTHER               -> {}

\* A date typed without a year is the first such day that begins from now on;
\* 29 February aside, when it has passed.
FirstOccurrence ==
  \A e \in target :
    LET ahead == {d \in Meant(FirstDate) : Instant(Midnight(d)) >= Instant(now)}
    IN  ahead # {} => /\ e.start.date \in ahead
                      /\ \A d \in ahead : Instant(Midnight(d)) >= Instant(e.start) - e.start.minute

\* What was understood stays: what is typed after the first date and time
\* changes no more than the end, and after two of each nothing.
TypingOnKeeps ==
  [][\A e \in target, f \in target' :
       /\ f.start.date = e.start.date
       /\ Where(IsTime) # {} => f.start = e.start
       /\ Twice(IsTime) /\ Twice(Existing) => f = e]_<<now, text, target>>

\* "today" and "tonight" are today.
TodayIsToday ==
  \A e \in target : FirstDate.kind = "today" => e.start.date = now.date
=============================================================================
