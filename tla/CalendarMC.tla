----------------------------- MODULE CalendarMC -----------------------------
(***************************************************************************)
(* Small calendars for CalendarService.                                    *)
(***************************************************************************)
EXTENDS CalendarService

Names == ("home" :> "Home") @@ ("work" :> "Work")
Second == <<"now">>
Files == {"meeting", "now"}

Meeting(title) == [uid |-> "meeting", title |-> title, text |-> ""]

\* Only the file of the meeting is written by other programs.
Only(meetings) == [f \in Files |-> IF f = "meeting" THEN meetings ELSE {{}}]

\* One event per file, in the file of its uid.
PlainContents ==
  ("home" :> Only({{}, {Meeting("plan")}, {Meeting("talk")}})) @@
  ("work" :> Only({{Meeting("plan")}}))

\* A series of events with one that was changed: they share uid and file.
SeriesContents ==
  ("home" :> Only({{Meeting("plan"), Meeting("talk")}})) @@ ("work" :> Only({{}}))
=============================================================================
