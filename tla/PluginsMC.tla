------------------------------ MODULE PluginsMC ------------------------------
(***************************************************************************)
(* Values of the constants of Plugins.                                     *)
(***************************************************************************)
EXTENDS Plugins

\* A Thursday, a minute past midnight on the last day of the year before a
\* leap year, and midnight after the day that only leap years have.
MCMoments ==
  {[date |-> [year |-> 2026, month |-> 11, day |-> 19], minute |-> 600],
   [date |-> [year |-> 2027, month |-> 12, day |-> 31], minute |-> 1],
   [date |-> [year |-> 2028, month |-> 3, day |-> 1], minute |-> 0]}

MCTokens ==
  {[kind |-> "today"], [kind |-> "tomorrow"], [kind |-> "weekday", day |-> 4],
   [kind |-> "monthday", month |-> 2, day |-> 29], [kind |-> "monthday", month |-> 3, day |-> 1],
   [kind |-> "full", year |-> 2026, month |-> 1, day |-> 2],
   [kind |-> "time", hour |-> 12, minute |-> 5, period |-> "am"],
   [kind |-> "time", hour |-> 25, minute |-> 30, period |-> "none"]}

MCContents == {<<>>, <<{"a"}, {"b"}>>, <<{"b"}, {"c", "a"}>>}

MCDirectories == <<"system", "user">>

\* Four paths in one table, two of them of one hash, and room for three.
MCPaths == {"a", "b", "c", "d", "e"}
MCRank == [a |-> 1, b |-> 2, c |-> 3, d |-> 4, e |-> 5]
MCHash == [a |-> 0, b |-> 2, c |-> 2, d |-> 1, e |-> 4]
=============================================================================
