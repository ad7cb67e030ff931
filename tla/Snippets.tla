------------------------------ MODULE Snippets -------------------------------
(***************************************************************************)
(* The snippets plugin (src/snippets-plugin.vala, snippets-database.vala): *)
(* a table of a database and a cache of it, changed together by the        *)
(* actions of matches, each of which is one step of the user interface     *)
(* thread.  A statement of the database may fail.  What a search returned  *)
(* may be used after the snippet was deleted or the plugin switched off.   *)
(***************************************************************************)
EXTENDS Integers, Functions

CONSTANTS
  Keys,      \* the names of snippets
  MaxChanges \* bound: changes by the user

VARIABLES
  snippets,      \* the table: key -> the time and the count of its use
  snippet_cache, \* the cache: the same, while the database is open
  db_open,
  clock,         \* the time; counts the changes
  replaced,      \* history: keys inserted again since the cache was loaded
  unwritten      \* history: keys whose use was counted in the cache alone

vars == <<snippets, snippet_cache, db_open, clock, replaced, unwritten>>

Known(table) == DOMAIN table
Drop(table, key) == Restrict(table, DOMAIN table \ {key})
With(table, key, last, count) ==
  [k \in DOMAIN table \cup {key} |->
     IF k = key THEN [last_used |-> last, usage_count |-> count] ELSE table[k]]
CountIn(table, key) == IF key \in DOMAIN table THEN table[key].usage_count ELSE 0

\* One more change, at a later time.
Now == clock < MaxChanges /\ clock' = clock + 1

-----------------------------------------------------------------------------
\* activate: the database is opened, and load_all_metadata fills the cache.
Activate ==
  /\ ~db_open
  /\ db_open' = TRUE /\ snippet_cache' = snippets
  /\ replaced' = {} /\ unwritten' = {}
  /\ UNCHANGED <<snippets, clock>>

\* deactivate, cleanup; also a stop of the launcher.
Deactivate ==
  /\ db_open /\ Now
  /\ db_open' = FALSE /\ snippet_cache' = <<>>
  /\ UNCHANGED <<snippets, replaced, unwritten>>

\* insert_snippet: the statement keeps the count, the cache does not.
Insert(key) ==
  /\ db_open /\ Now
  /\ snippets' = With(snippets, key, clock', CountIn(snippets, key))
  /\ snippet_cache' = With(snippet_cache, key, clock', 0)
  /\ replaced' = IF key \in DOMAIN snippets THEN replaced \cup {key} ELSE replaced \ {key}
  /\ unwritten' = unwritten \ {key}
  /\ UNCHANGED db_open

\* Slip: the cache is not told.
DeleteUncached(key) ==
  /\ db_open /\ Now
  /\ snippets' = Drop(snippets, key)
  /\ replaced' = replaced \ {key} /\ unwritten' = unwritten \ {key}
  /\ UNCHANGED <<snippet_cache, db_open>>

\* delete_snippet; the snippet may be gone already.
Delete(key) ==
  /\ db_open /\ Now
  /\ snippets' = Drop(snippets, key)
  /\ snippet_cache' = Drop(snippet_cache, key)
  /\ replaced' = replaced \ {key} /\ unwritten' = unwritten \ {key}
  /\ UNCHANGED db_open

\* get_snippet reads the content, and update_usage counts; the cache counts
\* also when the statement fails.
Use(key, written) ==
  /\ db_open /\ Now
  /\ key \in DOMAIN snippets
  /\ snippets' = IF written
                 THEN With(snippets, key, clock', snippets[key].usage_count + 1) ELSE snippets
  /\ snippet_cache' = IF key \in DOMAIN snippet_cache
                      THEN With(snippet_cache, key, clock', snippet_cache[key].usage_count + 1)
                      ELSE snippet_cache
  /\ unwritten' = IF written THEN unwritten ELSE unwritten \cup {key}
  /\ UNCHANGED <<db_open, replaced>>

Init ==
  /\ snippets = <<>> /\ snippet_cache = <<>> /\ db_open = FALSE
  /\ clock = 0 /\ replaced = {} /\ unwritten = {}

Next ==
  \/ Activate \/ Deactivate
  \/ \E key \in Keys : \/ Insert(key) \/ Delete(key)
                       \/ \E written \in BOOLEAN : Use(key, written)

-----------------------------------------------------------------------------
Usage == [last_used : 0 .. MaxChanges, usage_count : 0 .. MaxChanges]

TypeOK ==
  /\ DOMAIN snippets \subseteq Keys /\ Range(snippets) \subseteq Usage
  /\ DOMAIN snippet_cache \subseteq Keys /\ Range(snippet_cache) \subseteq Usage
  /\ db_open \in BOOLEAN /\ clock \in 0 .. MaxChanges
  /\ replaced \cup unwritten \subseteq Keys

\* The cache is what the next start will load: the same snippets, last used
\* at the same time unless a statement failed, and used as often unless they
\* were inserted again.
CacheFollowsDatabase ==
  db_open =>
    /\ DOMAIN snippet_cache = DOMAIN snippets
    /\ \A k \in DOMAIN snippets \ unwritten :
         /\ snippet_cache[k].last_used = snippets[k].last_used
         /\ k \notin replaced => snippet_cache[k] = snippets[k]
=============================================================================
