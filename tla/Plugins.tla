------------------------------- MODULE Plugins -------------------------------
(***************************************************************************)
(* The smaller plugins side by side.  They share neither state nor threads *)
(* worth following, so a behaviour is one of one of them: `part' says      *)
(* which, and the variables of the others stay as they are initialised.    *)
(***************************************************************************)
EXTENDS Integers, Sequences, FiniteSets

CONSTANTS
  Parts,                                            \* the plugins that are checked
  Tokens, Moments, MaxTokens,                       \* Dates
  Files, Times,                                     \* Downloads
  Contents,                                         \* SshHosts
  Keys,                                             \* Snippets
  Directories, FileNames, MimeTypes, MaxInstalls,   \* DesktopFiles
  Providers, Units, NumThreads,                     \* SystemdUnits
  Threads, Every, MaxFaults,                        \* Transmission
  Paths, Rank, Hash, NumShards, MaxCount,           \* FileResults
  Searchers,                                        \* Wifi
  MaxChanges                                        \* of the others that count

\* A bus has finitely many units.
ASSUME UnitsAssumption == IsFiniteSet(Units)

VARIABLES
  part,
  now, text, target,
  folder, file_reports, adding, sorted_list, monitoring, unwatched, modified, changes,
  config_file, parses, hosts, listening, reported, overlapped, edits,
  snippets, snippet_cache, db_open, clock, replaced, unwritten,
  applications, desktop_files, mimetype_map, timeout_id, timers, last_id, handler,
  reports, loading, watched, unseen, installs,
  search, unread, lock, queued, running, results,
  server_id, session_id, connected, connecting, attempts, thread, answered, stuck, faults,
  shards, found,
  manager, agent_manager, agent_registration_id, object, given, place, enabled,
  iwd, iwd_agent, crossed, turns

DatesPart        == INSTANCE Dates
DownloadsPart    == INSTANCE Downloads
SshPart          == INSTANCE SshHosts WITH changes <- edits
SnippetsPart     == INSTANCE Snippets
DesktopPart      == INSTANCE DesktopFiles WITH changes <- installs, MaxChanges <- MaxInstalls
SystemdPart      == INSTANCE SystemdUnits
TransmissionPart == INSTANCE Transmission
ResultsPart      == INSTANCE FileResults
WifiPart         == INSTANCE Wifi WITH overlapped <- crossed, MaxTurns <- MaxChanges

\* The bounds are numbers; there are finitely many directories, and an attempt
\* to connect comes again.
ASSUME BoundsAssumption ==
  {MaxChanges, MaxInstalls, MaxFaults, Len(Directories)} \subseteq Nat /\ Every \in Nat \ {0}

\* It is some time on a day that exists, and every word is a day or a time.
ASSUME DatesAssumption ==
  /\ Moments # {} /\ \A n \in Moments : n = DatesPart!At(n.date, n.minute) /\ DatesPart!Real(n)
  /\ Tokens \subseteq DatesPart!Token /\ MaxTokens \in Nat

\* A directory has finitely many files, and no file is taken for none.
ASSUME FilesAssumption ==
  IsFiniteSet(Files) /\ DownloadsPart!None \notin Files /\ 0 \notin Times

\* A line of the SSH plugin's file is a set of hosts, and some file has lines.
ASSUME ContentsAssumption ==
  /\ Contents \subseteq Seq(SUBSET UNION {SshPart!HostsOf(lines) : lines \in Contents})
  /\ \E lines \in Contents : lines # <<>>

ASSUME PathsAssumption == ResultsPart!StoreAssumption

dates        == <<now, text, target>>
downloads    == <<folder, file_reports, adding, sorted_list, monitoring, unwatched, modified, changes>>
ssh          == <<config_file, parses, hosts, listening, reported, overlapped, edits>>
snippet_vars == <<snippets, snippet_cache, db_open, clock, replaced, unwritten>>
desktop      == <<applications, desktop_files, mimetype_map, timeout_id, timers, last_id, handler,
                  reports, loading, watched, unseen, installs>>
systemd      == <<search, unread, lock, queued, running, results>>
transmission == <<server_id, session_id, connected, connecting, attempts, thread, answered,
                  stuck, faults>>
file_results == <<shards, found>>
wifi         == <<manager, agent_manager, agent_registration_id, object, given, place, enabled,
                  iwd, iwd_agent, crossed, turns>>

\* All but the part itself.
NotDates        == <<part, downloads, ssh, snippet_vars, desktop, systemd,
                     transmission, file_results, wifi>>
NotDownloads    == <<part, dates, ssh, snippet_vars, desktop, systemd, transmission,
                     file_results, wifi>>
NotSsh          == <<part, dates, downloads, snippet_vars, desktop, systemd,
                     transmission, file_results, wifi>>
NotSnippets     == <<part, dates, downloads, ssh, desktop, systemd, transmission,
                     file_results, wifi>>
NotDesktop      == <<part, dates, downloads, ssh, snippet_vars, systemd,
                     transmission, file_results, wifi>>
NotSystemd      == <<part, dates, downloads, ssh, snippet_vars, desktop,
                     transmission, file_results, wifi>>
NotTransmission == <<part, dates, downloads, ssh, snippet_vars, desktop, systemd,
                     file_results, wifi>>
NotResults      == <<part, dates, downloads, ssh, snippet_vars, desktop, systemd,
                     transmission, wifi>>
NotWifi         == <<part, dates, downloads, ssh, snippet_vars, desktop, systemd,
                     transmission, file_results>>

vars == <<wifi, NotWifi>>

-----------------------------------------------------------------------------
Init ==
  /\ part \in Parts
  /\ DatesPart!Init /\ DownloadsPart!Init /\ SshPart!Init /\ SnippetsPart!Init
  /\ DesktopPart!Init /\ SystemdPart!Init /\ TransmissionPart!Init /\ ResultsPart!Init
  /\ WifiPart!Init

DatesNext        == part = "dates" /\ DatesPart!Next /\ UNCHANGED NotDates
DownloadsNext    == part = "downloads" /\ DownloadsPart!Next /\ UNCHANGED NotDownloads
SshNext          == part = "ssh" /\ SshPart!Next /\ UNCHANGED NotSsh
SnippetsNext     == part = "snippets" /\ SnippetsPart!Next /\ UNCHANGED NotSnippets
DesktopNext      == part = "desktop" /\ DesktopPart!Next /\ UNCHANGED NotDesktop
SystemdNext      == part = "systemd" /\ SystemdPart!Next /\ UNCHANGED NotSystemd
TransmissionNext == part = "transmission" /\ TransmissionPart!Next /\ UNCHANGED NotTransmission
ResultsNext      == part = "results" /\ ResultsPart!Next /\ UNCHANGED NotResults
WifiNext         == part = "wifi" /\ WifiPart!Next /\ UNCHANGED NotWifi

Next ==
  \/ DatesNext \/ DownloadsNext \/ SshNext \/ SnippetsNext \/ DesktopNext
  \/ SystemdNext \/ TransmissionNext \/ ResultsNext \/ WifiNext

\* The main loop and the monitor's thread go on; so do the bus calls of a
\* search and the jobs of the pool, which takes them in their order; and the
\* user goes on searching.
Fairness ==
  /\ WF_vars(part = "desktop" /\ DesktopPart!Step /\ UNCHANGED NotDesktop)
  /\ \A p \in Providers :
       /\ WF_vars(part = "systemd" /\ SystemdPart!SearchStep(p) /\ UNCHANGED NotSystemd)
       /\ \A u \in Units :
            SF_vars(part = "systemd" /\ SystemdPart!JobStep(p, u) /\ UNCHANGED NotSystemd)
  /\ \A t \in Threads :
       WF_vars(part = "transmission" /\ TransmissionPart!ThreadStep(t) /\ UNCHANGED NotTransmission)

Spec == Init /\ [][Next]_vars /\ Fairness

-----------------------------------------------------------------------------
\* Type invariant.
TypeOK ==
  /\ DatesPart!TypeOK /\ DownloadsPart!TypeOK /\ SshPart!TypeOK /\ SnippetsPart!TypeOK
  /\ DesktopPart!TypeOK /\ SystemdPart!TypeOK /\ TransmissionPart!TypeOK /\ ResultsPart!TypeOK
  /\ WifiPart!TypeOK

\* Dates: a date typed without a year is the first such day from now on.
FirstOccurrence == DatesPart!FirstOccurrence

\* Dates: typing on changes no more than the end of an event, and after two
\* dates and two times nothing.
TypingOnKeeps == DatesPart!TypingOnKeeps

\* Dates, as the agenda has it (calendar-match-main.vala:150): "today" is today.
TodayIsToday == DatesPart!TodayIsToday

\* Downloads, SshHosts: the list and the table in memory follow the directory
\* and the file, once every change was heard of.
ListsFollowFiles == DownloadsPart!ListFollowsFolder /\ SshPart!HostsFollowFile

\* Snippets: the cache is what the next start will load.
CacheFollowsDatabase == SnippetsPart!CacheFollowsDatabase

\* DesktopFiles: the indexes follow the directories in the end.
EntriesCatchUp == part = "desktop" => DesktopPart!EntriesCatchUp

\* SystemdUnits: no job outlives its search, ...
JobsWithinSearch == SystemdPart!JobsWithinSearch

\* ... and every search returns.
SearchesReturn == part = "systemd" => SystemdPart!SearchesReturn

\* Transmission: torrents come back after failures.
TorrentsComeBack == part = "transmission" => TransmissionPart!TorrentsComeBack

\* FileResults: a result opens its file, the top directory, or one of the
\* same hash.
OpensOwnFile == ResultsPart!OpensOwnFile

\* Wifi: the agent iwd has been told of is there to answer.
AgentAnswers == WifiPart!AgentAnswers
=============================================================================
