-------------------------------- MODULE Wifi ---------------------------------
(***************************************************************************)
(* The agent of the Wi-Fi plugin (src/wifi-plugin.vala): an object on the  *)
(* bus that iwd asks for passphrases, made by activate, which the launcher *)
(* calls and also every search that finds no object manager, on its own    *)
(* thread and without a lock.                                              *)
(*                                                                         *)
(* External: the launcher, whose searches may go on after deactivate; the  *)
(* bus; and iwd, which may stop and start, forgets its agents when it      *)
(* stops, and takes no agent twice.                                        *)
(***************************************************************************)
EXTENDS Integers

CONSTANTS
  Searchers, \* threads that search
  MaxTurns   \* bound: times iwd stops or starts or the plugin is switched

VARIABLES
  manager, agent_manager, \* not null
  agent_registration_id,
  object,     \* the id of the object on the bus, 0 without one
  given,      \* the last id given
  place,      \* where each thread is
  enabled,    \* the launcher has switched the plugin on
  iwd,        \* iwd runs
  iwd_agent,  \* and has our agent
  overlapped, \* history: activate or deactivate began inside one of another thread
  turns       \* counter

fields == <<manager, agent_manager, agent_registration_id, object, given>>
around == <<enabled, iwd, iwd_agent, overlapped, turns>>
vars == <<fields, place, around>>

UI      == "user interface"
Callers == Searchers \cup {UI}
Outside == {"idle", "searching"} \* of activate and deactivate

Go(t, to)  == place' = [place EXCEPT ![t] = to]
\* activate returns: a search looks again for the manager.
Return(t)  == Go(t, IF t = UI THEN "idle" ELSE "searching")
Turn       == turns < MaxTurns /\ turns' = turns + 1
Overlap(t) == overlapped' = (overlapped \/ \E u \in Callers \ {t} : place[u] \notin Outside)

-----------------------------------------------------------------------------
(***************************************************************************)
(* activate.                                                               *)
(***************************************************************************)
Enter(t) ==
  IF agent_registration_id # 0
  THEN Return(t) /\ UNCHANGED overlapped
  ELSE Go(t, "connecting") /\ Overlap(t)

\* There is no bus.
GetBusFails(t) ==
  /\ place[t] = "connecting"
  /\ Return(t)
  /\ UNCHANGED <<fields, around>>

\* The object manager, and the proxy of iwd's agent manager, or none.
MakeManager(t) ==
  /\ place[t] = "connecting"
  /\ IF iwd
     THEN manager' = TRUE /\ agent_manager' \in {TRUE, agent_manager} /\ Go(t, "registering")
     ELSE Go(t, "failed") /\ UNCHANGED <<manager, agent_manager>>
  /\ UNCHANGED <<agent_registration_id, object, given, around>>

\* register_object: one object for a path.
RegisterObject(t) ==
  /\ place[t] = "registering"
  /\ IF object = 0
     THEN given' = given + 1 /\ object' = given' /\ Go(t, "registered")
     ELSE Go(t, "failed") /\ UNCHANGED <<object, given>>
  /\ UNCHANGED <<manager, agent_manager, agent_registration_id, around>>

\* ... and the assignment of its id.
AssignId(t) ==
  /\ place[t] = "registered"
  /\ agent_registration_id' = given
  /\ Go(t, "asking")
  /\ UNCHANGED <<manager, agent_manager, object, given, around>>

\* RegisterAgent; without a proxy nothing is called, and nothing fails.
RegisterAgent(t) ==
  /\ place[t] = "asking"
  /\ IF ~agent_manager
     THEN Return(t) /\ UNCHANGED iwd_agent
     ELSE IF iwd /\ ~iwd_agent
     THEN iwd_agent' = TRUE /\ Return(t)
     ELSE Go(t, "failed") /\ UNCHANGED iwd_agent
  /\ UNCHANGED <<fields, enabled, iwd, overlapped, turns>>

\* Slip: the object stays on the bus.
CatchOnly(t) ==
  /\ place[t] = "failed"
  /\ agent_registration_id' = 0
  /\ Return(t)
  /\ UNCHANGED <<manager, agent_manager, object, given, around>>

\* unregister_object of the id, whoever registered it.
Unregister ==
  /\ object' = IF object = agent_registration_id THEN 0 ELSE object
  /\ agent_registration_id' = 0

Catch(t) ==
  /\ place[t] = "failed"
  /\ Unregister
  /\ Return(t)
  /\ UNCHANGED <<manager, agent_manager, given, around>>

-----------------------------------------------------------------------------
(***************************************************************************)
(* The launcher.                                                           *)
(***************************************************************************)
SwitchOn ==
  /\ place[UI] = "idle" /\ ~enabled
  /\ Turn
  /\ enabled' = TRUE
  /\ Enter(UI)
  /\ UNCHANGED <<fields, iwd, iwd_agent>>

\* deactivate: first UnregisterAgent, ...
SwitchOff ==
  /\ place[UI] = "idle" /\ enabled
  /\ Turn
  /\ enabled' = FALSE
  /\ iwd_agent' = (iwd_agent /\ ~agent_manager)
  /\ agent_manager' = FALSE
  /\ Go(UI, "unregistering") /\ Overlap(UI)
  /\ UNCHANGED <<manager, agent_registration_id, object, given, iwd>>

\* ... then the object, ...
UnregisterObject ==
  /\ place[UI] = "unregistering"
  /\ Unregister
  /\ Go(UI, "forgetting")
  /\ UNCHANGED <<manager, agent_manager, given, around>>

\* ... then connection and manager.
ForgetManager ==
  /\ place[UI] = "forgetting"
  /\ manager' = FALSE
  /\ Go(UI, "idle")
  /\ UNCHANGED <<agent_manager, agent_registration_id, object, given, around>>

Search(t) ==
  /\ place[t] = "idle" /\ enabled /\ place[UI] = "idle"
  /\ Go(t, "searching")
  /\ UNCHANGED <<fields, around>>

\* The loop of search.
FindManager(t) ==
  /\ place[t] = "searching"
  /\ IF manager THEN Go(t, "idle") /\ UNCHANGED overlapped ELSE Enter(t)
  /\ UNCHANGED <<fields, enabled, iwd, iwd_agent, turns>>

Cancel(t) ==
  /\ place[t] = "searching"
  /\ Go(t, "idle")
  /\ UNCHANGED <<fields, around>>

IwdTurns ==
  /\ Turn
  /\ iwd' = ~iwd /\ iwd_agent' = FALSE
  /\ UNCHANGED <<fields, place, enabled, overlapped>>

-----------------------------------------------------------------------------
Init ==
  /\ manager = FALSE /\ agent_manager = FALSE /\ agent_registration_id = 0
  /\ object = 0 /\ given = 0 /\ place = [t \in Callers |-> "idle"]
  /\ enabled = FALSE /\ iwd = FALSE /\ iwd_agent = FALSE /\ overlapped = FALSE /\ turns = 0

Next ==
  \/ SwitchOn \/ SwitchOff \/ UnregisterObject \/ ForgetManager \/ IwdTurns
  \/ \E t \in Callers : \/ GetBusFails(t) \/ MakeManager(t) \/ RegisterObject(t)
                        \/ AssignId(t) \/ RegisterAgent(t) \/ Catch(t)
  \/ \E t \in Searchers : Search(t) \/ FindManager(t) \/ Cancel(t)

-----------------------------------------------------------------------------
TypeOK ==
  /\ manager \in BOOLEAN /\ agent_manager \in BOOLEAN /\ given \in Nat
  /\ agent_registration_id \in 0 .. given /\ object \in 0 .. given
  /\ place \in [Callers -> Outside \cup {"connecting", "registering", "registered", "asking",
                                         "failed", "unregistering", "forgetting"}]
  /\ enabled \in BOOLEAN /\ iwd \in BOOLEAN /\ iwd_agent \in BOOLEAN
  /\ overlapped \in BOOLEAN /\ turns \in 0 .. MaxTurns

\* Whichever call failed and whenever iwd stopped: an object on the bus can
\* be taken away by its id, and the agent iwd asks is there to answer; unless
\* two threads activated or deactivated at once.
AgentAnswers ==
  ~overlapped /\ (\A t \in Callers : place[t] \in Outside) =>
    object = agent_registration_id /\ (iwd_agent => object # 0)
=============================================================================
