---------------------------- MODULE RecencyList -----------------------------
(***************************************************************************)
(* What the table of recent clipboard entries promises: a list of distinct *)
(* keys, the last used one first.  Loading appends older entries; using a  *)
(* key moves or puts it in front; deleting keeps the order of the others.  *)
(***************************************************************************)
EXTENDS Integers, SequencesExt

CONSTANTS Keys, Payloads
VARIABLE list

Positions(key) == {i \in 1 .. Len(list) : list[i].primkey = key}
Holds(key)     == Positions(key) # {}
Position(key)  == CHOOSE i \in Positions(key) : TRUE
Without(key)   == IF Holds(key) THEN RemoveAt(list, Position(key)) ELSE list

Load(key, value) ==
  /\ ~Holds(key)
  /\ list' = Append(list, [primkey |-> key, payload |-> value])

Refresh(key, value) ==
  \E i \in 1 .. Len(list) :
    list[i].primkey = key /\ list' = [list EXCEPT ![i].payload = value]

Use(key, value) ==
  list' = <<[primkey |-> key, payload |-> value]>> \o Without(key)

Delete(key) == list' = Without(key)

ListNext ==
  \E k \in Keys :
    Delete(k) \/ \E v \in Payloads : Load(k, v) \/ Refresh(k, v) \/ Use(k, v)

ListSpec == list = <<>> /\ [][ListNext]_list
=============================================================================
