----------------------------- MODULE KeyedStore -----------------------------
(***************************************************************************)
(* What a shard of the clipboard history promises its callers: a set of    *)
(* entries with one entry per key.                                         *)
(***************************************************************************)
CONSTANTS Keys, Payloads
VARIABLE store

Without(key) == {e \in store : e.primkey # key}

Put(key, value) ==
  store' = Without(key) \cup {[primkey |-> key, payload |-> value]}

Delete(key) == store' = Without(key)

StoreNext == \E k \in Keys : Delete(k) \/ \E v \in Payloads : Put(k, v)

StoreSpec == store = {} /\ [][StoreNext]_store
=============================================================================
