----------------------------- MODULE LockedMap -----------------------------
(***************************************************************************)
(* locked::map<K, V> (locked/map.h): an unordered_map behind a mutex.      *)
(* Every method is one critical section.  foreach, which only reads, is    *)
(* DOMAIN imap where it is used.                                           *)
(***************************************************************************)
VARIABLE imap  \* from the keys that are present to their values

MapInit == imap = [k \in {} |-> k]

MapTypeOK(Key, Value) ==
  /\ DOMAIN imap \subseteq Key
  /\ \A k \in DOMAIN imap : imap[k] \in Value

MapInsert(key, value) ==
  imap' = [k \in DOMAIN imap \cup {key} |-> IF k = key THEN value ELSE imap[k]]

(* fetch: a key that is present is read and erased in one critical section. *)
MapHas(key) == key \in DOMAIN imap

MapErase(key) == imap' = [k \in DOMAIN imap \ {key} |-> imap[k]]
=============================================================================
