---------------------------- MODULE GeotabCache ----------------------------
(***************************************************************************)
(* cache in internal/adapter/geotab: what was looked up, and when, bounded *)
(* in size and in age.  What an entity says is left to whoever uses it.    *)
(***************************************************************************)
EXTENDS Naturals, Sequences

CONSTANTS
    CacheSize,   \* max
    Refresh,     \* how old an entry may be
    MaxClock     \* bound: how far the clock goes

ASSUME CacheAssumption ==
    /\ CacheSize \in Nat \ {0}
    /\ Refresh \in Nat \ {0}
    /\ MaxClock \in Nat

VARIABLES
    clock,
    entries,   \* entries[k]: when the entity named k was put there
    order      \* the names, in the order in which they came

cacheVars == <<entries, order>>

(* An entry that is too old is a miss like none at all. *)
Fresh(k) == k \in DOMAIN entries /\ clock - entries[k] < Refresh

Full == Len(order) >= CacheSize

KeptAll == DOMAIN entries     \* mutant: only the list forgets the oldest
(* The oldest name makes room for a new one; an old one keeps its place. *)
Kept == IF Full THEN DOMAIN entries \ {Head(order)} ELSE DOMAIN entries

Put(k) ==
    IF k \in DOMAIN entries
    THEN /\ entries' = [entries EXCEPT ![k] = clock]
         /\ UNCHANGED order
    ELSE /\ entries' = [n \in Kept \cup {k} |-> IF n = k THEN clock ELSE entries[n]]
         /\ order' = Append(IF Full THEN Tail(order) ELSE order, k)

(* The list names every entry once, and is never longer than the cache may  *)
(* be: nothing is evicted that was not the oldest, nothing is left behind.  *)
CacheListed ==
    /\ Len(order) <= CacheSize
    /\ DOMAIN entries = {order[i] : i \in DOMAIN order}
    /\ \A i, j \in DOMAIN order : order[i] = order[j] => i = j
=============================================================================
