---------------------------- MODULE SingleFlight ----------------------------
(***************************************************************************)
(* What BoundedAsyncTTLCache of tripmate/cache/ttl_cache.py promises about *)
(* fetches and values, whatever its lock and its registry of futures do.   *)
(* Until somebody clears the cache, a fetch of a key begins only if nobody *)
(* fetches it, nobody has a value of it to store, and the cache cannot     *)
(* answer for it; every clearing lets one more fetch overlap the others.   *)
(* A fetch may have its value stored before it ends.  A value answers for  *)
(* ttl ticks, counted from when it was given to the cache, which is at     *)
(* the end of its fetch at the latest, and not from its insertion.  The    *)
(* cache answers for at most max_entries keys, and makes room with those   *)
(* that expire first.                                                      *)
(***************************************************************************)
EXTENDS Integers, FiniteSets

CONSTANTS Callers, Keys, max_entries, ttl

VARIABLES
    fetching,   \* pairs of a caller and the key it fetches
    copying,    \* those whose fetch has a value that it wants stored meanwhile
    keeping,    \* those whose fetch has ended with a value to store
    worth,      \* ticks for which the value to store is still good
    left,       \* ticks for which the cache answers for a key
    clears      \* how often the cache has been cleared

vars == <<fetching, copying, keeping, worth, left, clears>>

Busy == fetching \cup copying \cup keeping

Init ==
    /\ fetching = {} /\ copying = {} /\ keeping = {}
    /\ worth = [c \in Callers |-> 0]
    /\ left = [k \in Keys |-> 0]
    /\ clears = 0

Begin(c, k) ==
    /\ clears = 0 => left[k] = 0
    /\ Cardinality({d \in Callers : <<d, k>> \in Busy}) <= clears
    /\ fetching' = fetching \cup {<<c, k>>}
    /\ UNCHANGED <<copying, keeping, worth, left, clears>>

Copy(c, k) ==
    /\ <<c, k>> \in fetching
    /\ fetching' = fetching \ {<<c, k>>}
    /\ copying' = copying \cup {<<c, k>>}
    /\ worth' = [worth EXCEPT ![c] = ttl]
    /\ UNCHANGED <<keeping, left, clears>>

Fetched(c, k) ==
    /\ <<c, k>> \in fetching
    /\ fetching' = fetching \ {<<c, k>>}
    /\ keeping' = keeping \cup {<<c, k>>}
    /\ worth' = [worth EXCEPT ![c] = ttl]
    /\ UNCHANGED <<copying, left, clears>>

\* The fetch has no value, or its caller is cancelled before it has stored one.
Nothing(c, k) ==
    /\ <<c, k>> \in Busy
    /\ fetching' = fetching \ {<<c, k>>}
    /\ copying' = copying \ {<<c, k>>}
    /\ keeping' = keeping \ {<<c, k>>}
    /\ worth' = [worth EXCEPT ![c] = 0]
    /\ UNCHANGED <<left, clears>>

Keep(c, k) ==
    /\ \/ /\ <<c, k>> \in copying
          /\ copying' = copying \ {<<c, k>>}
          /\ fetching' = fetching \cup {<<c, k>>}
          /\ UNCHANGED keeping
       \/ /\ <<c, k>> \in keeping
          /\ keeping' = keeping \ {<<c, k>>}
          /\ UNCHANGED <<copying, fetching>>
    /\ worth' = [worth EXCEPT ![c] = 0]
    /\ \E gone \in SUBSET (Keys \ {k}) :
          /\ left' = [j \in Keys |-> IF j = k THEN worth[c]
                                     ELSE IF j \in gone THEN 0 ELSE left[j]]
          /\ \A i \in Keys \ (gone \cup {k}), j \in gone : left[i] > 0 => left[i] >= left[j]
    /\ Cardinality({j \in Keys : left'[j] > 0}) <= max_entries
    /\ UNCHANGED clears

Clear ==
    /\ clears' = clears + 1
    /\ left' = [k \in Keys |-> 0]
    /\ UNCHANGED <<fetching, copying, keeping, worth>>

Older(n) == IF n > 0 THEN n - 1 ELSE 0

Tick ==
    /\ worth' = [c \in Callers |-> Older(worth[c])]
    /\ left' = [k \in Keys |-> Older(left[k])]
    /\ UNCHANGED <<fetching, copying, keeping, clears>>

Next ==
    \/ \E c \in Callers, k \in Keys :
          Begin(c, k) \/ Copy(c, k) \/ Fetched(c, k) \/ Nothing(c, k) \/ Keep(c, k)
    \/ Clear \/ Tick

Spec == Init /\ [][Next]_vars

=============================================================================
