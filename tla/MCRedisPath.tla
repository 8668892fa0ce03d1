---------------------------- MODULE MCRedisPath ----------------------------
(* Instances of RedisPath small enough for TLC.                            *)
EXTENDS RedisPath, TLC

\* Bound: where workers share the limits it is an address that is watched; a
\* user's name is counted in the same way, and watched where one worker acts.
MCWatched == question = "limits" => watched \in Addresses

Symmetric == Permutations(Workers) \cup Permutations(Scopes)

=============================================================================
