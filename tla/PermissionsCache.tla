------------------------- MODULE PermissionsCache -------------------------
(***************************************************************************)
(* The in-memory permission cache of PermissionsService: a JavaScript Map   *)
(* from user to the loaded permissions and their expiry time.  A Map        *)
(* iterates in insertion order, which the service relies on to evict the    *)
(* oldest entry.  The operators below take the Map as an argument; the      *)
(* module has no state of its own.                                          *)
(*                                                                          *)
(* An entry is                                                              *)
(*   value   the permissions returned by the load that stored it,           *)
(*   ttl     the ticks left until expiresAt (0: expiresAt <= Date.now()),   *)
(*   newer   the users whose entries were inserted later, which is the      *)
(*           entry's place in the iteration order of the Map.               *)
(***************************************************************************)
EXTENDS Naturals, FiniteSets

CONSTANTS Users,       \* user ids
          Grants,      \* what a permission allows: pairs of table and action
          MaxEntries,  \* PERMISSIONS_CACHE_MAX_ENTRIES
          TTL          \* PERMISSIONS_CACHE_TTL_MS, in ticks

ASSUME CacheAssumption ==
    /\ MaxEntries \in Nat \ {0}
    /\ TTL \in Nat \ {0}

Entry == [value : SUBSET Grants, ttl : 0 .. TTL, newer : SUBSET Users]

\* Slip: a lookup that takes any cached entry, expired or not.
HitUnexpiring(cache, u) == u \in DOMAIN cache

\* The lookup of getUserPermissions: a cached entry that has not expired.
Hit(cache, u) ==
    /\ u \in DOMAIN cache
    /\ cache[u].ttl > 0

\* Map.delete for each user of S.
Without(cache, S) ==
    [v \in DOMAIN cache \ S |-> [cache[v] EXCEPT !.newer = @ \ S]]

\* clearCache(userId) and clearCache().
ClearUser(cache, u) == Without(cache, {u})
ClearAll(cache) == Without(cache, DOMAIN cache)

Expired(cache) == {v \in DOMAIN cache : cache[v].ttl = 0}

\* Slips: room is made only when the Map holds more than MaxEntries, or one
\* entry too early.
NewestOff(cache) ==
    Without(cache, {v \in DOMAIN cache :
                      Cardinality(cache[v].newer) >= MaxEntries})
NewestEarly(cache) ==
    Without(cache, {v \in DOMAIN cache :
                      Cardinality(cache[v].newer) + 2 >= MaxEntries})

\* What evicting from the front of the Map leaves when room for one more
\* entry is needed: the newest MaxEntries - 1.
Newest(cache) ==
    Without(cache, {v \in DOMAIN cache :
                      Cardinality(cache[v].newer) >= MaxEntries - 1})

\* Map.set for a user who is not in the Map: the entry goes to the end.
Insert(cache, u, value) ==
    [v \in DOMAIN cache \cup {u} |->
        IF v = u
        THEN [value |-> value, ttl |-> TTL, newer |-> {}]
        ELSE [cache[v] EXCEPT !.newer = @ \cup {u}]]

\* Slip: the user's entry is overwritten in place, as Map.set does when the key
\* has not been deleted before.
CachePermissionsInPlace(cache, u, value) ==
    LET live == Without(cache, Expired(cache) \ {u}) IN
    IF u \in DOMAIN live
    THEN [live EXCEPT ![u].value = value, ![u].ttl = TTL]
    ELSE Insert(Newest(live), u, value)

\* cachePermissions: drop what has expired, take the user out so that the
\* entry moves to the end, make room, insert.
CachePermissions(cache, u, value) ==
    Insert(Newest(Without(cache, Expired(cache) \cup {u})), u, value)

\* The passage of one tick of Date.now() as the entries see it.
Aged(cache) ==
    [v \in DOMAIN cache |->
        [cache[v] EXCEPT !.ttl = IF @ = 0 THEN 0 ELSE @ - 1]]

-----------------------------------------------------------------------------
\* The place of every entry among the others is known, places are a total
\* order, and no entry expires after a newer one.
InOrder(cache) ==
    \A v, w \in DOMAIN cache :
        /\ v # w => (w \in cache[v].newer <=> v \notin cache[w].newer)
        /\ w \in cache[v].newer =>
              /\ v # w
              /\ cache[w].newer \subseteq cache[v].newer
              /\ cache[v].ttl <= cache[w].ttl
=============================================================================
