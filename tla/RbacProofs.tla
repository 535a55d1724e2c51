---------------------------- MODULE RbacProofs ----------------------------
(***************************************************************************)
(* Proofs about Rbac: type correctness, the cache as a bounded Map in       *)
(* order, and coherence of the cache with the tables.                       *)
(***************************************************************************)
EXTENDS Rbac, FiniteSetTheorems, TLAPS

-----------------------------------------------------------------------------
(* What the operations of the permission cache preserve.                     *)

\* A well-formed Map: finitely many typed entries, each of which refers only to
\* entries that are there, in order.
WellFormed(items) ==
    /\ DOMAIN items \subseteq Users
    /\ items \in [DOMAIN items -> Entry]
    /\ IsFiniteSet(DOMAIN items)
    /\ \A v \in DOMAIN items : items[v].newer \subseteq DOMAIN items
    /\ InOrder(items)

\* Deleting entries, one, some or all of them, keeps the Map well formed.
LEMMA WithoutWellFormed ==
    ASSUME NEW items, NEW S, WellFormed(items)
    PROVE  /\ WellFormed(Without(items, S))
           /\ DOMAIN Without(items, S) = DOMAIN items \ S
           /\ Cardinality(DOMAIN Without(items, S)) <= Cardinality(DOMAIN items)
           /\ \A v \in DOMAIN items \ S :
                 /\ Without(items, S)[v].value = items[v].value
                 /\ Without(items, S)[v].ttl = items[v].ttl
<1> DEFINE c == Without(items, S)
<1>1. DOMAIN c = DOMAIN items \ S
  BY DEF Without
<1>2. \A v \in DOMAIN c :
         /\ c[v] \in Entry
         /\ c[v].value = items[v].value
         /\ c[v].ttl = items[v].ttl
         /\ c[v].newer = items[v].newer \ S
  BY DEF Without, WellFormed, Entry
<1>3. /\ IsFiniteSet(DOMAIN c)
      /\ Cardinality(DOMAIN c) <= Cardinality(DOMAIN items)
  BY <1>1, FS_Subset DEF WellFormed
<1>4. c = [v \in DOMAIN c |-> c[v]]
  BY DEF Without
<1>5. InOrder(c)
  BY <1>1, <1>2 DEF InOrder, WellFormed
<1> HIDE DEF c
<1>6. c \in [DOMAIN c -> Entry]
  BY <1>2, <1>4
<1>7. WellFormed(c)
  BY <1>1, <1>2, <1>3, <1>5, <1>6 DEF WellFormed
<1> QED
  BY <1>1, <1>2, <1>3, <1>7 DEF c

\* Making room leaves at most MaxEntries - 1 entries: their numbers of newer
\* entries are different and below MaxEntries - 1.
LEMMA NewestBound ==
    ASSUME NEW items, WellFormed(items)
    PROVE  /\ WellFormed(Newest(items))
           /\ DOMAIN Newest(items) \subseteq DOMAIN items
           /\ Cardinality(DOMAIN Newest(items)) <= MaxEntries - 1
           /\ \A v \in DOMAIN Newest(items) :
                 /\ Newest(items)[v].value = items[v].value
                 /\ Newest(items)[v].ttl = items[v].ttl
<1> DEFINE n(v) == Cardinality(items[v].newer)
           K == {v \in DOMAIN items : ~(n(v) >= MaxEntries - 1)}
           f == [v \in K |-> n(v)]
<1>1. /\ WellFormed(Newest(items))
      /\ DOMAIN Newest(items) = K
      /\ \A v \in K : /\ Newest(items)[v].value = items[v].value
                      /\ Newest(items)[v].ttl = items[v].ttl
  <2> DEFINE old == {v \in DOMAIN items : n(v) >= MaxEntries - 1}
  <2>1. Newest(items) = Without(items, old)
    BY DEF Newest
  <2>2. K = DOMAIN items \ old
    OBVIOUS
  <2> HIDE DEF old, K
  <2>3. /\ WellFormed(Without(items, old))
        /\ DOMAIN Without(items, old) = DOMAIN items \ old
        /\ \A v \in DOMAIN items \ old :
              /\ Without(items, old)[v].value = items[v].value
              /\ Without(items, old)[v].ttl = items[v].ttl
    BY WithoutWellFormed
  <2> QED
    BY <2>1, <2>2, <2>3
<1>2. \A v \in DOMAIN items : IsFiniteSet(items[v].newer) /\ n(v) \in Nat
  BY FS_Subset, FS_CardinalityType DEF WellFormed
<1>3. ASSUME NEW v \in K, NEW w \in K, v # w, w \in items[v].newer
      PROVE  n(w) < n(v)
  <2>1. /\ items[w].newer \subseteq items[v].newer
        /\ w \notin items[w].newer
    BY <1>3 DEF WellFormed, InOrder
  <2>2. n(w) <= n(v) /\ n(w) # n(v)
    BY <1>2, <1>3, <2>1, FS_Subset
  <2> QED
    BY <1>2, <2>2
<1>4. \A v, w \in K : v # w => n(v) # n(w)
  <2> SUFFICES ASSUME NEW v \in K, NEW w \in K, v # w
               PROVE  n(v) # n(w)
    OBVIOUS
  <2>1. w \in items[v].newer \/ v \in items[w].newer
    BY DEF WellFormed, InOrder
  <2>2. n(v) \in Nat /\ n(w) \in Nat
    BY <1>2
  <2> QED
    BY <1>3, <2>1, <2>2
<1>5. MaxEntries - 1 \in Nat
  BY CacheAssumption
<1> HIDE DEF n
<1>6. f \in Injection(K, 0 .. (MaxEntries - 2))
  <2>1. \A v \in K : n(v) \in 0 .. (MaxEntries - 2)
    <3> SUFFICES ASSUME NEW v \in K
                 PROVE  n(v) \in 0 .. (MaxEntries - 2)
      OBVIOUS
    <3>1. n(v) \in Nat /\ ~(n(v) >= MaxEntries - 1)
      BY <1>2
    <3> QED
      BY <3>1, CacheAssumption
  <2> QED
    BY <1>4, <2>1 DEF Injection, IsInjective
<1>7. /\ IsFiniteSet(0 .. (MaxEntries - 2))
      /\ Cardinality(0 .. (MaxEntries - 2)) = MaxEntries - 1
  <2>1. MaxEntries - 2 \in Int /\ 0 \in Int
    BY CacheAssumption
  <2>2. IF 0 > MaxEntries - 2 THEN MaxEntries - 1 = 0
        ELSE (MaxEntries - 2) - 0 + 1 = MaxEntries - 1
    BY CacheAssumption
  <2> QED
    BY <2>1, <2>2, FS_Interval
<1>8. Cardinality(K) <= MaxEntries - 1
  BY <1>6, <1>7, FS_Injection
<1> QED
  BY <1>1, <1>8

\* Making room takes nothing away that need not go: if an entry is evicted, all
\* the room of MaxEntries - 1 is used, by entries that live at least as long.
LEMMA NewestEvicts ==
    ASSUME NEW items, WellFormed(items),
           NEW v \in DOMAIN items \ DOMAIN Newest(items)
    PROVE  /\ Cardinality(DOMAIN Newest(items)) = MaxEntries - 1
           /\ \A w \in DOMAIN Newest(items) : items[w].ttl >= items[v].ttl
<1> DEFINE n(w) == Cardinality(items[w].newer)
           old == {w \in DOMAIN items : n(w) >= MaxEntries - 1}
           kept == DOMAIN items \ old
<1>1. DOMAIN Newest(items) = kept
  BY DEF Newest, Without
<1>2. \A w \in DOMAIN items :
         /\ items[w].newer \in FiniteSubsetsOf(Users)
         /\ items[w].newer \subseteq DOMAIN items
         /\ IsFiniteSet(items[w].newer) /\ n(w) \in Nat
         /\ items[w].ttl \in 0 .. TTL
  BY FS_Subset, FS_CardinalityType DEF WellFormed, FiniteSubsetsOf, Entry
<1>3. MaxEntries - 1 \in Nat
  BY CacheAssumption
<1> HIDE DEF n
<1>4. Cardinality(kept) = MaxEntries - 1
  <2> DEFINE places == {items[w].newer : w \in old}
  <2>1. places \subseteq FiniteSubsetsOf(Users) /\ places # {}
    BY <1>1, <1>2
  <2>2. IsWellFoundedOn(StrictSubsetOrdering(Users), FiniteSubsetsOf(Users))
    BY FS_StrictSubsetOrderingWellFounded
  <2>3. \E x \in places : \A y \in places : <<y, x>> \notin StrictSubsetOrdering(Users)
    <3> HIDE DEF places
    <3> QED
      BY <2>1, <2>2, WFMin
  <2>4. PICK w \in old :
          \A x \in old : <<items[x].newer, items[w].newer>> \notin StrictSubsetOrdering(Users)
    BY <2>3
  <2>5. ASSUME NEW x \in items[w].newer
        PROVE  x \notin old
    <3>1. /\ w \in DOMAIN items /\ x \in DOMAIN items
          /\ items[x].newer \subseteq items[w].newer
          /\ x \notin items[x].newer
      BY <1>2, <2>5 DEF WellFormed, InOrder
    <3>2. /\ items[x].newer \in SUBSET Users /\ items[w].newer \in SUBSET Users
          /\ items[x].newer # items[w].newer
      BY <1>2, <2>5, <3>1 DEF FiniteSubsetsOf
    <3>3. <<items[x].newer, items[w].newer>> \in StrictSubsetOrdering(Users)
      BY <3>1, <3>2 DEF StrictSubsetOrdering
    <3> QED
      BY <2>4, <3>3
  <2>6. items[w].newer \in SUBSET kept
    BY <1>2, <2>5
  <2>7. n(w) >= MaxEntries - 1 /\ n(w) \in Nat
    BY <1>2
  <2>8. /\ IsFiniteSet(kept) /\ Cardinality(kept) \in Nat
        /\ Cardinality(kept) <= MaxEntries - 1
    BY <1>1, FS_Subset, FS_CardinalityType, NewestBound DEF WellFormed
  <2>9. n(w) <= Cardinality(kept)
    <3> HIDE DEF kept
    <3> QED
      BY <2>6, <2>8, FS_Subset DEF n
  <2> QED
    BY <1>3, <2>7, <2>8, <2>9
<1>5. ASSUME NEW w \in kept
      PROVE  items[w].ttl >= items[v].ttl
  <2>1. v \in DOMAIN items /\ w \in DOMAIN items /\ v # w /\ n(w) < n(v)
    BY <1>1, <1>2, <1>3
  <2>2. v \notin items[w].newer
    <3> SUFFICES ASSUME v \in items[w].newer PROVE FALSE
      OBVIOUS
    <3>1. items[v].newer \in SUBSET items[w].newer
      BY <2>1 DEF WellFormed, InOrder
    <3>2. n(v) <= n(w)
      BY <1>2, <2>1, <3>1, FS_Subset DEF n
    <3> QED
      BY <1>2, <2>1, <3>2
  <2>3. items[v].ttl <= items[w].ttl
    BY <2>1, <2>2 DEF WellFormed, InOrder
  <2> QED
    BY <1>2, <2>1, <2>3
<1> QED
  BY <1>1, <1>4, <1>5

\* A store keeps the Map well formed and within its capacity, and gives the
\* entry of no user but u a different value.
LEMMA CachePermissionsWellFormed ==
    ASSUME NEW items, WellFormed(items), NEW u \in Users, NEW value \in SUBSET Grants
    PROVE  LET c == CachePermissions(items, u, value) IN
           /\ WellFormed(c)
           /\ Cardinality(DOMAIN c) <= MaxEntries
           /\ DOMAIN c \subseteq DOMAIN items \cup {u}
           /\ u \in DOMAIN c /\ c[u].value = value
           /\ \A v \in DOMAIN c \ {u} : c[v].value = items[v].value
                                        /\ c[v].ttl = items[v].ttl
<1> DEFINE live == Without(items, Expired(items) \cup {u})
           kept == Newest(live)
           c == Insert(kept, u, value)
<1>1. /\ WellFormed(live)
      /\ DOMAIN live = DOMAIN items \ (Expired(items) \cup {u})
      /\ \A v \in DOMAIN live :
            live[v].value = items[v].value /\ live[v].ttl = items[v].ttl
  <2> DEFINE gone == Expired(items) \cup {u}
  <2> HIDE DEF gone
  <2>1. /\ WellFormed(Without(items, gone))
        /\ DOMAIN Without(items, gone) = DOMAIN items \ gone
        /\ \A v \in DOMAIN items \ gone :
              /\ Without(items, gone)[v].value = items[v].value
              /\ Without(items, gone)[v].ttl = items[v].ttl
    BY WithoutWellFormed
  <2>2. live = Without(items, gone)
    BY DEF gone
  <2> HIDE DEF live
  <2>3. DOMAIN live = DOMAIN items \ gone
    BY <2>1, <2>2
  <2> QED
    BY <2>1, <2>2, <2>3 DEF gone
<1>2. /\ WellFormed(kept)
      /\ DOMAIN kept \subseteq DOMAIN live
      /\ Cardinality(DOMAIN kept) <= MaxEntries - 1
  BY <1>1, NewestBound
<1>3. \A v \in DOMAIN kept :
         kept[v].value = live[v].value /\ kept[v].ttl = live[v].ttl
  BY <1>1, NewestBound
<1>4. \A v \in DOMAIN kept : kept[v].value = items[v].value /\ kept[v].ttl = items[v].ttl
  BY <1>1, <1>2, <1>3
<1>5. u \notin DOMAIN kept
  BY <1>1, <1>2
<1> HIDE DEF live, kept
<1>6. DOMAIN c = DOMAIN kept \cup {u}
  BY DEF Insert
<1>7. c[u] = [value |-> value, ttl |-> TTL, newer |-> {}]
  BY DEF Insert
<1>8. \A v \in DOMAIN kept :
         /\ c[v] \in Entry
         /\ c[v].value = kept[v].value
         /\ c[v].ttl = kept[v].ttl
         /\ c[v].newer = kept[v].newer \cup {u}
  BY <1>2, <1>5 DEF Insert, WellFormed, Entry
<1>9. TTL \in 0 .. TTL /\ \A v \in DOMAIN kept : kept[v].ttl \in 0 .. TTL
  BY <1>2, CacheAssumption DEF WellFormed, Entry
<1>10. c[u] \in Entry
  BY <1>7, <1>9 DEF Entry
<1>11. c = [v \in DOMAIN c |-> c[v]]
  BY DEF Insert
<1> HIDE DEF c
<1>12. c \in [DOMAIN c -> Entry]
  BY <1>6, <1>8, <1>10, <1>11
<1>13. InOrder(c)
  <2> SUFFICES ASSUME NEW v \in DOMAIN c, NEW w \in DOMAIN c
               PROVE  /\ v # w => (w \in c[v].newer <=> v \notin c[w].newer)
                      /\ w \in c[v].newer => /\ v # w
                                             /\ c[w].newer \subseteq c[v].newer
                                             /\ c[v].ttl <= c[w].ttl
    BY DEF InOrder
  <2>1. CASE v = u
    <3>1. c[v].newer = {}
      BY <1>7, <2>1
    <3>2. v # w => v \in c[w].newer
      BY <1>6, <1>8, <2>1
    <3> QED
      BY <3>1, <3>2
  <2>2. CASE v # u /\ w = u
    <3>1. c[w].newer = {} /\ c[w].ttl = TTL
      BY <1>7, <2>2
    <3>2. w \in c[v].newer /\ c[v].ttl <= TTL
      BY <1>6, <1>8, <1>9, <2>2
    <3> QED
      BY <2>2, <3>1, <3>2
  <2>3. CASE v # u /\ w # u
    <3>1. v \in DOMAIN kept /\ w \in DOMAIN kept
      BY <1>6, <2>3
    <3>2. /\ c[v].newer = kept[v].newer \cup {u} /\ c[v].ttl = kept[v].ttl
          /\ c[w].newer = kept[w].newer \cup {u} /\ c[w].ttl = kept[w].ttl
      BY <1>8, <3>1
    <3>3. /\ v # w => (w \in kept[v].newer <=> v \notin kept[w].newer)
          /\ w \in kept[v].newer => /\ v # w
                                    /\ kept[w].newer \subseteq kept[v].newer
                                    /\ kept[v].ttl <= kept[w].ttl
      BY <1>2, <3>1 DEF WellFormed, InOrder
    <3> QED
      BY <2>3, <3>2, <3>3
  <2> QED
    BY <2>1, <2>2, <2>3
<1>14. \A v \in DOMAIN c : c[v].newer \subseteq DOMAIN c
  <2>1. \A v \in DOMAIN kept : kept[v].newer \subseteq DOMAIN kept
    BY <1>2 DEF WellFormed
  <2> QED
    BY <1>6, <1>7, <1>8, <2>1
<1>15. DOMAIN c \subseteq Users
  BY <1>2, <1>6 DEF WellFormed
<1>16. /\ IsFiniteSet(DOMAIN c)
       /\ Cardinality(DOMAIN c) = Cardinality(DOMAIN kept) + 1
  BY <1>2, <1>5, <1>6, FS_AddElement DEF WellFormed
<1>17. Cardinality(DOMAIN c) <= MaxEntries
  BY <1>2, <1>16, FS_CardinalityType, CacheAssumption DEF WellFormed
<1>18. WellFormed(c)
  BY <1>12, <1>13, <1>14, <1>15, <1>16 DEF WellFormed
<1>19. DOMAIN c \subseteq DOMAIN items \cup {u}
  BY <1>1, <1>2, <1>6
<1>20. \A v \in DOMAIN c \ {u} : c[v].value = items[v].value /\ c[v].ttl = items[v].ttl
  BY <1>4, <1>6, <1>8
<1>21. u \in DOMAIN c /\ c[u].value = value
  BY <1>6, <1>7
<1>22. c = CachePermissions(items, u, value)
  BY DEF c, kept, live, CachePermissions
<1> QED
  BY <1>17, <1>18, <1>19, <1>20, <1>21, <1>22

\* A store takes away an entry that has not expired only if the Map is full
\* afterwards, and of entries that live at least as long.
LEMMA CachePermissionsEvicts ==
    ASSUME NEW items, WellFormed(items), NEW u \in Users, NEW value \in SUBSET Grants,
           NEW v \in DOMAIN items \ (DOMAIN CachePermissions(items, u, value) \cup {u}),
           Hit(items, v)
    PROVE  LET c == CachePermissions(items, u, value) IN
           /\ Cardinality(DOMAIN c) = MaxEntries
           /\ \A w \in DOMAIN c : c[w].ttl >= items[v].ttl
<1> DEFINE gone == Expired(items) \cup {u}
           live == Without(items, gone)
           kept == Newest(live)
           c == Insert(kept, u, value)
<1>1. c = CachePermissions(items, u, value)
  BY DEF CachePermissions
<1> HIDE DEF gone
<1>2. /\ WellFormed(live)
      /\ DOMAIN live = DOMAIN items \ gone
      /\ \A w \in DOMAIN live : live[w].ttl = items[w].ttl
  <2>1. /\ WellFormed(Without(items, gone))
        /\ DOMAIN Without(items, gone) = DOMAIN items \ gone
        /\ \A w \in DOMAIN items \ gone :
              /\ Without(items, gone)[w].value = items[w].value
              /\ Without(items, gone)[w].ttl = items[w].ttl
    BY WithoutWellFormed
  <2>2. live = Without(items, gone)
    OBVIOUS
  <2> HIDE DEF live
  <2>3. DOMAIN live = DOMAIN items \ gone
    BY <2>1, <2>2
  <2> QED
    BY <2>1, <2>2, <2>3
<1> HIDE DEF live
<1>3. /\ WellFormed(kept) /\ DOMAIN kept \subseteq DOMAIN live
      /\ \A w \in DOMAIN kept : kept[w].ttl = live[w].ttl
  BY <1>2, NewestBound
<1>4. /\ DOMAIN c = DOMAIN kept \cup {u} /\ c[u].ttl = TTL
      /\ \A w \in DOMAIN kept \ {u} : c[w].ttl = kept[w].ttl
  <2>1. DOMAIN c = DOMAIN kept \cup {u} /\ c[u].ttl = TTL
    BY DEF Insert
  <2>2. \A w \in DOMAIN kept \ {u} : c[w].ttl = kept[w].ttl
    BY <1>3 DEF Insert, WellFormed, Entry
  <2> QED
    BY <2>1, <2>2
<1>5. v \in DOMAIN live \ DOMAIN kept
  BY <1>1, <1>2, <1>4 DEF Hit, gone, Expired
<1>6. /\ Cardinality(DOMAIN kept) = MaxEntries - 1
      /\ \A w \in DOMAIN kept : live[w].ttl >= live[v].ttl
  BY <1>2, <1>5, NewestEvicts
<1>7. u \notin DOMAIN kept
  BY <1>2, <1>3 DEF gone
<1>8. Cardinality(DOMAIN c) = MaxEntries
  <2>1. IsFiniteSet(DOMAIN kept)
    BY <1>3 DEF WellFormed
  <2> HIDE DEF c, kept
  <2>2. Cardinality(DOMAIN c) = Cardinality(DOMAIN kept) + 1
    BY <1>4, <1>7, <2>1, FS_AddElement
  <2> QED
    BY <1>6, <2>2, CacheAssumption
<1>9. items[v].ttl \in 0 .. TTL
  BY DEF WellFormed, Entry
<1>10. \A w \in DOMAIN c : c[w].ttl >= items[v].ttl
  <2>1. c[u].ttl >= items[v].ttl
    BY <1>4, <1>9, CacheAssumption
  <2>2. \A w \in DOMAIN kept : c[w].ttl >= items[v].ttl
    BY <1>2, <1>3, <1>4, <1>5, <1>6, <1>7
  <2> QED
    BY <1>4, <2>1, <2>2
<1> HIDE DEF c
<1> QED
  BY <1>1, <1>8, <1>10

\* The passage of time keeps the Map well formed.
LEMMA AgedWellFormed ==
    ASSUME NEW items, WellFormed(items)
    PROVE  /\ WellFormed(Aged(items))
           /\ DOMAIN Aged(items) = DOMAIN items
           /\ \A v \in DOMAIN items : /\ Aged(items)[v].value = items[v].value
                                      /\ Hit(Aged(items), v) => Hit(items, v)
<1> DEFINE c == Aged(items)
<1>1. DOMAIN c = DOMAIN items /\ c = [v \in DOMAIN c |-> c[v]]
  BY DEF Aged
<1>2. \A v \in DOMAIN items :
         /\ items[v] \in Entry
         /\ items[v].ttl \in 0 .. TTL
  BY DEF WellFormed, Entry
<1>3. \A v \in DOMAIN items :
         /\ c[v] = [items[v] EXCEPT !.ttl = IF @ = 0 THEN 0 ELSE @ - 1]
         /\ c[v].value = items[v].value
         /\ c[v].newer = items[v].newer
         /\ c[v].ttl = IF items[v].ttl = 0 THEN 0 ELSE items[v].ttl - 1
  BY <1>2 DEF Aged, Entry
<1> HIDE DEF c
<1>4. \A v \in DOMAIN items : c[v].ttl \in 0 .. TTL
  <2> SUFFICES ASSUME NEW v \in DOMAIN items
               PROVE  c[v].ttl \in 0 .. TTL
    OBVIOUS
  <2> DEFINE t == items[v].ttl
  <2>1. t \in 0 .. TTL /\ c[v].ttl = IF t = 0 THEN 0 ELSE t - 1
    BY <1>2, <1>3
  <2> HIDE DEF t
  <2> QED
    BY <2>1, CacheAssumption
<1>5. \A v \in DOMAIN items : c[v] \in Entry
  BY <1>2, <1>3, <1>4 DEF Entry
<1>6. \A v, w \in DOMAIN items :
         items[v].ttl <= items[w].ttl => c[v].ttl <= c[w].ttl
  <2> SUFFICES ASSUME NEW v \in DOMAIN items, NEW w \in DOMAIN items,
                      items[v].ttl <= items[w].ttl
               PROVE  c[v].ttl <= c[w].ttl
    OBVIOUS
  <2> DEFINE t == items[v].ttl
             s == items[w].ttl
  <2>1. /\ t \in 0 .. TTL /\ c[v].ttl = IF t = 0 THEN 0 ELSE t - 1
        /\ s \in 0 .. TTL /\ c[w].ttl = IF s = 0 THEN 0 ELSE s - 1
        /\ t <= s
    BY <1>2, <1>3
  <2> HIDE DEF t, s
  <2> QED
    BY <2>1, CacheAssumption
<1>7. c \in [DOMAIN c -> Entry]
  BY <1>1, <1>5
<1>8. InOrder(c)
  BY <1>1, <1>3, <1>6 DEF InOrder, WellFormed
<1>9. WellFormed(c)
  BY <1>1, <1>3, <1>7, <1>8 DEF WellFormed
<1>10. \A v \in DOMAIN items : Hit(c, v) => Hit(items, v)
  BY <1>1, <1>2, <1>3, CacheAssumption DEF Hit
<1> QED
  BY <1>1, <1>3, <1>9, <1>10 DEF c

-----------------------------------------------------------------------------
(* The tables, the cache and the requests.                                   *)


\* The locals of an idle request are well typed.
LEMMA BlankOK == Blank \in Local /\ ArgumentsSet("idle", Blank) /\ "idle" \in PC
  BY DEF Blank, Local, ArgumentsSet, PC, OnUser, OnRole, Removing

\* A request that moves to a place whose arguments are set keeps the requests
\* well typed.
LEMMA MoveOK ==
    ASSUME RequestsOK, NEW r \in Requests, NEW p \in PC, NEW l \in Local,
           ArgumentsSet(p, l),
           pc' = [pc EXCEPT ![r] = p],
           local' = [local EXCEPT ![r] = l],
           overtaken' \subseteq Requests,
           excused' \subseteq Users
    PROVE  RequestsOK'
<1>1. pc' \in [Requests -> PC] /\ local' \in [Requests -> Local]
  BY DEF RequestsOK
<1>2. \A q \in Requests : ArgumentsSet(pc'[q], local'[q])
  <2> SUFFICES ASSUME NEW q \in Requests
               PROVE  ArgumentsSet(pc'[q], local'[q])
    OBVIOUS
  <2>1. CASE q = r
    BY <2>1 DEF RequestsOK
  <2>2. CASE q # r
    BY <2>2 DEF RequestsOK
  <2> QED
    BY <2>1, <2>2
<1> QED
  BY <1>1, <1>2 DEF RequestsOK, ArgumentsSet

\* A request that ends keeps the requests well typed.
LEMMA FinishOK ==
    ASSUME RequestsOK, CacheOK, NEW r \in Requests, Finish(r)
    PROVE  RequestsOK'
<1>1. pc' = [pc EXCEPT ![r] = "idle"] /\ local' = [local EXCEPT ![r] = Blank]
  BY DEF Finish, Goto
<1>2. overtaken' \subseteq Requests /\ excused' \subseteq Users
  BY DEF Finish, RequestsOK, CacheOK, Loading
<1> QED
  BY <1>1, <1>2, BlankOK, MoveOK

\* Every operation starts with its arguments set.
LEMMA StartOK ==
    ASSUME RequestsOK, NEW r \in Requests, NEW op, NEW p \in PC, NEW l \in Local,
           ArgumentsSet(p, l), Start(r, op, p, l)
    PROVE  RequestsOK'
<1>1. /\ pc' = [pc EXCEPT ![r] = p] /\ local' = [local EXCEPT ![r] = l]
      /\ overtaken' = overtaken /\ excused' = excused
  BY DEF Start
<1> QED
  BY <1>1, MoveOK DEF RequestsOK

\* The call of an operation keeps the requests well typed.
LEMMA CallOK ==
    ASSUME RequestsOK, NEW r \in Requests, Call(r)
    PROVE  RequestsOK'
<1> USE DEF Blank, Local, ArgumentsSet, PC, OnUser, OnRole, Removing
<1>1. CASE \E u \in Users : StartLoad(r, u)
  <2>1. PICK u \in Users : StartLoad(r, u)
    BY <1>1
  <2> DEFINE l == [Blank EXCEPT !.user = u]
  <2>2. l \in Local /\ ArgumentsSet("readUserRoles", l) /\ "readUserRoles" \in PC
    OBVIOUS
  <2>3. Start(r, "getUserPermissions", "readUserRoles", l)
    BY <2>1 DEF StartLoad
  <2> HIDE DEF l
  <2> QED
    BY <2>2, <2>3, StartOK
<1>2. CASE \E name \in Names, system \in BOOLEAN :
             StartCreateRole(r, [name |-> name, system |-> system])
  <2>1. PICK row \in [name : Names, system : BOOLEAN] : StartCreateRole(r, row)
    BY <1>2
  <2> DEFINE l == [Blank EXCEPT !.data = row]
  <2>2. l \in Local /\ ArgumentsSet("findRole", l) /\ "findRole" \in PC
    OBVIOUS
  <2>3. Start(r, "createRole", "findRole", l)
    BY <2>1 DEF StartCreateRole
  <2> HIDE DEF l
  <2> QED
    BY <2>2, <2>3, StartOK
<1>3. ASSUME NEW role \in Roles, StartDeleteRole(r, role)
      PROVE  RequestsOK'
  <2> DEFINE l == [Blank EXCEPT !.role = role]
  <2>2. l \in Local /\ ArgumentsSet("deleteRole", l) /\ "deleteRole" \in PC
    OBVIOUS
  <2>3. Start(r, "deleteRole", "deleteRole", l)
    BY <1>3 DEF StartDeleteRole
  <2> HIDE DEF l
  <2> QED
    BY <2>2, <2>3, StartOK
<1>4. ASSUME NEW role \in Roles, StartDeletePermissions(r, role)
      PROVE  RequestsOK'
  <2> DEFINE l == [Blank EXCEPT !.role = role]
  <2>2. l \in Local /\ ArgumentsSet("listPermissions", l) /\ "listPermissions" \in PC
    OBVIOUS
  <2>3. Start(r, "deletePermissions", "listPermissions", l)
    BY <1>4 DEF StartDeletePermissions
  <2> HIDE DEF l
  <2> QED
    BY <2>2, <2>3, StartOK
<1>5. ASSUME NEW role \in Roles, NEW u \in Users, StartRemoveRole(r, u, role)
      PROVE  RequestsOK'
  <2> DEFINE l == [Blank EXCEPT !.user = u, !.role = role]
  <2>2. l \in Local /\ ArgumentsSet("findRemoval", l) /\ "findRemoval" \in PC
    OBVIOUS
  <2>3. Start(r, "removeRole", "findRemoval", l)
    BY <1>5 DEF StartRemoveRole
  <2> HIDE DEF l
  <2> QED
    BY <2>2, <2>3, StartOK
<1>6. ASSUME NEW role \in Roles, NEW items \in Batches,
             StartSetPermissions(r, role, items)
      PROVE  RequestsOK'
  <2> DEFINE l == [Blank EXCEPT !.role = role, !.items = items]
  <2>1. items \in SUBSET Item
    BY RbacAssumption
  <2>2. l \in Local /\ ArgumentsSet("findPermission", l) /\ "findPermission" \in PC
    BY <2>1
  <2>3. Start(r, "setPermissions", "findPermission", l)
    BY <1>6 DEF StartSetPermissions
  <2> HIDE DEF l
  <2> QED
    BY <2>2, <2>3, StartOK
<1>7. ASSUME NEW role \in Roles, NEW source \in Roles,
             StartCopyPermissions(r, source, role)
      PROVE  RequestsOK'
  <2> DEFINE l == [Blank EXCEPT !.role = role, !.roleIds = {source}]
  <2>2. l \in Local /\ ArgumentsSet("listSource", l) /\ "listSource" \in PC
    OBVIOUS
  <2>3. Start(r, "copyPermissions", "listSource", l)
    BY <1>7 DEF StartCopyPermissions
  <2> HIDE DEF l
  <2> QED
    BY <2>2, <2>3, StartOK
<1>8. ASSUME NEW u \in Users, NEW R \in SUBSET Roles, StartAssignRoles(r, u, R)
      PROVE  RequestsOK'
  <2> DEFINE l == [Blank EXCEPT !.user = u, !.roleIds = R]
  <2>2. l \in Local /\ ArgumentsSet("findAssignment", l) /\ "findAssignment" \in PC
    OBVIOUS
  <2>3. Start(r, "assignRoles", "findAssignment", l)
    BY <1>8 DEF StartAssignRoles
  <2> HIDE DEF l
  <2> QED
    BY <2>2, <2>3, StartOK
<1> QED
  BY <1>1, <1>2, <1>3, <1>4, <1>5, <1>6, <1>7, <1>8 DEF Call

\* The roles assigned in user_roles, the ids in roles and the grants of rows
\* have the types of their columns.
LEMMA TableTypes ==
    ASSUME TablesOK
    PROVE  /\ RoleIds \subseteq Roles
           /\ \A u : Assigned(u) \subseteq Roles
           /\ \A R : Granted(R) \subseteq Grants
<1>1. \A R : Granted(R) \subseteq Tables \X Actions
  BY DEF Granted, TablesOK, PermissionRow
<1> QED
  BY <1>1, RbacAssumption
  DEF TablesOK, RoleIds, Assigned, RoleRow, UserRoleRow

\* The answer of a NocoDB call keeps the requests well typed.
LEMMA StepOK ==
    ASSUME TablesOK, CacheOK, RequestsOK, NEW r \in Requests, Step(r)
    PROVE  RequestsOK'
<1> DEFINE loc == local[r]
<1>0. /\ loc \in Local /\ ArgumentsSet(pc[r], loc)
      /\ overtaken \subseteq Requests /\ excused \subseteq Users
  BY DEF RequestsOK
<1>1. CASE ReadUserRoles(r)
  <2> DEFINE l == [loc EXCEPT !.roleIds = Assigned(loc.user)]
  <2>1. CASE Finish(r)
    BY <2>1, FinishOK
  <2>2. CASE /\ pc[r] = "readUserRoles"
             /\ Goto(r, "readRoles")
             /\ local' = [local EXCEPT ![r].roleIds = Assigned(loc.user)]
             /\ UNCHANGED <<overtaken, excused>>
    <3>1. local' = [local EXCEPT ![r] = l]
      BY <2>2 DEF RequestsOK
    <3>2. l \in Local /\ ArgumentsSet("readRoles", l) /\ "readRoles" \in PC
      BY <1>0, <2>2, TableTypes DEF Local, ArgumentsSet, OnUser, OnRole, Removing, PC
    <3> HIDE DEF l
    <3> QED
      BY <1>0, <2>2, <3>1, <3>2, MoveOK DEF Goto
  <2> QED
    BY <1>1, <2>1, <2>2 DEF ReadUserRoles
<1>2. CASE ReadRoles(r)
  <2> DEFINE l == [loc EXCEPT !.roleIds = ActiveRoleIds(r)]
  <2>1. CASE Finish(r)
    BY <2>1, FinishOK
  <2>2. CASE /\ pc[r] = "readRoles"
             /\ Goto(r, "readPermissions")
             /\ local' = [local EXCEPT ![r].roleIds = ActiveRoleIds(r)]
             /\ UNCHANGED <<overtaken, excused>>
    <3>1. local' = [local EXCEPT ![r] = l]
      BY <2>2 DEF RequestsOK
    <3>2. /\ l \in Local /\ ArgumentsSet("readPermissions", l)
          /\ "readPermissions" \in PC
      BY <1>0, <2>2 DEF Local, ArgumentsSet, OnUser, OnRole, Removing, PC,
         ActiveRoleIds
    <3> HIDE DEF l
    <3> QED
      BY <1>0, <2>2, <3>1, <3>2, MoveOK DEF Goto
  <2> QED
    BY <1>2, <2>1, <2>2 DEF ReadRoles
<1>3. CASE ReadPermissions(r)
  <2> DEFINE l == [loc EXCEPT !.value = Granted(loc.roleIds)]
  <2>1. local' = [local EXCEPT ![r] = l]
    BY <1>3 DEF ReadPermissions, RequestsOK
  <2>2. pc[r] = "readPermissions"
    BY <1>3 DEF ReadPermissions
  <2>3. /\ l \in Local /\ ArgumentsSet("storePermissions", l)
        /\ "storePermissions" \in PC
    BY <1>0, <2>2, TableTypes DEF Local, ArgumentsSet, OnUser, OnRole, Removing, PC
  <2> HIDE DEF l
  <2> QED
    BY <1>0, <1>3, <2>1, <2>3, MoveOK DEF ReadPermissions, Goto
<1>4. CASE StorePermissions(r)
  <2>1. loc.user \in Users
    BY <1>0, <1>4 DEF StorePermissions, ArgumentsSet, OnUser
  <2>2. /\ pc' = [pc EXCEPT ![r] = "idle"] /\ local' = [local EXCEPT ![r] = Blank]
        /\ overtaken' \subseteq Requests /\ excused' \subseteq Users
    BY <1>0, <1>4, <2>1 DEF StorePermissions, Goto
  <2> QED
    BY <2>2, BlankOK, MoveOK
<1>5. CASE ClearAllEntries(r)
  <2>1. overtaken' \subseteq Requests /\ excused' \subseteq Users
    BY <1>0, <1>5 DEF ClearAllEntries, Loading
  <2>2. CASE pc' = [pc EXCEPT ![r] = "idle"] /\ local' = [local EXCEPT ![r] = Blank]
    BY <2>1, <2>2, BlankOK, MoveOK
  <2>3. CASE pc' = [pc EXCEPT ![r] = "findPermission"] /\ local' = local
    <3>1. local' = [local EXCEPT ![r] = loc]
      BY <2>3 DEF RequestsOK
    <3>2. ArgumentsSet("findPermission", loc) /\ "findPermission" \in PC
      BY <1>0, <1>5 DEF ClearAllEntries, ArgumentsSet, OnUser, OnRole, Removing, PC
    <3> HIDE DEF loc
    <3> QED
      BY <1>0, <2>1, <2>3, <3>1, <3>2, MoveOK
  <2> QED
    BY <1>5, <2>2, <2>3 DEF ClearAllEntries, Goto
<1>6. CASE ClearUserEntry(r)
  <2>1. overtaken' \subseteq Requests /\ excused' \subseteq Users
    BY <1>0, <1>6 DEF ClearUserEntry, Loading
  <2>2. CASE pc' = [pc EXCEPT ![r] = "idle"] /\ local' = [local EXCEPT ![r] = Blank]
    BY <2>1, <2>2, BlankOK, MoveOK
  <2>3. CASE pc' = [pc EXCEPT ![r] = "findAssignment"] /\ local' = local
    <3>1. local' = [local EXCEPT ![r] = loc]
      BY <2>3 DEF RequestsOK
    <3>2. ArgumentsSet("findAssignment", loc) /\ "findAssignment" \in PC
      BY <1>0, <1>6 DEF ClearUserEntry, ArgumentsSet, OnUser, OnRole, Removing, PC
    <3> HIDE DEF loc
    <3> QED
      BY <1>0, <2>1, <2>3, <3>1, <3>2, MoveOK
  <2> QED
    BY <1>6, <2>2, <2>3 DEF ClearUserEntry, Goto
<1>7. CASE FindRole(r)
  <2>1. CASE Finish(r)
    BY <2>1, FinishOK
  <2>2. ASSUME Goto(r, "createRole"), local' = local, UNCHANGED <<overtaken, excused>>
        PROVE  RequestsOK'
    <3> DEFINE l == loc
    <3>1. local' = [local EXCEPT ![r] = l]
      BY <2>2 DEF RequestsOK
    <3>2. l \in Local /\ ArgumentsSet("createRole", l) /\ "createRole" \in PC
      BY <1>0, <1>7, <2>2 DEF FindRole, Local, ArgumentsSet, OnUser, OnRole, Removing, PC
    <3> HIDE DEF l
    <3> QED
      BY <1>0, <2>2, <3>1, <3>2, MoveOK DEF Goto
  <2> QED
    BY <1>7, <2>1, <2>2 DEF FindRole
<1>8. CASE CreateRole(r)
  <2>1. CASE Finish(r)
    BY <2>1, FinishOK
  <2>2. CASE ~Finish(r)
    <3>1. /\ pc' = [pc EXCEPT ![r] = "idle"]
          /\ local' = [local EXCEPT ![r] = Blank]
          /\ overtaken' \subseteq Requests /\ excused' \subseteq Users
      BY <1>0, <1>8, <2>2 DEF CreateRole, Goto, Loading, CacheOK
    <3> QED
      BY <3>1, BlankOK, MoveOK
  <2> QED
    BY <2>1, <2>2
<1>9. CASE DeleteRole(r)
  <2>1. CASE Finish(r)
    BY <2>1, FinishOK
  <2>2. ASSUME Goto(r, "clearAll"), local' = local, UNCHANGED <<overtaken, excused>>
        PROVE  RequestsOK'
    <3> DEFINE l == loc
    <3>1. local' = [local EXCEPT ![r] = l]
      BY <2>2 DEF RequestsOK
    <3>2. l \in Local /\ ArgumentsSet("clearAll", l) /\ "clearAll" \in PC
      BY <1>0, <1>9, <2>2 DEF DeleteRole, Local, ArgumentsSet, OnUser, OnRole, Removing, PC
    <3> HIDE DEF l
    <3> QED
      BY <1>0, <2>2, <3>1, <3>2, MoveOK DEF Goto
  <2> QED
    BY <1>9, <2>1, <2>2 DEF DeleteRole
<1>10. CASE FindAssignment(r)
  <2>1. PICK role \in loc.roleIds :
          LET rest == loc.roleIds \ {role} IN
          IF AssignmentRows(loc.user, role) = {}
          THEN /\ Goto(r, "createAssignment")
               /\ local' = [local EXCEPT ![r].role = role, ![r].roleIds = rest]
               /\ UNCHANGED <<overtaken, excused>>
          ELSE IF rest # {}
          THEN /\ local' = [local EXCEPT ![r].roleIds = rest]
               /\ UNCHANGED <<pc, overtaken, excused>>
          ELSE Finish(r)
    BY <1>10 DEF FindAssignment
  <2> DEFINE rest == loc.roleIds \ {role}
  <2>2. pc[r] = "findAssignment" /\ loc.user \in Users /\ role \in Roles
    BY <1>0, <1>10 DEF FindAssignment, ArgumentsSet, OnUser, Local
  <2>3. CASE AssignmentRows(loc.user, role) = {}
    <3> DEFINE l == [loc EXCEPT !.role = role, !.roleIds = rest]
    <3>1. local' = [local EXCEPT ![r] = l]
      BY <2>1, <2>3 DEF RequestsOK
    <3>2. l \in Local /\ ArgumentsSet("createAssignment", l) /\ "createAssignment" \in PC
      BY <1>0, <2>2 DEF Local, ArgumentsSet, OnUser, OnRole, Removing, PC
    <3> HIDE DEF l
    <3> QED
      BY <1>0, <2>1, <2>3, <3>1, <3>2, MoveOK DEF Goto
  <2>4. CASE AssignmentRows(loc.user, role) # {} /\ rest # {}
    <3> DEFINE l == [loc EXCEPT !.roleIds = rest]
    <3>1. local' = [local EXCEPT ![r] = l]
      BY <2>1, <2>4 DEF RequestsOK
    <3>2. l \in Local /\ ArgumentsSet("findAssignment", l) /\ "findAssignment" \in PC
      BY <1>0, <2>2 DEF Local, ArgumentsSet, OnUser, OnRole, Removing, PC
    <3>3. pc' = [pc EXCEPT ![r] = "findAssignment"]
      BY <2>1, <2>2, <2>4 DEF RequestsOK
    <3> HIDE DEF l
    <3> QED
      BY <1>0, <2>1, <2>4, <3>1, <3>2, <3>3, MoveOK
  <2>5. CASE AssignmentRows(loc.user, role) # {} /\ rest = {}
    BY <2>1, <2>5, FinishOK
  <2> QED
    BY <2>3, <2>4, <2>5
<1>11. CASE CreateAssignment(r)
  <2>1. CASE Finish(r)
    BY <2>1, FinishOK
  <2>2. ASSUME Goto(r, "clearUser"), local' = local, UNCHANGED <<overtaken, excused>>
        PROVE  RequestsOK'
    <3> DEFINE l == loc
    <3>1. local' = [local EXCEPT ![r] = l]
      BY <2>2 DEF RequestsOK
    <3>2. l \in Local /\ ArgumentsSet("clearUser", l) /\ "clearUser" \in PC
      BY <1>0, <1>11, <2>2 DEF CreateAssignment, Local, ArgumentsSet, OnUser, OnRole, Removing, PC
    <3> HIDE DEF l
    <3> QED
      BY <1>0, <2>2, <3>1, <3>2, MoveOK DEF Goto
  <2> QED
    BY <1>11, <2>1, <2>2 DEF CreateAssignment
<1>12. CASE FindRemoval(r)
  <2>1. CASE Finish(r)
    BY <2>1, FinishOK
  <2>2. ASSUME NEW x \in userRoles, Goto(r, "deleteAssignment"),
               local' = [local EXCEPT ![r].rows = {x.id}], UNCHANGED <<overtaken, excused>>
        PROVE  RequestsOK'
    <3> DEFINE l == [loc EXCEPT !.rows = {x.id}]
    <3>1. local' = [local EXCEPT ![r] = l]
      BY <2>2 DEF RequestsOK
    <3>2. l \in Local /\ ArgumentsSet("deleteAssignment", l) /\ "deleteAssignment" \in PC
      BY <1>0, <1>12, <2>2 DEF FindRemoval, Local, ArgumentsSet, OnUser, OnRole, Removing, PC, TablesOK, UserRoleRow
    <3> HIDE DEF l
    <3> QED
      BY <1>0, <2>2, <3>1, <3>2, MoveOK DEF Goto
  <2> QED
    BY <1>12, <2>1, <2>2 DEF FindRemoval, AssignmentRows
<1>13. CASE DeleteAssignment(r)
  <2>1. CASE Finish(r)
    BY <2>1, FinishOK
  <2>2. ASSUME Goto(r, "clearUser"), local' = local, UNCHANGED <<overtaken, excused>>
        PROVE  RequestsOK'
    <3> DEFINE l == loc
    <3>1. local' = [local EXCEPT ![r] = l]
      BY <2>2 DEF RequestsOK
    <3>2. l \in Local /\ ArgumentsSet("clearUser", l) /\ "clearUser" \in PC
      BY <1>0, <1>13, <2>2 DEF DeleteAssignment, Local, ArgumentsSet, OnUser, OnRole, Removing, PC
    <3> HIDE DEF l
    <3> QED
      BY <1>0, <2>2, <3>1, <3>2, MoveOK DEF Goto
  <2> QED
    BY <1>13, <2>1, <2>2 DEF DeleteAssignment
<1>14. CASE FindPermission(r)
  <2>1. PICK item \in loc.items, rows \in SUBSET Nat :
          local' = [local EXCEPT ![r].items = @ \ {item}, ![r].data = item,
                                 ![r].rows = rows]
    <3>1. \A item \in loc.items :
            {{x.id} : x \in PermissionRows(loc.role, item.table)} \subseteq SUBSET Nat
      BY DEF PermissionRows, TablesOK, PermissionRow
    <3> QED
      BY <1>14, <3>1 DEF FindPermission
  <2> DEFINE l == [loc EXCEPT !.items = @ \ {item}, !.data = item, !.rows = rows]
  <2>2. local' = [local EXCEPT ![r] = l]
    BY <2>1 DEF RequestsOK
  <2>3. l \in Local /\ ArgumentsSet("writePermission", l) /\ "writePermission" \in PC
    BY <1>0, <1>14 DEF FindPermission, Local, ArgumentsSet, OnUser, OnRole, Removing, PC
  <2> HIDE DEF l
  <2> QED
    BY <1>0, <1>14, <2>2, <2>3, MoveOK DEF FindPermission, Goto
<1>15. CASE WritePermission(r)
  <2>1. CASE Finish(r)
    BY <2>1, FinishOK
  <2>2. ASSUME Goto(r, "clearAll"), local' = local, UNCHANGED <<overtaken, excused>>
        PROVE  RequestsOK'
    <3> DEFINE l == loc
    <3>1. local' = [local EXCEPT ![r] = l]
      BY <2>2 DEF RequestsOK
    <3>2. l \in Local /\ ArgumentsSet("clearAll", l) /\ "clearAll" \in PC
      BY <1>0, <1>15, <2>2 DEF WritePermission, Local, ArgumentsSet, OnUser, OnRole, Removing, PC
    <3> HIDE DEF l
    <3> QED
      BY <1>0, <2>2, <3>1, <3>2, MoveOK DEF Goto
  <2> QED
    BY <1>15, <2>1, <2>2 DEF WritePermission
<1>16. CASE ListSource(r)
  <2>1. CASE Finish(r)
    BY <2>1, FinishOK
  <2>2. CASE ~Finish(r)
    <3> DEFINE found == {[table |-> x.table, acts |-> x.acts] :
                  x \in {y \in tablePermissions : y.role \in loc.roleIds}}
               l == [loc EXCEPT !.items = found, !.roleIds = {}]
    <3>1. found \subseteq Item
      BY DEF TablesOK, PermissionRow, Item
    <3>2. /\ local' = [local EXCEPT ![r].items = found, ![r].roleIds = {}]
          /\ Goto(r, "findPermission")
          /\ UNCHANGED <<overtaken, excused>>
      BY <1>16, <2>2 DEF ListSource
    <3> HIDE DEF found
    <3>3. local' = [local EXCEPT ![r] = l]
      BY <3>2 DEF RequestsOK
    <3>4. l \in Local /\ ArgumentsSet("findPermission", l) /\ "findPermission" \in PC
      BY <1>0, <1>16, <3>1
      DEF ListSource, Local, ArgumentsSet, OnUser, OnRole, Removing, PC
    <3> HIDE DEF l
    <3> QED
      BY <1>0, <3>2, <3>3, <3>4, MoveOK DEF Goto
  <2> QED
    BY <2>1, <2>2
<1>17. CASE ListPermissions(r)
  <2> DEFINE found == {x.id : x \in {y \in tablePermissions : y.role = loc.role}}
             p == IF found = {} THEN "clearAll" ELSE "deletePermission"
             l == [loc EXCEPT !.rows = found]
  <2>1. found \subseteq Nat
    BY DEF TablesOK, PermissionRow
  <2>2. /\ pc[r] = "listPermissions"
        /\ pc' = [pc EXCEPT ![r] = p]
        /\ local' = [local EXCEPT ![r].rows = found]
        /\ UNCHANGED <<overtaken, excused>>
    BY <1>17 DEF ListPermissions, Goto
  <2> HIDE DEF found
  <2>3. local' = [local EXCEPT ![r] = l]
    BY <2>2 DEF RequestsOK
  <2>4. l \in Local /\ ArgumentsSet(p, l) /\ p \in PC
    BY <1>0, <2>1, <2>2 DEF Local, ArgumentsSet, OnUser, OnRole, Removing, PC
  <2> HIDE DEF l, p
  <2> QED
    BY <1>0, <2>2, <2>3, <2>4, MoveOK
<1>18. CASE DeletePermission(r)
  <2>1. CASE Finish(r)
    BY <2>1, FinishOK
  <2>2. CASE ~Finish(r)
    <3>1. PICK id \in loc.rows, p \in {"clearAll", "deleteNext"} :
            /\ pc' = [pc EXCEPT ![r] = p]
            /\ local' = [local EXCEPT ![r].rows = loc.rows \ {id}]
            /\ UNCHANGED <<overtaken, excused>>
      BY <1>18, <2>2 DEF DeletePermission, Goto
    <3> DEFINE l == [loc EXCEPT !.rows = loc.rows \ {id}]
    <3>2. local' = [local EXCEPT ![r] = l]
      BY <3>1 DEF RequestsOK
    <3>3. l \in Local /\ ArgumentsSet(p, l) /\ p \in PC
      BY <1>0, <1>18
      DEF DeletePermission, Local, ArgumentsSet, OnUser, OnRole, Removing, PC
    <3> HIDE DEF l
    <3> QED
      BY <1>0, <3>1, <3>2, <3>3, MoveOK
  <2> QED
    BY <2>1, <2>2
<1> QED
  BY <1>1, <1>2, <1>3, <1>4, <1>5, <1>6, <1>7, <1>8, <1>9, <1>10, <1>11, <1>12,
     <1>13, <1>14, <1>15, <1>16, <1>17, <1>18 DEF Step

\* The answer of a NocoDB call keeps the tables well typed.
LEMMA TablesStepOK ==
    ASSUME TablesOK, RequestsOK, NEW r \in Requests, Step(r)
    PROVE  TablesOK'
<1> DEFINE loc == local[r]
<1>0. loc \in Local /\ ArgumentsSet(pc[r], loc)
  BY DEF RequestsOK
<1>1. CASE UNCHANGED tables
  BY <1>1 DEF tables, TablesOK
<1>2. CASE CreateRole(r)
  <2>1. loc.data \in [name : Names, system : BOOLEAN]
    BY <1>0, <1>2 DEF CreateRole, ArgumentsSet
  <2>2. CASE nextRole \in Roles
    <3>1. [id |-> nextRole, name |-> loc.data.name, system |-> loc.data.system]
            \in RoleRow
      BY <2>1, <2>2 DEF RoleRow
    <3> QED
      BY <1>2, <2>2, <3>1 DEF CreateRole, TablesOK
  <2> QED
    BY <1>2, <2>2 DEF CreateRole, TablesOK
<1>3. CASE DeleteRole(r)
  BY <1>3 DEF DeleteRole, TablesOK
<1>4. CASE CreateAssignment(r)
  <2>1. loc.user \in Users /\ loc.role \in Roles
    BY <1>0, <1>4 DEF CreateAssignment, ArgumentsSet, OnUser, OnRole
  <2>2. [id |-> nextRow, user |-> loc.user, role |-> loc.role] \in UserRoleRow
    BY <2>1 DEF UserRoleRow, TablesOK
  <2> QED
    BY <1>4, <2>2 DEF CreateAssignment, TablesOK
<1>5. CASE DeleteAssignment(r)
  BY <1>5 DEF DeleteAssignment, TablesOK
<1>6. CASE WritePermission(r)
  <2> DEFINE row(id) == [id |-> id, role |-> loc.role,
                         table |-> loc.data.table, acts |-> loc.data.acts]
             found == {x \in tablePermissions : x.id \in loc.rows}
  <2>1. loc.role \in Roles /\ loc.data \in Item
    BY <1>0, <1>6 DEF WritePermission, ArgumentsSet, OnRole
  <2>2. \A id \in Nat : row(id) \in PermissionRow
    BY <2>1 DEF Item, PermissionRow
  <2>3. \A x \in tablePermissions : x.id \in Nat
    BY DEF TablesOK, PermissionRow
  <2>4. /\ row(nextRow) \in PermissionRow
        /\ {row(x.id) : x \in found} \subseteq PermissionRow
    BY <2>2, <2>3 DEF TablesOK
  <2>5. /\ \/ tablePermissions' = tablePermissions
           \/ tablePermissions' = tablePermissions \cup {row(nextRow)}
           \/ tablePermissions' = (tablePermissions \ found) \cup {row(x.id) : x \in found}
        /\ nextRow' = nextRow \/ nextRow' = nextRow + 1
        /\ UNCHANGED <<roles, userRoles, nextRole>>
    BY <1>6 DEF WritePermission
  <2> HIDE DEF row, found
  <2> QED
    BY <2>4, <2>5 DEF TablesOK
<1>7. CASE DeletePermission(r)
  BY <1>7 DEF DeletePermission, TablesOK
<1> QED
  BY <1>1, <1>2, <1>3, <1>4, <1>5, <1>6, <1>7
  DEF Step, ReadUserRoles, ReadRoles, ReadPermissions, StorePermissions,
      ClearAllEntries, ClearUserEntry, FindRole, FindAssignment, FindRemoval,
      FindPermission, ListSource, ListPermissions

\* The answer of a NocoDB call keeps the cache a well-formed Map within its
\* capacity.
LEMMA CacheStepOK ==
    ASSUME WellFormed(cache), CacheBounded, RequestsOK, NEW r \in Requests, Step(r)
    PROVE  WellFormed(cache') /\ CacheBounded'
<1> DEFINE loc == local[r]
<1>0. loc \in Local /\ ArgumentsSet(pc[r], loc)
  BY DEF RequestsOK
<1>1. CASE UNCHANGED cache
  BY <1>1 DEF CacheBounded
<1>2. ASSUME NEW S, cache' = Without(cache, S)
      PROVE  WellFormed(cache') /\ CacheBounded'
  <2>1. /\ WellFormed(cache')
        /\ Cardinality(DOMAIN cache') <= Cardinality(DOMAIN cache)
    BY <1>2, WithoutWellFormed
  <2>2. Cardinality(DOMAIN cache') \in Nat /\ Cardinality(DOMAIN cache) \in Nat
    BY <2>1, FS_CardinalityType DEF WellFormed
  <2> QED
    BY <2>1, <2>2, CacheAssumption DEF CacheBounded
<1>3. CASE StorePermissions(r)
  <2>1. loc.user \in Users /\ loc.value \in SUBSET Grants
    BY <1>0, <1>3 DEF StorePermissions, ArgumentsSet, OnUser, Local
  <2>2. cache' = CachePermissions(cache, loc.user, loc.value)
    BY <1>3 DEF StorePermissions
  <2> HIDE DEF loc
  <2> QED
    BY <2>1, <2>2, CachePermissionsWellFormed DEF CacheBounded
<1>4. CASE ClearAllEntries(r)
  BY <1>2, <1>4 DEF ClearAllEntries, ClearAll
<1>5. CASE ClearUserEntry(r)
  BY <1>2, <1>5 DEF ClearUserEntry, ClearUser
<1> QED
  BY <1>1, <1>3, <1>4, <1>5
  DEF Step, ReadUserRoles, ReadRoles, ReadPermissions, FindRole, CreateRole,
      DeleteRole, FindAssignment, CreateAssignment, FindRemoval,
      DeleteAssignment, FindPermission, WritePermission, ListSource,
      ListPermissions, DeletePermission

-----------------------------------------------------------------------------
\* What holds of the state in every step: the types, and the cache as a
\* well-formed Map within its capacity.  TypeOK alone is not inductive: that
\* the places of the entries stay consistent is needed for the capacity.
StateOK == TypeOK /\ WellFormed(cache) /\ CacheBounded

\* The program starts in such a state.
LEMMA InitOK == Init => StateOK
<1> SUFFICES ASSUME Init PROVE StateOK
  OBVIOUS
<1>1. TablesOK
  <2>1. /\ Cardinality(SeedRoles) \in Nat
        /\ Cardinality(SeedUserRoles) \in Nat
        /\ Cardinality(SeedPermissions) \in Nat
    BY RbacAssumption, FS_CardinalityType
  <2> QED
    BY <2>1, RbacAssumption DEF Init, TablesOK
<1>2. cache = [u \in {} |-> Blank] /\ DOMAIN cache = {}
  BY DEF Init
<1>3. WellFormed(cache) /\ CacheOK
  BY <1>2, FS_EmptySet DEF WellFormed, CacheOK, InOrder
<1>4. CacheBounded
  BY <1>2, FS_EmptySet, CacheAssumption DEF CacheBounded
<1>5. RequestsOK
  BY BlankOK DEF Init, RequestsOK
<1> QED
  BY <1>1, <1>3, <1>4, <1>5 DEF StateOK, TypeOK

\* Every step of the program leads from such a state to such a state.
LEMMA NextOK == StateOK /\ [Next]_vars => StateOK'
<1> SUFFICES ASSUME StateOK, [Next]_vars PROVE StateOK'
  OBVIOUS
<1>0. TablesOK /\ CacheOK /\ RequestsOK /\ WellFormed(cache) /\ CacheBounded
  BY DEF StateOK, TypeOK
<1>1. ASSUME TablesOK', RequestsOK', WellFormed(cache'), CacheBounded'
      PROVE  StateOK'
  BY <1>1 DEF StateOK, TypeOK, CacheOK, WellFormed
<1>2. CASE UNCHANGED vars
  BY <1>0, <1>2
  DEF vars, tables, StateOK, TypeOK, TablesOK, CacheOK, RequestsOK, CacheBounded
<1>3. ASSUME UNCHANGED <<tables, cache>>, RequestsOK'
      PROVE  StateOK'
  BY <1>0, <1>3 DEF tables, StateOK, TypeOK, TablesOK, CacheOK, CacheBounded
<1>4. ASSUME NEW r \in Requests, Call(r)
      PROVE  StateOK'
  <2>1. UNCHANGED <<tables, cache>>
    BY <1>4 DEF Call, StartLoad, StartCreateRole, StartDeleteRole,
       StartDeletePermissions, StartRemoveRole, StartSetPermissions,
       StartCopyPermissions, StartAssignRoles, Start
  <2> QED
    BY <1>0, <1>3, <1>4, <2>1, CallOK
<1>5. ASSUME NEW r \in Requests, Step(r)
      PROVE  StateOK'
  BY <1>0, <1>1, <1>5, StepOK, TablesStepOK, CacheStepOK
<1>6. ASSUME NEW r \in Requests, Fail(r)
      PROVE  StateOK'
  BY <1>0, <1>3, <1>6, FinishOK DEF Fail
<1>7. CASE Crash
  <2>1. TablesOK'
    BY <1>0, <1>7 DEF Crash, tables, TablesOK
  <2>2. RequestsOK'
    BY <1>7, BlankOK DEF Crash, RequestsOK
  <2>3. /\ WellFormed(cache')
        /\ Cardinality(DOMAIN cache') <= Cardinality(DOMAIN cache)
    BY <1>0, <1>7, WithoutWellFormed DEF Crash, ClearAll
  <2>4. CacheBounded'
    <3>1. Cardinality(DOMAIN cache') \in Nat /\ Cardinality(DOMAIN cache) \in Nat
      BY <1>0, <2>3, FS_CardinalityType DEF WellFormed
    <3> QED
      BY <1>0, <2>3, <3>1, CacheAssumption DEF CacheBounded
  <2> QED
    BY <1>1, <2>1, <2>2, <2>3, <2>4
<1>8. CASE Tick
  <2>1. TablesOK' /\ RequestsOK'
    BY <1>0, <1>8 DEF Tick, tables, TablesOK, RequestsOK
  <2>2. WellFormed(cache') /\ DOMAIN cache' = DOMAIN cache
    BY <1>0, <1>8, AgedWellFormed DEF Tick
  <2>3. CacheBounded'
    BY <1>0, <2>2 DEF CacheBounded
  <2> QED
    BY <1>1, <2>1, <2>2, <2>3
<1> QED
  BY <1>2, <1>4, <1>5, <1>6, <1>7, <1>8 DEF Next

\* Hence it holds always.
LEMMA AlwaysOK == Spec => []StateOK
  BY InitOK, NextOK, PTL DEF Spec

\* The tables, the cache and every request's locals are always well typed, and
\* no request reaches a NocoDB call whose arguments it has not set.
THEOREM TypeCorrect == Spec => []TypeOK
<1>1. StateOK => TypeOK
  BY DEF StateOK
<1> QED
  BY <1>1, AlwaysOK, PTL

\* The cache never holds more than MaxEntries entries (cachePermissions).
THEOREM CacheStaysBounded == Spec => []CacheBounded
<1>1. StateOK => CacheBounded
  BY DEF StateOK
<1> QED
  BY <1>1, AlwaysOK, PTL

\* The entry at the front of the Map, which cachePermissions evicts first, is
\* always one that is closest to expiry.
THEOREM CacheStaysOrdered == Spec => []ExpiryOrder
<1>1. StateOK => ExpiryOrder
  BY DEF StateOK, WellFormed, ExpiryOrder
<1> QED
  BY <1>1, AlwaysOK, PTL

\* The Map stays within its capacity and in the order its eviction relies on.
THEOREM CacheStaysSound == Spec => []CacheSound
<1>1. CacheBounded /\ ExpiryOrder => CacheSound
  BY DEF CacheSound
<1> QED BY <1>1, CacheStaysBounded, CacheStaysOrdered, PTL

\* Only an overflowing cache loses live entries, and it loses the oldest.
THEOREM OldestIsEvicted == Spec => EvictsOldestWhenFull
<1> DEFINE evicts ==
             \A r \in Requests : StorePermissions(r) =>
               \A v \in DOMAIN cache \ (DOMAIN cache' \cup {local[r].user}) :
                  Hit(cache, v) =>
                     /\ Cardinality(DOMAIN cache') = MaxEntries
                     /\ \A w \in DOMAIN cache' : cache'[w].ttl >= cache[v].ttl
<1>1. StateOK => evicts
  <2> SUFFICES ASSUME StateOK, NEW r \in Requests, StorePermissions(r),
                      NEW v \in DOMAIN cache \ (DOMAIN cache' \cup {local[r].user}),
                      Hit(cache, v)
               PROVE  /\ Cardinality(DOMAIN cache') = MaxEntries
                      /\ \A w \in DOMAIN cache' : cache'[w].ttl >= cache[v].ttl
    OBVIOUS
  <2>1. PICK u, value : u = local[r].user /\ value = local[r].value
    OBVIOUS
  <2>2. u \in Users /\ value \in SUBSET Grants
    BY <2>1 DEF StateOK, TypeOK, RequestsOK, StorePermissions, ArgumentsSet, OnUser, Local
  <2>3. cache' = CachePermissions(cache, u, value)
    BY <2>1 DEF StorePermissions
  <2>4. v \in DOMAIN cache \ (DOMAIN CachePermissions(cache, u, value) \cup {u})
    BY <2>1, <2>3
  <2>5. WellFormed(cache)
    BY DEF StateOK
  <2> QED
    BY <2>2, <2>3, <2>4, <2>5, CachePermissionsEvicts
<1>2. Spec => [][evicts]_vars
  BY <1>1, AlwaysOK, PTL DEF Spec
<1> QED
  BY <1>2 DEF EvictsOldestWhenFull

-----------------------------------------------------------------------------
(* Coherence of the permission cache with the tables in NocoDB, but for the  *)
(* exceptions that Coherent names.                                           *)
(*                                                                           *)
(* The inductive invariant speaks of what is cached and of what loads in     *)
(* flight hold, because the latter becomes the former.  The lemma            *)
(* MoveCoherent says what a step of one request has to guarantee, user by    *)
(* user: either nothing that concerns the user has changed, or a change is   *)
(* now pending, or the step has dropped the user's entry and overtaken the   *)
(* user's loads.                                                             *)

-----------------------------------------------------------------------------
(* Ids: a request deletes the assignment it looked up and no other, although *)
(* any request may run between the two calls.                                *)

\* Assignments have ids of their own, given out before.
IdsOK ==
    /\ \A x \in userRoles : x.id < nextRow
    /\ \A x, y \in userRoles : x.id = y.id => x = y

\* rows are ids given out before, and if still there, of assignments of u.
RowsOf(u, rows) ==
    \A id \in rows :
        /\ id < nextRow
        /\ \A x \in userRoles : x.id = id => x.user = u

\* What removeRole is about to delete are assignments of its user.
RemovalsOK ==
    \A r \in Requests :
        pc[r] = "deleteAssignment" => RowsOf(local[r].user, local[r].rows)

\* New ids are larger than all ids before, so that no request's rows come to
\* mean another user's assignment.
LEMMA RowsKept ==
    ASSUME TablesOK, nextRow' \in Nat, nextRow <= nextRow',
           \A x \in userRoles' \ userRoles : x.id = nextRow,
           NEW u, NEW rows \in SUBSET Nat, RowsOf(u, rows)
    PROVE  RowsOf(u, rows)'
<1> SUFFICES ASSUME NEW id \in rows
             PROVE  id < nextRow' /\ \A x \in userRoles' : x.id = id => x.user = u
  BY DEF RowsOf
<1>1. nextRow \in Nat /\ id \in Nat /\ id < nextRow
  BY DEF TablesOK, RowsOf
<1>2. \A x \in userRoles : x.id = id => x.user = u
  BY DEF RowsOf
<1>3. \A x \in userRoles' \ userRoles : x.id # id
  BY <1>1
<1> QED
  BY <1>1, <1>2, <1>3

\* What a step of r has to guarantee for the ids.
LEMMA MoveIds ==
    ASSUME RequestsOK, TablesOK, IdsOK, RemovalsOK, nextRow' \in Nat,
           NEW r \in Requests, NEW p, NEW l,
           pc' = [pc EXCEPT ![r] = p],
           local' = [local EXCEPT ![r] = l],
           \/ userRoles' \subseteq userRoles /\ nextRow <= nextRow'
           \/ /\ nextRow' = nextRow + 1
              /\ \E x : x.id = nextRow /\ userRoles' = userRoles \cup {x},
           p = "deleteAssignment" => RowsOf(l.user, l.rows)'
    PROVE  IdsOK' /\ RemovalsOK'
<1>1. nextRow \in Nat /\ \A x \in userRoles : x.id \in Nat
  BY DEF TablesOK, UserRoleRow
<1>2. IdsOK'
  BY <1>1 DEF IdsOK
<1>3. nextRow <= nextRow' /\ \A x \in userRoles' \ userRoles : x.id = nextRow
  BY <1>1
<1>4. ASSUME NEW q \in Requests, (pc[q] = "deleteAssignment")'
      PROVE  RowsOf(local[q].user, local[q].rows)'
  <2>1. CASE q = r
    BY <1>4, <2>1 DEF RequestsOK
  <2>2. CASE q # r
    <3>1. pc'[q] = pc[q] /\ local'[q] = local[q]
      BY <2>2 DEF RequestsOK
    <3>2. PICK u, rows : u = local[q].user /\ rows = local[q].rows
      OBVIOUS
    <3>3. RowsOf(u, rows)
      BY <1>4, <3>1, <3>2 DEF RemovalsOK
    <3>4. rows \in SUBSET Nat
      BY <3>2 DEF RequestsOK, Local
    <3>5. RowsOf(u, rows)'
      BY <1>3, <3>3, <3>4, RowsKept
    <3> QED
      BY <3>1, <3>2, <3>5
  <2> QED
    BY <2>1, <2>2
<1> QED
  BY <1>2, <1>4 DEF RemovalsOK

\* The ids are in order at the start.
LEMMA InitIds == Init => IdsOK /\ RemovalsOK
<1> SUFFICES ASSUME Init PROVE IdsOK /\ RemovalsOK
  OBVIOUS
<1>1. Cardinality(SeedUserRoles) \in Nat /\ Cardinality(SeedPermissions) \in Nat
  BY RbacAssumption, FS_CardinalityType
<1>2. \A x \in SeedUserRoles :
         /\ x.id \in Nat
         /\ x.id <= Cardinality(SeedUserRoles) + Cardinality(SeedPermissions)
  BY RbacAssumption DEF UserRoleRow
<1>3. IdsOK
  BY <1>1, <1>2, RbacAssumption DEF Init, IdsOK
<1> QED
  BY <1>3 DEF Init, RemovalsOK

-----------------------------------------------------------------------------
\* Every entry, expired or not, of a user who is not excused and about whom no
\* change is pending holds what the tables say.
CachedCoherent ==
    \A u \in DOMAIN cache \ excused :
        ~Pending(u) => cache[u].value = Effective(u)

CoherentOK == LoadsCoherent /\ CachedCoherent

\* A step that leaves u's assignments, roles and permissions as they are.
SameTables(u) ==
    /\ Assigned(u)' = Assigned(u)
    /\ Active(u)' = Active(u)
    /\ Effective(u)' = Effective(u)

\* A step that leaves everything that concerns u to the later clearCache calls.
KeptFor(u, r) ==
    /\ SameTables(u)
    /\ ~(Unannounced(r) /\ u \in Affected(r))

\* A step after which no load of u but r's may store unnoticed.
CutFor(u, r) == \A q \in Loading({u}) \ {r} : q \in overtaken'

\* A change about u stays pending while its request does not move.
LEMMA PendingKept ==
    ASSUME RequestsOK, NEW r \in Requests, NEW p, NEW l, NEW u,
           pc' = [pc EXCEPT ![r] = p],
           local' = [local EXCEPT ![r] = l],
           ~(Unannounced(r) /\ u \in Affected(r)),
           Pending(u)
    PROVE  Pending(u)'
<1>1. PICK q \in Requests : Unannounced(q) /\ u \in Affected(q)
  BY DEF Pending
<1>2. q # r
  BY <1>1
<1>3. pc'[q] = pc[q] /\ local'[q] = local[q]
  BY <1>2 DEF RequestsOK
<1>4. Unannounced(q)' /\ (u \in Affected(q))'
  BY <1>1, <1>3 DEF Unannounced, Affected
<1> QED
  BY <1>4 DEF Pending

\* Only the three places of a load after its first read are constrained.
LEMMA UpToDateElsewhere ==
    ASSUME NEW p, NEW l, p \notin {"readRoles", "readPermissions", "storePermissions"}
    PROVE  UpToDate(p, l)' /\ UpToDate(p, l)
  BY DEF UpToDate

\* What a step of r has to guarantee to keep loads and entries coherent.
LEMMA MoveCoherent ==
    ASSUME RequestsOK, RequestsOK', CoherentOK, DOMAIN cache' \subseteq Users,
           NEW r \in Requests, NEW p, NEW l,
           pc' = [pc EXCEPT ![r] = p],
           local' = [local EXCEPT ![r] = l],
           overtaken \ {r} \subseteq overtaken',
           r \notin overtaken' /\ ~Pending(l.user)' => UpToDate(p, l)',
           \A u \in Users : ~Pending(u)' => KeptFor(u, r) \/ CutFor(u, r),
           \A u \in DOMAIN cache' \ excused' : ~Pending(u)' =>
              \/ cache'[u].value = Effective(u)'
              \/ /\ KeptFor(u, r)
                 /\ u \in DOMAIN cache \ excused
                 /\ cache'[u].value = cache[u].value
    PROVE  CoherentOK'
<1>1. ASSUME NEW q \in Requests \ overtaken', ~Pending(local[q].user)'
      PROVE  UpToDate(pc[q], local[q])'
  <2>1. CASE q = r
    BY <1>1, <2>1 DEF RequestsOK
  <2>2. CASE q # r
    <3>1. pc'[q] = pc[q] /\ local'[q] = local[q]
      BY <2>2 DEF RequestsOK
    <3>2. CASE pc[q] \notin {"readRoles", "readPermissions", "storePermissions"}
      BY <3>1, <3>2 DEF UpToDate
    <3>3. CASE pc[q] \in {"readRoles", "readPermissions", "storePermissions"}
      <4>1. PICK u \in Users : u = local[q].user
        BY <3>3 DEF RequestsOK, ArgumentsSet, OnUser
      <4>2. q \in Loading({u}) \ {r}
        BY <2>2, <3>3, <4>1 DEF Loading
      <4>3. ~Pending(u)'
        BY <1>1, <3>1, <4>1
      <4>4. KeptFor(u, r)
        BY <1>1, <4>1, <4>2, <4>3 DEF CutFor
      <4>5. ~Pending(u)
        BY <4>3, <4>4, PendingKept DEF KeptFor
      <4>6. q \notin overtaken
        BY <1>1, <2>2
      <4>7. UpToDate(pc[q], local[q])
        BY <4>1, <4>5, <4>6 DEF CoherentOK, LoadsCoherent
      <4> QED
        BY <3>1, <4>1, <4>4, <4>7 DEF KeptFor, SameTables, UpToDate
    <3> QED
      BY <3>2, <3>3
  <2> QED
    BY <2>1, <2>2
<1>2. LoadsCoherent'
  BY <1>1 DEF LoadsCoherent
<1>3. CachedCoherent'
  <2> SUFFICES ASSUME NEW u \in DOMAIN cache' \ excused', ~Pending(u)'
               PROVE  cache'[u].value = Effective(u)'
    BY DEF CachedCoherent
  <2>1. CASE /\ KeptFor(u, r)
             /\ u \in DOMAIN cache \ excused
             /\ cache'[u].value = cache[u].value
    <3>1. ~Pending(u)
      BY <2>1, PendingKept DEF KeptFor
    <3>2. cache[u].value = Effective(u)
      BY <2>1, <3>1 DEF CoherentOK, CachedCoherent
    <3> QED
      BY <2>1, <3>2 DEF KeptFor, SameTables
  <2> QED
    BY <2>1
<1> QED
  BY <1>2, <1>3 DEF CoherentOK

\* Whoever's tables: they are the same if no table changes.
LEMMA TablesKept ==
    ASSUME UNCHANGED tables
    PROVE  \A u : SameTables(u)
<1>1. /\ RoleIds' = RoleIds
      /\ \A u : Assigned(u)' = Assigned(u)
      /\ \A R : Granted(R)' = Granted(R)
  BY DEF tables, RoleIds, Assigned, Granted
<1>2. \A u : Active(u)' = Active(u)
  BY <1>1 DEF Active
<1>3. \A u : Effective(u)' = Effective(u)
  BY <1>2 DEF tables, Effective, Granted
<1> QED
  BY <1>1, <1>2, <1>3 DEF SameTables

\* A step that changes neither tables nor cache, and ends no change, keeps
\* coherence if what r goes on with is up to date.
LEMMA QuietCoherent ==
    ASSUME RequestsOK, RequestsOK', CoherentOK, CacheOK,
           NEW r \in Requests, NEW p, NEW l,
           pc' = [pc EXCEPT ![r] = p],
           local' = [local EXCEPT ![r] = l],
           UNCHANGED <<tables, cache, excused>>,
           ~Unannounced(r),
           overtaken \ {r} \subseteq overtaken',
           r \notin overtaken' /\ ~Pending(l.user)' => UpToDate(p, l)'
    PROVE  CoherentOK'
<1>1. \A u : KeptFor(u, r)
  BY TablesKept DEF KeptFor
<1>2. \A u : KeptFor(u, r) \/ CutFor(u, r)
  BY <1>1
<1>3. cache' = cache /\ excused' = excused /\ DOMAIN cache' \subseteq Users
  BY DEF CacheOK
<1> QED
  BY <1>1, <1>2, <1>3, MoveCoherent

\* The end of a request keeps coherence: had it changed a table without
\* reaching clearCache, the users' entries are excused and their loads overtaken.
LEMMA FinishCoherent ==
    ASSUME RequestsOK, RequestsOK', CoherentOK, CacheOK, NEW r \in Requests,
           Finish(r), UNCHANGED <<tables, cache>>
    PROVE  CoherentOK'
<1>1. pc' = [pc EXCEPT ![r] = "idle"] /\ local' = [local EXCEPT ![r] = Blank]
  BY DEF Finish, Goto
<1>2. UpToDate("idle", Blank)'
  BY DEF UpToDate
<1>3. CASE ~Unannounced(r)
  <2>1. overtaken' = overtaken \ {r} /\ UNCHANGED <<tables, cache, excused>>
    BY <1>3 DEF Finish
  <2> HIDE DEF Finish
  <2> QED
    BY <1>1, <1>2, <1>3, <2>1, QuietCoherent
<1>4. CASE Unannounced(r)
  <2>1. /\ overtaken' = overtaken \cup Loading(Affected(r))
        /\ excused' = excused \cup (DOMAIN cache \cap Affected(r))
        /\ cache' = cache /\ DOMAIN cache' \subseteq Users
    BY <1>4 DEF Finish, CacheOK
  <2>2. ASSUME NEW u
        PROVE  KeptFor(u, r) \/ CutFor(u, r)
    <3>1. CASE u \in Affected(r)
      BY <2>1, <3>1 DEF CutFor, Loading
    <3>2. CASE u \notin Affected(r)
      BY <3>2, TablesKept DEF KeptFor
    <3> QED
      BY <3>1, <3>2
  <2>3. ASSUME NEW u \in DOMAIN cache' \ excused'
        PROVE  /\ KeptFor(u, r) /\ u \in DOMAIN cache \ excused
               /\ cache'[u].value = cache[u].value
    <3>1. u \notin Affected(r) /\ u \in DOMAIN cache \ excused
      BY <2>1, <2>3
    <3>2. SameTables(u)
      BY TablesKept
    <3> QED
      BY <2>1, <3>1, <3>2 DEF KeptFor
  <2> QED
    BY <1>1, <1>2, <2>1, <2>2, <2>3, MoveCoherent
<1> QED
  BY <1>3, <1>4

\* A change of the tables that concerns no user but those for whom a change is
\* pending afterwards.
LEMMA ChangeCoherent ==
    ASSUME RequestsOK, RequestsOK', CoherentOK, CacheOK,
           NEW r \in Requests, NEW p \in {"clearAll", "clearUser", "deleteNext"}, NEW l,
           pc' = [pc EXCEPT ![r] = p],
           local' = [local EXCEPT ![r] = l],
           UNCHANGED <<cache, overtaken, excused>>,
           \A u \in Users : (p = "clearUser" /\ u # l.user) => KeptFor(u, r)
    PROVE  CoherentOK'
<1>1. \A u \in Users : ~Pending(u)' => KeptFor(u, r)
  <2> SUFFICES ASSUME NEW u \in Users, ~Pending(u)'
               PROVE  p = "clearUser" /\ u # l.user
    OBVIOUS
  <2>1. pc'[r] = p /\ local'[r] = l
    BY DEF RequestsOK
  <2>2. Unannounced(r)'
    BY <2>1 DEF Unannounced
  <2>3. (u \notin Affected(r))'
    BY <2>2 DEF Pending
  <2> QED
    BY <2>1, <2>3 DEF Affected
<1>2. UpToDate(p, l)'
  BY DEF UpToDate
<1>3. cache' = cache /\ excused' = excused /\ DOMAIN cache' \subseteq Users
  BY DEF CacheOK
<1>4. \A u \in DOMAIN cache' \ excused' : ~Pending(u)' =>
         KeptFor(u, r) /\ u \in DOMAIN cache \ excused /\ cache'[u].value = cache[u].value
  BY <1>1, <1>3
<1> QED
  BY <1>1, <1>2, <1>3, <1>4, MoveCoherent

\* The load: every read keeps it up to date, and the store makes the entry.
LEMMA LoadCoherent ==
    ASSUME RequestsOK, RequestsOK', CoherentOK, CacheOK, WellFormed(cache),
           NEW r \in Requests,
           \/ ReadUserRoles(r)
           \/ ReadRoles(r)
           \/ ReadPermissions(r)
           \/ StorePermissions(r)
    PROVE  CoherentOK'
<1>1. PICK loc \in Local : loc = local[r] /\ ArgumentsSet(pc[r], loc)
  BY DEF RequestsOK
<1>2. r \notin overtaken /\ ~Pending(loc.user) => UpToDate(pc[r], loc)
  BY <1>1 DEF CoherentOK, LoadsCoherent
<1>3. ASSUME UNCHANGED <<tables, cache, excused>>, ~Unannounced(r),
             overtaken' = overtaken, NEW p, NEW l,
             pc' = [pc EXCEPT ![r] = p], local' = [local EXCEPT ![r] = l],
             l.user = loc.user,
             r \notin overtaken /\ ~Pending(loc.user) => UpToDate(p, l)'
      PROVE  CoherentOK'
  <2>1. ~Pending(loc.user)' => ~Pending(loc.user)
    BY <1>3, PendingKept
  <2> QED
    BY <1>3, <2>1, QuietCoherent
<1>4. UNCHANGED tables => \A u : SameTables(u)
  BY TablesKept
<1>5. CASE ReadUserRoles(r)
  <2>1. CASE Finish(r)
    BY <1>5, <2>1, FinishCoherent DEF ReadUserRoles
  <2>2. CASE ~Finish(r)
    <3>1. PICK l : l = [loc EXCEPT !.roleIds = Assigned(loc.user)]
      OBVIOUS
    <3>2. /\ local' = [local EXCEPT ![r] = l]
          /\ pc' = [pc EXCEPT ![r] = "readRoles"]
          /\ UNCHANGED <<tables, cache, excused, overtaken>>
          /\ ~Unannounced(r)
      BY <1>1, <1>5, <2>2, <3>1 DEF ReadUserRoles, Goto, Unannounced, RequestsOK
    <3>3. l.user = loc.user /\ l.roleIds = Assigned(l.user)
      BY <3>1 DEF Local
    <3>4. UpToDate("readRoles", l)'
      BY <1>4, <3>2, <3>3 DEF UpToDate, SameTables
    <3> QED
      BY <1>3, <3>2, <3>3, <3>4
  <2> QED
    BY <2>1, <2>2
<1>6. CASE ReadRoles(r)
  <2>1. CASE Finish(r)
    BY <1>6, <2>1, FinishCoherent DEF ReadRoles
  <2>2. CASE ~Finish(r)
    <3>1. PICK l : l = [loc EXCEPT !.roleIds = ActiveRoleIds(r)]
      OBVIOUS
    <3>2. /\ local' = [local EXCEPT ![r] = l]
          /\ pc[r] = "readRoles"
          /\ pc' = [pc EXCEPT ![r] = "readPermissions"]
          /\ UNCHANGED <<tables, cache, excused, overtaken>>
          /\ ~Unannounced(r)
      BY <1>1, <1>6, <2>2, <3>1 DEF ReadRoles, Goto, Unannounced, RequestsOK
    <3>3. l.user = loc.user /\ l.roleIds = loc.roleIds \cap RoleIds
      BY <1>1, <3>1 DEF Local, ActiveRoleIds
    <3>4. UpToDate("readRoles", loc) => UpToDate("readPermissions", l)'
      BY <1>4, <3>2, <3>3 DEF UpToDate, SameTables, Active
    <3> QED
      BY <1>2, <1>3, <3>2, <3>3, <3>4
  <2> QED
    BY <2>1, <2>2
<1>7. CASE ReadPermissions(r)
  <2>1. PICK l : l = [loc EXCEPT !.value = Granted(loc.roleIds)]
    OBVIOUS
  <2>2. /\ local' = [local EXCEPT ![r] = l]
        /\ pc[r] = "readPermissions"
        /\ pc' = [pc EXCEPT ![r] = "storePermissions"]
        /\ UNCHANGED <<tables, cache, excused, overtaken>>
        /\ ~Unannounced(r)
    BY <1>1, <1>7, <2>1 DEF ReadPermissions, Goto, Unannounced, RequestsOK
  <2>3. l.user = loc.user /\ l.value = Granted(loc.roleIds)
    BY <1>1, <2>1 DEF Local
  <2>4. UpToDate("readPermissions", loc) => UpToDate("storePermissions", l)'
    BY <1>4, <2>2, <2>3 DEF UpToDate, SameTables, Effective
  <2> QED
    BY <1>2, <1>3, <2>2, <2>3, <2>4
<1>8. CASE StorePermissions(r)
  <2>1. PICK u \in Users : u = loc.user
    BY <1>1, <1>8 DEF StorePermissions, ArgumentsSet, OnUser
  <2>2. PICK value \in SUBSET Grants : value = loc.value
    BY <1>1 DEF Local
  <2>3. cache' = CachePermissions(cache, u, value)
    BY <1>1, <1>8, <2>1, <2>2 DEF StorePermissions
  <2>4. /\ DOMAIN cache' \subseteq Users
        /\ DOMAIN cache' \subseteq DOMAIN cache \cup {u}
        /\ u \in DOMAIN cache' /\ cache'[u].value = value
        /\ \A v \in DOMAIN cache' \ {u} : cache'[v].value = cache[v].value
    BY <2>3, CachePermissionsWellFormed DEF WellFormed
  <2>5. /\ pc[r] = "storePermissions" /\ ~Unannounced(r)
        /\ pc' = [pc EXCEPT ![r] = "idle"]
        /\ local' = [local EXCEPT ![r] = Blank]
        /\ overtaken' = overtaken \ {r}
        /\ excused' = (IF r \in overtaken THEN excused \cup {u} ELSE excused \ {u})
                      \cap DOMAIN cache'
        /\ UNCHANGED tables
    BY <1>1, <1>8, <2>1 DEF StorePermissions, Goto, Unannounced
  <2>6. \A v : KeptFor(v, r)
    BY <1>4, <2>5 DEF KeptFor
  <2>7. ASSUME NEW v \in DOMAIN cache' \ excused', ~Pending(v)'
        PROVE  \/ cache'[v].value = Effective(v)'
               \/ /\ KeptFor(v, r)
                  /\ v \in DOMAIN cache \ excused
                  /\ cache'[v].value = cache[v].value
    <3>1. CASE v = u
      <4>1. r \notin overtaken
        BY <2>4, <2>5, <2>7, <3>1
      <4>2. ~Pending(u)
        BY <2>5, <2>6, <2>7, <3>1, PendingKept DEF KeptFor
      <4>3. value = Effective(u)
        BY <1>2, <2>1, <2>2, <2>5, <4>1, <4>2 DEF UpToDate
      <4> QED
        BY <1>4, <2>4, <2>5, <3>1, <4>3 DEF SameTables
    <3>2. CASE v # u
      BY <2>4, <2>5, <2>6, <2>7, <3>2
    <3> QED
      BY <3>1, <3>2
  <2>8. UpToDate("idle", Blank)'
    BY DEF UpToDate
  <2> QED
    BY <2>4, <2>5, <2>6, <2>7, <2>8, MoveCoherent
<1> QED
  BY <1>5, <1>6, <1>7, <1>8

\* clearCache drops the entries it is about and overtakes the loads in flight.
LEMMA ClearCoherent ==
    ASSUME RequestsOK, RequestsOK', CoherentOK, CacheOK, WellFormed(cache),
           NEW r \in Requests, ClearAllEntries(r) \/ ClearUserEntry(r)
    PROVE  CoherentOK'
<1>1. PICK loc \in Local : loc = local[r] /\ ArgumentsSet(pc[r], loc)
  BY DEF RequestsOK
<1>2. \A u : SameTables(u)
  <2>1. UNCHANGED tables
    BY DEF ClearAllEntries, ClearUserEntry
  <2> QED
    BY <2>1, TablesKept
<1>3. CASE ClearAllEntries(r)
  <2>1. PICK p \in {"idle", "findPermission"}, l \in {Blank, loc} :
          pc' = [pc EXCEPT ![r] = p] /\ local' = [local EXCEPT ![r] = l]
    BY <1>1, <1>3 DEF ClearAllEntries, Goto, RequestsOK
  <2>2. UpToDate(p, l)'
    BY <2>1 DEF UpToDate
  <2>3. overtaken \ {r} \subseteq overtaken' /\ \A u \in Users : CutFor(u, r)
    BY <1>3 DEF ClearAllEntries, CutFor, Loading
  <2>4. DOMAIN cache' = {}
    BY <1>3 DEF ClearAllEntries, ClearAll, Without
  <2> QED
    BY <2>1, <2>2, <2>3, <2>4, MoveCoherent
<1>4. CASE ClearUserEntry(r)
  <2>0. PICK u \in Users : u = loc.user
    BY <1>1, <1>4 DEF ClearUserEntry, ArgumentsSet, OnUser
  <2>1. PICK p \in {"idle", "findAssignment"}, l \in {Blank, loc} :
          pc' = [pc EXCEPT ![r] = p] /\ local' = [local EXCEPT ![r] = l]
    BY <1>1, <1>4 DEF ClearUserEntry, Goto, RequestsOK
  <2>2. UpToDate(p, l)'
    BY <2>1 DEF UpToDate
  <2>3. overtaken \ {r} \subseteq overtaken' /\ CutFor(u, r)
    BY <1>1, <1>4, <2>0 DEF ClearUserEntry, CutFor, Loading
  <2>4. \A v \in Users \ {u} : KeptFor(v, r)
    BY <1>1, <1>2, <1>4, <2>0 DEF ClearUserEntry, KeptFor, Affected
  <2>5. cache' = Without(cache, {u}) /\ excused' = excused \ {u}
    BY <1>1, <1>4, <2>0 DEF ClearUserEntry, ClearUser
  <2>6. /\ DOMAIN cache' = DOMAIN cache \ {u}
        /\ \A v \in DOMAIN cache \ {u} : cache'[v].value = cache[v].value
    <3>1. PICK S : S = {u}
      OBVIOUS
    <3>2. /\ DOMAIN Without(cache, S) = DOMAIN cache \ S
          /\ \A v \in DOMAIN cache \ S :
                /\ Without(cache, S)[v].value = cache[v].value
                /\ Without(cache, S)[v].ttl = cache[v].ttl
      BY WithoutWellFormed
    <3> QED
      BY <2>5, <3>1, <3>2
  <2>7. DOMAIN cache' \subseteq Users
    BY <2>6 DEF WellFormed
  <2>8. \A v \in DOMAIN cache' \ excused' :
           /\ KeptFor(v, r) /\ v \in DOMAIN cache \ excused
           /\ cache'[v].value = cache[v].value
    BY <2>4, <2>5, <2>6, <2>7
  <2> QED
    BY <2>1, <2>2, <2>3, <2>4, <2>7, <2>8, MoveCoherent
<1> QED
  BY <1>3, <1>4

\* createRole does not clear the cache: a user for whom this matters, having
\* been assigned the id before, is excused.
LEMMA CreateRoleCoherent ==
    ASSUME RequestsOK, RequestsOK', CoherentOK, CacheOK, NEW r \in Requests,
           CreateRole(r)
    PROVE  CoherentOK'
<1> DEFINE holders == {u \in Users : nextRole \in Assigned(u)}
<1>1. CASE Finish(r) /\ UNCHANGED <<roles, nextRole>>
  BY <1>1, FinishCoherent DEF CreateRole, tables
<1>2. CASE ~(Finish(r) /\ UNCHANGED <<roles, nextRole>>)
  <2>1. /\ pc[r] = "createRole"
        /\ roles' = roles \cup {[id |-> nextRole, name |-> local[r].data.name,
                                 system |-> local[r].data.system]}
        /\ excused' = excused \cup (holders \cap DOMAIN cache)
        /\ overtaken' = overtaken \cup Loading(holders)
        /\ pc' = [pc EXCEPT ![r] = "idle"]
        /\ local' = [local EXCEPT ![r] = Blank]
        /\ UNCHANGED <<userRoles, tablePermissions, cache>>
    BY <1>2 DEF CreateRole, Goto
  <2>2. /\ RoleIds' = RoleIds \cup {nextRole}
        /\ \A u : Assigned(u)' = Assigned(u)
        /\ \A R : Granted(R)' = Granted(R)
    <3>1. RoleIds' = RoleIds \cup {nextRole}
      <4>1. PICK row : row.id = nextRole /\ roles' = roles \cup {row}
        BY <2>1
      <4> QED
        BY <4>1 DEF RoleIds
    <3>2. \A u : Assigned(u)' = Assigned(u)
      BY <2>1 DEF Assigned
    <3>3. \A R : Granted(R)' = Granted(R)
      BY <2>1 DEF Granted
    <3> QED
      BY <3>1, <3>2, <3>3
  <2> HIDE DEF holders
  <2>3. ASSUME NEW u \in Users \ holders
        PROVE  KeptFor(u, r)
    <3>1. nextRole \notin Assigned(u)
      BY <2>3 DEF holders
    <3>2. Active(u)' = Active(u)
      BY <2>2, <3>1 DEF Active
    <3>3. Effective(u)' = Effective(u)
      <4>1. PICK A : A = Active(u)
        OBVIOUS
      <4>2. Granted(A)' = Granted(A)
        BY <2>2
      <4> QED
        BY <3>2, <4>1, <4>2 DEF Effective
    <3> QED
      BY <2>1, <2>2, <3>2, <3>3 DEF KeptFor, SameTables, Unannounced
  <2>4. ASSUME NEW u \in holders
        PROVE  CutFor(u, r)
    BY <2>1, <2>4 DEF CutFor, Loading
  <2>5. \A u \in DOMAIN cache' \ excused' :
           /\ KeptFor(u, r) /\ u \in DOMAIN cache \ excused
           /\ cache'[u].value = cache[u].value
    BY <2>1, <2>3 DEF CacheOK
  <2>6. UpToDate("idle", Blank)'
    BY DEF UpToDate
  <2>7. DOMAIN cache' \subseteq Users
    BY <2>1 DEF CacheOK
  <2> QED
    BY <2>1, <2>3, <2>4, <2>5, <2>6, <2>7, MoveCoherent
<1> QED
  BY <1>1, <1>2

\* Every other change of the tables leaves its clearCache pending, for the
\* users it concerns.
LEMMA TableChangeCoherent ==
    ASSUME RequestsOK, RequestsOK', CoherentOK, CacheOK, RemovalsOK,
           NEW r \in Requests,
           \/ DeleteRole(r)
           \/ CreateAssignment(r)
           \/ DeleteAssignment(r)
           \/ WritePermission(r)
           \/ DeletePermission(r)
    PROVE  CoherentOK'
<1>1. PICK loc \in Local : loc = local[r] /\ ArgumentsSet(pc[r], loc)
  BY DEF RequestsOK
<1>2. CASE Finish(r) /\ UNCHANGED <<tables, cache>>
  BY <1>2, FinishCoherent
<1>3. CASE DeleteRole(r) /\ ~(Finish(r) /\ UNCHANGED <<tables, cache>>)
  <2>1. /\ pc' = [pc EXCEPT ![r] = "clearAll"] /\ local' = [local EXCEPT ![r] = loc]
        /\ UNCHANGED <<cache, overtaken, excused>>
    BY <1>1, <1>3 DEF DeleteRole, Goto, RequestsOK, tables
  <2> QED
    BY <2>1, ChangeCoherent
<1>4. CASE WritePermission(r) /\ ~(Finish(r) /\ UNCHANGED <<tables, cache>>)
  <2>1. /\ pc' = [pc EXCEPT ![r] = "clearAll"] /\ local' = [local EXCEPT ![r] = loc]
        /\ UNCHANGED <<cache, overtaken, excused>>
    BY <1>1, <1>4 DEF WritePermission, Goto, RequestsOK, tables
  <2> QED
    BY <2>1, ChangeCoherent
<1>5. CASE DeletePermission(r) /\ ~(Finish(r) /\ UNCHANGED <<tables, cache>>)
  <2>1. PICK p \in {"clearAll", "deleteNext"}, id \in loc.rows :
           /\ pc' = [pc EXCEPT ![r] = p]
           /\ local' = [local EXCEPT ![r] = [loc EXCEPT !.rows = loc.rows \ {id}]]
           /\ UNCHANGED <<cache, overtaken, excused>>
    BY <1>1, <1>5 DEF DeletePermission, Goto, RequestsOK, tables
  <2>2. PICK l : l = [loc EXCEPT !.rows = loc.rows \ {id}]
    OBVIOUS
  <2> QED
    BY <2>1, <2>2, ChangeCoherent
<1>6. ASSUME CreateAssignment(r) \/ DeleteAssignment(r),
             ~(Finish(r) /\ UNCHANGED <<tables, cache>>)
      PROVE  CoherentOK'
  <2>1. /\ pc' = [pc EXCEPT ![r] = "clearUser"] /\ local' = [local EXCEPT ![r] = loc]
        /\ UNCHANGED <<roles, tablePermissions, cache, overtaken, excused>>
        /\ ~Unannounced(r)
    BY <1>1, <1>6
    DEF CreateAssignment, DeleteAssignment, Goto, RequestsOK, tables, Unannounced
  <2>2. ASSUME NEW u \in Users, u # loc.user
        PROVE  KeptFor(u, r)
    <3>1. {y \in userRoles : y.user = u}' = {y \in userRoles : y.user = u}
      <4>1. CASE CreateAssignment(r)
        BY <1>1, <2>2, <4>1 DEF CreateAssignment
      <4>2. CASE DeleteAssignment(r)
        <5>1. RowsOf(loc.user, loc.rows)
          BY <1>1, <4>2 DEF DeleteAssignment, RemovalsOK
        <5>2. userRoles' \subseteq userRoles
          BY <4>2 DEF DeleteAssignment
        <5>3. \A x \in userRoles \ userRoles' : x.user = loc.user
          BY <1>1, <4>2, <5>1 DEF DeleteAssignment, RowsOf
        <5> QED
          BY <2>2, <5>2, <5>3
      <4> QED
        BY <1>6, <4>1, <4>2
    <3>2. Assigned(u)' = Assigned(u)
      BY <3>1 DEF Assigned
    <3>3. Active(u)' = Active(u)
      BY <2>1, <3>2 DEF Active, RoleIds
    <3>4. Effective(u)' = Effective(u)
      BY <2>1, <3>3 DEF Effective, Granted
    <3> QED
      BY <2>1, <3>2, <3>3, <3>4 DEF KeptFor, SameTables
  <2> QED
    BY <2>1, <2>2, ChangeCoherent
<1> QED
  BY <1>2, <1>3, <1>4, <1>5, <1>6

-----------------------------------------------------------------------------
\* The call of an operation keeps ids and coherence.
LEMMA CallCoherent ==
    ASSUME RequestsOK, RequestsOK', TablesOK, CacheOK, CoherentOK, IdsOK, RemovalsOK,
           NEW r \in Requests, Call(r)
    PROVE  CoherentOK' /\ IdsOK' /\ RemovalsOK'
<1> DEFINE Begun == PC \ {"deleteAssignment", "readRoles", "readPermissions",
                          "storePermissions"}
<1>1. PICK p, l :
        /\ p \in Begun
        /\ pc' = [pc EXCEPT ![r] = p] /\ local' = [local EXCEPT ![r] = l]
        /\ UNCHANGED <<tables, cache, overtaken, excused>>
        /\ ~Unannounced(r)
  <2>1. /\ \E p \in Begun : pc' = [pc EXCEPT ![r] = p]
        /\ UNCHANGED <<tables, cache, overtaken, excused>>
        /\ ~Unannounced(r)
    BY DEF Call, StartLoad, StartCreateRole, StartDeleteRole,
       StartDeletePermissions, StartRemoveRole, StartSetPermissions,
       StartCopyPermissions, StartAssignRoles, Start, PC, OnUser, OnRole, Unannounced
  <2>2. \E l : local' = [local EXCEPT ![r] = l]
    BY DEF Call, StartLoad, StartCreateRole, StartDeleteRole,
       StartDeletePermissions, StartRemoveRole, StartSetPermissions,
       StartCopyPermissions, StartAssignRoles, Start
  <2> QED
    BY <2>1, <2>2
<1>2. UpToDate(p, l)'
  BY <1>1 DEF UpToDate
<1>3. CoherentOK'
  BY <1>1, <1>2, QuietCoherent
<1>4. nextRow' \in Nat /\ userRoles' \subseteq userRoles /\ nextRow <= nextRow'
  BY <1>1 DEF tables, TablesOK
<1> QED
  BY <1>1, <1>3, <1>4, MoveIds

\* The answer of a NocoDB call keeps the ids.
LEMMA StepIds ==
    ASSUME RequestsOK, TablesOK, TablesOK', IdsOK, RemovalsOK,
           NEW r \in Requests, Step(r)
    PROVE  IdsOK' /\ RemovalsOK'
<1>1. nextRow \in Nat /\ nextRow' \in Nat
  BY DEF TablesOK
<1>2. CASE FindRemoval(r) /\ ~Finish(r)
  <2>1. PICK x \in userRoles :
          /\ x.user = local[r].user
          /\ local' = [local EXCEPT ![r].rows = {x.id}]
          /\ pc' = [pc EXCEPT ![r] = "deleteAssignment"]
          /\ UNCHANGED tables
    BY <1>2 DEF FindRemoval, AssignmentRows, Goto
  <2>2. PICK l : l = [local[r] EXCEPT !.rows = {x.id}]
    OBVIOUS
  <2>3. local' = [local EXCEPT ![r] = l] /\ l.user = x.user /\ l.rows = {x.id}
    BY <2>1, <2>2 DEF RequestsOK, Local
  <2>4. userRoles' = userRoles /\ nextRow' = nextRow
    BY <2>1 DEF tables
  <2>5. RowsOf(l.user, l.rows)'
    BY <2>3, <2>4 DEF IdsOK, RowsOf
  <2>6. userRoles' \subseteq userRoles /\ nextRow <= nextRow'
    BY <1>1, <2>4
  <2> QED
    BY <1>1, <2>1, <2>3, <2>5, <2>6, MoveIds
<1>3. CASE ~(FindRemoval(r) /\ ~Finish(r))
  <2>1. PICK p, l :
          /\ p \in PC \ {"deleteAssignment"}
          /\ pc' = [pc EXCEPT ![r] = p] /\ local' = [local EXCEPT ![r] = l]
    <3>1. \E p \in PC \ {"deleteAssignment"} : pc' = [pc EXCEPT ![r] = p]
      <4>1. CASE Finish(r)
        BY <4>1 DEF Finish, Goto, PC
      <4>2. CASE pc' = pc
        <5>1. pc[r] # "deleteAssignment"
          BY <1>3, <4>2 DEF Step, ReadUserRoles, ReadRoles, ReadPermissions, StorePermissions,
             ClearAllEntries, ClearUserEntry, FindRole, CreateRole, DeleteRole,
             FindAssignment, CreateAssignment, FindRemoval, DeleteAssignment,
             FindPermission, WritePermission, ListSource, ListPermissions,
             DeletePermission, Goto, RequestsOK, Removing, Finish
        <5> QED
          BY <4>2, <5>1 DEF RequestsOK
      <4>3. CASE ~Finish(r) /\ pc' # pc
        BY <1>3, <4>3
        DEF Step, ReadUserRoles, ReadRoles, ReadPermissions, StorePermissions,
            ClearAllEntries, ClearUserEntry, FindRole, CreateRole, DeleteRole,
            FindAssignment, CreateAssignment, FindRemoval, DeleteAssignment,
            FindPermission, WritePermission, ListSource, ListPermissions,
            DeletePermission, Goto, PC, OnUser, OnRole, Removing
      <4> QED
        BY <4>1, <4>2, <4>3
    <3>2. \E l : local' = [local EXCEPT ![r] = l]
      <4>1. CASE local' = local
        BY <4>1 DEF RequestsOK
      <4>2. CASE local' # local
        BY <4>2
        DEF Step, ReadUserRoles, ReadRoles, ReadPermissions, StorePermissions,
            ClearAllEntries, ClearUserEntry, FindRole, CreateRole, DeleteRole,
            FindAssignment, CreateAssignment, FindRemoval, DeleteAssignment,
            FindPermission, WritePermission, ListSource, ListPermissions,
            DeletePermission, Finish
      <4> QED
        BY <4>1, <4>2
    <3> QED
      BY <3>1, <3>2
  <2>2. CASE CreateAssignment(r) /\ userRoles' # userRoles
    <3>1. nextRow' = nextRow + 1 /\ \E x : x.id = nextRow /\ userRoles' = userRoles \cup {x}
      BY <2>2 DEF CreateAssignment
    <3> QED
      BY <1>1, <2>1, <3>1, MoveIds
  <2>3. CASE ~(CreateAssignment(r) /\ userRoles' # userRoles)
    <3>1. userRoles' \subseteq userRoles
      BY <2>3
      DEF Step, tables, ReadUserRoles, ReadRoles, ReadPermissions, StorePermissions,
          ClearAllEntries, ClearUserEntry, FindRole, CreateRole, DeleteRole,
          FindAssignment, CreateAssignment, FindRemoval, DeleteAssignment,
          FindPermission, WritePermission, ListSource, ListPermissions,
          DeletePermission
    <3>2. nextRow' = nextRow \/ nextRow' = nextRow + 1
      BY <2>3
      DEF Step, tables, ReadUserRoles, ReadRoles, ReadPermissions, StorePermissions,
          ClearAllEntries, ClearUserEntry, FindRole, CreateRole, DeleteRole,
          FindAssignment, CreateAssignment, FindRemoval, DeleteAssignment,
          FindPermission, WritePermission, ListSource, ListPermissions,
          DeletePermission
    <3>3. nextRow <= nextRow'
      BY <1>1, <3>2
    <3> QED
      BY <1>1, <2>1, <3>1, <3>3, MoveIds
  <2> QED
    BY <2>2, <2>3
<1> QED
  BY <1>2, <1>3

\* The answer of a NocoDB call keeps coherence.
LEMMA StepCoherent ==
    ASSUME RequestsOK, RequestsOK', TablesOK, CacheOK, WellFormed(cache),
           CoherentOK, RemovalsOK, NEW r \in Requests, Step(r)
    PROVE  CoherentOK'
<1>1. ASSUME UNCHANGED <<tables, cache, excused>>, ~Unannounced(r),
             overtaken' = overtaken, NEW p, NEW l,
             pc' = [pc EXCEPT ![r] = p], local' = [local EXCEPT ![r] = l],
             p \notin {"readRoles", "readPermissions", "storePermissions"}
      PROVE  CoherentOK'
  <2>1. UpToDate(p, l)'
    BY <1>1 DEF UpToDate
  <2> QED
    BY <1>1, <2>1, QuietCoherent
<1>2. CASE /\ \/ FindRole(r) \/ FindAssignment(r) \/ FindRemoval(r)
              \/ FindPermission(r) \/ ListSource(r) \/ ListPermissions(r)
           /\ ~Finish(r)
  <2>1. UNCHANGED <<tables, cache, excused>> /\ overtaken' = overtaken /\ ~Unannounced(r)
    BY <1>2 DEF FindRole, FindAssignment, FindRemoval, FindPermission, ListSource,
       ListPermissions, Unannounced
  <2>2. \E p : /\ p \notin {"readRoles", "readPermissions", "storePermissions"}
               /\ pc' = [pc EXCEPT ![r] = p]
    <3>1. CASE pc' = pc
      <4>1. pc[r] \notin {"readRoles", "readPermissions", "storePermissions"}
        BY <1>2 DEF FindRole, FindAssignment, FindRemoval, FindPermission,
           ListSource, ListPermissions
      <4>2. pc' = [pc EXCEPT ![r] = pc[r]]
        BY <3>1 DEF RequestsOK
      <4> QED
        BY <4>1, <4>2
    <3>2. CASE pc' # pc
      BY <1>2, <3>2 DEF FindRole, FindAssignment, FindRemoval, FindPermission,
         ListSource, ListPermissions, Goto
    <3> QED
      BY <3>1, <3>2
  <2>3. \E l : local' = [local EXCEPT ![r] = l]
    <3>1. CASE local' = local
      BY <3>1 DEF RequestsOK
    <3>2. CASE local' # local
      BY <1>2, <3>2 DEF FindRole, FindAssignment, FindRemoval, FindPermission,
         ListSource, ListPermissions
    <3> QED
      BY <3>1, <3>2
  <2> QED
    BY <1>1, <2>1, <2>2, <2>3
<1>3. CASE Finish(r) /\ UNCHANGED <<tables, cache>>
  BY <1>3, FinishCoherent
<1>4. CASE ReadUserRoles(r) \/ ReadRoles(r) \/ ReadPermissions(r) \/ StorePermissions(r)
  BY <1>4, LoadCoherent
<1>5. CASE ClearAllEntries(r) \/ ClearUserEntry(r)
  BY <1>5, ClearCoherent
<1>6. CASE CreateRole(r)
  BY <1>6, CreateRoleCoherent
<1>7. CASE \/ DeleteRole(r) \/ CreateAssignment(r) \/ DeleteAssignment(r)
           \/ WritePermission(r) \/ DeletePermission(r)
  BY <1>7, TableChangeCoherent
<1>8. \/ FindRole(r) \/ FindAssignment(r) \/ FindRemoval(r)
      \/ FindPermission(r) \/ ListSource(r) \/ ListPermissions(r)
      => UNCHANGED <<tables, cache>>
  BY DEF FindRole, FindAssignment, FindRemoval, FindPermission, ListSource,
     ListPermissions
<1> QED
  BY <1>2, <1>3, <1>4, <1>5, <1>6, <1>7, <1>8 DEF Step

-----------------------------------------------------------------------------
\* The inductive invariant: types and a well-formed cache, ids in order, and
\* loads and entries coherent.
Inv == StateOK /\ IdsOK /\ RemovalsOK /\ CoherentOK

\* The program starts with it.
LEMMA InitInv == Init => Inv
<1> SUFFICES ASSUME Init PROVE Inv
  OBVIOUS
<1>1. CoherentOK
  BY DEF Init, CoherentOK, LoadsCoherent, CachedCoherent, UpToDate
<1> QED
  BY <1>1, InitOK, InitIds DEF Inv

\* Every step keeps it.
LEMMA NextInv == Inv /\ [Next]_vars => Inv'
<1> SUFFICES ASSUME Inv, [Next]_vars PROVE Inv'
  OBVIOUS
<1>0. /\ StateOK /\ StateOK' /\ IdsOK /\ RemovalsOK /\ CoherentOK
  BY NextOK DEF Inv
<1>1. /\ RequestsOK /\ RequestsOK' /\ TablesOK /\ TablesOK' /\ CacheOK
      /\ WellFormed(cache)
  BY <1>0 DEF StateOK, TypeOK
<1>2. nextRow \in Nat /\ nextRow' \in Nat
  BY <1>1 DEF TablesOK
<1>3. UNCHANGED tables =>
        /\ \A u : SameTables(u)
        /\ nextRow' \in Nat /\ userRoles' \subseteq userRoles /\ nextRow <= nextRow'
        /\ IdsOK'
        /\ \A u, rows : RowsOf(u, rows)' <=> RowsOf(u, rows)
  BY <1>0, <1>2, TablesKept DEF tables, IdsOK, RowsOf
<1>4. ASSUME NEW r \in Requests, Call(r)
      PROVE  CoherentOK' /\ IdsOK' /\ RemovalsOK'
  BY <1>0, <1>1, <1>4, CallCoherent
<1>5. ASSUME NEW r \in Requests, Step(r)
      PROVE  CoherentOK' /\ IdsOK' /\ RemovalsOK'
  BY <1>0, <1>1, <1>5, StepCoherent, StepIds
<1>6. ASSUME NEW r \in Requests, Fail(r)
      PROVE  CoherentOK' /\ IdsOK' /\ RemovalsOK'
  <2>1. Finish(r) /\ UNCHANGED <<tables, cache>>
    BY <1>6 DEF Fail
  <2>2. pc' = [pc EXCEPT ![r] = "idle"] /\ local' = [local EXCEPT ![r] = Blank]
    BY <2>1 DEF Finish, Goto
  <2>3. userRoles' \subseteq userRoles /\ nextRow <= nextRow'
    BY <1>3, <2>1
  <2>4. IdsOK' /\ RemovalsOK'
    BY <1>0, <1>1, <1>2, <2>2, <2>3, MoveIds
  <2> QED
    BY <1>0, <1>1, <2>1, <2>4, FinishCoherent
<1>7. CASE Crash
  <2>1. IdsOK'
    BY <1>3, <1>7 DEF Crash
  <2>2. RemovalsOK'
    BY <1>7 DEF Crash, RemovalsOK
  <2>3. LoadsCoherent'
    BY <1>7 DEF Crash, LoadsCoherent, UpToDate
  <2>4. CachedCoherent'
    BY <1>7 DEF Crash, ClearAll, Without, CachedCoherent
  <2> QED
    BY <1>0, <2>1, <2>2, <2>3, <2>4 DEF CoherentOK, Inv
<1>8. CASE Tick \/ UNCHANGED vars
  <2>1. /\ UNCHANGED tables /\ pc' = pc /\ local' = local
        /\ overtaken' = overtaken /\ excused' = excused
        /\ DOMAIN cache' = DOMAIN cache
        /\ \A u \in DOMAIN cache : cache'[u].value = cache[u].value
    <3>1. CASE Tick
      <4>1. cache' = Aged(cache) /\ UNCHANGED <<tables, pc, local, overtaken, excused>>
        BY <3>1 DEF Tick
      <4>2. /\ DOMAIN Aged(cache) = DOMAIN cache
            /\ \A v \in DOMAIN cache : /\ Aged(cache)[v].value = cache[v].value
                                       /\ Hit(Aged(cache), v) => Hit(cache, v)
        BY <1>1, AgedWellFormed
      <4> QED
        BY <4>1, <4>2
    <3>2. CASE UNCHANGED vars
      BY <3>2 DEF vars
    <3> QED
      BY <1>8, <3>1, <3>2
  <2>2. \A u : Pending(u)' <=> Pending(u)
    BY <2>1 DEF Pending, Unannounced, Affected
  <2>3. \A u : SameTables(u)
    BY <1>3, <2>1
  <2>4. IdsOK' /\ RemovalsOK'
    BY <1>0, <1>3, <2>1 DEF RemovalsOK, RowsOf, tables
  <2>5. \A p, l : UpToDate(p, l)' <=> UpToDate(p, l)
    BY <2>3 DEF UpToDate, SameTables
  <2>6. LoadsCoherent'
    <3>1. ASSUME NEW q \in Requests \ overtaken', ~Pending(local[q].user)'
          PROVE  UpToDate(pc[q], local[q])'
      <4>1. PICK u, p, l : u = local[q].user /\ p = pc[q] /\ l = local[q]
        OBVIOUS
      <4>2. u = local'[q].user /\ p = pc'[q] /\ l = local'[q]
        BY <2>1, <4>1
      <4>3. ~Pending(u)'
        BY <3>1, <4>2
      <4>4. ~Pending(u)
        BY <2>2, <4>3
      <4>5. UpToDate(p, l)
        BY <1>0, <2>1, <4>1, <4>4 DEF CoherentOK, LoadsCoherent
      <4>6. UpToDate(p, l)'
        BY <2>5, <4>5
      <4> QED
        BY <4>2, <4>6
    <3> QED
      BY <3>1 DEF LoadsCoherent
  <2>7. CachedCoherent'
    <3>1. ASSUME NEW u \in DOMAIN cache' \ excused', ~Pending(u)'
          PROVE  cache'[u].value = Effective(u)'
      <4>1. u \in DOMAIN cache \ excused /\ ~Pending(u)
        BY <2>1, <2>2, <3>1
      <4>2. cache[u].value = Effective(u)
        BY <1>0, <4>1 DEF CoherentOK, CachedCoherent
      <4> QED
        BY <2>1, <2>3, <4>1, <4>2 DEF SameTables
    <3> QED
      BY <3>1 DEF CachedCoherent
  <2> QED
    BY <1>0, <2>4, <2>6, <2>7 DEF CoherentOK, Inv
<1> QED
  BY <1>0, <1>4, <1>5, <1>6, <1>7, <1>8 DEF Inv, Next

\* Hence it holds always.
LEMMA AlwaysInv == Spec => []Inv
  BY InitInv, NextInv, PTL DEF Spec

\* Whatever interleaves, fails or restarts, a permission check that hits the
\* cache is answered with what the tables say, but for the exceptions Coherent
\* names: every operation that changes a table clears what it makes stale.
THEOREM CacheCoherence == Spec => []Coherent
<1>1. Inv => Coherent
  BY DEF Inv, CoherentOK, CachedCoherent, Coherent, Hit
<1> QED
  BY <1>1, AlwaysInv, PTL

\* A load that no clearCache has overtaken is up to date at each of its reads.
THEOREM LoadsStayCoherent == Spec => []LoadsCoherent
<1>1. Inv => LoadsCoherent
  BY DEF Inv, CoherentOK
<1> QED
  BY <1>1, AlwaysInv, PTL

-----------------------------------------------------------------------------
(* One administrator at a time: what was looked up is still so when the      *)
(* answer to the write arrives, whatever other calls are lost or fail.       *)

\* Places at which a request changes no table, now or later.
Reading ==
    {"idle", "readUserRoles", "readRoles", "readPermissions", "storePermissions"}

\* At most one of the requests under way may change a table.
OneAdministrator ==
    \A q, r \in Requests : pc[q] \notin Reading /\ pc[r] \notin Reading => q = r

\* The tables are without doubles when the program starts.
SeedsOnce ==
    /\ \A x, y \in SeedUserRoles : x.user = y.user /\ x.role = y.role => x = y
    /\ \A x, y \in SeedPermissions :
          x.role = y.role /\ x.table = y.table => x = y
    /\ \A x, y \in SeedRoles : x.name = y.name => x = y

\* What the code found out before a write at p holds for tables R, U and P: the
\* row to create does not exist, or the rows to update or to delete are the ones
\* it means.
Looked(p, l, R, U, P) ==
    /\ p = "createRole" => \A x \in R : x.name # l.data.name
    /\ p = "createAssignment" => \A x \in U : ~(x.user = l.user /\ x.role = l.role)
    /\ p = "writePermission" =>
          \A x \in P :
             IF l.rows = {} THEN ~(x.role = l.role /\ x.table = l.data.table)
             ELSE x.id \in l.rows => x.role = l.role /\ x.table = l.data.table
    /\ p = "deleteAssignment" =>
          \A x \in U : x.id \in l.rows => x.user = l.user /\ x.role = l.role

\* The rows of table_permissions have ids of their own, given out before.
RowIdsOK ==
    /\ \A x \in tablePermissions : x.id < nextRow
    /\ \A x, y \in tablePermissions : x.id = y.id => x = y

\* OneRowEach is not inductive alone: a request at a write needs what it read,
\* and the id it read must stand for one row.
OnceOK ==
    /\ OneRowEach
    /\ RowIdsOK
    /\ \A r \in Requests :
          Looked(pc[r], local[r], roles, userRoles, tablePermissions)

\* Places where the next answer is that of a write that was looked up.
Writing ==
    {"createRole", "createAssignment", "writePermission", "deleteAssignment"}

\* What a step of r has to guarantee for the rows.
LEMMA MoveOnce ==
    ASSUME RequestsOK, OnceOK, OneRowEach', RowIdsOK',
           NEW r \in Requests, NEW p, NEW l,
           pc' = [pc EXCEPT ![r] = p],
           local' = [local EXCEPT ![r] = l],
           \/ UNCHANGED <<roles, userRoles, tablePermissions>>
           \/ \A q \in Requests \ {r} : pc[q] \in Reading,
           Looked(p, l, roles', userRoles', tablePermissions')
    PROVE  OnceOK'
<1>1. ASSUME NEW q \in Requests
      PROVE  Looked(pc'[q], local'[q], roles', userRoles', tablePermissions')
  <2>1. CASE q = r
    BY <2>1 DEF RequestsOK
  <2>2. CASE q # r
    <3>1. pc'[q] = pc[q] /\ local'[q] = local[q]
      BY <2>2 DEF RequestsOK
    <3>2. CASE UNCHANGED <<roles, userRoles, tablePermissions>>
      BY <3>1, <3>2 DEF OnceOK
    <3>3. CASE pc[q] \in Reading
      BY <3>1, <3>3 DEF Looked, Reading
    <3> QED
      BY <2>2, <3>2, <3>3
  <2> QED
    BY <2>1, <2>2
<1> QED
  BY <1>1 DEF OnceOK

\* The answer of a NocoDB call keeps the ids of table_permissions apart.
LEMMA StepRowIds ==
    ASSUME TablesOK, RowIdsOK, NEW r \in Requests, Step(r)
    PROVE  RowIdsOK'
<1>1. nextRow \in Nat /\ \A x \in tablePermissions : x.id \in Nat
  BY DEF TablesOK, PermissionRow
<1>2. CASE WritePermission(r)
  <2> DEFINE row(id) == [id |-> id, role |-> local[r].role,
                         table |-> local[r].data.table, acts |-> local[r].data.acts]
             found == {x \in tablePermissions : x.id \in local[r].rows}
  <2>1. \/ tablePermissions' = tablePermissions /\ nextRow' = nextRow
        \/ /\ tablePermissions' = tablePermissions \cup {row(nextRow)}
           /\ nextRow' = nextRow + 1
        \/ /\ tablePermissions' = (tablePermissions \ found) \cup {row(x.id) : x \in found}
           /\ nextRow' = nextRow
    BY <1>2 DEF WritePermission
  <2>2. \A id : row(id).id = id
    OBVIOUS
  <2>3. found \subseteq tablePermissions
    OBVIOUS
  <2> HIDE DEF row, found
  <2>4. CASE tablePermissions' = tablePermissions /\ nextRow' = nextRow
    BY <2>4 DEF RowIdsOK
  <2>5. CASE /\ tablePermissions' = tablePermissions \cup {row(nextRow)}
             /\ nextRow' = nextRow + 1
    BY <1>1, <2>2, <2>5 DEF RowIdsOK
  <2>6. CASE /\ tablePermissions' = (tablePermissions \ found) \cup {row(x.id) : x \in found}
             /\ nextRow' = nextRow
    BY <1>1, <2>2, <2>3, <2>6 DEF RowIdsOK
  <2> QED
    BY <2>1, <2>4, <2>5, <2>6
<1>3. CASE ~WritePermission(r)
  <2>1. tablePermissions' \subseteq tablePermissions
    BY <1>3
    DEF Step, tables, ReadUserRoles, ReadRoles, ReadPermissions, StorePermissions,
        ClearAllEntries, ClearUserEntry, FindRole, CreateRole, DeleteRole,
        FindAssignment, CreateAssignment, FindRemoval, DeleteAssignment,
        FindPermission, ListSource, ListPermissions, DeletePermission
  <2>2. nextRow' = nextRow \/ nextRow' = nextRow + 1
    BY <1>3
    DEF Step, tables, ReadUserRoles, ReadRoles, ReadPermissions, StorePermissions,
        ClearAllEntries, ClearUserEntry, FindRole, CreateRole, DeleteRole,
        FindAssignment, CreateAssignment, FindRemoval, DeleteAssignment,
        FindPermission, ListSource, ListPermissions, DeletePermission
  <2> QED
    BY <1>1, <2>1, <2>2 DEF RowIdsOK
<1> QED
  BY <1>2, <1>3

\* A request away from the writes has nothing looked up.
LEMMA NothingLooked ==
    ASSUME NEW p, p \notin Writing, NEW l, NEW R, NEW U, NEW P
    PROVE  Looked(p, l, R, U, P)
  BY DEF Looked, Writing

\* Rows are only taken away: there are no new doubles.
LEMMA FewerRows ==
    ASSUME OneRowEach, roles' \subseteq roles, userRoles' \subseteq userRoles,
           tablePermissions' \subseteq tablePermissions
    PROVE  OneRowEach'
  BY DEF OneRowEach

\* The answers of the lookups keep the rows single.
LEMMA LookupOnce ==
    ASSUME RequestsOK, IdsOK, OnceOK, NEW r \in Requests, ~Finish(r),
           \/ FindRole(r) \/ FindAssignment(r)
           \/ FindPermission(r) \/ FindRemoval(r)
    PROVE  OnceOK'
<1> DEFINE loc == local[r]
<1>0. loc \in Local /\ pc[r] \in PC
  BY DEF RequestsOK
<1>1. /\ OneRowEach' /\ RowIdsOK'
      /\ UNCHANGED <<roles, userRoles, tablePermissions>>
  BY DEF OnceOK, FindRole, FindAssignment, FindPermission, FindRemoval, tables,
     OneRowEach, RowIdsOK
<1>2. CASE FindRole(r)
  <2>1. /\ pc' = [pc EXCEPT ![r] = "createRole"]
        /\ local' = [local EXCEPT ![r] = loc]
        /\ \A x \in roles : x.name # loc.data.name
    BY <1>2 DEF FindRole, Goto, RequestsOK
  <2>2. Looked("createRole", loc, roles', userRoles', tablePermissions')
    BY <1>1, <2>1 DEF Looked
  <2> HIDE DEF loc
  <2> QED
    BY <1>1, <2>1, <2>2, MoveOnce
<1>3. CASE FindAssignment(r)
  <2>1. PICK role \in loc.roleIds :
          LET rest == loc.roleIds \ {role} IN
          IF AssignmentRows(loc.user, role) = {}
          THEN /\ Goto(r, "createAssignment")
               /\ local' = [local EXCEPT ![r].role = role, ![r].roleIds = rest]
               /\ UNCHANGED <<overtaken, excused>>
          ELSE IF rest # {}
          THEN /\ local' = [local EXCEPT ![r].roleIds = rest]
               /\ UNCHANGED <<pc, overtaken, excused>>
          ELSE Finish(r)
    BY <1>3 DEF FindAssignment
  <2> DEFINE rest == loc.roleIds \ {role}
  <2>2. CASE AssignmentRows(loc.user, role) = {}
    <3> DEFINE l == [loc EXCEPT !.role = role, !.roleIds = rest]
    <3>1. local' = [local EXCEPT ![r] = l] /\ pc' = [pc EXCEPT ![r] = "createAssignment"]
      BY <2>1, <2>2 DEF RequestsOK, Goto
    <3>2. l.user = loc.user /\ l.role = role
      BY <1>0 DEF Local
    <3> HIDE DEF l
    <3>3. Looked("createAssignment", l, roles', userRoles', tablePermissions')
      BY <1>1, <2>2, <3>2 DEF Looked, AssignmentRows
    <3> QED
      BY <1>1, <3>1, <3>3, MoveOnce
  <2>3. CASE AssignmentRows(loc.user, role) # {}
    <3> DEFINE l == [loc EXCEPT !.roleIds = rest]
    <3>1. local' = [local EXCEPT ![r] = l] /\ pc' = [pc EXCEPT ![r] = "findAssignment"]
      BY <1>3, <2>1, <2>3 DEF RequestsOK, FindAssignment
    <3>2. Looked("findAssignment", l, roles', userRoles', tablePermissions')
      BY NothingLooked DEF Writing
    <3> HIDE DEF l
    <3> QED
      BY <1>1, <3>1, <3>2, MoveOnce
  <2> QED
    BY <2>2, <2>3
<1>4. CASE FindPermission(r)
  <2>1. PICK item \in loc.items :
          LET found == PermissionRows(loc.role, item.table) IN
          \E rows \in IF found = {} THEN {{}} ELSE {{x.id} : x \in found} :
             local' = [local EXCEPT ![r].items = @ \ {item},
                                    ![r].data = item,
                                    ![r].rows = rows]
    BY <1>4 DEF FindPermission
  <2> DEFINE found == PermissionRows(loc.role, item.table)
  <2>2. PICK rows \in IF found = {} THEN {{}} ELSE {{x.id} : x \in found} :
             local' = [local EXCEPT ![r].items = @ \ {item},
                                    ![r].data = item,
                                    ![r].rows = rows]
    BY <2>1
  <2> DEFINE l == [loc EXCEPT !.items = @ \ {item}, !.data = item, !.rows = rows]
  <2>3. local' = [local EXCEPT ![r] = l] /\ pc' = [pc EXCEPT ![r] = "writePermission"]
    BY <1>4, <2>2 DEF RequestsOK, FindPermission, Goto
  <2>4. l.role = loc.role /\ l.data = item /\ l.rows = rows
    BY <1>0 DEF Local
  <2> HIDE DEF l
  <2>5. \A x \in tablePermissions :
           IF rows = {} THEN ~(x.role = loc.role /\ x.table = item.table)
           ELSE x.id \in rows => x.role = loc.role /\ x.table = item.table
    <3>1. CASE found = {}
      BY <3>1 DEF PermissionRows
    <3>2. CASE found # {}
      <4>1. PICK y \in found : rows = {y.id}
        BY <3>2
      <4>2. \A x \in tablePermissions : x.id \in rows => x = y
        BY <4>1 DEF OnceOK, RowIdsOK, PermissionRows
      <4> QED
        BY <4>1, <4>2 DEF PermissionRows
    <3> QED
      BY <3>1, <3>2
  <2>6. Looked("writePermission", l, roles', userRoles', tablePermissions')
    BY <1>1, <2>4, <2>5 DEF Looked
  <2> QED
    BY <1>1, <2>3, <2>6, MoveOnce
<1>5. CASE FindRemoval(r)
  <2>1. PICK x \in AssignmentRows(loc.user, loc.role) :
          /\ pc' = [pc EXCEPT ![r] = "deleteAssignment"]
          /\ local' = [local EXCEPT ![r].rows = {x.id}]
    BY <1>5 DEF FindRemoval, Goto
  <2> DEFINE l == [loc EXCEPT !.rows = {x.id}]
  <2>2. local' = [local EXCEPT ![r] = l]
    BY <2>1 DEF RequestsOK
  <2>3. l.user = loc.user /\ l.role = loc.role /\ l.rows = {x.id}
    BY <1>0 DEF Local
  <2> HIDE DEF l
  <2>4. \A y \in userRoles : y.id \in l.rows => y.user = l.user /\ y.role = l.role
    BY <2>1, <2>3 DEF IdsOK, AssignmentRows
  <2>5. Looked("deleteAssignment", l, roles', userRoles', tablePermissions')
    BY <1>1, <2>4 DEF Looked
  <2> QED
    BY <1>1, <2>1, <2>2, <2>5, MoveOnce
<1> QED
  BY <1>2, <1>3, <1>4, <1>5

\* The answer of a write that was looked up adds no double.
LEMMA WriteOnce ==
    ASSUME RequestsOK, OnceOK, NEW r \in Requests,
           CreateRole(r) \/ CreateAssignment(r) \/ WritePermission(r)
    PROVE  OneRowEach'
<1> DEFINE loc == local[r]
<1>0. OneRowEach /\ Looked(pc[r], loc, roles, userRoles, tablePermissions)
  BY DEF OnceOK
<1>1. CASE CreateRole(r)
  <2> DEFINE row == [id |-> nextRole, name |-> loc.data.name,
                     system |-> loc.data.system]
  <2>1. /\ roles' = roles \/ roles' = roles \cup {row}
        /\ UNCHANGED <<userRoles, tablePermissions>>
    BY <1>1 DEF CreateRole
  <2>2. \A x \in roles : x.name # row.name
    BY <1>0, <1>1 DEF CreateRole, Looked
  <2> HIDE DEF row
  <2> QED
    BY <1>0, <2>1, <2>2 DEF OneRowEach
<1>2. CASE CreateAssignment(r)
  <2> DEFINE row == [id |-> nextRow, user |-> loc.user, role |-> loc.role]
  <2>1. /\ userRoles' = userRoles \/ userRoles' = userRoles \cup {row}
        /\ UNCHANGED <<roles, tablePermissions>>
    BY <1>2 DEF CreateAssignment
  <2>2. \A x \in userRoles : ~(x.user = row.user /\ x.role = row.role)
    BY <1>0, <1>2 DEF CreateAssignment, Looked
  <2> HIDE DEF row
  <2> QED
    BY <1>0, <2>1, <2>2 DEF OneRowEach
<1>3. CASE WritePermission(r)
  <2> DEFINE row(id) == [id |-> id, role |-> loc.role,
                         table |-> loc.data.table, acts |-> loc.data.acts]
             found == {x \in tablePermissions : x.id \in loc.rows}
  <2>1. /\ \/ tablePermissions' = tablePermissions
           \/ /\ loc.rows = {}
              /\ tablePermissions' = tablePermissions \cup {row(nextRow)}
           \/ /\ found # {}
              /\ tablePermissions' = (tablePermissions \ found) \cup {row(x.id) : x \in found}
        /\ UNCHANGED <<roles, userRoles>>
    BY <1>3 DEF WritePermission
  <2>2. \A x \in tablePermissions :
           IF loc.rows = {} THEN ~(x.role = loc.role /\ x.table = loc.data.table)
           ELSE x.id \in loc.rows => x.role = loc.role /\ x.table = loc.data.table
    BY <1>0, <1>3 DEF WritePermission, Looked
  <2>3. \A id : row(id).role = loc.role /\ row(id).table = loc.data.table
    OBVIOUS
  <2>4. \A x, y \in tablePermissions : x.role = y.role /\ x.table = y.table => x = y
    BY <1>0 DEF OneRowEach
  <2>5. \A x \in tablePermissions : \A id :
           loc.rows = {} => ~(x.role = row(id).role /\ x.table = row(id).table)
    BY <2>2, <2>3
  <2>6. \A x, y \in found : x = y
    BY <2>2, <2>4
  <2>7. \A x \in found, y \in tablePermissions \ found : \A id :
           ~(y.role = row(id).role /\ y.table = row(id).table)
    BY <2>2, <2>3, <2>4
  <2> HIDE DEF row, found
  <2>8. \A x, y \in tablePermissions' : x.role = y.role /\ x.table = y.table => x = y
    <3>1. CASE tablePermissions' = tablePermissions
      BY <2>4, <3>1
    <3>2. CASE loc.rows = {} /\ tablePermissions' = tablePermissions \cup {row(nextRow)}
      BY <2>4, <2>5, <3>2
    <3>3. CASE /\ found # {}
               /\ tablePermissions' = (tablePermissions \ found) \cup {row(x.id) : x \in found}
      BY <2>4, <2>6, <2>7, <3>3
    <3> QED
      BY <2>1, <3>1, <3>2, <3>3
  <2> QED
    BY <1>0, <2>1, <2>8 DEF OneRowEach
<1> QED
  BY <1>1, <1>2, <1>3

\* The answer of a NocoDB call keeps the rows single.
LEMMA StepOnce ==
    ASSUME TablesOK, RequestsOK, IdsOK, OnceOK, OneAdministrator,
           NEW r \in Requests, Step(r)
    PROVE  OnceOK'
<1> DEFINE lookup == \/ FindRole(r) \/ FindAssignment(r)
                     \/ FindPermission(r) \/ FindRemoval(r)
           write == CreateRole(r) \/ CreateAssignment(r) \/ WritePermission(r)
<1>1. CASE lookup /\ ~Finish(r)
  BY <1>1, LookupOnce
<1>2. CASE ~(lookup /\ ~Finish(r))
  <2>1. PICK p, l :
          /\ p \notin Writing
          /\ pc' = [pc EXCEPT ![r] = p] /\ local' = [local EXCEPT ![r] = l]
    <3>1. \E p : p \notin Writing /\ pc' = [pc EXCEPT ![r] = p]
      <4>1. CASE Finish(r)
        BY <4>1 DEF Finish, Goto, Writing
      <4>2. CASE ~Finish(r)
        BY <1>2, <4>2
        DEF Step, ReadUserRoles, ReadRoles, ReadPermissions, StorePermissions,
            ClearAllEntries, ClearUserEntry, CreateRole, DeleteRole,
            CreateAssignment, DeleteAssignment, WritePermission, ListSource, ListPermissions,
            DeletePermission, Goto, Writing
      <4> QED
        BY <4>1, <4>2
    <3>2. \E l : local' = [local EXCEPT ![r] = l]
      <4>1. CASE local' = local
        BY <4>1 DEF RequestsOK
      <4>2. CASE local' # local
        BY <4>2
        DEF Step, ReadUserRoles, ReadRoles, ReadPermissions, StorePermissions,
            ClearAllEntries, ClearUserEntry, FindRole, CreateRole, DeleteRole,
            FindAssignment, CreateAssignment, FindRemoval, DeleteAssignment,
            FindPermission, WritePermission, ListSource, ListPermissions,
            DeletePermission, Finish
      <4> QED
        BY <4>1, <4>2
    <3> QED
      BY <3>1, <3>2
  <2>2. \/ UNCHANGED <<roles, userRoles, tablePermissions>>
        \/ \A q \in Requests \ {r} : pc[q] \in Reading
    <3>1. CASE pc[r] \notin Reading
      BY <3>1 DEF OneAdministrator
    <3>2. CASE pc[r] \in Reading
      BY <3>2
      DEF Step, tables, ReadUserRoles, ReadRoles, ReadPermissions, StorePermissions,
          ClearAllEntries, ClearUserEntry, FindRole, CreateRole, DeleteRole,
          FindAssignment, CreateAssignment, FindRemoval, DeleteAssignment,
          FindPermission, WritePermission, ListSource, ListPermissions,
          DeletePermission, Reading, Removing
    <3> QED
      BY <3>1, <3>2
  <2>3. OneRowEach'
    <3>1. CASE write
      BY <3>1, WriteOnce
    <3>2. CASE ~write
      <4>1. /\ roles' \subseteq roles /\ userRoles' \subseteq userRoles
            /\ tablePermissions' \subseteq tablePermissions
        BY <3>2
        DEF Step, tables, ReadUserRoles, ReadRoles, ReadPermissions, StorePermissions,
            ClearAllEntries, ClearUserEntry, FindRole, DeleteRole,
            FindAssignment, FindRemoval, DeleteAssignment,
            FindPermission, ListSource, ListPermissions, DeletePermission
      <4> QED
        BY <4>1, FewerRows DEF OnceOK
    <3> QED
      BY <3>1, <3>2
  <2>4. Looked(p, l, roles', userRoles', tablePermissions')
    BY <2>1, NothingLooked
  <2>5. RowIdsOK'
    BY StepRowIds DEF OnceOK
  <2> QED
    BY <2>1, <2>2, <2>3, <2>4, <2>5, MoveOnce
<1> QED
  BY <1>1, <1>2

\* Every step of a single administrator keeps the rows single.
LEMMA NextOnce ==
    ASSUME TablesOK, RequestsOK, IdsOK, OnceOK, OneAdministrator, [Next]_vars
    PROVE  OnceOK'
<1>1. ASSUME UNCHANGED tables
      PROVE  /\ OneRowEach' /\ RowIdsOK'
             /\ UNCHANGED <<roles, userRoles, tablePermissions>>
  BY <1>1 DEF tables, OneRowEach, RowIdsOK, OnceOK
<1>2. ASSUME NEW r \in Requests, Call(r) \/ Fail(r)
      PROVE  OnceOK'
  <2>1. PICK p, l :
          /\ p \notin Writing /\ UNCHANGED tables
          /\ pc' = [pc EXCEPT ![r] = p] /\ local' = [local EXCEPT ![r] = l]
    <3>1. CASE Fail(r)
      BY <3>1 DEF Fail, Finish, Goto, Writing
    <3>2. CASE Call(r)
      BY <3>2 DEF Call, StartLoad, StartCreateRole, StartDeleteRole,
         StartDeletePermissions, StartRemoveRole, StartSetPermissions,
         StartCopyPermissions, StartAssignRoles, Start, Writing
    <3> QED
      BY <1>2, <3>1, <3>2
  <2>2. Looked(p, l, roles', userRoles', tablePermissions')
    BY <2>1, NothingLooked
  <2> QED
    BY <1>1, <2>1, <2>2, MoveOnce
<1>3. CASE Crash
  <2>1. OneRowEach' /\ RowIdsOK' /\ \A q \in Requests : pc'[q] \notin Writing
    BY <1>1, <1>3 DEF Crash, Writing
  <2> QED
    BY <2>1, NothingLooked DEF OnceOK
<1>4. CASE Tick \/ UNCHANGED vars
  <2>1. UNCHANGED <<tables, pc, local>>
    BY <1>4 DEF Tick, vars
  <2> QED
    BY <1>1, <2>1 DEF OnceOK
<1> QED
  BY <1>2, <1>3, <1>4, StepOnce DEF Next

\* The rows are single at the start.
LEMMA InitOnce ==
    ASSUME SeedsOnce
    PROVE  Init => OnceOK
<1> SUFFICES ASSUME Init PROVE OnceOK
  OBVIOUS
<1>1. OneRowEach
  BY DEF Init, SeedsOnce, OneRowEach
<1>2. \A r \in Requests : pc[r] \notin Writing
  BY DEF Init, Writing
<1>3. RowIdsOK
  <2>1. Cardinality(SeedUserRoles) \in Nat /\ Cardinality(SeedPermissions) \in Nat
    BY RbacAssumption, FS_CardinalityType
  <2>2. \A x \in SeedPermissions : x.id \in Nat
    BY RbacAssumption DEF PermissionRow
  <2> QED
    BY <2>1, <2>2, RbacAssumption DEF Init, RowIdsOK
<1> QED
  BY <1>1, <1>2, <1>3, NothingLooked DEF OnceOK

\* Hence, under one administrator at a time, they always are.
LEMMA AlwaysOnce ==
    ASSUME SeedsOnce
    PROVE  Spec /\ []OneAdministrator => [](Inv /\ OnceOK)
<1>1. Inv => RequestsOK /\ TablesOK /\ IdsOK
  BY DEF Inv, StateOK, TypeOK
<1>2. OnceOK /\ Inv /\ OneAdministrator /\ [Next]_vars => OnceOK'
  BY <1>1, NextOnce
<1> QED
  BY <1>2, InitOnce, AlwaysInv, PTL DEF Spec

\* Under one administrator at a time - the loads of permission checks may
\* interleave with it as they like, and calls fail and the process restart
\* anywhere - looking before creating suffices: a user has a role at most once, a
\* role has at most one row per table, and a name belongs to at most one role.
THEOREM OneRowEachAlone ==
    ASSUME SeedsOnce
    PROVE  Spec /\ []OneAdministrator => []OneRowEach
<1>1. Inv /\ OnceOK => OneRowEach
  BY DEF OnceOK
<1> QED
  BY <1>1, AlwaysOnce, PTL

\* A write is answered by the step of its own request.
LEMMA WriteAnswered ==
    ASSUME RequestsOK, [Next]_vars, NEW r \in Requests
    PROVE  /\ pc[r] = "deleteAssignment" /\ pc'[r] = "clearUser"
                => DeleteAssignment(r)
           /\ pc[r] = "writePermission" /\ pc'[r] = "clearAll"
                => WritePermission(r)
<1> SUFFICES ASSUME \/ pc[r] = "deleteAssignment" /\ pc'[r] = "clearUser"
                    \/ pc[r] = "writePermission" /\ pc'[r] = "clearAll"
             PROVE  /\ pc[r] = "deleteAssignment" => DeleteAssignment(r)
                    /\ pc[r] = "writePermission" => WritePermission(r)
  OBVIOUS
<1>1. ASSUME NEW q \in Requests, Call(q) \/ Step(q) \/ Fail(q)
      PROVE  q = r
  <2>1. CASE pc' = pc
    BY <2>1
  <2>2. CASE \E p : pc' = [pc EXCEPT ![q] = p]
    BY <2>2 DEF RequestsOK
  <2>3. pc' = pc \/ \E p : pc' = [pc EXCEPT ![q] = p]
    BY <1>1
    DEF Call, StartLoad, StartCreateRole, StartDeleteRole, StartDeletePermissions,
        StartRemoveRole, StartSetPermissions, StartCopyPermissions,
        StartAssignRoles, Start, Fail,
        Step, ReadUserRoles, ReadRoles, ReadPermissions, StorePermissions,
        ClearAllEntries, ClearUserEntry, FindRole, CreateRole, DeleteRole,
        FindAssignment, CreateAssignment, FindRemoval, DeleteAssignment,
        FindPermission, WritePermission, ListSource, ListPermissions,
        DeletePermission, Goto, Finish
  <2> QED
    BY <2>1, <2>2, <2>3
<1>2. ~Call(r)
  BY DEF Call, StartLoad, StartCreateRole, StartDeleteRole, StartDeletePermissions,
     StartRemoveRole, StartSetPermissions, StartCopyPermissions,
     StartAssignRoles, Start
<1>3. ~Fail(r)
  BY DEF Fail, Finish, Goto, RequestsOK
<1>4. ~Crash /\ ~Tick /\ ~UNCHANGED vars
  BY DEF Crash, Tick, vars
<1>5. Step(r)
  BY <1>1, <1>2, <1>3, <1>4 DEF Next
<1>6. CASE pc[r] = "deleteAssignment"
  <2>1. DeleteAssignment(r)
    BY <1>5, <1>6
    DEF Step, ReadUserRoles, ReadRoles, ReadPermissions, StorePermissions,
        ClearAllEntries, ClearUserEntry, FindRole, CreateRole, DeleteRole,
        FindAssignment, CreateAssignment, FindRemoval,
        FindPermission, WritePermission, ListSource, ListPermissions, DeletePermission, Removing
  <2> QED
    BY <1>6, <2>1
<1>7. CASE pc[r] = "writePermission"
  <2>1. WritePermission(r)
    BY <1>5, <1>7
    DEF Step, ReadUserRoles, ReadRoles, ReadPermissions, StorePermissions,
        ClearAllEntries, ClearUserEntry, FindRole, CreateRole, DeleteRole,
        FindAssignment, CreateAssignment, FindRemoval, DeleteAssignment,
        FindPermission, ListSource, ListPermissions, DeletePermission, Removing
  <2> QED
    BY <1>7, <2>1
<1> QED
  BY <1>6, <1>7

\* The assignment deleted was the only one of the role to the user.
LEMMA RemovalWhole ==
    ASSUME RequestsOK, OnceOK, NEW r \in Requests, DeleteAssignment(r),
           pc'[r] = "clearUser"
    PROVE  local[r].role \notin Assigned(local[r].user)'
<1> DEFINE u == local[r].user
           role == local[r].role
           found == {x \in userRoles : x.id \in local[r].rows}
<1>1. /\ found # {} /\ userRoles' = userRoles \ found
      /\ pc[r] = "deleteAssignment"
  BY DEF DeleteAssignment, Finish, Goto, RequestsOK
<1>2. \A x \in found : x.user = u /\ x.role = role
  BY <1>1 DEF OnceOK, Looked
<1>3. \A y \in userRoles : y.user = u /\ y.role = role => y \in found
  BY <1>1, <1>2 DEF OnceOK, OneRowEach
<1>4. \A y \in userRoles' : y.user = u => y.role # role
  BY <1>1, <1>3
<1>5. Assigned(local[r].user)' = {x.role : x \in {y \in userRoles' : y.user = local'[r].user}}
  BY DEF Assigned
<1>6. local' = local
  BY <1>1 DEF DeleteAssignment, Finish, Goto, RequestsOK
<1> QED
  BY <1>4, <1>5, <1>6

\* The row written is the only one of the role and the table of the item.
LEMMA WriteWhole ==
    ASSUME RequestsOK, OnceOK, OneRowEach', NEW r \in Requests, WritePermission(r),
           pc'[r] = "clearAll", NEW item \in Item, local[r].data = item,
           NEW role \in Roles, local[r].role = role
    PROVE  {a \in Actions : <<item.table, a>> \in Granted({role})'} = item.acts
<1> DEFINE row(id) == [id |-> id, role |-> role,
                       table |-> item.table, acts |-> item.acts]
           found == {x \in tablePermissions : x.id \in local[r].rows}
<1>1. \/ tablePermissions' = tablePermissions \cup {row(nextRow)}
      \/ /\ found # {}
         /\ tablePermissions' = (tablePermissions \ found) \cup {row(x.id) : x \in found}
  BY DEF WritePermission, Finish, Goto, RequestsOK
<1>2. \A id : /\ row(id).role = role /\ row(id).table = item.table
              /\ row(id).acts = item.acts
  OBVIOUS
<1> HIDE DEF row
<1>3. PICK x \in tablePermissions' :
        x.role = role /\ x.table = item.table /\ x.acts = item.acts
  BY <1>1, <1>2
<1>4. \A y \in tablePermissions' : y.role = role /\ y.table = item.table => y = x
  BY <1>3 DEF OneRowEach
<1>5. Granted({role})'
        = UNION {{y.table} \X y.acts : y \in {z \in tablePermissions' : z.role \in {role}}}
  BY DEF Granted
<1>6. \A a : <<item.table, a>> \in Granted({role})' <=> a \in item.acts
  BY <1>3, <1>4, <1>5
<1> QED
  BY <1>6 DEF Item

\* Under one administrator at a time, what the API has answered is what the
\* tables then grant: no second row is left that still gives a role that
\* removeRole took away, or rights that setTablePermissions revoked.
THEOREM OperationsEffectiveAlone ==
    ASSUME SeedsOnce
    PROVE  Spec /\ []OneAdministrator => OperationsEffective
<1>1. ASSUME Inv /\ OnceOK, (Inv /\ OnceOK)', [Next]_vars,
             NEW r \in Requests, NEW u \in Users, NEW role \in Roles,
             pc[r] = "deleteAssignment", pc'[r] = "clearUser",
             local[r].user = u, local[r].role = role
      PROVE  role \notin Assigned(u)'
  <2>1. DeleteAssignment(r) /\ RequestsOK /\ local' = local
    BY <1>1, WriteAnswered
    DEF Inv, StateOK, TypeOK, DeleteAssignment, Finish, Goto, RequestsOK
  <2>2. local[r].role \notin Assigned(local[r].user)'
    BY <1>1, <2>1, RemovalWhole
  <2> QED
    BY <1>1, <2>1, <2>2 DEF Assigned
<1>2. ASSUME Inv /\ OnceOK, (Inv /\ OnceOK)', [Next]_vars,
             NEW r \in Requests, NEW role \in Roles, NEW item \in Item,
             pc[r] = "writePermission", pc'[r] = "clearAll",
             local[r].role = role, local[r].data = item
      PROVE  {a \in Actions : <<item.table, a>> \in Granted({role})'} = item.acts
  <2>1. WritePermission(r) /\ RequestsOK /\ OneRowEach'
    BY <1>2, WriteAnswered DEF Inv, StateOK, TypeOK, OnceOK
  <2> QED
    BY <1>2, <2>1, WriteWhole
<1> DEFINE removes ==
             \A r \in Requests, u \in Users, role \in Roles :
               /\ pc[r] = "deleteAssignment"
               /\ pc'[r] = "clearUser"
               /\ local[r].user = u
               /\ local[r].role = role
               => role \notin Assigned(u)'
           sets ==
             \A r \in Requests, role \in Roles, item \in Item :
               /\ pc[r] = "writePermission"
               /\ pc'[r] = "clearAll"
               /\ local[r].role = role
               /\ local[r].data = item
               => {a \in Actions : <<item.table, a>> \in Granted({role})'}
                     = item.acts
<1>3. (Inv /\ OnceOK) /\ (Inv /\ OnceOK)' /\ [Next]_vars => [removes]_vars /\ [sets]_vars
  BY <1>1, <1>2
<1>4. Spec /\ []OneAdministrator => [][removes]_vars /\ [][sets]_vars
  BY <1>3, AlwaysOnce, PTL DEF Spec
<1> QED
  BY <1>4 DEF OperationsEffective, RemoveRoleRemoves, SetPermissionsSets
=============================================================================
