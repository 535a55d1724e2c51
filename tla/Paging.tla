------------------------------- MODULE Paging -------------------------------
(***************************************************************************)
(* Reading a table by offset while others change it: NocoDBService.listAll, *)
(* and list with its count, from which the repositories and the services of *)
(* roles, assignments and permissions make a page with its metadata.        *)
(*                                                                          *)
(* The tables exist; without one, the services answer with an empty page.   *)
(* One reader suffices, since readers change nothing.  A row is its place   *)
(* in the order of the query; others insert and delete rows at any time.    *)
(***************************************************************************)
EXTENDS Naturals, Sequences, FiniteSets, SequencesExt, FiniteSetsExt

CONSTANTS Keys,      \* places of rows in the order of the query
          PageSize,  \* of listAll
          Takes,     \* sizes of page that clients ask for
          Pages,     \* numbers of pages that clients ask for
          None       \* no value

\* What is assumed of the constants.
PagingAssumption ==
    /\ Keys \subseteq Nat /\ IsFiniteSet(Keys)
    /\ PageSize \in Nat \ {0} /\ Takes \cup Pages \subseteq Nat \ {0}

VARIABLES
    rows,   \* the table
    born,   \* keys that have been used
    roles,  \* the roles that assignments, also known by their keys, refer to
    pc, local

base == <<rows, born, roles>>
vars == <<base, pc, local>>

\* Besides its locals the reader has a history: the rows that have been there
\* all the time, the deletions, and the insertions before another row.
Blank == [op |-> None, page |-> 1, take |-> 1, offset |-> 0, got |-> <<>>, meta |-> None,
          always |-> {}, deleted |-> 0, shifted |-> 0, steady |-> TRUE]

\* The members of S one after the other.
InOrder(S) ==
    CHOOSE s \in [1 .. Cardinality(S) -> S] : \A i, j \in DOMAIN s : i < j => s[i] < s[j]

\* list with limit and offset, as NocoDB answers it.
list(limit, offset) ==
    LET all == InOrder(rows)
        last == Min({offset + limit, Len(all)})
    IN  SubSeq(all, Min({offset, last}) + 1, last)

-----------------------------------------------------------------------------
(* Metadata of pages *)

\* PageOptionsDto.skip
skip(page, take) == (page - 1) * take

\* A slip: rounded down.
PageMetaFloor(page, take, count) ==
    [itemCount |-> count, pageCount |-> count \div take,
     hasPreviousPage |-> page > 1, hasNextPage |-> page < count \div take]

\* PageMetaDto; the page count is rounded up.
PageMeta(page, take, count) ==
    LET pageCount == (count + take - 1) \div take IN
    [itemCount |-> count, pageCount |-> pageCount,
     hasPreviousPage |-> page > 1, hasNextPage |-> page < pageCount]

-----------------------------------------------------------------------------
(* Operations *)

\* op: listAll, the page of a repository or service, or the roles of a user.
Begin(op, page, take) ==
    /\ pc = "idle"
    /\ pc' = IF op = "listAll" THEN "page" ELSE "list"
    /\ local' = [Blank EXCEPT !.op = op, !.page = page, !.take = take,
                              !.offset = IF op = "listAll" THEN 0 ELSE skip(page, take),
                              !.always = rows]
    /\ UNCHANGED base

\* A slip: the last row of a page is read again, against gaps.
AdvanceOverlapping(l, page) ==
    [l EXCEPT !.got = l.got \o page, !.offset = l.offset + PageSize - 1]

\* A slip: the next offset is that of the rows read and those not read.
AdvanceBeyond(l, page) ==
    [l EXCEPT !.got = l.got \o page, !.offset = l.offset + PageSize + 1]

Advance(l, page) == [l EXCEPT !.got = l.got \o page, !.offset = l.offset + PageSize]

\* The loop of listAll ends with a page that is not full.
ReadPage ==
    /\ pc = "page"
    /\ LET page == list(PageSize, local.offset) IN
       /\ local' = Advance(local, page)
       /\ pc' = IF Len(page) < PageSize THEN "done" ELSE "page"
    /\ UNCHANGED base

ReadList ==
    /\ pc = "list" /\ pc' = "count"
    /\ local' = [local EXCEPT !.got = list(local.take, local.offset)]
    /\ UNCHANGED base

\* count is a second call of list, and follows it.
Count ==
    /\ pc = "count"
    /\ local' = [local EXCEPT !.meta = PageMeta(local.page, local.take, Cardinality(rows))]
    /\ pc' = IF local.op = "getUserRoles" /\ local.got # <<>> THEN "roles" ELSE "done"
    /\ UNCHANGED base

\* A slip: roles that are gone are not filtered out.
LoadRolesUnfiltered ==
    /\ pc = "roles" /\ pc' = "done"
    /\ local' = [local EXCEPT !.got =
            [i \in DOMAIN local.got |-> IF local.got[i] \in roles THEN local.got[i] ELSE None]]
    /\ UNCHANGED base

\* loadRoles: in the order of the ids, without those that are gone.  The places
\* of the others are kept.
LoadRoles ==
    /\ pc = "roles" /\ pc' = "done"
    /\ LET kept == InOrder({i \in DOMAIN local.got : local.got[i] \in roles}) IN
       local' = [local EXCEPT !.got = [i \in DOMAIN kept |-> local.got[kept[i]]]]
    /\ UNCHANGED base

\* A slip: a failed page begins the listing anew.
FailAnew ==
    /\ pc \in {"page", "list", "count", "roles"}
    /\ pc' = IF pc = "page" /\ local.offset > 0 THEN "page" ELSE "idle"
    /\ local' = [Blank EXCEPT !.op = IF pc = "page" THEN "listAll" ELSE None, !.always = rows]
    /\ UNCHANGED base

\* A call fails, and the operation with it: what has been read is dropped.
Fail ==
    /\ pc \in {"page", "list", "count", "roles"}
    /\ pc' = "idle" /\ local' = Blank
    /\ UNCHANGED base

Finish == pc = "done" /\ pc' = "idle" /\ local' = Blank /\ UNCHANGED base

-----------------------------------------------------------------------------
(* The others *)

Insert(k) ==
    /\ k \notin born
    /\ rows' = rows \cup {k} /\ born' = born \cup {k} /\ roles' = roles \cup {k}
    /\ local' = [local EXCEPT !.steady = FALSE,
                     !.shifted = IF \E x \in rows : x > k THEN local.shifted + 1
                                 ELSE local.shifted]
    /\ UNCHANGED pc

Delete(k) ==
    /\ k \in rows
    /\ rows' = rows \ {k}
    /\ local' = [local EXCEPT !.steady = FALSE, !.always = local.always \ {k},
                              !.deleted = local.deleted + 1]
    /\ UNCHANGED <<born, roles, pc>>

\* A role is deleted and its assignments stay.
DeleteRole(k) ==
    /\ k \in roles
    /\ roles' = roles \ {k}
    /\ local' = [local EXCEPT !.steady = FALSE]
    /\ UNCHANGED <<rows, born, pc>>

-----------------------------------------------------------------------------
Init ==
    /\ rows \in SUBSET Keys /\ born = rows /\ roles = rows
    /\ pc = "idle" /\ local = Blank

Operation ==
    \/ Begin("listAll", 1, 1)
    \/ \E op \in {"findMany", "getUserRoles"}, page \in Pages, take \in Takes : Begin(op, page, take)
Reader == ReadPage \/ ReadList \/ Count \/ LoadRoles \/ Fail \/ Finish
Others == \E k \in Keys : Insert(k) \/ Delete(k) \/ DeleteRole(k)
Next == Operation \/ Reader \/ Others

Spec == Init /\ [][Next]_vars
\* Each call is answered or fails.
Fairness == WF_vars(Reader)
FairSpec == Spec /\ Fairness

-----------------------------------------------------------------------------
(* Properties *)

\* The types of the tables and of what the reader has got.
TypeOK ==
    /\ rows \subseteq born /\ roles \subseteq born /\ born \subseteq Keys
    /\ pc \in {"idle", "page", "list", "count", "roles", "done"}
    /\ local.got \in Seq(Keys) /\ local.always \subseteq rows

\* listAll misses at most as many of the rows that were there all the time as
\* rows were deleted meanwhile: each deletion moves at most one row from a page
\* to come to one that has been read.  Insertions make it miss none.
MissesOnlyForDeletions ==
    pc = "done" /\ local.op = "listAll" =>
        Cardinality(local.always \ Range(local.got)) <= local.deleted

\* listAll repeats at most as many rows as were inserted before others: with the
\* order of ids, in which new rows come last, it repeats none.
RepeatsOnlyForInsertions ==
    pc = "done" /\ local.op = "listAll" =>
        Len(local.got) - Cardinality(Range(local.got)) <= local.shifted

\* Without changes meanwhile, the metadata of a page are those of the table: the
\* pages up to pageCount are those with rows, and hasNextPage says whether rows
\* come after those of this page and of the pages before it.
MetaOfSteadyTable ==
    pc = "done" /\ local.op # "listAll" /\ local.steady =>
        /\ \A p \in 1 .. Cardinality(rows) + 1 :
              p <= local.meta.pageCount <=> list(local.take, skip(p, local.take)) # <<>>
        /\ local.meta.hasNextPage <=> \E k \in rows :
              \A p \in 1 .. local.page : k \notin Range(list(local.take, skip(p, local.take)))

\* listAll ends, though every full page is followed by another call, as long as
\* no more rows than Keys are inserted.
ListingEnds == pc = "page" ~> pc # "page"

\* "Use this ... whenever a lookup must not miss records": rows that are there
\* all the time are listed.
MissesNone == pc = "done" /\ local.op = "listAll" => local.always \subseteq Range(local.got)
=============================================================================
