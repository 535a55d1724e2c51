------------------------------ MODULE Records ------------------------------
(***************************************************************************)
(* What answers a GET of records: the access to the tables of users, in     *)
(* front of it the route cache, where a route uses it, and below them the   *)
(* reading of pages.  The three share no state; each has variables of its   *)
(* own here, and what is promised of them together is stated here.          *)
(***************************************************************************)
EXTENDS RecordAccess

CONSTANTS Readers, Urls,              \* of the route cache
          TTL, ReadTime,              \* its lifetime, and the time to read and answer
          Keys, PageSize, PageTakes, PageNumbers  \* of the reading of pages

VARIABLES responses, request, answer,             \* of the route cache
          listed, born, roles, reader, reading    \* of the reading of pages

Routes == INSTANCE RouteCache WITH
    Requests <- Readers, CallTime <- ReadTime, cache <- responses
Pages == INSTANCE Paging WITH
    Takes <- PageTakes, Pages <- PageNumbers, rows <- listed, pc <- reader, local <- reading

ASSUME RecordsAssumption == Routes!RouteCacheAssumption /\ Pages!PagingAssumption

\* Whatever the route cache keeps, and however often an entry is used, the answer
\* is what its URL would have given at most a lifetime and a call ago.
AnswersSound == Routes!TypeOK /\ Routes!AnswersFresh /\ Routes!AnswersOwnUrl

\* listAll misses no more of the rows that are there all the time than rows were
\* deleted meanwhile, and repeats no more than were inserted before others; the
\* metadata of a page are those of the table unless that changed.
ListingsBounded ==
    /\ Pages!TypeOK /\ Pages!MissesOnlyForDeletions /\ Pages!RepeatsOnlyForInsertions
    /\ Pages!MetaOfSteadyTable

\* Rows that are there all the time are listed (violated).
MissesNone == Pages!MissesNone
=============================================================================
