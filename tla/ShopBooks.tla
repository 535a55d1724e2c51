------------------------------ MODULE ShopBooks -----------------------------
(***************************************************************************)
(* The store of books in the frontend of the example, which all pages      *)
(* share: each fetch replaces its list, whichever page or filter it was     *)
(* for, and what is created, changed and deleted is put into it as it is.   *)
(* A call is sent, takes effect at the server, and is answered; calls       *)
(* overtake each other, and fail before or after their effect.              *)
(*                                                                          *)
(* A page of the list holds all books that there are; Paging models pages.  *)
(* A book is an id and a version.  No view uses the operations on single    *)
(* books yet: they are called at any time.                                  *)
(***************************************************************************)
EXTENDS Integers, Sequences, FiniteSets, SequencesExt

CONSTANTS Books,      \* ids that the table may give
          MaxVersion, \* bound on the changes of a book
          First,      \* those that initial books may have
          Narrow,     \* books within the custom range of prices
          Found,      \* books that the text is found in
          ByAuthor,   \* books of the author
          Guest,      \* whether a guest is signed in
          Ops,        \* the operations that are called
          Views, Filters, \* the pages opened, and what is entered
          MaxTotal,   \* bound on the total that operations begin with
          Calls, None

ShopBooksAssumption ==
    /\ IsFiniteSet(Books) /\ Books \subseteq Nat /\ First \subseteq Books
    /\ Ops \subseteq {"get", "create", "update", "delete"}
    /\ Filters \subseteq [text : BOOLEAN, range : BOOLEAN, author : {FALSE}]
    /\ None \notin Nat \cup {"shown"} /\ None \notin [id : Books, version : Nat]

VARIABLES rows,    \* the versions of the books at the server, None when deleted
          view,    \* the page, and
          filter,  \* what is entered in the fields of the page of books
          books, total, current, loading, \* the store
          calls,
          latest,  \* history: the last fetch of a list, with its filter, and what came of it
          sure     \* history: calls never overlapped, and none failed after its effect

store == <<books, total, current, loading>>
vars == <<rows, view, filter, store, calls, latest, sure>>

Everything == [text |-> FALSE, range |-> FALSE, author |-> FALSE]

Free == [kind |-> "free", id |-> None, query |-> Everything, result |-> None]
InFlight(c) == calls[c].kind # "free"
Idle == \A c \in Calls : ~InFlight(c)
There == {b \in DOMAIN rows : rows[b] # None}
Row(b) == [id |-> b, version |-> rows[b]]

-----------------------------------------------------------------------------
(* The pages *)

\* The endpoint that the page of books chooses: the range wins over the text.
Query(f) ==
    IF f.range /\ ~Guest THEN [Everything EXCEPT !.range = TRUE]
    ELSE [Everything EXCEPT !.text = f.text]

Matches(b, q) == /\ q.text => b \in Found
                 /\ q.range => b \in Narrow
                 /\ q.author => b \in ByAuthor
Hits(q) == {b \in There : Matches(b, q)}

\* Each operation of the store starts so.
Send(c, kind, id, query) ==
    /\ ~InFlight(c) /\ loading' = TRUE
    /\ calls' = [calls EXCEPT ![c] = [kind |-> kind, id |-> id, query |-> query, result |-> None]]
    /\ sure' = (sure /\ Idle) /\ UNCHANGED <<rows, books, total, current>>

Fetch(c, query) ==
    /\ Send(c, "list", None, query)
    /\ latest' = [call |-> c, query |-> query, came |-> None]

\* A slip: only the text is watched.
EnterText(c, f) ==
    /\ view = "books" /\ f # filter /\ filter' = f /\ UNCHANGED view
    /\ IF f.text # filter.text THEN Fetch(c, Query(f))
       ELSE UNCHANGED <<rows, store, calls, latest, sure>>

\* The page fetches again whenever one of its fields has changed.
Enter(c, f) ==
    view = "books" /\ f # filter /\ filter' = f /\ Fetch(c, Query(f)) /\ UNCHANGED view

\* Opening the page of books, or the first page, which shows some of them.
Open(c, v) ==
    v \in Views \ {"authors"} /\ view' = v /\ filter' = Everything /\ Fetch(c, Everything)

\* The page of authors, and its button that fetches the books of an author.
OpenAuthors ==
    /\ "authors" \in Views /\ view' = "authors"
    /\ UNCHANGED <<rows, filter, store, calls, latest, sure>>
ViewAuthorBooks(c) ==
    /\ view = "authors" /\ Fetch(c, [Everything EXCEPT !.author = TRUE])
    /\ UNCHANGED <<view, filter>>

Change(c, kind, b) ==
    /\ kind \in Ops /\ (kind = "create" <=> b = None) /\ total \in 0 .. MaxTotal
    /\ Send(c, kind, b, Everything) /\ UNCHANGED <<view, filter, latest>>

-----------------------------------------------------------------------------
(* The server *)

\* AUTOINCREMENT: an id that no book had before
New == {b \in Books \ First : \A d \in DOMAIN rows : d < b}
Added(n) == [b \in DOMAIN rows \cup {n} |-> IF b = n THEN 0 ELSE rows[b]]
Effect(c, f, result) ==
    rows' = f /\ calls' = [calls EXCEPT ![c].result = result]

\* Lists are in some order, the same for the same books; the views ask for that
\* of titles.
Serve(c) ==
    /\ InFlight(c) /\ calls[c].result = None
    /\ LET b == calls[c].id
           hits == SetToSeq(Hits(calls[c].query)) IN
       CASE calls[c].kind = "list" -> Effect(c, rows, [i \in DOMAIN hits |-> Row(hits[i])])
         [] calls[c].kind = "get" -> b \in There /\ Effect(c, rows, Row(b))
         [] calls[c].kind = "create" ->
              \E n \in New : Effect(c, Added(n), [id |-> n, version |-> 0])
         [] calls[c].kind = "update" ->
              /\ b \in There /\ rows[b] < MaxVersion
              /\ Effect(c, [rows EXCEPT ![b] = @ + 1], [id |-> b, version |-> rows[b] + 1])
         [] calls[c].kind = "delete" ->
              b \in There /\ Effect(c, [rows EXCEPT ![b] = None], [id |-> b, version |-> 0])
    /\ UNCHANGED <<view, filter, store, latest, sure>>

-----------------------------------------------------------------------------
(* The store *)

\* A slip: the list keeps what is deleted.
WithoutNone(s, b) == s

\* The others, one after the other.
Without(s, b) ==
    LET kept == {i \in DOMAIN s : s[i].id # b}
        place == CHOOSE f \in [1 .. Cardinality(kept) -> kept] :
                    \A i, j \in DOMAIN f : i < j => f[i] < f[j]
    IN  [i \in DOMAIN place |-> s[place[i]]]

\* findIndex: the first that has the id.
With(s, row) ==
    [i \in DOMAIN s |-> IF s[i].id = row.id /\ \A j \in 1 .. i - 1 : s[j].id # row.id
                        THEN row ELSE s[i]]

\* A slip: the single book stays as it was read.
CurrentKept(id, row) == current

\* The single book, if it is the one that a row is for.
Current(id, row) == IF current # None /\ current.id = id THEN row ELSE current

\* What an operation does with its answer.
Receive(c) ==
    /\ InFlight(c) /\ calls[c].result # None
    /\ LET a == calls[c].result IN
       CASE calls[c].kind = "list" -> books' = a /\ total' = Len(a) /\ UNCHANGED current
         [] calls[c].kind = "get" -> current' = a /\ UNCHANGED <<books, total>>
         [] calls[c].kind = "create" ->
              books' = <<a>> \o books /\ total' = total + 1 /\ UNCHANGED current
         [] calls[c].kind = "update" ->
              /\ books' = With(books, a) /\ current' = Current(a.id, a)
              /\ UNCHANGED total
         [] calls[c].kind = "delete" ->
              /\ books' = Without(books, a.id) /\ total' = total - 1
              /\ current' = Current(a.id, None)
    /\ loading' = FALSE /\ calls' = [calls EXCEPT ![c] = Free]
    /\ latest' = IF calls[c].kind # "list" THEN latest
                 ELSE IF latest.call = c THEN [latest EXCEPT !.came = "shown"]
                 ELSE IF latest.came = "shown" THEN [latest EXCEPT !.came = "overtaken"]
                 ELSE latest
    /\ UNCHANGED <<rows, view, filter, sure>>

\* A slip: a failing operation leaves the page loading.
FailLoading(c) ==
    /\ InFlight(c) /\ calls' = [calls EXCEPT ![c] = Free]
    /\ latest' = IF calls[c].kind = "list" /\ latest.call = c
                 THEN [latest EXCEPT !.came = "failed"] ELSE latest
    /\ sure' = (sure /\ calls[c].result = None)
    /\ UNCHANGED <<rows, view, filter, store>>

\* No answer, before or after the effect.
Fail(c) ==
    /\ InFlight(c) /\ loading' = FALSE /\ calls' = [calls EXCEPT ![c] = Free]
    /\ latest' = IF calls[c].kind = "list" /\ latest.call = c
                 THEN [latest EXCEPT !.came = "failed"] ELSE latest
    /\ sure' = (sure /\ calls[c].result = None)
    /\ UNCHANGED <<rows, view, filter, books, total, current>>

-----------------------------------------------------------------------------
Init ==
    /\ rows \in {[b \in s |-> 0] : s \in SUBSET First} /\ view = None /\ filter = Everything
    /\ books = <<>> /\ total = 0 /\ current = None /\ loading = FALSE
    /\ calls = [c \in Calls |-> Free] /\ sure = TRUE
    /\ latest = [call |-> None, query |-> Everything, came |-> None]

Next ==
    \/ OpenAuthors
    \/ \E c \in Calls :
         \/ \E v \in Views : Open(c, v)
         \/ \E f \in Filters : Enter(c, f)
         \/ ViewAuthorBooks(c)
         \/ \E kind \in Ops, b \in DOMAIN rows \cup {None} : Change(c, kind, b)
         \/ Serve(c) \/ Receive(c) \/ Fail(c)
Spec == Init /\ [][Next]_vars

-----------------------------------------------------------------------------
(* Properties *)

Shown == {books[i] : i \in DOMAIN books}
ShownIds == {row.id : row \in Shown}

\* Only calls that are in flight make the store load.
LoadsWhileCalled == loading => ~Idle

\* As the table was to begin with.
Untouched == DOMAIN rows \subseteq First /\ \A b \in DOMAIN rows : rows[b] = 0

\* While no book is changed, the page of books shows what the text or the range
\* asks for, unless its last fetch failed or was overtaken: each change of a field
\* is fetched for.  The range is not for guests.
ShowsFilter ==
    /\ view = "books" /\ latest.came = "shown" /\ Untouched
    /\ ~(filter.range /\ (filter.text \/ Guest))
    => ShownIds = {b \in There : Matches(b, filter)}

\* The list is that of the server, in number and in rows, while operations follow
\* upon each other, whichever they are.
StoreIsServer ==
    sure /\ Idle /\ latest.came = "shown" /\ latest.query = Everything
        => /\ Shown = {Row(b) : b \in There}
           /\ Len(books) = Cardinality(Shown) /\ total = Len(books)

\* The single book is one of the server's, under the same condition.
CurrentIsServer == sure /\ Idle /\ current # None => current \in {Row(b) : b \in There}

\* All fields of the page narrow the list.
ShowsAllFilters ==
    view = "books" /\ latest.came = "shown" => \A b \in ShownIds : Matches(b, filter)

\* The list is that of the fields as they are, once all is answered.
ShowsLatest ==
    view = "books" /\ Idle /\ latest.came \in {"shown", "overtaken"}
        => \A b \in ShownIds : filter.range \/ Matches(b, filter)
=============================================================================
