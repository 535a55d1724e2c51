------------------------------ MODULE BookShop ------------------------------
(***************************************************************************)
(* The server of the example application: accounts, books, authors and      *)
(* favorites over NocoDB tables.  It looks before it writes, with other     *)
(* requests between the two; what the tables declare depends on how they    *)
(* were set up: by 01-create-tables.sql, or by setup.ts, which declares     *)
(* neither foreign keys nor unique favorites.                               *)
(* Reads of authors and of lists of users show nothing that matters here.   *)
(*                                                                          *)
(* pc names the NocoDB call a request awaits, and an action is one call and *)
(* the code up to the next.  NocoDB enforces what its tables declare.       *)
(***************************************************************************)
EXTENDS Naturals

CONSTANTS Requests,
          Sample,       \* initial users: ids and roles
          FirstBooks,   \* initial books: ids and rows
          FirstAuthors, \* initial authors: ids
          Schema,       \* "sql" or "api": which setup made the tables
          Ops,          \* the operations that clients call
          Users, Books, Authors, Favorites, \* ids the tables may give
          Accounts,     \* names, mails and passwords of those who register
          UserChanges, BookChanges, \* what updates set
          None

\* What the schema and the data transfer objects allow of rows and changes; ids
\* are numbers, and None is none of the values.
UserFields == {"name", "mail", "password"}
BookFields == {"author", "dear"}
ASSUME BookShopAssumption ==
    /\ Users \subseteq Nat /\ Books \subseteq Nat /\ Authors \subseteq Nat /\ Favorites \subseteq Nat
    /\ DOMAIN Sample \subseteq Users /\ DOMAIN FirstBooks \subseteq Books /\ FirstAuthors \subseteq Authors
    /\ \A b \in DOMAIN FirstBooks : /\ DOMAIN FirstBooks[b] = BookFields
                                   /\ FirstBooks[b].author \in FirstAuthors \cup {None}
    /\ \A a \in Accounts : DOMAIN a = UserFields
    /\ \A c \in UserChanges : DOMAIN c \subseteq UserFields
    /\ \A c \in Accounts \cup UserChanges : \A f \in DOMAIN c : c[f] # None
    /\ \A c \in BookChanges : DOMAIN c \subseteq BookFields
    /\ None \notin Users /\ None \notin {"old", "new"}

VARIABLES users, books, authors, favorites, \* the tables
          asked,   \* history: what each user's row has been set to, by field
          pc, local, \* control state and locals of requests
          answer   \* history: the answer of the last step, if it gave one, and what it shows

tables == <<users, books, authors, favorites, asked>>
vars == <<tables, pc, local, answer>>

\* A token is valid whether or not its user still exists.
Role(u) == IF u \in DOMAIN Sample THEN Sample[u] ELSE "user"
EverUsers == DOMAIN asked

\* What a request is asked, and what it has read so far.
Asking(op, by, target, change, password) ==
    [op |-> op, by |-> by, target |-> target, change |-> change, password |-> password,
     row |-> None, favorite |-> None, show |-> {}]
Blank == Asking(None, None, None, <<>>, None)
NoAnswer == [op |-> None, by |-> None, target |-> None, show |-> {}, saw |-> {},
             result |-> None]

Saw(table, id, dear) == [table |-> table, id |-> id, dear |-> dear]
SawUser(u) == {Saw("users", u, FALSE)}
SawBook(b, row) == {Saw("books", b, row.dear)}

\* AUTOINCREMENT
NewId(ids, rows) == {i \in ids : \A x \in rows : x < i}
Without(f, x) == [y \in DOMAIN f \ {x} |-> f[y]]
With(f, x, row) == [y \in DOMAIN f \cup {x} |-> IF y = x THEN row ELSE f[y]]
\* The fields of a change, and those of the row that it leaves.
Merged(change, row) ==
    [f \in DOMAIN change \cup DOMAIN row |-> IF f \in DOMAIN change THEN change[f] ELSE row[f]]

Goto(r, p, l) ==
    pc' = [pc EXCEPT ![r] = p] /\ local' = [local EXCEPT ![r] = l] /\ answer' = NoAnswer
Answered(r, l, result, saw) ==
    /\ pc' = [pc EXCEPT ![r] = "idle"] /\ local' = [local EXCEPT ![r] = Blank]
    /\ answer' = [op |-> l.op, by |-> l.by, target |-> l.target, show |-> l.show,
                  saw |-> saw, result |-> result]
Finish(r, result, saw) == Answered(r, local[r], result, saw)
Failed(r) ==
    /\ pc' = [pc EXCEPT ![r] = "idle"] /\ local' = [local EXCEPT ![r] = Blank]
    /\ answer' = NoAnswer /\ UNCHANGED tables

-----------------------------------------------------------------------------
(* What the tables declare *)

\* A slip: names are left to the look before the write.
TakenUnchecked(u, row) == FALSE

\* username and email are unique.
Taken(u, row) ==
    \E v \in DOMAIN users \ {u} : users[v].name = row.name \/ users[v].mail = row.mail

\* A slip: favorites need not be unique.
RefusedOnce(u, b) ==
    Schema = "sql" /\ (u \notin DOMAIN users \/ b \notin DOMAIN books)

\* UNIQUE(user_id, book_id) and the references of favorites.
Refused(u, b) ==
    /\ Schema = "sql"
    /\ \/ u \notin DOMAIN users \/ b \notin DOMAIN books
       \/ \E f \in favorites : f.user = u /\ f.book = b

\* A slip: the favorites of users, but not those of books, are cascaded.
CascadeUsers(u, b) == {f \in favorites : Schema = "sql" /\ f.user = u}

\* ON DELETE CASCADE
Cascade(u, b) == {f \in favorites : Schema = "sql" /\ (f.user = u \/ f.book = b)}

\* ON DELETE SET NULL
Orphaned(a) ==
    [b \in DOMAIN books |-> IF Schema = "sql" /\ books[b].author = a
                            THEN [books[b] EXCEPT !.author = None] ELSE books[b]]

-----------------------------------------------------------------------------
(* Access *)

All == {"admin", "user", "guest"}
Route(table, action, roles) == [table |-> table, action |-> action, roles |-> roles]
Routes ==
    [profile |-> Route("users", "read", All), password |-> Route("users", "update", All),
     user |-> Route("users", "read", {"admin", "user"}),
     editUser |-> Route("users", "update", {"admin", "user"}),
     deleteUser |-> Route("users", "delete", {"admin"}),
     favorites |-> Route("favorites", "read", {"admin", "user"}),
     addFavorite |-> Route("favorites", "create", {"admin", "user"}),
     removeFavorite |-> Route("favorites", "delete", {"admin", "user"}),
     books |-> Route("books", "read", All), book |-> Route("books", "read", All),
     createBook |-> Route("books", "create", {"admin"}),
     editBook |-> Route("books", "update", {"admin"}),
     deleteBook |-> Route("books", "delete", {"admin"}),
     createAuthor |-> Route("authors", "create", {"admin"}),
     deleteAuthor |-> Route("authors", "delete", {"admin"})]

\* The matrix of PermissionsGuard.
PERMISSIONS(role, table) ==
    IF role = "admin" THEN {"read", "create", "update", "delete"}
    ELSE IF table \in {"books", "authors"} THEN {"read"}
    ELSE IF role = "guest" THEN {}
    ELSE IF table = "users" THEN {"read", "update"} ELSE {"read", "create", "delete"}

\* PermissionsGuard: a user reads only its own row.
Permitted(role, op, by, target) ==
    /\ Routes[op].action \in PERMISSIONS(role, Routes[op].table)
    /\ ~(op = "user" /\ role = "user" /\ target # by)

\* A slip: only reading is limited to one's own row.
OwnReading(role, op, by, target) == op = "user" => role = "admin" \/ by = target

\* The check in UsersService.findOne and update.
Own(role, op, by, target) == op \in {"user", "editUser"} => role = "admin" \/ by = target

Public == {"register", "login"}
Allowed(op, by, target) ==
    op \in Public \/ /\ Role(by) \in Routes[op].roles
                     /\ Permitted(Role(by), op, by, target)
                     /\ Own(Role(by), op, by, target)

-----------------------------------------------------------------------------
(* Operations *)

FirstCall(op) ==
    CASE op \in Public -> "findUsers"
      [] op \in {"profile", "password", "user", "editUser", "deleteUser"} -> "findUser"
      [] op = "favorites" -> "listFavorites"
      [] op = "removeFavorite" -> "findFavorite"
      [] op = "books" -> "listBooks"
      [] op \in {"book", "addFavorite", "editBook", "deleteBook"} -> "findBook"
      [] op = "createBook" -> "writeBook"
      [] op = "deleteAuthor" -> "findAuthor"
      [] op = "createAuthor" -> "writeAuthor"

Start(r, op, by, target, change, password) ==
    /\ pc[r] = "idle"
    /\ LET l == Asking(op, by, target, change, password) IN
       IF Allowed(op, by, target) THEN Goto(r, FirstCall(op), l)
       ELSE Answered(r, l, "forbidden", {})
    /\ UNCHANGED tables

(* Accounts *)

\* register and validateUser look for the name or the mail.
FindUsers(r) ==
    /\ pc[r] = "findUsers"
    /\ LET l == local[r]
           found == {u \in DOMAIN users : users[u].name = l.change.name
                                          \/ users[u].mail = l.change.mail} IN
       IF l.op = "register"
       THEN IF found # {} THEN Failed(r)
            ELSE Goto(r, "createUser", l) /\ UNCHANGED tables
       ELSE \/ /\ found = {} /\ Failed(r)
            \/ \E u \in found :
                  IF users[u].password = l.change.password
                  THEN Finish(r, "ok", SawUser(u)) /\ UNCHANGED tables ELSE Failed(r)

CreateUser(r) ==
    /\ pc[r] = "createUser"
    /\ IF Taken(None, local[r].change) THEN Failed(r)
       ELSE /\ \E u \in NewId(Users, EverUsers) :
                  /\ users' = With(users, u, local[r].change)
                  /\ asked' = With(asked, u, local[r].change)
                  /\ Finish(r, "ok", SawUser(u))
            /\ UNCHANGED <<books, authors, favorites>>

\* findOne, with what follows it in findOne, update, delete, updatePassword
\* and getCurrentUser.
FindUser(r) ==
    /\ pc[r] = "findUser"
    /\ LET l == local[r] IN
       IF l.target \notin DOMAIN users
          \/ (l.op = "password" /\ users[l.target].password # l.password)
       THEN Failed(r)
       ELSE /\ IF l.op \in {"profile", "user"} THEN Finish(r, "ok", SawUser(l.target))
               ELSE Goto(r, "writeUser", [l EXCEPT !.row = users[l.target]])
            /\ UNCHANGED tables

\* A slip: the row that was read is written back whole.
WrittenWhole(l) == Merged(l.change, l.row)

\* A slip: the fields that are not given are cleared.
WrittenCleared(l) ==
    [f \in DOMAIN l.row |-> IF f \in DOMAIN l.change THEN l.change[f] ELSE None]

\* PATCH sets the fields it is given and leaves the others.
Written(l) == Merged(l.change, users[l.target])

WriteUser(r) ==
    /\ pc[r] = "writeUser"
    /\ LET l == local[r] IN
       IF l.target \notin DOMAIN users THEN Failed(r)
       ELSE IF l.op = "deleteUser"
       THEN /\ users' = Without(users, l.target)
            /\ favorites' = favorites \ Cascade(l.target, None)
            /\ Finish(r, "ok", {}) /\ UNCHANGED <<books, authors, asked>>
       ELSE IF Taken(l.target, Written(l)) THEN Failed(r)
       ELSE /\ users' = [users EXCEPT ![l.target] = Written(l)]
            /\ asked' = [asked EXCEPT ![l.target] = Merged(l.change, asked[l.target])]
            /\ Finish(r, "ok", SawUser(l.target)) /\ UNCHANGED <<books, authors, favorites>>

(* Books and authors *)

\* A slip: the price limit is for lists.
HiddenNever(by, row) == FALSE

\* BooksService.findOne hides what costs $10 or more from guests.
Hidden(by, row) == Role(by) = "guest" /\ row.dear

\* A failed look for the author leaves a book as it is, so that look is not a step.
FindBook(r) ==
    /\ pc[r] = "findBook"
    /\ LET l == local[r] IN
       IF l.target \notin DOMAIN books \/ (l.op = "book" /\ Hidden(l.by, books[l.target]))
       THEN Failed(r)
       ELSE /\ IF l.op = "book" THEN Finish(r, "ok", SawBook(l.target, books[l.target]))
               ELSE IF l.op = "addFavorite"
               THEN Goto(r, "findFavorite", [l EXCEPT !.row = books[l.target]])
               ELSE Goto(r, "writeBook", l)
            /\ UNCHANGED tables

\* create, update and delete of books.
WriteBook(r) ==
    /\ pc[r] = "writeBook"
    /\ LET l == local[r]
           missing == Schema = "sql" /\ "author" \in DOMAIN l.change
                      /\ l.change.author \notin authors \cup {None} IN
       IF (l.op # "createBook" /\ l.target \notin DOMAIN books) \/ missing THEN Failed(r)
       ELSE /\ CASE l.op = "deleteBook" ->
                      /\ books' = Without(books, l.target)
                      /\ favorites' = favorites \ Cascade(None, l.target)
                      /\ Finish(r, "ok", {})
                 [] l.op = "editBook" ->
                      /\ books' = [books EXCEPT ![l.target] = Merged(l.change, books[l.target])]
                      /\ Finish(r, "ok", SawBook(l.target, books'[l.target]))
                      /\ UNCHANGED favorites
                 [] l.op = "createBook" ->
                      /\ \E b \in NewId(Books, DOMAIN books) :
                            /\ books' = With(books, b, l.change)
                            /\ Finish(r, "ok", SawBook(b, l.change))
                      /\ UNCHANGED favorites
            /\ UNCHANGED <<users, authors, asked>>

\* The lists of BooksService and of books of an author: guests get those under
\* $10.  Which of these a filter and a page leave does not matter.
Listed(by) == IF Role(by) = "guest" THEN {b \in DOMAIN books : ~books[b].dear} ELSE DOMAIN books

ListBooks(r) ==
    /\ pc[r] = "listBooks"
    /\ Finish(r, "ok", UNION {SawBook(b, books[b]) : b \in Listed(local[r].by)})
    /\ UNCHANGED tables

FindAuthor(r) ==
    /\ pc[r] = "findAuthor"
    /\ IF local[r].target \in authors THEN Goto(r, "writeAuthor", local[r]) /\ UNCHANGED tables
       ELSE Failed(r)

WriteAuthor(r) ==
    /\ pc[r] = "writeAuthor"
    /\ LET l == local[r] IN
       IF l.op = "deleteAuthor"
       THEN IF l.target \notin authors THEN Failed(r)
            ELSE /\ authors' = authors \ {l.target} /\ books' = Orphaned(l.target)
                 /\ Finish(r, "ok", {}) /\ UNCHANGED <<users, favorites, asked>>
       ELSE /\ \E a \in NewId(Authors, authors) : authors' = authors \cup {a}
            /\ Finish(r, "ok", {}) /\ UNCHANGED <<users, books, favorites, asked>>

(* Favorites *)

Marked(u, b) == {f \in favorites : f.user = u /\ f.book = b}

\* addFavorite goes on when there is none, removeFavorite with the first found.
FindFavorite(r) ==
    /\ pc[r] = "findFavorite"
    /\ LET l == local[r]
           found == Marked(l.by, l.target) IN
       IF (l.op = "addFavorite") # (found = {}) THEN Failed(r)
       ELSE /\ IF l.op = "addFavorite" THEN Goto(r, "createFavorite", l)
               ELSE \E f \in found : Goto(r, "deleteFavorite", [l EXCEPT !.favorite = f])
            /\ UNCHANGED tables

\* The author is looked for after it; a failure of that is ignored.
CreateFavorite(r) ==
    /\ pc[r] = "createFavorite"
    /\ LET l == local[r] IN
       IF Refused(l.by, l.target) THEN Failed(r)
       ELSE /\ \E i \in NewId(Favorites, {f.id : f \in favorites}) :
                  favorites' = favorites \cup {[id |-> i, user |-> l.by, book |-> l.target]}
            /\ Finish(r, "ok", SawBook(l.target, l.row))
            /\ UNCHANGED <<users, books, authors, asked>>

DeleteFavorite(r) ==
    /\ pc[r] = "deleteFavorite"
    /\ IF local[r].favorite \notin favorites THEN Failed(r)
       ELSE /\ favorites' = favorites \ {local[r].favorite}
            /\ Finish(r, "ok", {}) /\ UNCHANGED <<users, books, authors, asked>>

\* getFavorites; each of the favorites is completed on its own.
ListFavorites(r) ==
    /\ pc[r] = "listFavorites"
    /\ LET entry(f) == [favorite |-> f, step |-> "book", row |-> None, shown |-> FALSE]
           show == {entry(f) : f \in {x \in favorites : x.user = local[r].by}} IN
       IF show = {} THEN Finish(r, "ok", {})
       ELSE Goto(r, "complete", [local[r] EXCEPT !.show = show])
    /\ UNCHANGED tables

\* A book without author is shown, one with an author only when that is found.
Completed(e) ==
    LET b == e.favorite.book IN
    IF e.step = "author"
    THEN [e EXCEPT !.step = "done", !.shown = e.row.author \in authors]
    ELSE IF b \notin DOMAIN books THEN [e EXCEPT !.step = "done"]
    ELSE IF books[b].author = None
    THEN [e EXCEPT !.step = "done", !.row = books[b], !.shown = TRUE]
    ELSE [e EXCEPT !.step = "author", !.row = books[b]]

Complete(r) ==
    /\ pc[r] = "complete"
    /\ \E e \in {x \in local[r].show : x.step # "done"} :
          LET show == (local[r].show \ {e}) \cup {Completed(e)} IN
          IF \A x \in show : x.step = "done"
          THEN Answered(r, [local[r] EXCEPT !.show = show], "ok",
                        UNION {SawBook(x.favorite.book, x.row) : x \in {y \in show : y.shown}})
          ELSE Goto(r, "complete", [local[r] EXCEPT !.show = show])
    /\ UNCHANGED tables

\* A call fails and the request with it.  A write that took effect and whose
\* answer is lost differs from it only for the client.
Fail(r) == pc[r] \notin {"idle", "complete"} /\ Failed(r)

-----------------------------------------------------------------------------
Init ==
    /\ users = [u \in DOMAIN Sample |-> [name |-> u, mail |-> u, password |-> "old"]]
    /\ asked = users
    /\ books = FirstBooks /\ authors = FirstAuthors /\ favorites = {}
    /\ pc = [r \in Requests |-> "idle"] /\ local = [r \in Requests |-> Blank]
    /\ answer = NoAnswer

Request(r, ops) ==
    \E op \in ops :
       IF op \in Public
       THEN \E a \in Accounts : Start(r, op, None, None, a, None)
       ELSE \E by \in EverUsers :
          \/ /\ op \in {"profile", "favorites", "books", "createAuthor"}
             /\ Start(r, op, by, by, <<>>, None)
          \/ /\ op = "password"
             /\ \E p \in {"old", "new"} : Start(r, op, by, by, [password |-> "new"], p)
          \/ /\ op \in {"user", "deleteUser"}
             /\ \E u \in EverUsers : Start(r, op, by, u, <<>>, None)
          \/ /\ op = "editUser"
             /\ \E u \in EverUsers, c \in UserChanges : Start(r, op, by, u, c, None)
          \/ /\ op \in {"book", "addFavorite", "removeFavorite", "deleteBook"}
             /\ \E b \in Books : Start(r, op, by, b, <<>>, None)
          \/ /\ op = "editBook"
             /\ \E b \in Books, c \in BookChanges : Start(r, op, by, b, c, None)
          \/ /\ op = "createBook"
             /\ \E c \in BookChanges : DOMAIN c = BookFields
                                       /\ Start(r, op, by, None, c, None)
          \/ /\ op = "deleteAuthor"
             /\ \E a \in Authors : Start(r, op, by, a, <<>>, None)

Step(r) ==
    \/ FindUsers(r) \/ CreateUser(r) \/ FindUser(r) \/ WriteUser(r)
    \/ FindBook(r) \/ WriteBook(r) \/ ListBooks(r) \/ FindAuthor(r) \/ WriteAuthor(r)
    \/ FindFavorite(r) \/ CreateFavorite(r) \/ DeleteFavorite(r)
    \/ ListFavorites(r) \/ Complete(r) \/ Fail(r)
Next == \E r \in Requests : Request(r, Ops) \/ Step(r)
Spec == Init /\ [][Next]_vars

-----------------------------------------------------------------------------
(* Properties *)

\* The types of the tables and of control.
TypeOK ==
    /\ DOMAIN users \subseteq EverUsers /\ EverUsers \subseteq Users
    /\ \A u \in DOMAIN users : /\ DOMAIN users[u] = UserFields
                             /\ \A f \in DOMAIN users[u] : users[u][f] # None
    /\ DOMAIN books \subseteq Books /\ authors \subseteq Authors
    /\ \A b \in DOMAIN books : DOMAIN books[b] = BookFields
    /\ \A f \in favorites : f.id \in Favorites

\* No two users have the same name or mail, whoever registers or renames at the
\* same time: what decides is the unique columns, and not the look before.
NamesUnique ==
    \A u, v \in DOMAIN users :
        u # v => users[u].name # users[v].name /\ users[u].mail # users[v].mail

\* An update leaves what others have set meanwhile in other fields: each field
\* of a user is what it was last set to, by a password change or an update.
UpdatesKept == \A u \in DOMAIN users : users[u] = asked[u]

\* The table of users stays what its users asked for, however looks and writes
\* of several requests interleave.
UsersSound == NamesUnique /\ UpdatesKept

\* Guests are shown no book that cost $10 or more when it was read, whichever
\* of the routes gives it.
GuestsSeeCheapBooks ==
    answer.by \in EverUsers /\ Role(answer.by) = "guest" => \A x \in answer.saw : ~x.dear

\* Who is not an admin is shown, in answers to reads and updates, no other user.
OwnDataOnly ==
    answer.by \in EverUsers /\ Role(answer.by) # "admin" =>
        \A x \in answer.saw : x.table = "users" => x.id = answer.by

\* Nobody is shown what is for others, though roles are checked by one layer and
\* owners and prices by another, and rows change in between.
VisibleOnly == OwnDataOnly /\ GuestsSeeCheapBooks

\* A book is at most once among the favorites of a user, though addFavorite
\* looks and creates in two calls.
OneFavoriteEach == \A f, g \in favorites : f.user = g.user /\ f.book = g.book => f = g

\* Favorites refer to users and books, and books to authors, that exist, though
\* any of them is deleted between a look and a write, or by a user with a token
\* of a deleted user.
NoOrphans ==
    /\ \A f \in favorites : f.user \in DOMAIN users /\ f.book \in DOMAIN books
    /\ \A b \in DOMAIN books : books[b].author \in authors \cup {None}

\* The tables stay whole while requests look and write in two calls.
FavoritesSound == TypeOK /\ NoOrphans /\ OneFavoriteEach

\* Each favorite whose book is found is shown with it (violated).
FavoritesShowTheirBooks ==
    \A e \in answer.show : e.row # None => e.shown

\* A role that a route lists is not refused, but for the rows of others
\* (violated: the service decides anew).
ListedRolesServed ==
    answer.result = "forbidden" =>
        ~(Role(answer.by) \in Routes[answer.op].roles /\ answer.target = answer.by)
=============================================================================
