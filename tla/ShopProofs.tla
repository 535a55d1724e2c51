----------------------------- MODULE ShopProofs -----------------------------
(***************************************************************************)
(* Proofs about Shop, for any accounts, books, authors and changes, any     *)
(* number of requests to the server and of calls of the browser: the server *)
(* keeps names unique, favorites sound and updates apart, and shows nobody  *)
(* what is for others; the pages of the frontend match the session; the     *)
(* page of favorites shows what is saved while removals do not overlap; and *)
(* the lists of books are those of the server.                              *)
(***************************************************************************)
EXTENDS Shop, FiniteSetTheorems, SequenceTheorems, TLAPS

(* The server *)

Operations ==
    [findUsers |-> Public, createUser |-> {"register"},
     findUser |-> {"profile", "password", "user", "editUser", "deleteUser"},
     writeUser |-> {"password", "editUser", "deleteUser"},
     findBook |-> {"book", "addFavorite", "editBook", "deleteBook"},
     writeBook |-> {"createBook", "editBook", "deleteBook"}, listBooks |-> {"books"},
     findAuthor |-> {"deleteAuthor"}, writeAuthor |-> {"deleteAuthor", "createAuthor"},
     findFavorite |-> {"addFavorite", "removeFavorite"}, createFavorite |-> {"addFavorite"},
     deleteFavorite |-> {"removeFavorite"},
     listFavorites |-> {"favorites"}, complete |-> {"favorites"}]
Places ==
    {"findUsers", "createUser", "findUser", "writeUser", "findBook", "writeBook", "listBooks",
     "findAuthor", "writeAuthor", "findFavorite", "createFavorite", "deleteFavorite",
     "listFavorites", "complete"}

\* What l is as a record.
IsLocal(l) ==
    l = [op |-> l.op, by |-> l.by, target |-> l.target, change |-> l.change,
         password |-> l.password, row |-> l.row, favorite |-> l.favorite, show |-> l.show]

\* What an operation writes is what its data transfer object allows.
ChangeFits(l) ==
    /\ l.op = "register" => l.change \in Accounts
    /\ l.op = "password" => l.change = [password |-> "new"]
    /\ l.op = "editUser" => l.change \in UserChanges
    /\ l.op \in {"createBook", "editBook"} => l.change \in BookChanges
    /\ l.op = "createBook" => DOMAIN l.change = BookFields

\* A request at p has passed the layers that decide on its operation.
RequestFits(p, l) ==
    /\ IsLocal(l)
    /\ p # "idle" =>
         /\ p \in Places /\ l.op \in Operations[p]
         /\ Allowed(l.op, l.by, l.target) /\ ChangeFits(l)
         /\ l.op \in Public => l.by = None
         /\ l.op \in {"profile", "password"} => l.target = l.by

Control ==
    /\ DOMAIN pc = Requests /\ DOMAIN local = Requests
    /\ \A r \in Requests : RequestFits(pc[r], local[r])

\* What a user may be shown.
MaySee(by, saw) ==
    by # None => \A x \in saw : /\ Role(by) = "guest" => ~x.dear
                                /\ Role(by) # "admin" /\ x.table = "users" => x.id = by

Tables ==
    /\ TypeOK /\ NamesUnique /\ UpdatesKept
    /\ Schema = "sql" => NoOrphans /\ OneFavoriteEach

ServerInv == Control /\ MaySee(answer.by, answer.saw) /\ Tables

-----------------------------------------------------------------------------
(* The layers of decision *)

\* What a request is at the calls of its operation.
LEMMA OperationsAt ==
    /\ Operations["findUsers"] = Public /\ Operations["createUser"] = {"register"}
    /\ Operations["findUser"] = {"profile", "password", "user", "editUser", "deleteUser"}
    /\ Operations["writeUser"] = {"password", "editUser", "deleteUser"}
    /\ Operations["findBook"] = {"book", "addFavorite", "editBook", "deleteBook"}
    /\ Operations["writeBook"] = {"createBook", "editBook", "deleteBook"}
    /\ Operations["listBooks"] = {"books"} /\ Operations["findAuthor"] = {"deleteAuthor"}
    /\ Operations["writeAuthor"] = {"deleteAuthor", "createAuthor"}
    /\ Operations["findFavorite"] = {"addFavorite", "removeFavorite"}
    /\ Operations["createFavorite"] = {"addFavorite"}
    /\ Operations["deleteFavorite"] = {"removeFavorite"}
    /\ Operations["listFavorites"] = {"favorites"} /\ Operations["complete"] = {"favorites"}
BY DEF Operations

\* The routes of guests, and the users that who is not an administrator reaches.
LEMMA LayersDecide ==
    ASSUME NEW by, NEW target, NEW op, Allowed(op, by, target), op \notin Public
    PROVE  /\ op \in {"user", "editUser"} /\ Role(by) # "admin" => by = target
           /\ op \in {"favorites", "addFavorite", "removeFavorite", "createBook", "editBook",
                      "deleteBook"} => Role(by) # "guest"
<1>1. Role(by) \in Routes[op].roles
  BY DEF Allowed
<1>2. op \in {"user", "editUser"} /\ Role(by) # "admin" => by = target
  BY DEF Allowed, Own
<1>3. /\ Routes["favorites"].roles = {"admin", "user"}
      /\ Routes["addFavorite"].roles = {"admin", "user"}
      /\ Routes["removeFavorite"].roles = {"admin", "user"}
      /\ Routes["createBook"].roles = {"admin"} /\ Routes["editBook"].roles = {"admin"}
      /\ Routes["deleteBook"].roles = {"admin"}
  BY DEF Routes, Route
<1> QED BY <1>1, <1>2, <1>3

-----------------------------------------------------------------------------
(* Control, and what answers show *)

LEMMA BlankFits == RequestFits("idle", Blank)
BY DEF RequestFits, IsLocal, Blank, Asking

\* A request goes on to a place that its locals fit.
LEMMA Goes ==
    ASSUME Control, NEW r \in Requests, NEW p, NEW l, RequestFits(p, l), Goto(r, p, l)
    PROVE  Control' /\ MaySee(answer.by, answer.saw)'
BY DEF Control, Goto, NoAnswer, MaySee

\* A request is answered with what its user may see.
LEMMA Answers ==
    ASSUME Control, NEW r \in Requests, NEW l, NEW result, NEW saw, MaySee(l.by, saw),
           Answered(r, l, result, saw)
    PROVE  Control' /\ MaySee(answer.by, answer.saw)'
<1>1. answer'.by = l.by /\ answer'.saw = saw
  BY DEF Answered
<1>2. Control'
  BY BlankFits DEF Answered, Control
<1> QED BY <1>1, <1>2 DEF MaySee

LEMMA Finishes ==
    ASSUME Control, NEW r \in Requests, NEW result, NEW saw, MaySee(local[r].by, saw),
           Finish(r, result, saw)
    PROVE  Control' /\ MaySee(answer.by, answer.saw)'
BY Answers DEF Finish

LEMMA Fails ==
    ASSUME Control, NEW r \in Requests, Failed(r)
    PROVE  Control' /\ MaySee(answer.by, answer.saw)' /\ UNCHANGED tables
BY BlankFits DEF Failed, Control, NoAnswer, MaySee

LEMMA NothingSeen ==
    ASSUME NEW by
    PROVE  MaySee(by, {})
BY DEF MaySee

\* One's own row, and any row for an administrator.
LEMMA UserSeen ==
    ASSUME NEW by, NEW u, Role(by) # "admin" => u = by
    PROVE  MaySee(by, SawUser(u))
BY DEF MaySee, SawUser, Saw

\* A book, for who is not a guest.
LEMMA BookSeen ==
    ASSUME NEW by, NEW b, NEW row, Role(by) = "guest" => ~row.dear
    PROVE  MaySee(by, SawBook(b, row))
BY DEF MaySee, SawBook, Saw

\* A request that is not idle has passed the layers.
LEMMA UnderWay ==
    ASSUME Control, NEW r \in Requests, pc[r] # "idle"
    PROVE  /\ RequestFits(pc[r], local[r]) /\ IsLocal(local[r]) /\ ChangeFits(local[r])
           /\ local[r].op \in Operations[pc[r]]
           /\ Allowed(local[r].op, local[r].by, local[r].target)
           /\ local[r].op \in Public => local[r].by = None
           /\ local[r].op \in {"profile", "password"} => local[r].target = local[r].by
BY DEF Control, RequestFits

\* It goes on with its locals as they are, or with what it has read in them.
LEMMA KeepsFitting ==
    ASSUME NEW p, NEW q \in Places, NEW l, RequestFits(p, l), p # "idle", l.op \in Operations[q]
    PROVE  RequestFits(q, l)
BY DEF RequestFits, Places

LEMMA ReadsFitting ==
    ASSUME NEW p, NEW q \in Places, NEW l, RequestFits(p, l), p # "idle", l.op \in Operations[q],
           NEW k, IsLocal(k), k.op = l.op, k.by = l.by, k.target = l.target, k.change = l.change
    PROVE  RequestFits(q, k)
BY DEF RequestFits, ChangeFits, Places

\* What begins passes the layers, or is refused.
LEMMA StartControls ==
    ASSUME Control, NEW r \in Requests, NEW op, NEW by, NEW target, NEW change, NEW password,
           Start(r, op, by, target, change, password),
           FirstCall(op) \in Places, op \in Operations[FirstCall(op)],
           op \in Public => by = None, op \in {"profile", "password"} => target = by,
           op = "register" => change \in Accounts, op = "password" => change = [password |-> "new"],
           op = "editUser" => change \in UserChanges,
           op \in {"createBook", "editBook"} => change \in BookChanges,
           op = "createBook" => DOMAIN change = BookFields
    PROVE  Control' /\ MaySee(answer.by, answer.saw)' /\ UNCHANGED tables
<1> DEFINE l == Asking(op, by, target, change, password)
<1>1. /\ IsLocal(l) /\ l.op = op /\ l.by = by /\ l.target = target /\ l.change = change
  BY DEF Asking, IsLocal
<1>2. /\ IF Allowed(op, by, target) THEN Goto(r, FirstCall(op), l)
         ELSE Answered(r, l, "forbidden", {})
      /\ UNCHANGED tables
  BY DEF Start
<1> HIDE DEF l
<1>3. CASE Allowed(op, by, target)
  <2>1. ChangeFits(l)
    BY <1>1 DEF ChangeFits
  <2>2. RequestFits(FirstCall(op), l)
    BY <1>1, <1>3, <2>1 DEF RequestFits
  <2> QED BY <1>2, <1>3, <2>2, Goes
<1>4. CASE ~Allowed(op, by, target)
  BY <1>2, <1>4, Answers, NothingSeen
<1> QED BY <1>2, <1>3, <1>4

\* Where each operation begins.
LEMMA FirstCalls ==
    /\ \A op \in Public : FirstCall(op) = "findUsers"
    /\ \A op \in {"profile", "password", "user", "editUser", "deleteUser"} :
          FirstCall(op) = "findUser"
    /\ FirstCall("favorites") = "listFavorites" /\ FirstCall("removeFavorite") = "findFavorite"
    /\ FirstCall("books") = "listBooks"
    /\ \A op \in {"book", "addFavorite", "editBook", "deleteBook"} : FirstCall(op) = "findBook"
    /\ FirstCall("createBook") = "writeBook" /\ FirstCall("deleteAuthor") = "findAuthor"
    /\ FirstCall("createAuthor") = "writeAuthor"
BY DEF FirstCall, Public

LEMMA FirstCallFits ==
    ASSUME NEW op \in Public \cup {"profile", "password", "user", "editUser", "deleteUser",
              "favorites", "removeFavorite", "books", "book", "addFavorite", "editBook",
              "deleteBook", "createBook", "deleteAuthor", "createAuthor"}
    PROVE  FirstCall(op) \in Places /\ op \in Operations[FirstCall(op)]
<1>1. CASE op \in Public
  BY <1>1, FirstCalls, OperationsAt DEF Places
<1>2. CASE op \in {"profile", "password", "user", "editUser", "deleteUser"}
  BY <1>2, FirstCalls, OperationsAt DEF Places
<1>3. CASE op \in {"book", "addFavorite", "editBook", "deleteBook"}
  BY <1>3, FirstCalls, OperationsAt DEF Places
<1>4. CASE op \in {"favorites", "removeFavorite", "books"}
  BY <1>4, FirstCalls, OperationsAt DEF Places
<1>5. CASE op \in {"createBook", "deleteAuthor", "createAuthor"}
  BY <1>5, FirstCalls, OperationsAt DEF Places
<1> QED BY <1>1, <1>2, <1>3, <1>4, <1>5

LEMMA RequestControls ==
    ASSUME Control, NEW r \in Requests, Request(r, Ops)
    PROVE  Control' /\ MaySee(answer.by, answer.saw)' /\ UNCHANGED tables
<1> DEFINE Begun == Control' /\ MaySee(answer.by, answer.saw)' /\ UNCHANGED tables
<1>1. ASSUME NEW op \in Public, NEW a \in Accounts, Start(r, op, None, None, a, None)
      PROVE  Begun
  <2>1. op \notin {"profile", "password", "editUser", "createBook", "editBook"}
    BY DEF Public
  <2> QED BY <1>1, <2>1, FirstCallFits, StartControls
<1>2. ASSUME NEW by, NEW op \in {"profile", "favorites", "books", "createAuthor"},
             Start(r, op, by, by, <<>>, None)
      PROVE  Begun
  <2>1. op \notin Public \cup {"register", "password", "editUser", "createBook", "editBook"}
    BY DEF Public
  <2> QED BY <1>2, <2>1, FirstCallFits, StartControls
<1>3. ASSUME NEW by, NEW p, Start(r, "password", by, by, [password |-> "new"], p)
      PROVE  Begun
  <2>1. "password" \notin Public
    BY DEF Public
  <2> QED BY <1>3, <2>1, FirstCallFits, StartControls
<1>4. ASSUME NEW by, NEW t,
             NEW op \in {"user", "deleteUser", "book", "addFavorite", "removeFavorite",
                         "deleteBook", "deleteAuthor"},
             Start(r, op, by, t, <<>>, None)
      PROVE  Begun
  <2>1. op \notin Public \cup {"profile", "register", "password", "editUser", "createBook",
                               "editBook"}
    BY DEF Public
  <2> QED BY <1>4, <2>1, FirstCallFits, StartControls
<1>5. ASSUME NEW by, NEW u, NEW c \in UserChanges, Start(r, "editUser", by, u, c, None)
      PROVE  Begun
  <2>1. "editUser" \notin Public
    BY DEF Public
  <2> QED BY <1>5, <2>1, FirstCallFits, StartControls
<1>6. ASSUME NEW by, NEW b, NEW c \in BookChanges, Start(r, "editBook", by, b, c, None)
      PROVE  Begun
  <2>1. "editBook" \notin Public
    BY DEF Public
  <2> QED BY <1>6, <2>1, FirstCallFits, StartControls
<1>7. ASSUME NEW by, NEW c \in BookChanges, DOMAIN c = BookFields,
             Start(r, "createBook", by, None, c, None)
      PROVE  Begun
  <2>1. "createBook" \notin Public
    BY DEF Public
  <2> QED BY <1>7, <2>1, FirstCallFits, StartControls
<1> HIDE DEF Begun
<1>8. Begun
  BY <1>1, <1>2, <1>3, <1>4, <1>5, <1>6, <1>7 DEF Request
<1> QED BY <1>8 DEF Begun

\* Every place but the first of its operation is reached by one before it.
LEMMA FindUsersControls ==
    ASSUME Control, NEW r \in Requests, FindUsers(r)
    PROVE  Control' /\ MaySee(answer.by, answer.saw)' /\ UNCHANGED tables
<1>1. /\ pc[r] = "findUsers" /\ RequestFits(pc[r], local[r]) /\ local[r].by = None
  BY UnderWay, OperationsAt DEF FindUsers
<1>2. CASE Failed(r)
  BY <1>2, Fails
<1>3. CASE local[r].op = "register" /\ Goto(r, "createUser", local[r]) /\ UNCHANGED tables
  <2>1. "createUser" \in Places /\ local[r].op \in Operations["createUser"]
    BY <1>3, OperationsAt DEF Places
  <2>2. RequestFits("createUser", local[r])
    BY <1>1, <2>1, KeepsFitting
  <2> QED BY <1>3, <2>2, Goes
<1>4. ASSUME NEW u, Finish(r, "ok", SawUser(u)), UNCHANGED tables
      PROVE  Control' /\ MaySee(answer.by, answer.saw)' /\ UNCHANGED tables
  <2>1. MaySee(local[r].by, SawUser(u))
    BY <1>1 DEF MaySee
  <2> QED BY <1>4, <2>1, Finishes
<1> QED BY <1>2, <1>3, <1>4 DEF FindUsers

LEMMA FindUserControls ==
    ASSUME Control, NEW r \in Requests, FindUser(r)
    PROVE  Control' /\ MaySee(answer.by, answer.saw)' /\ UNCHANGED tables
<1> DEFINE l == local[r]
<1>1. /\ pc[r] = "findUser" /\ RequestFits(pc[r], l) /\ l.op \in Operations["findUser"]
      /\ Allowed(l.op, l.by, l.target) /\ (l.op = "profile" => l.target = l.by)
  BY UnderWay DEF FindUser
<1>2. CASE Failed(r)
  BY <1>2, Fails
<1>3. CASE l.op \in {"profile", "user"} /\ Finish(r, "ok", SawUser(l.target)) /\ UNCHANGED tables
  <2>1. Role(l.by) # "admin" => l.by = l.target
    BY <1>1, <1>3, LayersDecide DEF Public
  <2> QED BY <1>3, <2>1, UserSeen, Finishes
<1>4. CASE /\ l.op \notin {"profile", "user"} /\ UNCHANGED tables
           /\ Goto(r, "writeUser", [l EXCEPT !.row = users[l.target]])
  <2>1. "writeUser" \in Places
    BY DEF Places
  <2>2. l.op = "user" \/ l.op = "profile" \/ l.op \in Operations["writeUser"]
    BY <1>1, OperationsAt
  <2> DEFINE k == [l EXCEPT !.row = users[l.target]]
  <2>3. IsLocal(k) /\ k.op = l.op /\ k.by = l.by /\ k.target = l.target /\ k.change = l.change
    BY <1>1 DEF RequestFits, IsLocal
  <2>4. Goto(r, "writeUser", k)
    BY <1>4
  <2> HIDE DEF k
  <2>5. RequestFits("writeUser", k)
    BY <1>1, <1>4, <2>1, <2>2, <2>3, ReadsFitting
  <2> QED BY <1>4, <2>4, <2>5, Goes
<1> QED BY <1>2, <1>3, <1>4 DEF FindUser

LEMMA FindBookControls ==
    ASSUME Control, NEW r \in Requests, FindBook(r)
    PROVE  Control' /\ MaySee(answer.by, answer.saw)' /\ UNCHANGED tables
<1> DEFINE l == local[r]
<1>1. /\ pc[r] = "findBook" /\ RequestFits(pc[r], l)
      /\ l.op \in {"book", "addFavorite", "editBook", "deleteBook"}
  BY UnderWay, OperationsAt DEF FindBook
<1>2. CASE Failed(r)
  BY <1>2, Fails
<1>3. CASE /\ ~Hidden(l.by, books[l.target]) /\ UNCHANGED tables
           /\ Finish(r, "ok", SawBook(l.target, books[l.target]))
  <2>1. Role(l.by) = "guest" => ~books[l.target].dear
    BY <1>3 DEF Hidden
  <2> QED BY <1>3, <2>1, BookSeen, Finishes
<1>4. CASE /\ l.op = "addFavorite" /\ UNCHANGED tables
           /\ Goto(r, "findFavorite", [l EXCEPT !.row = books[l.target]])
  <2>1. "findFavorite" \in Places /\ l.op \in Operations["findFavorite"]
    BY <1>4, OperationsAt DEF Places
  <2> DEFINE k == [l EXCEPT !.row = books[l.target]]
  <2>2. IsLocal(k) /\ k.op = l.op /\ k.by = l.by /\ k.target = l.target /\ k.change = l.change
    BY <1>1 DEF RequestFits, IsLocal
  <2>3. Goto(r, "findFavorite", k)
    BY <1>4
  <2> HIDE DEF k
  <2>4. RequestFits("findFavorite", k)
    BY <1>1, <2>1, <2>2, ReadsFitting
  <2> QED BY <1>4, <2>3, <2>4, Goes
<1>5. CASE l.op \in {"editBook", "deleteBook"} /\ Goto(r, "writeBook", l) /\ UNCHANGED tables
  <2>1. "writeBook" \in Places /\ l.op \in Operations["writeBook"]
    BY <1>5, OperationsAt DEF Places
  <2>2. RequestFits("writeBook", l)
    BY <1>1, <2>1, KeepsFitting
  <2> QED BY <1>5, <2>2, Goes
<1> QED BY <1>1, <1>2, <1>3, <1>4, <1>5 DEF FindBook

LEMMA ListBooksControls ==
    ASSUME Control, NEW r \in Requests, ListBooks(r)
    PROVE  Control' /\ MaySee(answer.by, answer.saw)' /\ UNCHANGED tables
<1> DEFINE by == local[r].by
           saw == UNION {SawBook(b, books[b]) : b \in Listed(by)}
<1>1. \A b \in Listed(by) : Role(by) = "guest" => ~books[b].dear
  BY DEF Listed
<1>2. \A b \in Listed(by) : MaySee(by, SawBook(b, books[b]))
  BY <1>1, BookSeen
<1>3. MaySee(by, saw)
  BY <1>2 DEF MaySee
<1> QED BY <1>3, Finishes DEF ListBooks

LEMMA FindAuthorControls ==
    ASSUME Control, NEW r \in Requests, FindAuthor(r)
    PROVE  Control' /\ MaySee(answer.by, answer.saw)' /\ UNCHANGED tables
<1>1. /\ pc[r] = "findAuthor" /\ RequestFits(pc[r], local[r]) /\ local[r].op = "deleteAuthor"
  BY UnderWay, OperationsAt DEF FindAuthor
<1>2. "writeAuthor" \in Places /\ local[r].op \in Operations["writeAuthor"]
  BY <1>1, OperationsAt DEF Places
<1>3. RequestFits("writeAuthor", local[r])
  BY <1>1, <1>2, KeepsFitting
<1> QED BY <1>3, Goes, Fails DEF FindAuthor

LEMMA FindFavoriteControls ==
    ASSUME Control, NEW r \in Requests, FindFavorite(r)
    PROVE  Control' /\ MaySee(answer.by, answer.saw)' /\ UNCHANGED tables
<1> DEFINE l == local[r]
<1>1. /\ pc[r] = "findFavorite" /\ RequestFits(pc[r], l)
      /\ l.op \in {"addFavorite", "removeFavorite"}
  BY UnderWay, OperationsAt DEF FindFavorite
<1>2. CASE Failed(r)
  BY <1>2, Fails
<1>3. CASE l.op = "addFavorite" /\ Goto(r, "createFavorite", l) /\ UNCHANGED tables
  <2>1. "createFavorite" \in Places /\ l.op \in Operations["createFavorite"]
    BY <1>3, OperationsAt DEF Places
  <2>2. RequestFits("createFavorite", l)
    BY <1>1, <2>1, KeepsFitting
  <2> QED BY <1>3, <2>2, Goes
<1>4. ASSUME NEW f, l.op = "removeFavorite", UNCHANGED tables,
             Goto(r, "deleteFavorite", [l EXCEPT !.favorite = f])
      PROVE  Control' /\ MaySee(answer.by, answer.saw)' /\ UNCHANGED tables
  <2>1. "deleteFavorite" \in Places /\ l.op \in Operations["deleteFavorite"]
    BY <1>4, OperationsAt DEF Places
  <2> DEFINE k == [l EXCEPT !.favorite = f]
  <2>2. IsLocal(k) /\ k.op = l.op /\ k.by = l.by /\ k.target = l.target /\ k.change = l.change
    BY <1>1 DEF RequestFits, IsLocal
  <2>3. Goto(r, "deleteFavorite", k)
    BY <1>4
  <2> HIDE DEF k
  <2>4. RequestFits("deleteFavorite", k)
    BY <1>1, <2>1, <2>2, ReadsFitting
  <2> QED BY <1>4, <2>3, <2>4, Goes
<1> QED BY <1>1, <1>2, <1>3, <1>4 DEF FindFavorite

LEMMA ListFavoritesControls ==
    ASSUME Control, NEW r \in Requests, ListFavorites(r)
    PROVE  Control' /\ MaySee(answer.by, answer.saw)' /\ UNCHANGED tables
<1>1. /\ pc[r] = "listFavorites" /\ RequestFits(pc[r], local[r]) /\ UNCHANGED tables
      /\ local[r].op \in Operations["complete"]
  BY UnderWay, OperationsAt DEF ListFavorites
<1>2. CASE Finish(r, "ok", {})
  BY <1>1, <1>2, NothingSeen, Finishes
<1>3. ASSUME NEW show, Goto(r, "complete", [local[r] EXCEPT !.show = show])
      PROVE  Control' /\ MaySee(answer.by, answer.saw)'
  <2> DEFINE k == [local[r] EXCEPT !.show = show]
             l == local[r]
  <2>1. IsLocal(k) /\ k.op = l.op /\ k.by = l.by /\ k.target = l.target /\ k.change = l.change
    BY <1>1 DEF RequestFits, IsLocal
  <2>2. Goto(r, "complete", k) /\ "complete" \in Places
    BY <1>3 DEF Places
  <2> HIDE DEF k
  <2>3. RequestFits("complete", k)
    BY <1>1, <2>1, <2>2, ReadsFitting
  <2> QED BY <2>2, <2>3, Goes
<1> QED BY <1>1, <1>2, <1>3 DEF ListFavorites

LEMMA CompleteControls ==
    ASSUME Control, NEW r \in Requests, Complete(r)
    PROVE  Control' /\ MaySee(answer.by, answer.saw)' /\ UNCHANGED tables
<1>1. /\ pc[r] = "complete" /\ RequestFits(pc[r], local[r]) /\ UNCHANGED tables
      /\ local[r].op \in Operations["complete"] /\ local[r].op = "favorites"
      /\ Allowed(local[r].op, local[r].by, local[r].target)
  BY UnderWay, OperationsAt DEF Complete
<1>2. Role(local[r].by) # "guest"
  BY <1>1, LayersDecide DEF Public
<1>3. ASSUME NEW show, NEW saw, Answered(r, [local[r] EXCEPT !.show = show], "ok", saw),
             \E S : saw = UNION {SawBook(x.favorite.book, x.row) : x \in S}
      PROVE  Control' /\ MaySee(answer.by, answer.saw)'
  <2> DEFINE k == [local[r] EXCEPT !.show = show]
  <2>1. k.by = local[r].by
    BY <1>1 DEF RequestFits, IsLocal
  <2>2. \A x \in saw : x.table = "books"
    BY <1>3 DEF SawBook, Saw
  <2>3. Answered(r, k, "ok", saw)
    BY <1>3
  <2> HIDE DEF k
  <2>4. MaySee(k.by, saw)
    BY <1>2, <2>1, <2>2 DEF MaySee
  <2> QED BY <2>3, <2>4, Answers
<1>4. ASSUME NEW show, Goto(r, "complete", [local[r] EXCEPT !.show = show])
      PROVE  Control' /\ MaySee(answer.by, answer.saw)'
  <2> DEFINE k == [local[r] EXCEPT !.show = show]
             l == local[r]
  <2>1. IsLocal(k) /\ k.op = l.op /\ k.by = l.by /\ k.target = l.target /\ k.change = l.change
    BY <1>1 DEF RequestFits, IsLocal
  <2>2. Goto(r, "complete", k) /\ "complete" \in Places
    BY <1>4 DEF Places
  <2> HIDE DEF k
  <2>3. RequestFits("complete", k)
    BY <1>1, <2>1, <2>2, ReadsFitting
  <2> QED BY <2>2, <2>3, Goes
<1>5. PICK e \in {x \in local[r].show : x.step # "done"} :
          LET show == (local[r].show \ {e}) \cup {Completed(e)} IN
          IF \A x \in show : x.step = "done"
          THEN Answered(r, [local[r] EXCEPT !.show = show], "ok",
                        UNION {SawBook(x.favorite.book, x.row) : x \in {y \in show : y.shown}})
          ELSE Goto(r, "complete", [local[r] EXCEPT !.show = show])
  BY DEF Complete
<1> DEFINE show == (local[r].show \ {e}) \cup {Completed(e)}
           S == {y \in show : y.shown}
           saw == UNION {SawBook(x.favorite.book, x.row) : x \in S}
<1>6. \/ Answered(r, [local[r] EXCEPT !.show = show], "ok", saw)
      \/ Goto(r, "complete", [local[r] EXCEPT !.show = show])
  BY <1>5
<1>7. \E T : saw = UNION {SawBook(x.favorite.book, x.row) : x \in T}
  OBVIOUS
<1> HIDE DEF show, S, saw
<1> QED BY <1>1, <1>3, <1>4, <1>6, <1>7

\* The requests that write, apart from what they write.
LEMMA WriteControls ==
    ASSUME Control, NEW r \in Requests,
           \/ CreateUser(r) \/ WriteUser(r) \/ WriteBook(r) \/ WriteAuthor(r)
           \/ CreateFavorite(r) \/ DeleteFavorite(r)
    PROVE  Control' /\ MaySee(answer.by, answer.saw)'
<1> DEFINE l == local[r]
           Fine == Control' /\ MaySee(answer.by, answer.saw)'
<1>1. CASE Failed(r)
  BY <1>1, Fails
<1>2. CASE Finish(r, "ok", {})
  BY <1>2, NothingSeen, Finishes
<1>3. ASSUME pc[r] = "createUser", NEW u, Finish(r, "ok", SawUser(u))
      PROVE  Fine
  <2>1. l.by = None
    BY <1>3, UnderWay, OperationsAt DEF Public
  <2>2. MaySee(l.by, SawUser(u))
    BY <2>1 DEF MaySee
  <2> QED BY <1>3, <2>2, Finishes
<1>4. ASSUME pc[r] = "writeUser", l.op # "deleteUser", Finish(r, "ok", SawUser(l.target))
      PROVE  Fine
  <2>1. /\ l.op \in {"password", "editUser"} /\ Allowed(l.op, l.by, l.target)
        /\ l.op = "password" => l.target = l.by
    BY <1>4, UnderWay, OperationsAt
  <2>2. Role(l.by) # "admin" => l.by = l.target
    BY <2>1, LayersDecide DEF Public
  <2> QED BY <1>4, <2>2, UserSeen, Finishes
<1>5. ASSUME pc[r] \in {"writeBook", "createFavorite"}, NEW b, NEW row,
             Finish(r, "ok", SawBook(b, row))
      PROVE  Fine
  <2>1. l.op \in {"addFavorite", "createBook", "editBook", "deleteBook"}
        /\ Allowed(l.op, l.by, l.target)
    BY <1>5, UnderWay, OperationsAt
  <2>2. Role(l.by) # "guest"
    BY <2>1, LayersDecide DEF Public
  <2> QED BY <1>5, <2>2, BookSeen, Finishes
<1> HIDE DEF Fine
<1>6. CASE CreateUser(r)
  BY <1>1, <1>3, <1>6 DEF CreateUser, Fine
<1>7. CASE WriteUser(r)
  BY <1>1, <1>2, <1>4, <1>7 DEF WriteUser, Fine
<1>8. CASE WriteBook(r)
  <2>1. pc[r] = "writeBook" /\ l.op \in {"createBook", "editBook", "deleteBook"}
    BY <1>8, UnderWay, OperationsAt DEF WriteBook
  <2>2. \/ Failed(r) \/ Finish(r, "ok", {})
        \/ Finish(r, "ok", SawBook(l.target, books'[l.target]))
        \/ \E b \in Books : Finish(r, "ok", SawBook(b, l.change))
    BY <1>8, <2>1 DEF WriteBook, NewId
  <2> QED BY <1>1, <1>2, <1>5, <2>1, <2>2 DEF Fine
<1>9. CASE WriteAuthor(r)
  BY <1>1, <1>2, <1>9 DEF WriteAuthor, Fine
<1>10. CASE CreateFavorite(r)
  BY <1>1, <1>5, <1>10 DEF CreateFavorite, Fine
<1>11. CASE DeleteFavorite(r)
  BY <1>1, <1>2, <1>11 DEF DeleteFavorite, Fine
<1> QED BY <1>6, <1>7, <1>8, <1>9, <1>10, <1>11 DEF Fine

-----------------------------------------------------------------------------
(* The tables *)

LEMMA TablesUnchanged ==
    ASSUME Tables, UNCHANGED tables
    PROVE  Tables'
BY DEF tables, Tables, TypeOK, NamesUnique, UpdatesKept, EverUsers, NoOrphans, OneFavoriteEach

\* What AUTOINCREMENT gives is no id that there was.
LEMMA NewIdIsNew ==
    ASSUME NEW ids \in SUBSET Nat, NEW rows \in SUBSET ids, NEW i \in NewId(ids, rows)
    PROVE  i \in ids /\ i \notin rows
BY DEF NewId

\* Whoever is added or renamed has a name and a mail of its own.
LEMMA NamesStayUnique ==
    ASSUME NamesUnique, NEW u, NEW row, ~Taken(u, row), users' = With(users, u, row)
    PROVE  NamesUnique'
<1>1. /\ DOMAIN users' = DOMAIN users \cup {u} /\ users'[u] = row
      /\ \A v \in DOMAIN users \ {u} : users'[v] = users[v]
  BY DEF With
<1>2. \A v \in DOMAIN users \ {u} : users[v].name # row.name /\ users[v].mail # row.mail
  BY DEF Taken
<1> QED BY <1>1, <1>2 DEF NamesUnique

\* Rows of users, and what they have been set to, change together.
LEMMA UsersStay ==
    ASSUME Tables, NEW u \in Users, NEW row, ~Taken(u, row),
           users' = With(users, u, row), asked' = With(asked, u, row),
           DOMAIN row = UserFields, \A f \in UserFields : row[f] # None,
           UNCHANGED <<books, authors, favorites>>
    PROVE  Tables'
<1>1. NamesUnique'
  BY NamesStayUnique DEF Tables
<1>2. /\ DOMAIN users' = DOMAIN users \cup {u} /\ users'[u] = row
      /\ \A v \in DOMAIN users \ {u} : users'[v] = users[v]
      /\ DOMAIN asked' = DOMAIN asked \cup {u} /\ asked'[u] = row
      /\ \A v \in DOMAIN asked \ {u} : asked'[v] = asked[v]
  BY DEF With
<1>3. DOMAIN users' \subseteq EverUsers' /\ EverUsers' \subseteq Users
  BY <1>2 DEF Tables, TypeOK, EverUsers
<1>4. \A v \in DOMAIN users' :
         DOMAIN users'[v] = UserFields /\ \A f \in DOMAIN users'[v] : users'[v][f] # None
  BY <1>2 DEF Tables, TypeOK
<1>5. TypeOK'
  BY <1>3, <1>4 DEF Tables, TypeOK
<1>6. UpdatesKept'
  BY <1>2 DEF Tables, TypeOK, EverUsers, UpdatesKept
<1>7. Schema = "sql" => NoOrphans' /\ OneFavoriteEach'
  BY <1>2 DEF Tables, NoOrphans, OneFavoriteEach
<1> QED BY <1>1, <1>5, <1>6, <1>7 DEF Tables

LEMMA CreateUserKeeps ==
    ASSUME Control, Tables, NEW r \in Requests, CreateUser(r)
    PROVE  Tables'
<1> DEFINE row == local[r].change
<1>1. CASE Failed(r)
  BY <1>1, Fails, TablesUnchanged
<1>2. CASE ~Failed(r)
  <2>1. PICK u \in NewId(Users, EverUsers) :
           /\ users' = With(users, u, row) /\ asked' = With(asked, u, row)
           /\ ~Taken(None, row) /\ UNCHANGED <<books, authors, favorites>>
    BY <1>2 DEF CreateUser
  <2>2. u \in Users /\ u \notin EverUsers
    BY <2>1, NewIdIsNew, BookShopAssumption DEF Tables, TypeOK, BookShopAssumption
  <2>3. ~Taken(u, row)
    BY <2>1, BookShopAssumption DEF Taken, Tables, TypeOK, BookShopAssumption
  <2>4. row \in Accounts
    BY UnderWay, OperationsAt DEF CreateUser, ChangeFits
  <2>5. DOMAIN row = UserFields /\ \A f \in UserFields : row[f] # None
    BY <2>4, BookShopAssumption DEF BookShopAssumption
  <2> QED BY <2>1, <2>2, <2>3, <2>5, UsersStay
<1> QED BY <1>1, <1>2

\* A change of a user sets no field to nothing.
LEMMA MergedRow ==
    ASSUME NEW row, DOMAIN row = UserFields, \A f \in UserFields : row[f] # None,
           NEW change, DOMAIN change \subseteq UserFields,
           \A f \in DOMAIN change : change[f] # None
    PROVE  /\ DOMAIN Merged(change, row) = UserFields
           /\ \A f \in UserFields : Merged(change, row)[f] # None
BY DEF Merged

LEMMA WriteUserKeeps ==
    ASSUME Control, Tables, NEW r \in Requests, WriteUser(r)
    PROVE  Tables'
<1> DEFINE l == local[r]
           u == l.target
<1>0. pc[r] = "writeUser" /\ l.op \in {"password", "editUser", "deleteUser"} /\ ChangeFits(l)
  BY UnderWay, OperationsAt DEF WriteUser
<1>1. CASE Failed(r)
  BY <1>1, Fails, TablesUnchanged
<1>2. CASE ~Failed(r) /\ l.op = "deleteUser"
  <2>1. /\ users' = Without(users, u) /\ favorites' = favorites \ Cascade(u, None)
        /\ UNCHANGED <<books, authors, asked>>
    BY <1>2 DEF WriteUser
  <2>2. DOMAIN users' = DOMAIN users \ {u} /\ \A v \in DOMAIN users' : users'[v] = users[v]
    BY <2>1 DEF Without
  <2>3. TypeOK' /\ NamesUnique' /\ UpdatesKept'
    BY <2>1, <2>2 DEF Tables, TypeOK, NamesUnique, UpdatesKept, EverUsers
  <2>4. Schema = "sql" => \A f \in favorites' : f.user # u
    BY <2>1 DEF Cascade
  <2>5. Schema = "sql" => NoOrphans' /\ OneFavoriteEach'
    BY <2>1, <2>2, <2>4 DEF Tables, NoOrphans, OneFavoriteEach
  <2> QED BY <2>3, <2>5 DEF Tables
<1>3. CASE ~Failed(r) /\ l.op # "deleteUser"
  <2>1. /\ u \in DOMAIN users /\ ~Taken(u, Written(l))
        /\ users' = [users EXCEPT ![u] = Written(l)]
        /\ asked' = [asked EXCEPT ![u] = Merged(l.change, asked[u])]
        /\ UNCHANGED <<books, authors, favorites>>
    BY <1>3 DEF WriteUser
  <2>2. /\ u \in DOMAIN asked /\ u \in Users /\ asked[u] = users[u]
        /\ DOMAIN users[u] = UserFields /\ \A f \in UserFields : users[u][f] # None
    BY <2>1 DEF Tables, TypeOK, EverUsers, UpdatesKept
  <2>3. DOMAIN l.change \subseteq UserFields /\ \A f \in DOMAIN l.change : l.change[f] # None
    <3>1. CASE l.op = "password"
      BY <1>0, <3>1, BookShopAssumption DEF ChangeFits, BookShopAssumption, UserFields
    <3>2. CASE l.op = "editUser"
      BY <1>0, <3>2, BookShopAssumption DEF ChangeFits, BookShopAssumption
    <3> QED BY <1>0, <1>3, <3>1, <3>2
  <2>4. DOMAIN Written(l) = UserFields /\ \A f \in UserFields : Written(l)[f] # None
    BY <2>2, <2>3, MergedRow DEF Written
  <2>5. users' = With(users, u, Written(l)) /\ asked' = With(asked, u, Written(l))
    BY <2>1, <2>2 DEF With, Written
  <2> QED BY <2>1, <2>2, <2>4, <2>5, UsersStay
<1> QED BY <1>1, <1>2, <1>3

\* Books and what refers to them, when users and authors stay.
LEMMA BooksStay ==
    ASSUME Tables, UNCHANGED <<users, authors, asked>>, DOMAIN books' \subseteq Books,
           \A b \in DOMAIN books' : DOMAIN books'[b] = BookFields,
           favorites' \subseteq favorites,
           Schema = "sql" => /\ \A f \in favorites' : f.book \in DOMAIN books'
                             /\ \A b \in DOMAIN books' : books'[b].author \in authors \cup {None}
    PROVE  Tables'
<1>1. TypeOK' /\ NamesUnique' /\ UpdatesKept'
  BY DEF Tables, TypeOK, NamesUnique, UpdatesKept, EverUsers
<1>2. Schema = "sql" => NoOrphans' /\ OneFavoriteEach'
  BY DEF Tables, NoOrphans, OneFavoriteEach
<1> QED BY <1>1, <1>2 DEF Tables

LEMMA WriteBookKeeps ==
    ASSUME Control, Tables, NEW r \in Requests, WriteBook(r)
    PROVE  Tables'
<1> DEFINE l == local[r]
           b == l.target
           missing == Schema = "sql" /\ "author" \in DOMAIN l.change
                      /\ l.change.author \notin authors \cup {None}
<1>0. /\ pc[r] = "writeBook" /\ l.op \in {"createBook", "editBook", "deleteBook"} /\ ChangeFits(l)
      /\ \A d \in DOMAIN books : d \in Books /\ DOMAIN books[d] = BookFields
      /\ Schema = "sql" => \A d \in DOMAIN books : books[d].author \in authors \cup {None}
      /\ Schema = "sql" => \A f \in favorites : f.book \in DOMAIN books
  BY UnderWay, OperationsAt DEF WriteBook, Tables, TypeOK, NoOrphans
<1>1. CASE Failed(r)
  BY <1>1, Fails, TablesUnchanged
<1>2. CASE ~Failed(r) /\ l.op = "deleteBook"
  <2>1. /\ books' = Without(books, b) /\ favorites' = favorites \ Cascade(None, b)
        /\ UNCHANGED <<users, authors, asked>>
    BY <1>2 DEF WriteBook
  <2>2. DOMAIN books' = DOMAIN books \ {b} /\ \A d \in DOMAIN books' : books'[d] = books[d]
    BY <2>1 DEF Without
  <2>3. favorites' \subseteq favorites /\ (Schema = "sql" => \A f \in favorites' : f.book # b)
    BY <2>1 DEF Cascade
  <2> QED BY <1>0, <2>1, <2>2, <2>3, BooksStay
<1>3. CASE ~Failed(r) /\ l.op = "editBook"
  <2>1. /\ b \in DOMAIN books /\ ~missing
        /\ books' = [books EXCEPT ![b] = Merged(l.change, books[b])]
        /\ UNCHANGED <<users, authors, asked, favorites>>
    BY <1>3 DEF WriteBook
  <2>2. DOMAIN l.change \subseteq BookFields
    BY <1>0, <1>3, BookShopAssumption DEF ChangeFits, BookShopAssumption
  <2>3. /\ DOMAIN Merged(l.change, books[b]) = BookFields
        /\ Schema = "sql" => Merged(l.change, books[b]).author \in authors \cup {None}
    BY <1>0, <2>1, <2>2 DEF Merged, BookFields
  <2>4. /\ DOMAIN books' = DOMAIN books /\ books'[b] = Merged(l.change, books[b])
        /\ \A d \in DOMAIN books \ {b} : books'[d] = books[d]
    BY <2>1
  <2> QED BY <1>0, <2>1, <2>3, <2>4, BooksStay
<1>4. CASE ~Failed(r) /\ l.op = "createBook"
  <2>1. PICK n \in NewId(Books, DOMAIN books) :
           /\ books' = With(books, n, l.change) /\ ~missing
           /\ UNCHANGED <<users, authors, asked, favorites>>
    BY <1>4 DEF WriteBook
  <2>2. n \in Books
    BY <2>1 DEF NewId
  <2>3. DOMAIN l.change = BookFields /\ (Schema = "sql" => l.change.author \in authors \cup {None})
    BY <1>0, <1>4, <2>1 DEF ChangeFits, BookFields
  <2>4. /\ DOMAIN books' = DOMAIN books \cup {n} /\ books'[n] = l.change
        /\ \A d \in DOMAIN books \ {n} : books'[d] = books[d]
    BY <2>1 DEF With
  <2> QED BY <1>0, <2>1, <2>2, <2>3, <2>4, BooksStay
<1> QED BY <1>0, <1>1, <1>2, <1>3, <1>4

LEMMA WriteAuthorKeeps ==
    ASSUME Control, Tables, NEW r \in Requests, WriteAuthor(r)
    PROVE  Tables'
<1> DEFINE a == local[r].target
<1>1. CASE Failed(r)
  BY <1>1, Fails, TablesUnchanged
<1>2. CASE authors' = authors \ {a} /\ books' = Orphaned(a) /\ UNCHANGED <<users, favorites, asked>>
  <2>1. /\ DOMAIN books' = DOMAIN books
        /\ \A b \in DOMAIN books :
              books'[b] = IF Schema = "sql" /\ books[b].author = a
                          THEN [books[b] EXCEPT !.author = None] ELSE books[b]
    BY <1>2 DEF Orphaned
  <2>2. \A b \in DOMAIN books : DOMAIN books'[b] = BookFields
    BY <2>1 DEF Tables, TypeOK
  <2>3. ASSUME Schema = "sql", NEW b \in DOMAIN books
        PROVE  books'[b].author \in authors' \cup {None}
    <3>1. DOMAIN books[b] = BookFields /\ books[b].author \in authors \cup {None}
      BY <2>3 DEF Tables, TypeOK, NoOrphans
    <3> QED BY <1>2, <2>1, <2>3, <3>1 DEF BookFields
  <2>4. TypeOK' /\ NamesUnique' /\ UpdatesKept'
    BY <1>2, <2>1, <2>2 DEF Tables, TypeOK, NamesUnique, UpdatesKept, EverUsers
  <2>5. Schema = "sql" => NoOrphans' /\ OneFavoriteEach'
    BY <1>2, <2>1, <2>3 DEF Tables, NoOrphans, OneFavoriteEach
  <2> QED BY <2>4, <2>5 DEF Tables
<1>3. ASSUME NEW n \in NewId(Authors, authors), authors' = authors \cup {n},
             UNCHANGED <<users, books, favorites, asked>>
      PROVE  Tables'
  BY <1>3 DEF NewId, Tables, TypeOK, NamesUnique, UpdatesKept, EverUsers, NoOrphans,
              OneFavoriteEach
<1> QED BY <1>1, <1>2, <1>3 DEF WriteAuthor

LEMMA CreateFavoriteKeeps ==
    ASSUME Control, Tables, NEW r \in Requests, CreateFavorite(r)
    PROVE  Tables'
<1> DEFINE u == local[r].by
           b == local[r].target
<1>1. CASE Failed(r)
  BY <1>1, Fails, TablesUnchanged
<1>2. ASSUME NEW i \in NewId(Favorites, {f.id : f \in favorites}), ~Refused(u, b),
             favorites' = favorites \cup {[id |-> i, user |-> u, book |-> b]},
             UNCHANGED <<users, books, authors, asked>>
      PROVE  Tables'
  <2> DEFINE g == [id |-> i, user |-> u, book |-> b]
  <2>1. g.id \in Favorites /\ g.user = u /\ g.book = b /\ favorites' = favorites \cup {g}
    BY <1>2 DEF NewId
  <2> HIDE DEF g
  <2>2. TypeOK' /\ NamesUnique' /\ UpdatesKept'
    BY <1>2, <2>1 DEF Tables, TypeOK, NamesUnique, UpdatesKept, EverUsers
  <2>3. ASSUME Schema = "sql"
        PROVE  NoOrphans' /\ OneFavoriteEach'
    <3>1. /\ u \in DOMAIN users /\ b \in DOMAIN books
          /\ \A f \in favorites : ~(f.user = u /\ f.book = b)
      BY <1>2, <2>3 DEF Refused
    <3> QED BY <1>2, <2>1, <2>3, <3>1 DEF Tables, NoOrphans, OneFavoriteEach
  <2> QED BY <2>2, <2>3 DEF Tables
<1> QED BY <1>1, <1>2 DEF CreateFavorite

LEMMA DeleteFavoriteKeeps ==
    ASSUME Control, Tables, NEW r \in Requests, DeleteFavorite(r)
    PROVE  Tables'
<1>1. CASE Failed(r)
  BY <1>1, Fails, TablesUnchanged
<1>2. CASE favorites' \subseteq favorites /\ UNCHANGED <<users, books, authors, asked>>
  BY <1>2 DEF Tables, TypeOK, NamesUnique, UpdatesKept, EverUsers, NoOrphans, OneFavoriteEach
<1> QED BY <1>1, <1>2 DEF DeleteFavorite

-----------------------------------------------------------------------------

LEMMA ServerBegins ==
    ASSUME Init
    PROVE  ServerInv
<1>1. Control
  BY BlankFits DEF Init, Control
<1>2. MaySee(answer.by, answer.saw)
  BY DEF Init, NoAnswer, MaySee
<1>3. /\ DOMAIN users = DOMAIN Sample /\ asked = users /\ favorites = {}
      /\ books = FirstBooks /\ authors = FirstAuthors
      /\ \A u \in DOMAIN users : /\ users[u] = [name |-> u, mail |-> u, password |-> "old"]
                                 /\ u \in Users
  BY BookShopAssumption DEF Init, BookShopAssumption
<1>4. TypeOK
  BY <1>3, BookShopAssumption DEF TypeOK, EverUsers, BookShopAssumption, UserFields
<1>5. NamesUnique /\ UpdatesKept
  BY <1>3 DEF NamesUnique, UpdatesKept
<1>6. NoOrphans /\ OneFavoriteEach
  BY <1>3, BookShopAssumption DEF NoOrphans, OneFavoriteEach, BookShopAssumption
<1> QED BY <1>1, <1>2, <1>4, <1>5, <1>6 DEF ServerInv, Tables

LEMMA ServerSteps ==
    ASSUME ServerInv, [Next]_vars
    PROVE  ServerInv'
<1>0. Control /\ Tables /\ MaySee(answer.by, answer.saw)
  BY DEF ServerInv
<1>1. ASSUME NEW r \in Requests,
             \/ Request(r, Ops) \/ FindUsers(r) \/ FindUser(r) \/ FindBook(r) \/ ListBooks(r)
             \/ FindAuthor(r) \/ FindFavorite(r) \/ ListFavorites(r) \/ Complete(r) \/ Fail(r)
      PROVE  ServerInv'
  <2>1. Control' /\ MaySee(answer.by, answer.saw)' /\ UNCHANGED tables
    BY <1>0, <1>1, RequestControls, FindUsersControls, FindUserControls, FindBookControls,
       ListBooksControls, FindAuthorControls, FindFavoriteControls, ListFavoritesControls,
       CompleteControls, Fails DEF Fail
  <2> QED BY <1>0, <2>1, TablesUnchanged DEF ServerInv
<1>2. ASSUME NEW r \in Requests,
             \/ CreateUser(r) \/ WriteUser(r) \/ WriteBook(r) \/ WriteAuthor(r)
             \/ CreateFavorite(r) \/ DeleteFavorite(r)
      PROVE  ServerInv'
  <2>1. Control' /\ MaySee(answer.by, answer.saw)'
    BY <1>0, <1>2, WriteControls
  <2>2. Tables'
    BY <1>0, <1>2, CreateUserKeeps, WriteUserKeeps, WriteBookKeeps, WriteAuthorKeeps,
       CreateFavoriteKeeps, DeleteFavoriteKeeps
  <2> QED BY <2>1, <2>2 DEF ServerInv
<1>3. CASE UNCHANGED vars
  <2>1. UNCHANGED tables /\ pc' = pc /\ local' = local /\ answer' = answer
    BY <1>3 DEF vars
  <2>2. Control' /\ MaySee(answer.by, answer.saw)'
    BY <1>0, <2>1 DEF Control
  <2> QED BY <1>0, <2>1, <2>2, TablesUnchanged DEF ServerInv
<1> QED BY <1>1, <1>2, <1>3 DEF Next, Step

\* Every reachable state of the server satisfies the inductive invariant.
THEOREM ServerInductive == Spec => []ServerInv
<1>1. Init => ServerInv
  BY ServerBegins
<1>2. ServerInv /\ [Next]_vars => ServerInv'
  BY ServerSteps
<1> QED BY <1>1, <1>2, PTL DEF Spec

\* The unique columns decide on names and mails, whichever requests register or
\* rename at the same time, and however the tables were set up.
THEOREM NamesStay == Spec => []NamesUnique
<1>1. ServerInv => NamesUnique
  BY DEF ServerInv, Tables
<1> QED BY <1>1, ServerInductive, PTL

\* An update sets the fields it is given and undoes no other, though it was
\* decided on with a row that was read before.
THEOREM UpdatesStay == Spec => []UpdatesKept
<1>1. ServerInv => UpdatesKept
  BY DEF ServerInv, Tables
<1> QED BY <1>1, ServerInductive, PTL

\* So the table of users is what its users asked for.
THEOREM UsersStaySound == Spec => []UsersSound
<1>1. NamesUnique /\ UpdatesKept => UsersSound
  BY DEF UsersSound
<1> QED BY <1>1, NamesStay, UpdatesStay, PTL

\* The listed roles, the matrix and the service together let nobody see the rows
\* of another user, and no guest a book of $10 or more.
THEOREM NobodySeesMore == Spec => []VisibleOnly
<1>1. ServerInv => VisibleOnly
  <2>1. ASSUME ServerInv, answer.by \in EverUsers
        PROVE  answer.by # None
    BY <2>1, BookShopAssumption DEF ServerInv, Tables, TypeOK, BookShopAssumption
  <2> QED BY <2>1 DEF ServerInv, MaySee, VisibleOnly, OwnDataOnly, GuestsSeeCheapBooks
<1> QED BY <1>1, ServerInductive, PTL

\* With the tables of the SQL script favorites are unique and refer to what
\* exists, though anything is deleted between a look and a write.
THEOREM FavoritesStaySound == Schema = "sql" /\ Spec => []FavoritesSound
<1> SUFFICES ASSUME Schema = "sql" PROVE Spec => []FavoritesSound
  OBVIOUS
<1>1. ServerInv => FavoritesSound
  BY DEF ServerInv, Tables, FavoritesSound
<1> QED BY <1>1, ServerInductive, PTL

-----------------------------------------------------------------------------
(* The session *)

LEMMA SessionConstants == Session!ShopSessionAssumption
BY ShopAssumption

\* The calls that bring back the user were sent in the session there is.
CallsCurrent ==
    ~crossed => \A c \in Calls : calls[c].kind \in {"initialize", "profile"} =>
                                    calls[c].subject = token

\* Memory and localStorage agree.
StoredIsToken == stored = token

SessionFits ==
    /\ Session!UserOfToken /\ Session!AdminsOnly /\ Session!PrivatePages
    /\ CallsCurrent /\ StoredIsToken
SessionInv == Session!TypeOK /\ SessionFits

-----------------------------------------------------------------------------

\* What the guard admits.
LEMMA GuardAdmits ==
    ASSUME Session!ShopSessionAssumption, NEW to \in Session!Pages, NEW t, NEW u
    PROVE  /\ Session!Admitted(to, t, u) \in Session!Pages
           /\ Session!Admitted(to, t, u) \in Session!Private => t # None
           /\ Session!Admitted(to, t, u) = "admin" => u \in Administrators
BY DEF Session!Admitted, Session!Pages, Session!Public, Session!Private, Session!Forms

\* A page that was admitted suits the session.
LEMMA ArriveSuits ==
    ASSUME Session!ShopSessionAssumption, NEW to \in Session!Pages, NEW t, NEW u,
           Session!Arrive(to, t, u),
           token' = t, u \in {None, t} \/ crossed'
    PROVE  /\ page' \in Session!Pages /\ going' = None
           /\ Session!AdminsOnly' /\ Session!PrivatePages'
<1>1. /\ page' \in Session!Pages /\ going' = None
      /\ page' \in Session!Private => t # None
      /\ page' = "admin" => u \in Administrators
  BY GuardAdmits DEF Session!Arrive
<1>2. None \notin Administrators
  BY DEF Session!ShopSessionAssumption
<1> QED BY <1>1, <1>2 DEF Session!AdminsOnly, Session!PrivatePages

\* The calls after one is begun.
LEMMA CallBegun ==
    ASSUME Session!TypeOK, NEW c \in Calls, NEW q \in Session!Sent,
           calls' = [calls EXCEPT ![c] = q]
    PROVE  /\ calls' \in [Calls -> Session!Sent] /\ calls'[c] = q
           /\ \A d \in Calls \ {c} : calls'[d] = calls[d]
BY DEF Session!TypeOK

\* A call is one, whatever it is sent for.
LEMMA CallIsSent ==
    ASSUME NEW kind \in {"free", "initialize", "login", "profile", "password"},
           NEW t \in Members \cup {None}, NEW u \in Members \cup {None}
    PROVE  /\ Session!Call(kind, t, u) \in Session!Sent
           /\ Session!Call(kind, t, u).kind = kind /\ Session!Call(kind, t, u).subject = u
BY DEF Session!Call, Session!Sent

LEMMA FreeIsSent == Session!Free \in Session!Sent /\ Session!Free.kind = "free"
BY DEF Session!Free, Session!Sent

-----------------------------------------------------------------------------

LEMMA SessionBegins ==
    ASSUME Session!ShopSessionAssumption, Session!Init
    PROVE  SessionInv
<1>1. Session!TypeOK
  BY FreeIsSent DEF Session!Init, Session!TypeOK, Session!Pages, Session!Public
<1>2. SessionFits
  BY FreeIsSent
     DEF Session!Init, SessionFits, Session!UserOfToken, Session!AdminsOnly,
         Session!PrivatePages, CallsCurrent, StoredIsToken, Session!Private
<1> QED BY <1>1, <1>2 DEF SessionInv

LEMMA VisitKeeps ==
    ASSUME Session!ShopSessionAssumption, SessionInv, NEW to \in Session!Pages, Session!Visit(to)
    PROVE  SessionInv'
<1>0. Session!TypeOK /\ SessionFits
  BY DEF SessionInv
<1>1. CASE token # None /\ user = None
  <2>1. PICK c \in Calls :
           /\ ~Session!InFlight(c)
           /\ calls' = [calls EXCEPT ![c] = Session!Call("initialize", token, token)]
           /\ going' = [to |-> to, call |-> c] /\ UNCHANGED page
    BY <1>1 DEF Session!Visit, Session!Navigate
  <2>2. UNCHANGED <<token, user, stored, crossed>>
    BY DEF Session!Visit
  <2>3. /\ Session!Call("initialize", token, token) \in Session!Sent
        /\ Session!Call("initialize", token, token).kind = "initialize"
        /\ Session!Call("initialize", token, token).subject = token
    BY <1>0, CallIsSent DEF Session!TypeOK
  <2>4. /\ calls' \in [Calls -> Session!Sent]
        /\ calls'[c] = Session!Call("initialize", token, token)
        /\ \A d \in Calls \ {c} : calls'[d] = calls[d]
    BY <1>0, <2>1, <2>3, CallBegun
  <2>5. Session!TypeOK'
    BY <1>0, <2>1, <2>2, <2>3, <2>4 DEF Session!TypeOK
  <2>6. CallsCurrent'
    BY <1>0, <2>2, <2>3, <2>4 DEF SessionFits, CallsCurrent
  <2>7. Session!UserOfToken' /\ Session!AdminsOnly' /\ Session!PrivatePages' /\ StoredIsToken'
    BY <1>0, <2>1, <2>2
       DEF SessionFits, Session!UserOfToken, Session!AdminsOnly, Session!PrivatePages,
           StoredIsToken
  <2> QED BY <2>5, <2>6, <2>7 DEF SessionInv, SessionFits
<1>2. CASE ~(token # None /\ user = None)
  <2>1. Session!Arrive(to, token, user) /\ UNCHANGED <<calls, token, user, stored, crossed>>
    BY <1>2 DEF Session!Visit, Session!Navigate
  <2>2. user \in {None, token} \/ crossed'
    BY <1>0, <2>1 DEF SessionFits, Session!UserOfToken
  <2>3. page' \in Session!Pages /\ going' = None /\ Session!AdminsOnly' /\ Session!PrivatePages'
    BY <2>1, <2>2, ArriveSuits
  <2>4. Session!TypeOK'
    BY <1>0, <2>1, <2>3 DEF Session!TypeOK
  <2>5. Session!UserOfToken' /\ CallsCurrent' /\ StoredIsToken'
    BY <1>0, <2>1 DEF SessionFits, Session!UserOfToken, CallsCurrent, StoredIsToken
  <2> QED BY <2>3, <2>4, <2>5 DEF SessionInv, SessionFits
<1> QED BY <1>1, <1>2

LEMMA LoadKeeps ==
    ASSUME Session!ShopSessionAssumption, SessionInv, NEW to \in Session!Pages, Session!Load(to)
    PROVE  SessionInv'
<1>0. Session!TypeOK /\ SessionFits
  BY DEF SessionInv
<1>1. token' = stored /\ user' = None /\ crossed' = FALSE /\ stored' = stored
  BY DEF Session!Load
<1>2. Session!UserOfToken' /\ StoredIsToken'
  BY <1>1 DEF Session!UserOfToken, StoredIsToken
<1>3. CASE stored = None
  <2>1. Session!Arrive(to, None, None) /\ calls' = [c \in Calls |-> Session!Free]
    BY <1>3 DEF Session!Load
  <2>2. page' \in Session!Pages /\ going' = None /\ Session!AdminsOnly' /\ Session!PrivatePages'
    BY <1>1, <1>3, <2>1, ArriveSuits
  <2>3. Session!TypeOK' /\ CallsCurrent'
    BY <1>0, <1>1, <2>1, <2>2, FreeIsSent DEF Session!TypeOK, CallsCurrent
  <2> QED BY <1>2, <2>2, <2>3 DEF SessionInv, SessionFits
<1>4. CASE stored # None
  <2>1. PICK a \in Calls, b \in Calls :
          /\ a # b /\ page' = None /\ going' = [to |-> to, call |-> a]
          /\ calls' = [c \in Calls |->
                        IF c \in {a, b} THEN Session!Call("initialize", stored, stored)
                        ELSE Session!Free]
    BY <1>4 DEF Session!Load
  <2>2. /\ Session!Call("initialize", stored, stored) \in Session!Sent
        /\ Session!Call("initialize", stored, stored).kind = "initialize"
        /\ Session!Call("initialize", stored, stored).subject = stored
    <3>1. stored \in Members \cup {None}
      BY <1>0 DEF Session!TypeOK
    <3> QED BY <3>1, CallIsSent
  <2>3. Session!TypeOK' /\ CallsCurrent'
    BY <1>0, <1>1, <2>1, <2>2, FreeIsSent DEF Session!TypeOK, CallsCurrent
  <2>4. Session!AdminsOnly' /\ Session!PrivatePages'
    BY <2>1
       DEF Session!AdminsOnly, Session!PrivatePages, Session!ShopSessionAssumption,
           Session!Pages, Session!Private
  <2> QED BY <1>2, <2>3, <2>4 DEF SessionInv, SessionFits
<1> QED BY <1>3, <1>4

\* Signing out leaves a session that nothing belongs to.
LEMMA SignOutKeeps ==
    ASSUME Session!ShopSessionAssumption, SessionInv, NEW c, Session!SignOut(c),
           calls' \in [Calls -> Session!Sent],
           \A d \in Calls \ {c} : calls'[d] = calls[d],
           c \in Calls => calls'[c] = Session!Free
    PROVE  SessionInv'
<1>0. Session!TypeOK /\ SessionFits
  BY DEF SessionInv
<1>1. /\ token' = None /\ stored' = None /\ user' = None
      /\ crossed' = (crossed \/ Session!Others(c)) /\ Session!Arrive("login", None, None)
  BY DEF Session!SignOut
<1>2. page' \in Session!Pages /\ going' = None /\ Session!AdminsOnly' /\ Session!PrivatePages'
  BY <1>1, ArriveSuits DEF Session!Pages, Session!Public, Session!Forms
<1>3. Session!TypeOK'
  BY <1>0, <1>1, <1>2 DEF Session!TypeOK
<1>4. CallsCurrent'
  BY <1>1, FreeIsSent DEF Session!Others, CallsCurrent
<1>5. Session!UserOfToken' /\ StoredIsToken'
  BY <1>1 DEF Session!UserOfToken, StoredIsToken
<1> QED BY <1>2, <1>3, <1>4, <1>5 DEF SessionInv, SessionFits

LEMMA LogoutKeeps ==
    ASSUME Session!ShopSessionAssumption, SessionInv, Session!Logout
    PROVE  SessionInv'
<1>1. Session!SignOut(None) /\ calls' = calls
  BY DEF Session!Logout
<1>2. None \notin Calls
  BY DEF Session!ShopSessionAssumption
<1>3. calls' \in [Calls -> Session!Sent]
  BY <1>1 DEF SessionInv, Session!TypeOK
<1> QED BY <1>1, <1>2, <1>3, SignOutKeeps

\* A call for the user of the session, or one that brings back no user.
LEMMA SendKeeps ==
    ASSUME Session!ShopSessionAssumption, SessionInv, NEW c \in Calls,
           NEW kind \in {"login", "profile", "password"}, NEW u \in Members \cup {None},
           Session!Send(c, kind, u), kind = "profile" => u = user /\ user # None
    PROVE  SessionInv'
<1>0. Session!TypeOK /\ SessionFits
  BY DEF SessionInv
<1>1. /\ ~Session!InFlight(c) /\ calls' = [calls EXCEPT ![c] = Session!Call(kind, token, u)]
      /\ UNCHANGED <<token, user, stored, page, going, crossed>>
  BY DEF Session!Send
<1>2. /\ Session!Call(kind, token, u) \in Session!Sent
      /\ Session!Call(kind, token, u).kind = kind
      /\ Session!Call(kind, token, u).subject = u
  <2>1. token \in Members \cup {None}
    BY <1>0 DEF Session!TypeOK
  <2> QED BY <2>1, CallIsSent
<1>3. /\ calls' \in [Calls -> Session!Sent] /\ calls'[c] = Session!Call(kind, token, u)
      /\ \A d \in Calls \ {c} : calls'[d] = calls[d]
  BY <1>0, <1>1, <1>2, CallBegun
<1>4. Session!TypeOK'
  <2>1. going # None => going.call # c
    BY <1>0, <1>1 DEF Session!TypeOK, Session!InFlight
  <2> QED BY <1>0, <1>1, <1>3, <2>1 DEF Session!TypeOK
<1>5. CallsCurrent'
  BY <1>0, <1>1, <1>2, <1>3 DEF SessionFits, CallsCurrent, Session!UserOfToken
<1>6. Session!UserOfToken' /\ Session!AdminsOnly' /\ Session!PrivatePages' /\ StoredIsToken'
  BY <1>0, <1>1
     DEF SessionFits, Session!UserOfToken, Session!AdminsOnly, Session!PrivatePages,
         StoredIsToken
<1> QED BY <1>4, <1>5, <1>6 DEF SessionInv, SessionFits

\* An answer that changes nothing but the user, and the page if the guard waits
\* for it.
LEMMA UserKeeps ==
    ASSUME Session!ShopSessionAssumption, SessionInv, NEW c \in Calls,
           Session!InFlight(c), Session!Return(c),
           calls[c].kind \in {"initialize", "profile"}, Session!Succeeded(c)
    PROVE  SessionInv'
<1>0. Session!TypeOK /\ SessionFits
  BY DEF SessionInv
<1>1. /\ user' = calls[c].subject /\ UNCHANGED <<token, stored, crossed>>
      /\ \/ /\ going # None /\ going.call = c
            /\ Session!Arrive(going.to, token, calls[c].subject)
         \/ /\ going = None \/ going.call # c
            /\ UNCHANGED <<page, going>>
  <2>1. CASE calls[c].kind = "initialize"
    BY <2>1 DEF Session!Succeeded
  <2>2. CASE calls[c].kind = "profile"
    BY <1>0, <2>2 DEF Session!Succeeded, Session!TypeOK
  <2> QED BY <2>1, <2>2
<1>2. /\ calls' \in [Calls -> Session!Sent] /\ calls'[c] = Session!Free
      /\ \A d \in Calls \ {c} : calls'[d] = calls[d]
  BY <1>0, FreeIsSent, CallBegun DEF Session!Return
<1>3. calls[c].subject \in Members \cup {None} /\ (~crossed => calls[c].subject = token)
  BY <1>0 DEF Session!TypeOK, Session!Sent, SessionFits, CallsCurrent
<1>4. Session!UserOfToken' /\ StoredIsToken'
  BY <1>0, <1>1, <1>3 DEF SessionFits, Session!UserOfToken, StoredIsToken
<1>5. CallsCurrent'
  BY <1>0, <1>1, <1>2, FreeIsSent DEF SessionFits, CallsCurrent
<1>6. CASE going # None /\ going.call = c /\ Session!Arrive(going.to, token, calls[c].subject)
  <2>1. going.to \in Session!Pages
    BY <1>0, <1>6 DEF Session!TypeOK
  <2>2. page' \in Session!Pages /\ going' = None /\ Session!AdminsOnly' /\ Session!PrivatePages'
    BY <1>1, <1>3, <1>6, <2>1, ArriveSuits
  <2>3. Session!TypeOK'
    BY <1>0, <1>1, <1>2, <1>3, <2>2 DEF Session!TypeOK
  <2> QED BY <1>4, <1>5, <2>2, <2>3 DEF SessionInv, SessionFits
<1>7. CASE (going = None \/ going.call # c) /\ UNCHANGED <<page, going>>
  <2>1. Session!TypeOK'
    BY <1>0, <1>1, <1>2, <1>3, <1>7 DEF Session!TypeOK
  <2>2. Session!AdminsOnly' /\ Session!PrivatePages'
    BY <1>0, <1>1, <1>7 DEF SessionFits, Session!AdminsOnly, Session!PrivatePages
  <2> QED BY <1>4, <1>5, <2>1, <2>2 DEF SessionInv, SessionFits
<1> QED BY <1>1, <1>6, <1>7

\* The session that begins with an answer.
LEMMA LoginKeeps ==
    ASSUME Session!ShopSessionAssumption, SessionInv, NEW c \in Calls, Session!Return(c),
           calls[c].kind = "login", Session!Succeeded(c)
    PROVE  SessionInv'
<1>0. Session!TypeOK /\ SessionFits
  BY DEF SessionInv
<1> DEFINE u == calls[c].subject
<1>1. /\ token' = u /\ stored' = u /\ user' = u
      /\ crossed' = (crossed \/ Session!Others(c)) /\ Session!Arrive("home", u, u)
  BY DEF Session!Succeeded
<1>2. /\ calls' \in [Calls -> Session!Sent] /\ calls'[c] = Session!Free
      /\ \A d \in Calls \ {c} : calls'[d] = calls[d]
  BY <1>0, FreeIsSent, CallBegun DEF Session!Return
<1>3. u \in Members \cup {None}
  BY <1>0 DEF Session!TypeOK, Session!Sent
<1>4. page' \in Session!Pages /\ going' = None /\ Session!AdminsOnly' /\ Session!PrivatePages'
  BY <1>1, ArriveSuits DEF Session!Pages, Session!Public
<1>5. Session!TypeOK'
  BY <1>0, <1>1, <1>2, <1>3, <1>4 DEF Session!TypeOK
<1>6. CallsCurrent'
  BY <1>1, <1>2, FreeIsSent DEF Session!Others, CallsCurrent
<1>7. Session!UserOfToken' /\ StoredIsToken'
  BY <1>1 DEF Session!UserOfToken, StoredIsToken
<1> QED BY <1>4, <1>5, <1>6, <1>7 DEF SessionInv, SessionFits

\* An answer that only reports.
LEMMA ReportKeeps ==
    ASSUME SessionInv, NEW c \in Calls, Session!Return(c), calls[c].kind # "initialize",
           UNCHANGED <<token, user, stored, page, going, crossed>>
    PROVE  SessionInv'
<1>0. Session!TypeOK /\ SessionFits
  BY DEF SessionInv
<1>1. /\ calls' \in [Calls -> Session!Sent] /\ calls'[c] = Session!Free
      /\ \A d \in Calls \ {c} : calls'[d] = calls[d]
  BY <1>0, FreeIsSent, CallBegun DEF Session!Return
<1>2. Session!TypeOK'
  BY <1>0, <1>1 DEF Session!TypeOK
<1>3. CallsCurrent'
  BY <1>0, <1>1, FreeIsSent DEF SessionFits, CallsCurrent
<1>4. Session!UserOfToken' /\ Session!AdminsOnly' /\ Session!PrivatePages' /\ StoredIsToken'
  BY <1>0
     DEF SessionFits, Session!UserOfToken, Session!AdminsOnly, Session!PrivatePages,
         StoredIsToken
<1> QED BY <1>2, <1>3, <1>4 DEF SessionInv, SessionFits

LEMMA SessionAnswers ==
    ASSUME Session!ShopSessionAssumption, SessionInv, NEW c \in Calls, Session!Answer(c)
    PROVE  SessionInv'
<1>0. Session!TypeOK /\ Session!InFlight(c) /\ Session!Return(c)
  BY DEF SessionInv, Session!Answer
<1>1. CASE Session!Succeeded(c)
  <2>1. CASE calls[c].kind \in {"initialize", "profile"}
    BY <1>0, <1>1, <2>1, UserKeeps
  <2>2. CASE calls[c].kind = "login"
    BY <1>0, <1>1, <2>2, LoginKeeps
  <2>3. CASE calls[c].kind = "password"
    <3>1. UNCHANGED <<token, user, stored, page, going, crossed>>
      BY <1>1, <2>3 DEF Session!Succeeded
    <3> QED BY <1>0, <2>3, <3>1, ReportKeeps
  <2> QED BY <1>0, <2>1, <2>2, <2>3 DEF Session!TypeOK, Session!Sent, Session!InFlight
<1>2. CASE Session!Failed(c)
  <2>1. CASE calls[c].kind = "initialize"
    <3>1. Session!SignOut(c)
      BY <1>2, <2>1 DEF Session!Failed
    <3>2. /\ calls' \in [Calls -> Session!Sent] /\ calls'[c] = Session!Free
          /\ \A d \in Calls \ {c} : calls'[d] = calls[d]
      BY <1>0, FreeIsSent, CallBegun DEF Session!Return
    <3> QED BY <3>1, <3>2, SignOutKeeps
  <2>2. CASE calls[c].kind # "initialize"
    BY <1>0, <1>2, <2>2, ReportKeeps DEF Session!Failed
  <2> QED BY <2>1, <2>2
<1> QED BY <1>1, <1>2 DEF Session!Answer

LEMMA SessionSteps ==
    ASSUME Session!ShopSessionAssumption, SessionInv, [Session!Next]_(Session!vars)
    PROVE  SessionInv'
<1>0. Session!TypeOK
  BY DEF SessionInv
<1>1. CASE \E to \in Session!Pages : Session!Visit(to) \/ Session!Load(to)
  BY <1>1, VisitKeeps, LoadKeeps
<1>2. CASE Session!Logout
  BY <1>2, LogoutKeeps
<1>3. ASSUME NEW c \in Calls, NEW u \in Members, Session!Login(c, u) \/ Session!Register(c, u)
      PROVE  SessionInv'
  BY <1>3, SendKeeps DEF Session!Login, Session!Register
<1>4. ASSUME NEW c \in Calls, Session!UpdateProfile(c)
      PROVE  SessionInv'
  BY <1>0, <1>4, SendKeeps DEF Session!UpdateProfile, Session!TypeOK
<1>5. ASSUME NEW c \in Calls, Session!UpdatePassword(c)
      PROVE  SessionInv'
  BY <1>5, SendKeeps DEF Session!UpdatePassword
<1>6. ASSUME NEW c \in Calls, Session!Answer(c)
      PROVE  SessionInv'
  BY <1>6, SessionAnswers
<1>7. CASE UNCHANGED Session!vars
  BY <1>7
     DEF Session!vars, SessionInv, SessionFits, Session!TypeOK, Session!UserOfToken,
         Session!AdminsOnly, Session!PrivatePages, CallsCurrent, StoredIsToken
<1> QED BY <1>1, <1>2, <1>3, <1>4, <1>5, <1>6, <1>7 DEF Session!Next

-----------------------------------------------------------------------------

\* Every reachable state satisfies the inductive invariant.
THEOREM SessionInductive == Session!Spec => []SessionInv
<1>1. Session!Init => SessionInv
  BY SessionBegins, SessionConstants
<1>2. SessionInv /\ [Session!Next]_(Session!vars) => SessionInv'
  BY SessionSteps, SessionConstants
<1> QED BY <1>1, <1>2, PTL DEF Session!Spec

\* A guard that waits for initialize waits for a call that is in flight.
THEOREM GuardWaits == Session!Spec => []Session!TypeOK
<1>1. SessionInv => Session!TypeOK
  BY DEF SessionInv
<1> QED BY <1>1, SessionInductive, PTL

\* The user that initialize, login and updateProfile set is the token's, as long
\* as no call of one session is answered in another.
THEOREM UserMatches == Session!Spec => []Session!UserOfToken
<1>1. SessionInv => Session!UserOfToken
  BY DEF SessionInv, SessionFits
<1> QED BY <1>1, SessionInductive, PTL

\* The guard shows the page of administrators in their sessions only, under the
\* same condition.
THEOREM AdminPageClosed == Session!Spec => []Session!AdminsOnly
<1>1. SessionInv => Session!AdminsOnly
  BY DEF SessionInv, SessionFits
<1> QED BY <1>1, SessionInductive, PTL

\* No private page is shown without a session, whatever ended it.
THEOREM PrivatePagesClosed == Session!Spec => []Session!PrivatePages
<1>1. SessionInv => Session!PrivatePages
  BY DEF SessionInv, SessionFits
<1> QED BY <1>1, SessionInductive, PTL

\* logout clears localStorage too, so only signing in brings a session back.
THEOREM SignedOutForGood == Session!Spec => SignedOutStays
<1>1. ASSUME SessionInv, [Session!Next]_(Session!vars), token = None, token' # None
      PROVE  \E c \in Calls : calls[c].kind = "login" /\ calls'[c] = Session!Free
  <2>0. Session!TypeOK /\ stored = None
    BY <1>1 DEF SessionInv, SessionFits, StoredIsToken
  <2>1. ASSUME NEW to \in Session!Pages, Session!Visit(to) \/ Session!Load(to)
        PROVE  FALSE
    BY <1>1, <2>0, <2>1 DEF Session!Visit, Session!Load
  <2>2. ~Session!Logout
    BY <1>1 DEF Session!Logout
  <2>3. ASSUME NEW c \in Calls, NEW kind, NEW u, Session!Send(c, kind, u)
        PROVE  FALSE
    BY <1>1, <2>3 DEF Session!Send
  <2>4. ASSUME NEW c \in Calls, Session!Answer(c)
        PROVE  calls[c].kind = "login" /\ calls'[c] = Session!Free
    <3>1. Session!Succeeded(c) \/ Session!Failed(c)
      BY <2>4 DEF Session!Answer
    <3>2. calls' = [calls EXCEPT ![c] = Session!Free]
      BY <2>4 DEF Session!Answer, Session!Return
    <3>3. calls'[c] = Session!Free
      BY <2>0, <3>2 DEF Session!TypeOK
    <3>4. ~Session!Failed(c)
      BY <1>1 DEF Session!Failed, Session!SignOut
    <3>5. calls[c].kind \in {"initialize", "login", "profile", "password"}
      BY <2>0, <2>4 DEF Session!TypeOK, Session!Sent, Session!Answer, Session!InFlight
    <3>6. calls[c].kind \notin {"initialize", "profile", "password"}
      BY <1>1, <3>1, <3>4 DEF Session!Succeeded
    <3> QED BY <3>3, <3>5, <3>6
  <2>5. ~UNCHANGED Session!vars
    BY <1>1 DEF Session!vars
  <2> QED
    BY <1>1, <2>1, <2>2, <2>3, <2>4, <2>5
       DEF Session!Next, Session!Login, Session!Register, Session!UpdateProfile,
           Session!UpdatePassword
<1>2. SessionInv /\ [Session!Next]_(Session!vars) =>
        [token = None /\ token' # None =>
           \E c \in Calls : calls[c].kind = "login" /\ calls'[c] = Session!Free]_(Session!vars)
  BY <1>1
<1> QED BY <1>2, SessionInductive, PTL DEF Session!Spec, SignedOutStays, Session!SignedOutStays

\* Whatever fails or comes late, pages are for the user who is signed in.
THEOREM PagesMatch == Session!Spec => []PagesMatchSession
<1>1. Session!TypeOK /\ Session!UserOfToken /\ Session!AdminsOnly /\ Session!PrivatePages
        => PagesMatchSession
  BY DEF PagesMatchSession, Session!PagesMatchSession
<1> QED BY <1>1, GuardWaits, UserMatches, AdminPageClosed, PrivatePagesClosed, PTL

-----------------------------------------------------------------------------
(* The page of favorites *)

Distinct(s) == \A i, j \in 1 .. Len(s) : s[i] = s[j] => i = j
Elements(s) == {s[i] : i \in DOMAIN s}
IsList(s) == s \in Seq(Volumes) /\ Distinct(s)

CallTyped(q) ==
    /\ q = [kind |-> q.kind, book |-> q.book, index |-> q.index, result |-> q.result]
    /\ q.kind \in {"free", "fetch", "remove", "left"}
    /\ q.kind = "fetch" => q.book = None /\ (q.result # None => IsList(q.result))
    /\ q.kind = "remove" => q.book \in Volumes /\ q.index \in Nat

PageTyped ==
    /\ saved \subseteq Volumes /\ IsList(shown)
    /\ DOMAIN removals = Calls /\ \A c \in Calls : CallTyped(removals[c])

\* There is one fetch at a time, for opening the page leaves the others.
OneFetch ==
    /\ \A c, d \in Calls : removals[c].kind = "fetch" /\ removals[d].kind = "fetch" => c = d
    /\ waiting = (\E c \in Calls : removals[c].kind = "fetch")

\* What the only call in flight is about to show, or to cut.
Right(q) ==
    /\ q.kind # "left"
    /\ q.kind = "fetch" /\ q.result # None => Elements(q.result) = saved
    /\ q.kind = "remove" =>
         /\ q.index \in 1 .. Len(shown) /\ shown[q.index] = q.book
         /\ \/ q.result = None /\ Elements(shown) = saved
            \/ q.result = "ok" /\ q.book \notin saved /\ Elements(shown) = saved \cup {q.book}

\* While calls are one after the other, the page shows nothing or what is saved.
Orderly ==
    orderly =>
      /\ \A c, d \in Calls : Page!InFlight(c) /\ Page!InFlight(d) => c = d
      /\ \A c \in Calls : Page!InFlight(c) => Right(removals[c])
      /\ Page!Idle => shown = <<>> \/ Elements(shown) = saved

PageInv == PageTyped /\ OneFetch /\ Orderly

-----------------------------------------------------------------------------

LEMMA PageConstants == IsFiniteSet(Volumes) /\ None \notin Volumes /\ None # "ok"
BY ShopAssumption DEF Page!ShopFavoritesAssumption, Page!IsFiniteSet, IsFiniteSet

\* splice takes one book off a list.
LEMMA CutsOne ==
    ASSUME NEW s, IsList(s), NEW i \in Nat
    PROVE  /\ IsList(Page!Cut(s, i))
           /\ i \in 1 .. Len(s) => Elements(Page!Cut(s, i)) = Elements(s) \ {s[i]}
<1>1. CASE i \notin 1 .. Len(s)
  BY <1>1 DEF Page!Cut
<1>2. CASE i \in 1 .. Len(s)
  <2> DEFINE a == SubSeq(s, 1, i - 1)
             b == SubSeq(s, i + 1, Len(s))
             t == a \o b
             N == Len(s)
  <2>1. s \in Seq(Volumes) /\ N \in Nat /\ i \in 1 .. N /\ Distinct(s)
    BY <1>2 DEF IsList
  <2>2. Page!Cut(s, i) = t
    BY <1>2 DEF Page!Cut, Page!RemoveAt
  <2>3. /\ a \in Seq(Volumes) /\ Len(a) = i - 1
        /\ \A j \in 1 .. i - 1 : a[j] = s[j]
    BY <2>1
  <2>4. /\ b \in Seq(Volumes) /\ Len(b) = N - i
        /\ \A j \in 1 .. N - i : b[j] = s[i + j]
    BY <2>1
  <2> HIDE DEF a, b
  <2>5. /\ t \in Seq(Volumes) /\ Len(t) = Len(a) + Len(b)
        /\ \A j \in 1 .. Len(a) + Len(b) : t[j] = IF j <= Len(a) THEN a[j] ELSE b[j - Len(a)]
    BY <2>3, <2>4, ConcatProperties
  <2> HIDE DEF t, N
  <2>6. /\ Len(t) = N - 1
        /\ \A j \in 1 .. N - 1 : t[j] = IF j < i THEN s[j] ELSE s[j + 1]
    <3>1. Len(t) = N - 1
      BY <2>1, <2>3, <2>4, <2>5
    <3>2. ASSUME NEW j \in 1 .. N - 1 PROVE t[j] = IF j < i THEN s[j] ELSE s[j + 1]
      <4>1. CASE j < i
        BY <2>1, <2>3, <2>4, <2>5, <4>1
      <4>2. CASE ~(j < i)
        <5>1. j - (i - 1) \in 1 .. N - i /\ i + (j - (i - 1)) = j + 1
          BY <2>1, <4>2
        <5> QED BY <2>1, <2>3, <2>4, <2>5, <4>2, <5>1
      <4> QED BY <4>1, <4>2
    <3> QED BY <3>1, <3>2
  <2>7. Distinct(t)
    BY <2>1, <2>6 DEF Distinct, N
  <2>8. Elements(t) = Elements(s) \ {s[i]}
    <3>1. DOMAIN t = 1 .. N - 1 /\ DOMAIN s = 1 .. N
      BY <2>1, <2>5, <2>6 DEF N
    <3>2. ASSUME NEW j \in 1 .. N - 1 PROVE t[j] \in Elements(s) \ {s[i]}
      BY <2>1, <2>6, <3>1 DEF Elements, Distinct, N
    <3>3. ASSUME NEW j \in 1 .. N, s[j] # s[i] PROVE s[j] \in Elements(t)
      <4>1. CASE j < i
        BY <2>1, <2>6, <3>1, <4>1 DEF Elements
      <4>2. CASE j > i
        <5>1. j - 1 \in 1 .. N - 1 /\ ~(j - 1 < i) /\ (j - 1) + 1 = j
          BY <2>1, <4>2
        <5>2. t[j - 1] = s[j]
          BY <2>6, <5>1
        <5> QED BY <3>1, <5>1, <5>2 DEF Elements
      <4> QED BY <2>1, <3>3, <4>1, <4>2
    <3> QED BY <3>1, <3>2, <3>3 DEF Elements
  <2> QED BY <2>2, <2>5, <2>7, <2>8 DEF IsList
<1> QED BY <1>1, <1>2

\* The answer to a fetch lists what is saved.
LEMMA ListsAll ==
    ASSUME NEW S \in SUBSET Volumes, NEW s \in Page!SetToSeqs(S)
    PROVE  IsList(s) /\ Elements(s) = S
<1> DEFINE n == Cardinality(S)
<1>1. IsFiniteSet(S) /\ n \in Nat
  BY PageConstants, FS_Subset, FS_CardinalityType
<1>2. s \in [1 .. n -> S] /\ \A i, j \in 1 .. n : i # j => s[i] # s[j]
  BY DEF Page!SetToSeqs, Page!Cardinality, Cardinality
<1>3. s \in Injection(1 .. n, S)
  BY <1>2 DEF Injection, IsInjective
<1>4. IsFiniteSet(1 .. n) /\ Cardinality(1 .. n) = n
  BY <1>1, FS_Interval
<1>5. s \in Surjection(1 .. n, S)
  <2>1. Cardinality(1 .. n) = Cardinality(S)
    BY <1>4
  <2> HIDE DEF n
  <2> QED BY <1>1, <1>3, <2>1, FS_Injection
<1>6. s \in Seq(Volumes) /\ DOMAIN s = 1 .. n /\ Len(s) = n
  BY <1>1, <1>2
<1>7. Elements(s) = S
  BY <1>2, <1>5, <1>6 DEF Elements, Surjection
<1> QED BY <1>2, <1>6, <1>7 DEF IsList, Distinct

LEMMA FreeTyped == CallTyped(Page!Free) /\ Page!Free.kind = "free"
BY DEF CallTyped, Page!Free

LEMMA SentTyped ==
    ASSUME NEW kind, NEW b, NEW i,
           \/ kind = "fetch" /\ b = None
           \/ kind = "remove" /\ b \in Volumes /\ i \in Nat
    PROVE  LET q == Page!Sent(kind, b, i)
           IN  /\ CallTyped(q) /\ q.kind = kind /\ q.book = b /\ q.index = i
               /\ q.result = None
BY DEF CallTyped, Page!Sent

LEMMA PageBegins ==
    ASSUME Page!Init
    PROVE  PageInv
<1>1. PageTyped
  BY FreeTyped DEF Page!Init, PageTyped, IsList, Distinct
<1>2. OneFetch
  BY FreeTyped DEF Page!Init, OneFetch
<1>3. Orderly
  BY FreeTyped DEF Page!Init, Orderly, Page!InFlight
<1> QED BY <1>1, <1>2, <1>3 DEF PageInv

LEMMA AddKeeps ==
    ASSUME PageInv, NEW b \in Volumes, Page!Add(b)
    PROVE  PageInv'
BY DEF Page!Add, PageInv, PageTyped, OneFetch, Orderly

\* Whatever was in flight is left.
LEMMA OpenKeeps ==
    ASSUME PageInv, NEW c \in Calls, Page!Open(c)
    PROVE  PageInv'
<1> DEFINE q == Page!Sent("fetch", None, 0)
<1>0. PageTyped
  BY DEF PageInv
<1>1. /\ shown' = <<>> /\ waiting' = TRUE /\ saved' = saved
      /\ orderly' = (orderly /\ Page!Idle) /\ DOMAIN removals' = Calls /\ removals'[c] = q
      /\ \A d \in Calls \ {c} : removals'[d] = IF Page!InFlight(d)
                                               THEN [removals[d] EXCEPT !.kind = "left"]
                                               ELSE Page!Free
  BY DEF Page!Open
<1>2. CallTyped(q) /\ q.kind = "fetch" /\ q.result = None
  BY SentTyped
<1> HIDE DEF q
<1>3. ASSUME NEW d \in Calls \ {c}
      PROVE  CallTyped(removals'[d]) /\ removals'[d].kind \in {"left", "free"}
  <2>1. CASE Page!InFlight(d)
    <3> DEFINE p == removals[d]
    <3>1. CallTyped(p)
      BY <1>0 DEF PageTyped
    <3>2. removals'[d] = [p EXCEPT !.kind = "left"]
      BY <1>1, <2>1
    <3> HIDE DEF p
    <3> QED BY <3>1, <3>2 DEF CallTyped
  <2>2. CASE ~Page!InFlight(d)
    BY <1>1, <2>2, FreeTyped
  <2> QED BY <2>1, <2>2
<1>4. PageTyped'
  BY <1>0, <1>1, <1>2, <1>3 DEF PageTyped, IsList, Distinct
<1>5. OneFetch'
  BY <1>1, <1>2, <1>3 DEF OneFetch
<1>6. Orderly'
  <2> SUFFICES ASSUME orderly'
      PROVE  /\ \A d \in Calls \ {c} : ~Page!InFlight(d)'
             /\ Right(removals[c])'
             /\ Page!InFlight(c)'
    BY DEF Orderly, Page!Idle
  <2>1. Page!Idle
    BY <1>1
  <2>2. \A d \in Calls \ {c} : removals'[d] = Page!Free
    BY <1>1, <2>1 DEF Page!Idle
  <2> QED BY <1>1, <1>2, <2>2, FreeTyped DEF Right, Page!InFlight
<1> QED BY <1>4, <1>5, <1>6 DEF PageInv

LEMMA RemoveFromKeeps ==
    ASSUME PageInv, NEW c \in Calls, NEW i \in Nat, Page!RemoveFrom(c, i)
    PROVE  PageInv'
<1> DEFINE q == Page!Sent("remove", shown[i], i)
<1>0. PageTyped /\ OneFetch /\ Orderly
  BY DEF PageInv
<1>1. /\ ~Page!InFlight(c) /\ i \in 1 .. Len(shown) /\ removals' = [removals EXCEPT ![c] = q]
      /\ orderly' = (orderly /\ Page!Idle) /\ UNCHANGED <<saved, shown, waiting>>
  BY DEF Page!RemoveFrom
<1>2. shown \in Seq(Volumes) /\ shown[i] \in Volumes
  BY <1>0, <1>1 DEF PageTyped, IsList
<1>3. CallTyped(q) /\ q.kind = "remove" /\ q.book = shown[i] /\ q.index = i /\ q.result = None
  BY <1>2, SentTyped
<1> HIDE DEF q
<1>4. /\ DOMAIN removals' = Calls /\ removals'[c] = q
      /\ \A d \in Calls \ {c} : removals'[d] = removals[d]
  BY <1>0, <1>1 DEF PageTyped
<1>5. PageTyped'
  BY <1>0, <1>1, <1>3, <1>4 DEF PageTyped
<1>6. OneFetch'
  <2>1. \A d \in Calls : removals'[d].kind = "fetch" <=> removals[d].kind = "fetch"
    BY <1>1, <1>3, <1>4 DEF Page!InFlight
  <2> QED BY <1>0, <1>1, <2>1 DEF OneFetch
<1>7. Orderly'
  <2> SUFFICES ASSUME orderly'
      PROVE  /\ \A d \in Calls \ {c} : ~Page!InFlight(d)'
             /\ Right(removals[c])'
             /\ Page!InFlight(c)'
    BY DEF Orderly, Page!Idle
  <2>1. Page!Idle /\ orderly
    BY <1>1
  <2>2. Elements(shown) = saved
    BY <1>0, <1>1, <2>1 DEF Orderly
  <2> QED BY <1>1, <1>3, <1>4, <2>1, <2>2 DEF Right, Page!InFlight, Page!Idle
<1> QED BY <1>5, <1>6, <1>7 DEF PageInv

\* A call in flight has got its result.
LEMMA ServeKeeps ==
    ASSUME PageInv, NEW c \in Calls, Page!Serve(c)
    PROVE  PageInv'
<1> DEFINE p == removals[c]
           q == removals'[c]
<1>0. PageTyped /\ OneFetch /\ Orderly /\ CallTyped(p)
  BY DEF PageInv, PageTyped
<1>1. /\ Page!InFlight(c) /\ p.result = None /\ UNCHANGED <<shown, waiting, orderly>>
      /\ \/ \E s \in Page!SetToSeqs(saved) :
               p.book = None /\ removals' = Page!Answered(c, s) /\ saved' = saved
         \/ /\ p.book # None /\ saved' = saved \ {p.book}
            /\ removals' = Page!Answered(c, IF p.book \in saved THEN "ok" ELSE "failed")
  BY DEF Page!Serve
<1>2. PICK result :
         /\ removals' = [removals EXCEPT ![c].result = result]
         /\ \/ /\ p.book = None /\ IsList(result) /\ Elements(result) = saved /\ saved' = saved
            \/ /\ p.book # None /\ saved' = saved \ {p.book}
               /\ result = IF p.book \in saved THEN "ok" ELSE "failed"
  BY <1>0, <1>1, ListsAll DEF Page!Answered, PageTyped
<1>3. /\ DOMAIN removals' = Calls /\ q = [p EXCEPT !.result = result]
      /\ \A d \in Calls \ {c} : removals'[d] = removals[d]
  BY <1>0, <1>2 DEF PageTyped
<1>4. q.kind = p.kind /\ q.book = p.book /\ q.index = p.index /\ q.result = result
      /\ q = [kind |-> q.kind, book |-> q.book, index |-> q.index, result |-> q.result]
  BY <1>0, <1>3 DEF CallTyped
<1> HIDE DEF p, q
<1>5. CallTyped(q)
  BY <1>0, <1>2, <1>4 DEF CallTyped
<1>6. PageTyped'
  BY <1>0, <1>1, <1>2, <1>3, <1>5 DEF PageTyped, q
<1>7. OneFetch'
  <2>1. \A d \in Calls : removals'[d].kind = removals[d].kind
    BY <1>3, <1>4 DEF p, q
  <2> QED BY <1>0, <1>1, <2>1 DEF OneFetch
<1>8. Orderly'
  <2> SUFFICES ASSUME orderly'
      PROVE  /\ \A d \in Calls \ {c} : ~Page!InFlight(d)'
             /\ Right(removals[c])'
             /\ Page!InFlight(c)'
    BY DEF Orderly, Page!Idle
  <2>1. /\ orderly /\ Right(p) /\ \A d \in Calls \ {c} : ~Page!InFlight(d)
    BY <1>0, <1>1 DEF Orderly, p
  <2>2. \A d \in Calls \ {c} : ~Page!InFlight(d)'
    BY <1>3, <2>1 DEF Page!InFlight
  <2>3. Page!InFlight(c)'
    BY <1>1, <1>4 DEF Page!InFlight, p, q
  <2>4. CASE p.kind = "fetch"
    BY <1>0, <1>2, <1>4, <2>1, <2>2, <2>3, <2>4 DEF CallTyped, Right, q
  <2>5. CASE p.kind = "remove"
    <3>1. p.book # None
      BY <1>0, <2>5, PageConstants DEF CallTyped
    <3>2. /\ p.index \in 1 .. Len(shown) /\ shown[p.index] = p.book /\ Elements(shown) = saved
      BY <1>1, <2>1, <2>5, PageConstants DEF Right, p
    <3>3. p.book \in saved
      BY <1>0, <3>2 DEF Elements, PageTyped, IsList
    <3>4. saved' = saved \ {p.book} /\ q.result = "ok" /\ Elements(shown) = saved' \cup {q.book}
      BY <1>2, <1>4, <3>1, <3>2, <3>3
    <3> QED BY <1>1, <1>4, <2>2, <2>3, <2>5, <3>2, <3>4 DEF Right, q
  <2> QED BY <1>0, <1>1, <2>1, <2>4, <2>5 DEF CallTyped, Right, Page!InFlight, p
<1> QED BY <1>6, <1>7, <1>8 DEF PageInv

\* A call that is over, with or without an answer, and what it leaves.
LEMMA CallOver ==
    ASSUME PageInv, NEW c \in Calls, Page!InFlight(c), Page!Return(c), saved' = saved,
           waiting' = IF removals[c].kind = "fetch" THEN FALSE ELSE waiting,
           IsList(shown'), orderly' => orderly /\ (shown' = <<>> \/ Elements(shown') = saved)
    PROVE  PageInv'
<1>0. PageTyped /\ OneFetch /\ Orderly
  BY DEF PageInv
<1>1. /\ DOMAIN removals' = Calls /\ removals'[c] = Page!Free
      /\ \A d \in Calls \ {c} : removals'[d] = removals[d]
  BY <1>0 DEF Page!Return, PageTyped
<1>2. PageTyped'
  BY <1>0, <1>1, FreeTyped DEF PageTyped
<1>3. OneFetch'
  <2>1. CASE removals[c].kind = "fetch"
    BY <1>0, <1>1, <2>1, FreeTyped DEF OneFetch
  <2>2. CASE removals[c].kind # "fetch"
    <3>1. \A d \in Calls : removals'[d].kind = "fetch" <=> removals[d].kind = "fetch"
      BY <1>1, <2>2, FreeTyped
    <3> QED BY <1>0, <2>2, <3>1 DEF OneFetch
  <2> QED BY <2>1, <2>2
<1>4. Orderly'
  <2> SUFFICES ASSUME orderly'
      PROVE  /\ \A d \in Calls : ~Page!InFlight(d)'
             /\ shown' = <<>> \/ Elements(shown)' = saved'
    BY DEF Orderly
  <2>1. \A d \in Calls \ {c} : ~Page!InFlight(d)
    BY <1>0 DEF Orderly
  <2>2. \A d \in Calls : ~Page!InFlight(d)'
    BY <1>1, <2>1, FreeTyped DEF Page!InFlight
  <2> QED BY <2>2
<1> QED BY <1>2, <1>3, <1>4 DEF PageInv

LEMMA ReceiveKeeps ==
    ASSUME PageInv, NEW c \in Calls, Page!Receive(c)
    PROVE  PageInv'
<1> DEFINE p == removals[c]
<1>0. /\ PageTyped /\ OneFetch /\ Orderly /\ CallTyped(p) /\ Page!InFlight(c) /\ p.result # None
      /\ Page!Return(c) /\ saved' = saved /\ orderly' = orderly /\ (orderly => Right(p))
  BY DEF PageInv, PageTyped, Orderly, Page!Receive
<1>1. CASE p.kind = "fetch"
  <2>1. shown' = p.result /\ waiting' = FALSE
    BY <1>1 DEF Page!Receive
  <2>2. IsList(p.result) /\ (orderly => Elements(p.result) = saved)
    BY <1>0, <1>1 DEF CallTyped, Right
  <2> QED BY <1>0, <1>1, <2>1, <2>2, CallOver
<1>2. CASE p.kind = "remove"
  <2>1. /\ shown' = IF p.result = "ok" THEN Page!Cut(shown, p.index) ELSE shown
        /\ waiting' = waiting
    BY <1>2 DEF Page!Receive
  <2>2. IsList(shown) /\ p.index \in Nat
    BY <1>0, <1>2 DEF PageTyped, CallTyped
  <2>3. IsList(shown')
    BY <2>1, <2>2, CutsOne
  <2>4. ASSUME orderly PROVE Elements(shown') = saved
    <3>1. /\ p.index \in 1 .. Len(shown) /\ shown[p.index] = p.book
          /\ p.result = "ok" /\ p.book \notin saved /\ Elements(shown) = saved \cup {p.book}
      BY <1>0, <1>2, <2>4 DEF Right
    <3>2. Elements(shown') = Elements(shown) \ {p.book}
      BY <2>1, <2>2, <3>1, CutsOne
    <3> QED BY <3>1, <3>2
  <2> QED BY <1>0, <1>2, <2>1, <2>3, <2>4, CallOver
<1>3. CASE p.kind = "left"
  <2>1. shown' = shown /\ waiting' = waiting /\ ~orderly /\ IsList(shown)
    BY <1>0, <1>3 DEF Page!Receive, Right, PageTyped
  <2> QED BY <1>0, <1>3, <2>1, CallOver
<1> QED BY <1>0, <1>1, <1>2, <1>3 DEF CallTyped, Page!InFlight

LEMMA FailKeeps ==
    ASSUME PageInv, NEW c \in Calls, Page!Fail(c)
    PROVE  PageInv'
<1> DEFINE p == removals[c]
<1>0. /\ PageTyped /\ OneFetch /\ Orderly /\ CallTyped(p) /\ Page!InFlight(c)
      /\ Page!Return(c) /\ saved' = saved /\ shown' = shown
      /\ orderly' = (orderly /\ p.kind = "remove" /\ p.result # "ok") /\ (orderly => Right(p))
  BY DEF PageInv, PageTyped, Orderly, Page!Fail
<1>1. waiting' = IF p.kind = "fetch" THEN FALSE ELSE waiting
  BY <1>0 DEF Page!Fail, OneFetch
<1>2. IsList(shown') /\ (orderly' => orderly /\ Elements(shown') = saved)
  BY <1>0 DEF PageTyped, Right
<1> QED BY <1>0, <1>1, <1>2, CallOver

-----------------------------------------------------------------------------

\* Every reachable state of the page of favorites satisfies its invariant.
THEOREM PageInductive == Page!Spec => []PageInv
<1>1. Page!Init => PageInv
  BY PageBegins
<1>2. PageInv /\ [Page!Next]_(Page!vars) => PageInv'
  <2> SUFFICES ASSUME PageInv, [Page!Next]_(Page!vars) PROVE PageInv'
    OBVIOUS
  <2>1. CASE UNCHANGED Page!vars
    BY <2>1 DEF Page!vars, PageInv, PageTyped, OneFetch, Orderly, Right, Page!InFlight, Page!Idle
  <2>2. CASE Page!Next
    <3>1. \/ \E b \in Volumes : Page!Add(b)
          \/ \E c \in Calls : \/ Page!Open(c) \/ Page!Serve(c) \/ Page!Receive(c) \/ Page!Fail(c)
                              \/ \E i : Page!RemoveFrom(c, i)
      BY <2>2 DEF Page!Next
    <3>2. ASSUME NEW c \in Calls, NEW i, Page!RemoveFrom(c, i)
          PROVE  i \in Nat
      BY <3>2 DEF Page!RemoveFrom, PageInv, PageTyped, IsList
    <3> QED BY <3>1, <3>2, AddKeeps, OpenKeeps, RemoveFromKeeps, ServeKeeps, ReceiveKeeps,
               FailKeeps
  <2> QED BY <2>1, <2>2
<1> QED BY <1>1, <1>2, PTL DEF Page!Spec

\* The page loads while its fetch is in flight; and removals that follow upon
\* each other, each at the place its favorite has, leave what is saved.
THEOREM PageShowsSaved == Page!Spec => []FavoritesShown
<1>1. PageInv => FavoritesShown
  <2> SUFFICES ASSUME PageInv PROVE FavoritesShown
    OBVIOUS
  <2>1. Page!LoadsWhileFetching
    BY DEF PageInv, OneFetch, Page!LoadsWhileFetching
  <2>2. Page!ShownIsSaved
    <3>1. shown = <<>> => Page!Shown = {}
      BY DEF Page!Shown
    <3> QED BY <3>1 DEF PageInv, Orderly, Page!ShownIsSaved, Page!Shown, Elements
  <2> QED BY <2>1, <2>2 DEF FavoritesShown
<1> QED BY <1>1, PageInductive, PTL

-----------------------------------------------------------------------------
(* The store of books *)

\* s holds each member of R once.
Lists(s, R) == s \in Seq(R) /\ Distinct(s) /\ Elements(s) = R

BookRows == [id : Shelved, version : Nat]
\* The rows of a table, given the versions of its books.
RowsOf(f) == {[id |-> b, version |-> f[b]] : b \in {d \in DOMAIN f : f[d] # None}}

\* What is assumed of the books and of what is called and entered.
LEMMA StoreConstants ==
    /\ IsFiniteSet(Shelved) /\ Shelved \subseteq Nat /\ First \subseteq Shelved
    /\ StoreOps \subseteq {"get", "create", "update", "delete"}
    /\ Filters \subseteq [text : BOOLEAN, range : BOOLEAN, author : {FALSE}]
    /\ None \notin Nat /\ None # "shown" /\ None \notin BookRows
BY ShopAssumption DEF Store!ShopBooksAssumption, Store!IsFiniteSet, IsFiniteSet, BookRows

-----------------------------------------------------------------------------
(* Lists *)

\* A list is as long as its set is large.
LEMMA Counted ==
    ASSUME NEW R, NEW s, Lists(s, R)
    PROVE  IsFiniteSet(R) /\ Cardinality(R) = Len(s) /\ Len(s) \in Nat /\ DOMAIN s = 1 .. Len(s)
<1> DEFINE n == Len(s)
<1>1. n \in Nat /\ DOMAIN s = 1 .. n /\ s \in [1 .. n -> R]
  BY DEF Lists
<1>2. s \in Bijection(1 .. n, R)
  BY <1>1 DEF Lists, Distinct, Elements, Bijection, Injection, Surjection, IsInjective
<1>3. ExistsBijection(1 .. n, R)
  BY <1>2 DEF ExistsBijection
<1> HIDE DEF n
<1>4. IsFiniteSet(R) /\ Cardinality(R) = n
  BY <1>1, <1>3, FS_NatBijection, FS_CountingElements
<1> QED BY <1>1, <1>4 DEF n

\* A function that has each of n places once is a list.
LEMMA ListsPlaces ==
    ASSUME NEW R, NEW n \in Nat, NEW s \in [1 .. n -> R],
           \A i, j \in 1 .. n : s[i] = s[j] => i = j, \A r \in R : \E i \in 1 .. n : s[i] = r
    PROVE  Lists(s, R) /\ Len(s) = n
<1>1. s \in Seq(R) /\ Len(s) = n /\ DOMAIN s = 1 .. n
  OBVIOUS
<1> QED BY <1>1 DEF Lists, Distinct, Elements

\* Some order of a finite set.
LEMMA SomeOrder ==
    ASSUME NEW S, IsFiniteSet(S)
    PROVE  Lists(Store!SetToSeq(S), S) /\ Len(Store!SetToSeq(S)) = Cardinality(S)
<1> DEFINE n == Cardinality(S)
           P(f) == f \in [1 .. n -> S] /\ IsInjective(f)
           s == Store!SetToSeq(S)
<1>1. n \in Nat /\ ExistsBijection(1 .. n, S)
  BY FS_CardinalityType
<1>2. \E f : P(f)
  BY <1>1 DEF ExistsBijection, Bijection, Injection
<1>3. s = CHOOSE f : P(f)
  BY DEF Store!SetToSeq, Store!IsInjective, IsInjective, Store!Cardinality, Cardinality
<1> HIDE DEF s
<1>4. P(s)
  <2> HIDE DEF P
  <2> QED BY <1>2, <1>3
<1>5. s \in Injection(1 .. n, S)
  BY <1>4 DEF Injection
<1>6. IsFiniteSet(1 .. n) /\ Cardinality(1 .. n) = Cardinality(S)
  BY <1>1, FS_Interval
<1>7. s \in Surjection(1 .. n, S)
  <2> HIDE DEF n
  <2> QED BY <1>5, <1>6, FS_Injection
<1> HIDE DEF n
<1>8. /\ \A i, j \in 1 .. n : s[i] = s[j] => i = j
      /\ \A r \in S : \E i \in 1 .. n : s[i] = r
  BY <1>4, <1>7 DEF IsInjective, Surjection
<1>9. s \in [1 .. n -> S]
  BY <1>4
<1> HIDE DEF P
<1>10. Lists(s, S) /\ Len(s) = n
  BY <1>1, <1>8, <1>9, ListsPlaces
<1> QED BY <1>10 DEF s, n

\* A new row comes first.
LEMMA Prepended ==
    ASSUME NEW R, NEW s, Lists(s, R), NEW a, a \notin R
    PROVE  Lists(<<a>> \o s, R \cup {a}) /\ Len(<<a>> \o s) = Len(s) + 1
<1> DEFINE n == Len(s)
           t == <<a>> \o s
           Q == R \cup {a}
<1>1. n \in Nat /\ s \in [1 .. n -> R] /\ \A r \in R : \E i \in 1 .. n : s[i] = r
  BY DEF Lists, Elements
<1>2. s \in Seq(Q) /\ <<a>> \in Seq(Q) /\ Len(<<a>>) = 1 /\ <<a>>[1] = a
  BY <1>1
<1>3. /\ t \in Seq(Q) /\ Len(t) = n + 1
      /\ \A i \in 1 .. n + 1 : t[i] = IF i <= 1 THEN <<a>>[i] ELSE s[i - 1]
  BY <1>1, <1>2, ConcatProperties
<1> HIDE DEF t, n
<1>4. t[1] = a /\ \A i \in 1 .. n : t[i + 1] = s[i]
  <2>1. t[1] = a
    BY <1>1, <1>2, <1>3
  <2>2. ASSUME NEW i \in 1 .. n PROVE t[i + 1] = s[i]
    <3>1. i + 1 \in 1 .. n + 1 /\ ~(i + 1 <= 1) /\ (i + 1) - 1 = i
      BY <1>1
    <3> QED BY <1>3, <3>1
  <2> QED BY <2>1, <2>2
<1>5. \A i \in 1 .. n + 1 : i = 1 \/ (i - 1 \in 1 .. n /\ t[i] = s[i - 1])
  <2> TAKE i \in 1 .. n + 1
  <2>1. i = 1 \/ (i - 1 \in 1 .. n /\ ~(i <= 1))
    BY <1>1
  <2> QED BY <1>3, <2>1
<1>6. \A i, j \in 1 .. n + 1 : t[i] = t[j] => i = j
  <2> SUFFICES ASSUME NEW i \in 1 .. n + 1, NEW j \in 1 .. n + 1, t[i] = t[j] PROVE i = j
    OBVIOUS
  <2>1. CASE i = 1 \/ j = 1
    BY <1>1, <1>4, <1>5, <2>1
  <2>2. CASE i # 1 /\ j # 1
    <3>1. i - 1 \in 1 .. n /\ j - 1 \in 1 .. n /\ s[i - 1] = s[j - 1]
      BY <1>5, <2>2
    <3>2. i - 1 = j - 1
      BY <3>1 DEF Lists, Distinct, n
    <3> QED BY <1>1, <3>2
  <2> QED BY <2>1, <2>2
<1>7. \A r \in Q : \E i \in 1 .. n + 1 : t[i] = r
  <2> TAKE r \in Q
  <2>1. CASE r = a
    BY <1>1, <1>4, <2>1
  <2>2. CASE r \in R
    <3>1. PICK i \in 1 .. n : s[i] = r
      BY <1>1, <2>2
    <3>2. i + 1 \in 1 .. n + 1
      BY <1>1
    <3> QED BY <1>4, <3>1, <3>2
  <2> QED BY <2>1, <2>2
<1>8. t \in [1 .. n + 1 -> Q] /\ n + 1 \in Nat
  BY <1>1, <1>3
<1>9. Lists(t, Q) /\ Len(t) = n + 1
  <2> DEFINE m == n + 1
  <2>1. /\ m \in Nat /\ t \in [1 .. m -> Q] /\ \A i, j \in 1 .. m : t[i] = t[j] => i = j
        /\ \A r \in Q : \E i \in 1 .. m : t[i] = r
    BY <1>6, <1>7, <1>8
  <2> HIDE DEF Q, m
  <2>2. Lists(t, Q) /\ Len(t) = m
    BY <2>1, ListsPlaces
  <2> QED BY <2>2 DEF m
<1> QED BY <1>9 DEF t, n, Q

\* The row that has the id gives way to another of that id.
LEMMA Replaced ==
    ASSUME NEW R, NEW s, Lists(s, R), NEW r \in R, NEW a, a.id = r.id,
           \A q \in R : q.id = r.id => q = r
    PROVE  Lists(Store!With(s, a), (R \ {r}) \cup {a}) /\ Len(Store!With(s, a)) = Len(s)
<1> DEFINE n == Len(s)
           t == Store!With(s, a)
           Q == (R \ {r}) \cup {a}
<1>1. /\ n \in Nat /\ s \in [1 .. n -> R] /\ DOMAIN s = 1 .. n
      /\ \A q \in R : \E i \in 1 .. n : s[i] = q
      /\ \A i, j \in 1 .. n : s[i] = s[j] => i = j
  BY DEF Lists, Elements, Distinct
<1>2. PICK k \in 1 .. n : s[k] = r
  BY <1>1
<1> HIDE DEF n
<1>3. \A i \in 1 .. n : s[i].id = r.id <=> i = k
  BY <1>1, <1>2
<1>4. \A i \in 1 .. n : t[i] = IF i = k THEN a ELSE s[i]
  <2>1. \A j \in 1 .. k - 1 : s[j].id # r.id
    <3> TAKE j \in 1 .. k - 1
    <3>1. j \in 1 .. n /\ j # k
      BY <1>1
    <3> QED BY <1>3, <3>1
  <2>2. \A i \in 1 .. n : t[i] = IF s[i].id = r.id /\ (\A j \in 1 .. i - 1 : s[j].id # r.id)
                                 THEN a ELSE s[i]
    BY <1>1 DEF Store!With
  <2> QED BY <1>3, <2>1, <2>2
<1>5. DOMAIN t = 1 .. n /\ t = [i \in 1 .. n |-> t[i]]
  BY <1>1 DEF Store!With
<1> HIDE DEF t
<1>6. t \in [1 .. n -> Q]
  BY <1>1, <1>2, <1>4, <1>5
<1>7. \A i, j \in 1 .. n : t[i] = t[j] => i = j
  <2> TAKE i, j \in 1 .. n
  <2>1. \A l \in 1 .. n : l # k => s[l] # a
    BY <1>3
  <2> QED BY <1>1, <1>4, <2>1
<1>8. \A q \in Q : \E i \in 1 .. n : t[i] = q
  <2> TAKE q \in Q
  <2>1. CASE q = a
    BY <1>2, <1>4, <2>1
  <2>2. CASE q \in R \ {r}
    <3>1. PICK i \in 1 .. n : s[i] = q
      BY <1>1, <2>2
    <3> QED BY <1>2, <1>4, <2>2, <3>1
  <2> QED BY <2>1, <2>2
<1> HIDE DEF Q
<1>9. Lists(t, Q) /\ Len(t) = n
  BY <1>1, <1>6, <1>7, <1>8, ListsPlaces
<1> QED BY <1>9 DEF t, n, Q

\* The row that has the id is left out.
LEMMA Removed ==
    ASSUME NEW R, NEW s, Lists(s, R), NEW r \in R, \A q \in R : q.id = r.id => q = r
    PROVE  Lists(Store!Without(s, r.id), R \ {r}) /\ Len(Store!Without(s, r.id)) = Len(s) - 1
<1> DEFINE n == Len(s)
           kept == {i \in DOMAIN s : s[i].id # r.id}
           m == Cardinality(kept)
           P(f) == f \in [1 .. m -> kept] /\ \A i, j \in DOMAIN f : i < j => f[i] < f[j]
           place == CHOOSE f : P(f)
           t == [i \in DOMAIN place |-> s[place[i]]]
<1>1. /\ n \in Nat /\ s \in [1 .. n -> R] /\ DOMAIN s = 1 .. n
      /\ \A q \in R : \E i \in 1 .. n : s[i] = q
      /\ \A i, j \in 1 .. n : s[i] = s[j] => i = j
  BY DEF Lists, Elements, Distinct
<1>2. PICK k \in 1 .. n : s[k] = r
  BY <1>1
<1>3. Store!Without(s, r.id) = t
  BY DEF Store!Without, Store!Cardinality, Cardinality
<1> HIDE DEF n
<1>4. kept = (1 .. n) \ {k}
  BY <1>1, <1>2
<1> HIDE DEF kept
<1>5. m = n - 1 /\ IsFiniteSet(kept) /\ m \in Nat
  <2>1. IsFiniteSet(1 .. n) /\ Cardinality(1 .. n) = n
    BY <1>1, FS_Interval
  <2>2. Cardinality((1 .. n) \ {k}) = n - 1 /\ IsFiniteSet((1 .. n) \ {k})
    BY <2>1, FS_RemoveElement
  <2> QED BY <1>1, <1>2, <1>4, <2>2
<1> HIDE DEF m
<1>6. \E f : P(f)
  <2> DEFINE g == [i \in 1 .. m |-> IF i < k THEN i ELSE i + 1]
  <2>1. ASSUME NEW i \in 1 .. m PROVE g[i] \in kept
    <3>1. i \in 1 .. n /\ i + 1 \in 1 .. n /\ k \in Nat
      BY <1>1, <1>2, <1>5
    <3> QED BY <1>4, <3>1
  <2>2. ASSUME NEW i \in 1 .. m, NEW j \in 1 .. m, i < j PROVE g[i] < g[j]
    <3>1. i \in Nat /\ j \in Nat /\ k \in Nat
      BY <1>1, <1>2, <1>5
    <3> QED BY <2>2, <3>1
  <2>3. g \in [1 .. m -> kept] /\ DOMAIN g = 1 .. m
    BY <2>1
  <2> HIDE DEF g
  <2>4. P(g)
    BY <2>2, <2>3
  <2> QED BY <2>4
<1>7. P(place)
  <2> HIDE DEF P
  <2> QED BY <1>6
<1> HIDE DEF place
<1>8. /\ place \in [1 .. m -> kept] /\ DOMAIN place = 1 .. m
      /\ \A i, j \in 1 .. m : i < j => place[i] < place[j]
  BY <1>7
<1>9. \A i, j \in 1 .. m : place[i] = place[j] => i = j
  <2> TAKE i, j \in 1 .. m
  <2>1. place[i] \in kept /\ place[j] \in kept
    BY <1>8
  <2>2. place[i] \in Nat /\ place[j] \in Nat /\ i \in Nat /\ j \in Nat
    BY <1>1, <1>4, <1>5, <2>1
  <2>3. i < j \/ i = j \/ j < i
    BY <2>2
  <2> QED BY <1>8, <2>2, <2>3
<1>10. \A x \in kept : \E i \in 1 .. m : place[i] = x
  <2>1. place \in Injection(1 .. m, kept)
    BY <1>8, <1>9 DEF Injection, IsInjective
  <2>2. IsFiniteSet(1 .. m) /\ Cardinality(1 .. m) = Cardinality(kept)
    BY <1>5, FS_Interval DEF m
  <2>3. place \in Surjection(1 .. m, kept)
    BY <1>5, <2>1, <2>2, FS_Injection
  <2> QED BY <2>3 DEF Surjection
<1>11. /\ \A i \in 1 .. m : t[i] = s[place[i]] /\ place[i] \in 1 .. n /\ place[i] # k
       /\ t = [i \in 1 .. m |-> t[i]]
  BY <1>4, <1>8
<1> HIDE DEF t
<1>12. t \in [1 .. m -> R \ {r}]
  <2>1. ASSUME NEW i \in 1 .. m PROVE t[i] \in R \ {r}
    <3>1. place[i] \in 1 .. n /\ place[i] # k /\ t[i] = s[place[i]]
      BY <1>11
    <3> QED BY <1>1, <1>2, <3>1
  <2> QED BY <1>11, <2>1
<1>13. \A i, j \in 1 .. m : t[i] = t[j] => i = j
  BY <1>1, <1>9, <1>11
<1>14. \A q \in R \ {r} : \E i \in 1 .. m : t[i] = q
  <2> TAKE q \in R \ {r}
  <2>1. PICK x \in 1 .. n : s[x] = q
    BY <1>1
  <2>2. x \in kept
    BY <1>2, <1>4, <2>1
  <2> QED BY <1>10, <1>11, <2>1, <2>2
<1>15. Lists(t, R \ {r}) /\ Len(t) = m
  <2> DEFINE Q == R \ {r}
  <2>1. t \in [1 .. m -> Q] /\ \A q \in Q : \E i \in 1 .. m : t[i] = q
    BY <1>12, <1>14
  <2> HIDE DEF Q
  <2>2. Lists(t, Q) /\ Len(t) = m
    BY <1>5, <1>13, <2>1, ListsPlaces
  <2> QED BY <2>2 DEF Q
<1> QED BY <1>3, <1>5, <1>15 DEF n

-----------------------------------------------------------------------------
(* The inductive invariant of the store of books *)

\* What the store will hold once the answer of p has arrived.
ListAfter(p, s) ==
    IF p.result = None THEN s
    ELSE CASE p.kind = "create" -> <<p.result>> \o s
           [] p.kind = "update" -> Store!With(s, p.result)
           [] p.kind = "delete" -> Store!Without(s, p.result.id)
           [] OTHER -> s
TotalAfter(p, n) ==
    IF p.result = None THEN n
    ELSE CASE p.kind = "create" -> n + 1
           [] p.kind = "delete" -> n - 1
           [] OTHER -> n
Becomes(x, id, row) == IF x # None /\ x.id = id THEN row ELSE x
CurrentAfter(p, x) ==
    IF p.result = None THEN x
    ELSE CASE p.kind = "get" -> p.result
           [] p.kind = "update" -> Becomes(x, p.result.id, p.result)
           [] p.kind = "delete" -> Becomes(x, p.result.id, None)
           [] OTHER -> x

\* The versions f at the server are those that the store is about to hold: with w
\* also in its list s and its total n, and always in its single book x.
Pending(p, f, s, n, x, w) ==
    /\ w => Lists(ListAfter(p, s), RowsOf(f)) /\ TotalAfter(p, n) = Len(ListAfter(p, s))
    /\ CurrentAfter(p, x) # None => CurrentAfter(p, x) \in RowsOf(f)
    /\ p.kind = "list" /\ p.result # None /\ p.query = Store!Everything
          => Lists(p.result, RowsOf(f))

\* The list is that of all books.
Whole(l) == l.came = "shown" /\ l.query = Store!Everything

Rightly == Pending(Store!Free, shelf, listed, total, current, Whole(latest))

InStep ==
    sure =>
      /\ \A c, d \in Calls : Store!InFlight(c) /\ Store!InFlight(d) => c = d
      /\ \A c \in Calls : Store!InFlight(c) =>
            /\ Pending(fetches[c], shelf, listed, total, current, Whole(latest))
            /\ fetches[c].kind = "list" => latest.call = c
      /\ Store!Idle => Rightly

Changing == {"create", "update", "delete"}
Ids(s) == {s[i].id : i \in DOMAIN s}

StoreCall(p) ==
    /\ p = [kind |-> p.kind, id |-> p.id, query |-> p.query, result |-> p.result]
    /\ p.kind \in {"free", "list", "get"} \cup Changing
    /\ p.kind = "free" => p.result = None

ShelfOK(f) ==
    /\ f = [b \in DOMAIN f |-> f[b]] /\ DOMAIN f \subseteq Shelved
    /\ \A b \in DOMAIN f : f[b] \in Nat \cup {None}

IsLatest(l) == l = [call |-> l.call, query |-> l.query, came |-> l.came]

StoreTyped ==
    /\ ShelfOK(shelf) /\ IsLatest(latest)
    /\ fetches = [c \in Calls |-> fetches[c]] /\ \A c \in Calls : StoreCall(fetches[c])

\* The last list asked for is that of the filter, and not there while it is read.
Asked ==
    /\ filter \in Filters \cup {Store!Everything}
    /\ view = "books" => latest.query = Store!Query(filter)
    /\ \A c \in Calls : fetches[c].kind = "list" /\ latest.call = c =>
          latest.came = None /\ fetches[c].query = latest.query

\* What lists hold of a table that is as it was to begin with.
Unchanged(f, sent, l, s) ==
    DOMAIN f \subseteq First /\ (\A b \in DOMAIN f : f[b] = 0) =>
      /\ \A c \in Calls : sent[c].kind \in Changing => sent[c].result = None
      /\ \A c \in Calls : sent[c].kind = "list" /\ sent[c].result # None =>
            Ids(sent[c].result) = {b \in DOMAIN f : Store!Matches(b, sent[c].query)}
      /\ l.came = "shown" => Ids(s) = {b \in DOMAIN f : Store!Matches(b, l.query)}

StoreInv ==
    /\ StoreTyped /\ Asked /\ Unchanged(shelf, fetches, latest, listed) /\ InStep
    /\ Store!LoadsWhileCalled

-----------------------------------------------------------------------------
(* Calls that are sent *)

\* As long as nothing is answered, nothing is about to change.
LEMMA NothingPending ==
    ASSUME NEW p, NEW f, NEW s, NEW n, NEW x, NEW w, NEW q, p.result = None, q.result = None
    PROVE  Pending(p, f, s, n, x, w) <=> Pending(q, f, s, n, x, w)
BY DEF Pending, ListAfter, TotalAfter, CurrentAfter

\* What a call is that is not in flight.
LEMMA FreeStoreCall == StoreCall(Store!Free) /\ Store!Free.kind = "free" /\ Store!Free.result = None
BY DEF StoreCall, Store!Free

\* The store begins empty, whichever books the table has.
LEMMA StoreBegins ==
    ASSUME Store!Init PROVE StoreInv
<1>1. /\ shelf \in {[b \in s |-> 0] : s \in SUBSET First} /\ view = None
      /\ filter = Store!Everything /\ listed = <<>> /\ total = 0 /\ current = None
      /\ loading = FALSE
      /\ fetches = [c \in Calls |-> Store!Free] /\ sure = TRUE
      /\ latest = [call |-> None, query |-> Store!Everything, came |-> None]
  BY DEF Store!Init
<1>2. /\ \A c \in Calls : fetches[c] = Store!Free
      /\ latest.came = None /\ latest.query = Store!Everything
  BY <1>1
<1>3. ShelfOK(shelf)
  BY <1>1, StoreConstants DEF ShelfOK
<1>4. StoreTyped
  BY <1>1, <1>2, <1>3, FreeStoreCall DEF StoreTyped, IsLatest
<1>5. Asked
  BY <1>1, <1>2, FreeStoreCall DEF Asked, Store!Query, Store!Everything
<1>6. Unchanged(shelf, fetches, latest, listed)
  BY <1>2, FreeStoreCall, StoreConstants DEF Unchanged, Changing
<1>7. InStep
  <2>1. ~Whole(latest)
    BY <1>2, StoreConstants DEF Whole
  <2>2. Rightly
    BY <1>1, <2>1, FreeStoreCall DEF Rightly, Pending, CurrentAfter
  <2> QED BY <1>2, <2>2, FreeStoreCall DEF InStep, Store!InFlight
<1>8. Store!LoadsWhileCalled
  BY <1>1 DEF Store!LoadsWhileCalled
<1> QED BY <1>4, <1>5, <1>6, <1>7, <1>8 DEF StoreInv

\* A call is sent.
LEMMA SendStays ==
    ASSUME StoreInv, NEW c \in Calls, NEW kind \in {"list", "get"} \cup Changing, NEW id, NEW query,
           Store!Send(c, kind, id, query), IsLatest(latest)',
           \/ /\ kind # "list" /\ latest' = latest /\ view' = view /\ filter' = filter
           \/ /\ kind = "list" /\ latest' = [call |-> c, query |-> query, came |-> None]
              /\ filter' \in Filters \cup {Store!Everything}
              /\ view' = "books" => query = Store!Query(filter')
    PROVE  StoreInv'
<1> DEFINE q == [kind |-> kind, id |-> id, query |-> query, result |-> None]
<1>0. StoreTyped /\ Asked /\ Unchanged(shelf, fetches, latest, listed) /\ InStep
  BY DEF StoreInv
<1>1. /\ ~Store!InFlight(c) /\ loading' = TRUE /\ fetches' = [fetches EXCEPT ![c] = q]
      /\ sure' = (sure /\ Store!Idle) /\ shelf' = shelf /\ listed' = listed /\ total' = total
      /\ current' = current
  BY DEF Store!Send
<1>2. q.kind = kind /\ q.query = query /\ q.result = None /\ StoreCall(q) /\ kind # "free"
  BY DEF StoreCall, Changing
<1> HIDE DEF q
<1>3. /\ fetches' = [d \in Calls |-> fetches'[d]] /\ fetches'[c] = q
      /\ \A d \in Calls \ {c} : fetches'[d] = fetches[d]
  BY <1>0, <1>1 DEF StoreTyped
<1>4. StoreTyped'
  BY <1>0, <1>1, <1>2, <1>3 DEF StoreTyped
<1>5. \/ kind # "list" /\ latest' = latest
      \/ /\ kind = "list" /\ latest'.call = c /\ latest'.query = query /\ latest'.came = None
  OBVIOUS
<1>6. Asked'
  <2>1. CASE kind # "list"
    BY <1>0, <1>2, <1>3, <2>1 DEF Asked
  <2>2. CASE kind = "list"
    <3>1. \A d \in Calls : latest'.call = d => d = c
      BY <1>5, <2>2
    <3> QED BY <1>2, <1>3, <1>5, <2>2, <3>1 DEF Asked
  <2> QED BY <2>1, <2>2
<1>7. Unchanged(shelf', fetches', latest', listed')
  <2>1. latest'.came = "shown" => latest' = latest
    BY <1>5, StoreConstants
  <2>2. Unchanged(shelf, fetches', latest', listed)
    BY <1>0, <1>2, <1>3, <2>1 DEF Unchanged
  <2> QED BY <1>1, <2>2
<1>8. InStep'
  <2> SUFFICES ASSUME sure'
      PROVE  /\ \A d \in Calls \ {c} : ~Store!InFlight(d)'
             /\ Pending(fetches'[c], shelf', listed', total', current', Whole(latest'))
             /\ fetches'[c].kind = "list" => latest'.call = c
             /\ Store!InFlight(c)'
    BY DEF InStep, Store!Idle
  <2>1. sure /\ Store!Idle /\ Rightly
    BY <1>0, <1>1 DEF InStep
  <2>2. \A d \in Calls \ {c} : ~Store!InFlight(d)'
    BY <1>3, <2>1 DEF Store!Idle, Store!InFlight
  <2>3. Store!InFlight(c)' /\ (fetches'[c].kind = "list" => latest'.call = c)
    BY <1>2, <1>3, <1>5 DEF Store!InFlight
  <2>4. Pending(q, shelf, listed, total, current, Whole(latest))
    BY <1>2, <2>1, FreeStoreCall, NothingPending DEF Rightly
  <2>5. Whole(latest') => Whole(latest)
    BY <1>5, StoreConstants DEF Whole
  <2>6. Pending(q, shelf, listed, total, current, Whole(latest'))
    BY <2>4, <2>5 DEF Pending
  <2> QED BY <1>1, <1>3, <2>2, <2>3, <2>6
<1>9. Store!LoadsWhileCalled'
  <2>1. Store!InFlight(c)'
    BY <1>2, <1>3 DEF Store!InFlight
  <2> QED BY <2>1 DEF Store!LoadsWhileCalled, Store!Idle
<1> QED BY <1>4, <1>6, <1>7, <1>8, <1>9 DEF StoreInv

\* The pages send calls, or none.
LEMMA PagesSend ==
    ASSUME StoreInv, NEW c \in Calls,
           \/ \E v \in Views : Store!Open(c, v)
           \/ \E f \in Filters : Store!Enter(c, f)
           \/ Store!ViewAuthorBooks(c)
    PROVE  StoreInv'
<1>1. ASSUME NEW query, Store!Fetch(c, query), filter' \in Filters \cup {Store!Everything},
             view' = "books" => query = Store!Query(filter')
      PROVE  StoreInv'
  <2>1. Store!Send(c, "list", None, query) /\ latest' = [call |-> c, query |-> query, came |-> None]
    BY <1>1 DEF Store!Fetch
  <2>2. IsLatest(latest)'
    BY <2>1 DEF IsLatest
  <2> QED BY <1>1, <2>1, <2>2, SendStays
<1>2. ASSUME NEW v \in Views, Store!Open(c, v) PROVE StoreInv'
  BY <1>1, <1>2 DEF Store!Open, Store!Query, Store!Everything
<1>3. ASSUME NEW f \in Filters, Store!Enter(c, f) PROVE StoreInv'
  BY <1>1, <1>3 DEF Store!Enter
<1>4. ASSUME Store!ViewAuthorBooks(c) PROVE StoreInv'
  <2>1. /\ Store!Fetch(c, [Store!Everything EXCEPT !.author = TRUE])
        /\ view' = "authors" /\ filter' = filter
    BY <1>4 DEF Store!ViewAuthorBooks
  <2> QED BY <1>1, <2>1 DEF StoreInv, Asked
<1> QED BY <1>2, <1>3, <1>4

\* Operations on single books are sent at any time.
LEMMA ChangeStays ==
    ASSUME StoreInv, NEW c \in Calls, NEW kind \in StoreOps, NEW b, Store!Change(c, kind, b)
    PROVE  StoreInv'
<1>1. /\ Store!Send(c, kind, b, Store!Everything) /\ latest' = latest /\ view' = view
      /\ filter' = filter
  BY DEF Store!Change
<1>2. kind \in {"list", "get"} \cup Changing /\ kind # "list"
  BY StoreConstants DEF Changing
<1>3. IsLatest(latest)'
  BY <1>1 DEF StoreInv, StoreTyped
<1> QED BY <1>1, <1>2, <1>3, SendStays

\* The page of authors fetches nothing when it is opened.
LEMMA OpenAuthorsStays ==
    ASSUME StoreInv, Store!OpenAuthors
    PROVE  StoreInv'
<1>1. /\ view' = "authors" /\ UNCHANGED <<shelf, filter, listed, total, current, loading, fetches,
                                       latest, sure>>
  BY DEF Store!OpenAuthors, Store!store
<1> QED BY <1>1 DEF StoreInv, StoreTyped, Asked, InStep, Rightly, Store!LoadsWhileCalled,
                    Store!Idle, Store!InFlight

-----------------------------------------------------------------------------
(* What takes effect at the server *)

\* A row is that of its id.
LEMMA RowsAre ==
    ASSUME NEW f, NEW r
    PROVE  /\ r \in RowsOf(f) <=>
                \E b \in DOMAIN f : f[b] # None /\ r = [id |-> b, version |-> f[b]]
           /\ r \in RowsOf(f) => /\ r.id \in DOMAIN f /\ f[r.id] # None
                                 /\ r = [id |-> r.id, version |-> f[r.id]]
BY DEF RowsOf

\* Ids are unique.
LEMMA RowsUnique ==
    ASSUME NEW f, NEW q \in RowsOf(f), NEW r \in RowsOf(f), q.id = r.id PROVE q = r
BY RowsAre

\* The rows with one more book,
LEMMA RowsAdded ==
    ASSUME NEW f, NEW n, n \notin DOMAIN f,
           NEW g, g = [b \in DOMAIN f \cup {n} |-> IF b = n THEN 0 ELSE f[b]]
    PROVE  /\ RowsOf(g) = RowsOf(f) \cup {[id |-> n, version |-> 0]}
           /\ [id |-> n, version |-> 0] \notin RowsOf(f)
<1>1. DOMAIN g = DOMAIN f \cup {n} /\ g[n] = 0 /\ \A b \in DOMAIN f : g[b] = f[b]
  OBVIOUS
<1>2. 0 # None
  BY StoreConstants
<1>3. [id |-> n, version |-> 0] \notin RowsOf(f)
  BY RowsAre
<1>4. \A r : r \in RowsOf(g) <=> r \in RowsOf(f) \cup {[id |-> n, version |-> 0]}
  BY <1>1, <1>2 DEF RowsOf
<1> QED BY <1>3, <1>4

\* with a book changed,
LEMMA RowsChanged ==
    ASSUME NEW f, f = [b \in DOMAIN f |-> f[b]], NEW b \in DOMAIN f, f[b] # None, NEW v, v # None
    PROVE  RowsOf([f EXCEPT ![b] = v]) =
             (RowsOf(f) \ {[id |-> b, version |-> f[b]]}) \cup {[id |-> b, version |-> v]}
<1> DEFINE g == [f EXCEPT ![b] = v]
<1>1. DOMAIN g = DOMAIN f /\ g[b] = v /\ \A d \in DOMAIN f \ {b} : g[d] = f[d]
  OBVIOUS
<1> HIDE DEF g
<1>2. ASSUME NEW r \in RowsOf(g)
      PROVE  r \in (RowsOf(f) \ {[id |-> b, version |-> f[b]]}) \cup {[id |-> b, version |-> v]}
  BY <1>1, <1>2, RowsAre
<1>3. ASSUME NEW r \in RowsOf(f) \ {[id |-> b, version |-> f[b]]} PROVE r \in RowsOf(g)
  BY <1>1, <1>3, RowsAre
<1>4. [id |-> b, version |-> v] \in RowsOf(g)
  BY <1>1, RowsAre
<1>5. RowsOf(g) = (RowsOf(f) \ {[id |-> b, version |-> f[b]]}) \cup {[id |-> b, version |-> v]}
  BY <1>2, <1>3, <1>4
<1> QED BY <1>5 DEF g

\* and with a book deleted.
LEMMA RowsDeleted ==
    ASSUME NEW f, f = [b \in DOMAIN f |-> f[b]], NEW b \in DOMAIN f
    PROVE  RowsOf([f EXCEPT ![b] = None]) = RowsOf(f) \ {[id |-> b, version |-> f[b]]}
<1> DEFINE g == [f EXCEPT ![b] = None]
<1>1. DOMAIN g = DOMAIN f /\ g[b] = None /\ \A d \in DOMAIN f \ {b} : g[d] = f[d]
  OBVIOUS
<1> HIDE DEF g
<1>2. ASSUME NEW r \in RowsOf(g) PROVE r \in RowsOf(f) \ {[id |-> b, version |-> f[b]]}
  BY <1>1, <1>2, RowsAre
<1>3. ASSUME NEW r \in RowsOf(f) \ {[id |-> b, version |-> f[b]]} PROVE r \in RowsOf(g)
  BY <1>1, <1>3, RowsAre
<1>4. RowsOf(g) = RowsOf(f) \ {[id |-> b, version |-> f[b]]}
  BY <1>2, <1>3
<1> QED BY <1>4 DEF g

\* The rows of the ids that are listed.
LEMMA RowsListed ==
    ASSUME NEW H, NEW hits, Lists(hits, H), NEW f
    PROVE  LET t == [i \in DOMAIN hits |-> [id |-> hits[i], version |-> f[hits[i]]]] IN
           /\ Ids(t) = H
           /\ H = {b \in DOMAIN f : f[b] # None} => Lists(t, RowsOf(f))
<1> DEFINE n == Len(hits)
           t == [i \in DOMAIN hits |-> [id |-> hits[i], version |-> f[hits[i]]]]
<1>1. /\ n \in Nat /\ DOMAIN hits = 1 .. n /\ \A i \in 1 .. n : hits[i] \in H
      /\ \A i, j \in 1 .. n : hits[i] = hits[j] => i = j
      /\ \A b \in H : \E i \in 1 .. n : hits[i] = b
  BY DEF Lists, Distinct, Elements
<1> HIDE DEF n
<1>2. /\ DOMAIN t = 1 .. n /\ t = [i \in 1 .. n |-> t[i]]
      /\ \A i \in 1 .. n : t[i] = [id |-> hits[i], version |-> f[hits[i]]] /\ t[i].id = hits[i]
  BY <1>1
<1> HIDE DEF t
<1>3. Ids(t) = H
  BY <1>1, <1>2 DEF Ids
<1>4. ASSUME H = {b \in DOMAIN f : f[b] # None} PROVE Lists(t, RowsOf(f))
  <2>1. ASSUME NEW i \in 1 .. n PROVE t[i] \in RowsOf(f)
    BY <1>1, <1>2, <1>4, RowsAre
  <2>2. t \in [1 .. n -> RowsOf(f)]
    BY <1>2, <2>1
  <2>3. \A i, j \in 1 .. n : t[i] = t[j] => i = j
    BY <1>1, <1>2
  <2>4. ASSUME NEW r \in RowsOf(f) PROVE \E i \in 1 .. n : t[i] = r
    <3>1. r.id \in H /\ r = [id |-> r.id, version |-> f[r.id]]
      BY <1>4, RowsAre
    <3> QED BY <1>1, <1>2, <3>1
  <2> QED BY <1>1, <2>2, <2>3, <2>4, ListsPlaces
<1> QED BY <1>3, <1>4 DEF t

\* A call takes effect, and its answer is under way.
LEMMA EffectStays ==
    ASSUME StoreInv, NEW c \in Calls, Store!InFlight(c), fetches[c].result = None, NEW a,
           fetches' = [fetches EXCEPT ![c].result = a], UNCHANGED <<view, filter, latest, sure>>,
           UNCHANGED <<listed, total, current, loading>>, ShelfOK(shelf'),
           Store!Untouched' => shelf' = shelf /\ fetches[c].kind \notin Changing,
           Store!Untouched /\ fetches[c].kind = "list" =>
               Ids(a) = {b \in DOMAIN shelf : Store!Matches(b, fetches[c].query)},
           NEW q, q = [kind |-> fetches[c].kind, id |-> fetches[c].id, query |-> fetches[c].query,
                       result |-> a],
           Pending(fetches[c], shelf, listed, total, current, Whole(latest))
               => Pending(q, shelf', listed, total, current, Whole(latest))
    PROVE  StoreInv'
<1>0. /\ StoreTyped /\ Asked /\ Unchanged(shelf, fetches, latest, listed) /\ InStep
      /\ Store!LoadsWhileCalled
  BY DEF StoreInv
<1>1. /\ fetches' = [d \in Calls |-> fetches'[d]] /\ fetches'[c] = q
      /\ \A d \in Calls \ {c} : fetches'[d] = fetches[d]
  BY <1>0 DEF StoreTyped, StoreCall
<1>2. /\ q.kind = fetches[c].kind /\ q.query = fetches[c].query /\ q.result = a
      /\ q = [kind |-> q.kind, id |-> q.id, query |-> q.query, result |-> q.result]
      /\ q.kind # "free"
  BY DEF Store!InFlight
<1>3. /\ latest' = latest /\ view' = view /\ filter' = filter /\ sure' = sure /\ listed' = listed
      /\ total' = total /\ current' = current /\ loading' = loading
  OBVIOUS
<1>4. StoreTyped'
  <2>1. StoreCall(q)
    BY <1>0, <1>2 DEF StoreTyped, StoreCall
  <2> QED BY <1>0, <1>1, <1>3, <2>1 DEF StoreTyped
<1>5. Asked'
  BY <1>0, <1>1, <1>2, <1>3 DEF Asked
<1>6. \A d \in Calls : Store!InFlight(d)' <=> Store!InFlight(d)
  BY <1>1, <1>2 DEF Store!InFlight
<1>7. Unchanged(shelf', fetches', latest', listed')
  <2> SUFFICES ASSUME Store!Untouched' PROVE Unchanged(shelf', fetches', latest', listed')
    BY DEF Unchanged, Store!Untouched
  <2>1. shelf' = shelf /\ fetches[c].kind \notin Changing
    OBVIOUS
  <2>2. Store!Untouched
    BY <2>1 DEF Store!Untouched
  <2>3. /\ \A d \in Calls : fetches[d].kind \in Changing => fetches[d].result = None
        /\ \A d \in Calls : fetches[d].kind = "list" /\ fetches[d].result # None =>
            Ids(fetches[d].result) = {b \in DOMAIN shelf : Store!Matches(b, fetches[d].query)}
        /\ latest.came = "shown" =>
            Ids(listed) = {b \in DOMAIN shelf : Store!Matches(b, latest.query)}
    BY <1>0, <2>2 DEF Unchanged, Store!Untouched
  <2>4. \A d \in Calls : fetches'[d].kind \in Changing => fetches'[d].result = None
    BY <1>1, <1>2, <2>1, <2>3
  <2>5. \A d \in Calls : fetches'[d].kind = "list" /\ fetches'[d].result # None =>
            Ids(fetches'[d].result) = {b \in DOMAIN shelf : Store!Matches(b, fetches'[d].query)}
    BY <1>1, <1>2, <2>2, <2>3
  <2> QED BY <1>3, <2>1, <2>3, <2>4, <2>5 DEF Unchanged
<1>8. InStep'
  <2> SUFFICES ASSUME sure'
      PROVE  /\ \A d, e \in Calls : Store!InFlight(d)' /\ Store!InFlight(e)' => d = e
             /\ Pending(fetches'[c], shelf', listed', total', current', Whole(latest'))
             /\ fetches'[c].kind = "list" => latest'.call = c
             /\ Store!InFlight(c)'
    BY DEF InStep, Store!Idle
  <2> QED BY <1>0, <1>1, <1>2, <1>3, <1>6 DEF InStep
<1>9. Store!LoadsWhileCalled'
  BY <1>0, <1>3, <1>6 DEF Store!LoadsWhileCalled, Store!Idle
<1> QED BY <1>4, <1>5, <1>7, <1>8, <1>9 DEF StoreInv

\* A list is read,
LEMMA ServeListStays ==
    ASSUME StoreInv, NEW c \in Calls, Store!Serve(c), fetches[c].kind = "list" PROVE StoreInv'
<1> DEFINE p == fetches[c]
           H == Store!Hits(p.query)
           hits == Store!SetToSeq(H)
           a == [i \in DOMAIN hits |-> [id |-> hits[i], version |-> shelf[hits[i]]]]
           q == [kind |-> p.kind, id |-> p.id, query |-> p.query, result |-> a]
<1>1. /\ Store!InFlight(c) /\ p.result = None /\ shelf' = shelf
      /\ fetches' = [fetches EXCEPT ![c].result = a]
      /\ UNCHANGED <<view, filter, latest, sure>> /\ UNCHANGED <<listed, total, current, loading>>
  BY DEF Store!Serve, Store!Effect, Store!Row, Store!store
<1>2. ShelfOK(shelf)
  BY DEF StoreInv, StoreTyped
<1>3. IsFiniteSet(H) /\ H = {b \in DOMAIN shelf : shelf[b] # None /\ Store!Matches(b, p.query)}
  <2>1. H = {b \in DOMAIN shelf : shelf[b] # None /\ Store!Matches(b, p.query)}
    BY DEF Store!Hits, Store!There
  <2>2. H \subseteq Shelved
    BY <1>2, <2>1 DEF ShelfOK
  <2> QED BY <2>1, <2>2, StoreConstants, FS_Subset
<1> HIDE DEF H
<1>4. Lists(hits, H)
  BY <1>3, SomeOrder
<1> HIDE DEF hits
<1>5. Ids(a) = H /\ (H = {b \in DOMAIN shelf : shelf[b] # None} => Lists(a, RowsOf(shelf)))
  BY <1>4, RowsListed
<1> HIDE DEF a
<1>6. Store!Untouched => Ids(a) = {b \in DOMAIN shelf : Store!Matches(b, p.query)}
  BY <1>3, <1>5, StoreConstants DEF Store!Untouched
<1>7. p.query = Store!Everything => Lists(a, RowsOf(shelf))
  BY <1>3, <1>5 DEF Store!Matches, Store!Everything
<1>8. Pending(p, shelf, listed, total, current, Whole(latest))
        => Pending(q, shelf', listed, total, current, Whole(latest))
  BY <1>1, <1>7 DEF Pending, ListAfter, TotalAfter, CurrentAfter
<1>9. p.kind \notin Changing
  BY DEF Changing
<1> QED BY <1>1, <1>2, <1>6, <1>8, <1>9, EffectStays

\* a book is read,
LEMMA ServeGetStays ==
    ASSUME StoreInv, NEW c \in Calls, Store!Serve(c), fetches[c].kind = "get" PROVE StoreInv'
<1> DEFINE p == fetches[c]
           b == p.id
           a == [id |-> b, version |-> shelf[b]]
           q == [kind |-> p.kind, id |-> p.id, query |-> p.query, result |-> a]
<1>1. /\ Store!InFlight(c) /\ p.result = None /\ shelf' = shelf /\ b \in Store!There
      /\ fetches' = [fetches EXCEPT ![c].result = a]
      /\ UNCHANGED <<view, filter, latest, sure>> /\ UNCHANGED <<listed, total, current, loading>>
  BY DEF Store!Serve, Store!Effect, Store!Row, Store!store
<1>2. ShelfOK(shelf)
  BY DEF StoreInv, StoreTyped
<1>3. a \in RowsOf(shelf)
  BY <1>1, RowsAre DEF Store!There
<1> HIDE DEF a
<1>4. Pending(p, shelf, listed, total, current, Whole(latest))
        => Pending(q, shelf', listed, total, current, Whole(latest))
  BY <1>1, <1>3 DEF Pending, ListAfter, TotalAfter, CurrentAfter
<1>5. p.kind \notin Changing /\ p.kind # "list"
  BY DEF Changing
<1> QED BY <1>1, <1>2, <1>4, <1>5, EffectStays

\* a book is created, with an id that no book had before,
LEMMA ServeCreateStays ==
    ASSUME StoreInv, NEW c \in Calls, Store!Serve(c), fetches[c].kind = "create" PROVE StoreInv'
<1> DEFINE p == fetches[c]
<1>1. PICK n \in Store!New :
        /\ shelf' = Store!Added(n)
        /\ fetches' = [fetches EXCEPT ![c].result = [id |-> n, version |-> 0]]
  BY DEF Store!Serve, Store!Effect
<1> DEFINE a == [id |-> n, version |-> 0]
           q == [kind |-> p.kind, id |-> p.id, query |-> p.query, result |-> a]
<1>2. /\ Store!InFlight(c) /\ p.result = None
      /\ UNCHANGED <<view, filter, latest, sure>> /\ UNCHANGED <<listed, total, current, loading>>
  BY DEF Store!Serve, Store!store
<1>3. ShelfOK(shelf)
  BY DEF StoreInv, StoreTyped
<1>4. n \in Shelved /\ n \notin First /\ n \notin DOMAIN shelf
  <2>1. n \in Shelved \ First /\ \A d \in DOMAIN shelf : d < n
    BY DEF Store!New
  <2>2. n \in Nat /\ ~(n < n)
    BY <2>1, StoreConstants
  <2> QED BY <2>1, <2>2
<1>5. shelf' = [b \in DOMAIN shelf \cup {n} |-> IF b = n THEN 0 ELSE shelf[b]]
  BY <1>1 DEF Store!Added
<1>6. ShelfOK(shelf')
  BY <1>3, <1>4, <1>5 DEF ShelfOK
<1>7. RowsOf(shelf') = RowsOf(shelf) \cup {a} /\ a \notin RowsOf(shelf)
  BY <1>4, <1>5, RowsAdded
<1>8. ~Store!Untouched'
  BY <1>4, <1>5 DEF Store!Untouched
<1>9. a # None
  BY <1>4, StoreConstants DEF BookRows
<1>10. ASSUME Pending(p, shelf, listed, total, current, Whole(latest))
       PROVE  Pending(q, shelf', listed, total, current, Whole(latest))
  <2>1. /\ Whole(latest) => Lists(listed, RowsOf(shelf)) /\ total = Len(listed)
        /\ current # None => current \in RowsOf(shelf)
    BY <1>2, <1>10 DEF Pending, ListAfter, TotalAfter, CurrentAfter
  <2>2. ListAfter(q, listed) = <<a>> \o listed /\ TotalAfter(q, total) = total + 1
    BY <1>9 DEF ListAfter, TotalAfter
  <2>3. CurrentAfter(q, current) = current
    BY DEF CurrentAfter
  <2> HIDE DEF a, q
  <2>4. ASSUME Whole(latest)
        PROVE  Lists(<<a>> \o listed, RowsOf(shelf')) /\ total + 1 = Len(<<a>> \o listed)
    <3> DEFINE R == RowsOf(shelf)
    <3>1. Lists(listed, R) /\ a \notin R
      BY <1>7, <2>1, <2>4
    <3> HIDE DEF R
    <3>2. Lists(<<a>> \o listed, R \cup {a}) /\ Len(<<a>> \o listed) = Len(listed) + 1
      BY <3>1, Prepended
    <3> QED BY <1>7, <2>1, <2>4, <3>2 DEF R
  <2>5. current # None => current \in RowsOf(shelf')
    BY <1>7, <2>1
  <2>6. q.kind # "list"
    BY DEF q
  <2> QED BY <2>2, <2>3, <2>4, <2>5, <2>6 DEF Pending
<1> HIDE DEF a
<1>11. fetches' = [fetches EXCEPT ![c].result = a]
  BY <1>1 DEF a
<1> QED BY <1>2, <1>6, <1>8, <1>10, <1>11, EffectStays

\* a book is changed,
LEMMA ServeUpdateStays ==
    ASSUME StoreInv, NEW c \in Calls, Store!Serve(c), fetches[c].kind = "update" PROVE StoreInv'
<1> DEFINE p == fetches[c]
           b == p.id
           v == shelf[b] + 1
           a == [id |-> b, version |-> v]
           r == [id |-> b, version |-> shelf[b]]
           q == [kind |-> p.kind, id |-> p.id, query |-> p.query, result |-> a]
<1>1. /\ Store!InFlight(c) /\ p.result = None /\ b \in Store!There
      /\ shelf' = [shelf EXCEPT ![b] = v] /\ fetches' = [fetches EXCEPT ![c].result = a]
      /\ UNCHANGED <<view, filter, latest, sure>> /\ UNCHANGED <<listed, total, current, loading>>
  BY DEF Store!Serve, Store!Effect, Store!store
<1>2. ShelfOK(shelf)
  BY DEF StoreInv, StoreTyped
<1>3. b \in DOMAIN shelf /\ shelf[b] # None /\ shelf[b] \in Nat /\ b \in Shelved
  BY <1>1, <1>2 DEF Store!There, ShelfOK
<1>4. v \in Nat /\ v # 0 /\ v # None /\ v # shelf[b]
  BY <1>3, StoreConstants
<1> HIDE DEF v
<1>5. ShelfOK(shelf')
  BY <1>1, <1>2, <1>4 DEF ShelfOK
<1>6. RowsOf(shelf') = (RowsOf(shelf) \ {r}) \cup {a} /\ r \in RowsOf(shelf) /\ a.id = b /\ r.id = b
  <2>1. shelf = [d \in DOMAIN shelf |-> shelf[d]]
    BY <1>2 DEF ShelfOK
  <2>2. RowsOf(shelf') = (RowsOf(shelf) \ {r}) \cup {a}
    <3> DEFINE d == b
    <3>1. d \in DOMAIN shelf /\ shelf[d] # None
      BY <1>3
    <3> HIDE DEF d
    <3>2. RowsOf([shelf EXCEPT ![d] = v]) =
            (RowsOf(shelf) \ {[id |-> d, version |-> shelf[d]]}) \cup {[id |-> d, version |-> v]}
      BY <1>4, <2>1, <3>1, RowsChanged
    <3> QED BY <1>1, <3>2 DEF d
  <2>3. r \in RowsOf(shelf)
    BY <1>3, RowsAre
  <2> QED BY <2>2, <2>3
<1>7. ~Store!Untouched'
  BY <1>1, <1>2, <1>3, <1>4 DEF Store!Untouched, ShelfOK
<1>8. a # None
  BY <1>3, <1>4, StoreConstants DEF BookRows
<1>9. \A x \in RowsOf(shelf) : x.id = b => x = r
  BY <1>6, RowsUnique
<1>10. ASSUME Pending(p, shelf, listed, total, current, Whole(latest))
       PROVE  Pending(q, shelf', listed, total, current, Whole(latest))
  <2>1. /\ Whole(latest) => Lists(listed, RowsOf(shelf)) /\ total = Len(listed)
        /\ current # None => current \in RowsOf(shelf)
    BY <1>1, <1>10 DEF Pending, ListAfter, TotalAfter, CurrentAfter
  <2>2. ListAfter(q, listed) = Store!With(listed, a) /\ TotalAfter(q, total) = total
    BY <1>8 DEF ListAfter, TotalAfter
  <2>3. CurrentAfter(q, current) = Becomes(current, b, a)
    BY <1>8 DEF CurrentAfter
  <2>4. q.kind # "list"
    OBVIOUS
  <2> HIDE DEF a, q, r
  <2>5. ASSUME Whole(latest)
        PROVE  Lists(Store!With(listed, a), RowsOf(shelf')) /\ total = Len(Store!With(listed, a))
    <3> DEFINE R == RowsOf(shelf)
    <3>1. Lists(listed, R) /\ r \in R /\ a.id = r.id /\ \A x \in R : x.id = r.id => x = r
      BY <1>6, <1>9, <2>1, <2>5
    <3> HIDE DEF R
    <3>2. /\ Lists(Store!With(listed, a), (R \ {r}) \cup {a})
          /\ Len(Store!With(listed, a)) = Len(listed)
      BY <3>1, Replaced
    <3> QED BY <1>6, <2>1, <2>5, <3>2 DEF R
  <2>6. Becomes(current, b, a) # None => Becomes(current, b, a) \in RowsOf(shelf')
    BY <1>6, <2>1 DEF Becomes
  <2> QED BY <2>2, <2>3, <2>4, <2>5, <2>6 DEF Pending
<1> HIDE DEF a
<1> QED BY <1>1, <1>5, <1>7, <1>10, EffectStays

\* or a book is deleted: the store will hold what the table then has.
LEMMA ServeDeleteStays ==
    ASSUME StoreInv, NEW c \in Calls, Store!Serve(c), fetches[c].kind = "delete" PROVE StoreInv'
<1> DEFINE p == fetches[c]
           b == p.id
           a == [id |-> b, version |-> 0]
           r == [id |-> b, version |-> shelf[b]]
           q == [kind |-> p.kind, id |-> p.id, query |-> p.query, result |-> a]
<1>1. /\ Store!InFlight(c) /\ p.result = None /\ b \in Store!There
      /\ shelf' = [shelf EXCEPT ![b] = None] /\ fetches' = [fetches EXCEPT ![c].result = a]
      /\ UNCHANGED <<view, filter, latest, sure>> /\ UNCHANGED <<listed, total, current, loading>>
  BY DEF Store!Serve, Store!Effect, Store!store
<1>2. ShelfOK(shelf)
  BY DEF StoreInv, StoreTyped
<1>3. b \in DOMAIN shelf /\ shelf[b] # None /\ b \in Shelved
  BY <1>1, <1>2 DEF Store!There, ShelfOK
<1>4. ShelfOK(shelf')
  BY <1>1, <1>2 DEF ShelfOK
<1>5. RowsOf(shelf') = RowsOf(shelf) \ {r} /\ r \in RowsOf(shelf) /\ a.id = b /\ r.id = b
  BY <1>1, <1>2, <1>3, RowsDeleted, RowsAre DEF ShelfOK
<1>6. ~Store!Untouched'
  BY <1>1, <1>2, <1>3, StoreConstants DEF Store!Untouched, ShelfOK
<1>7. a # None
  BY <1>3, StoreConstants DEF BookRows
<1>8. \A x \in RowsOf(shelf) : x.id = b => x = r
  BY <1>5, RowsUnique
<1>9. ASSUME Pending(p, shelf, listed, total, current, Whole(latest))
      PROVE  Pending(q, shelf', listed, total, current, Whole(latest))
  <2>1. /\ Whole(latest) => Lists(listed, RowsOf(shelf)) /\ total = Len(listed)
        /\ current # None => current \in RowsOf(shelf)
    BY <1>1, <1>9 DEF Pending, ListAfter, TotalAfter, CurrentAfter
  <2>2. ListAfter(q, listed) = Store!Without(listed, r.id) /\ TotalAfter(q, total) = total - 1
    BY <1>7 DEF ListAfter, TotalAfter
  <2>3. CurrentAfter(q, current) = Becomes(current, b, None)
    BY <1>7 DEF CurrentAfter
  <2>4. q.kind # "list"
    OBVIOUS
  <2> HIDE DEF a, q, r
  <2>5. ASSUME Whole(latest)
        PROVE  /\ Lists(Store!Without(listed, r.id), RowsOf(shelf'))
               /\ total - 1 = Len(Store!Without(listed, r.id))
    <3> DEFINE R == RowsOf(shelf)
    <3>1. Lists(listed, R) /\ r \in R /\ \A x \in R : x.id = r.id => x = r
      BY <1>5, <1>8, <2>1, <2>5
    <3> HIDE DEF R
    <3>2. /\ Lists(Store!Without(listed, r.id), R \ {r})
          /\ Len(Store!Without(listed, r.id)) = Len(listed) - 1
      BY <3>1, Removed
    <3> QED BY <1>5, <2>1, <2>5, <3>2 DEF R
  <2>6. Becomes(current, b, None) # None => Becomes(current, b, None) \in RowsOf(shelf')
    BY <1>5, <2>1 DEF Becomes
  <2> QED BY <2>2, <2>3, <2>4, <2>5, <2>6 DEF Pending
<1> HIDE DEF a
<1> QED BY <1>1, <1>4, <1>6, <1>9, EffectStays

\* Calls take effect, whichever they are.
LEMMA ServeStays ==
    ASSUME StoreInv, NEW c \in Calls, Store!Serve(c) PROVE StoreInv'
<1>1. fetches[c].kind \in {"list", "get", "create", "update", "delete"}
  BY DEF StoreInv, StoreTyped, StoreCall, Changing, Store!Serve, Store!InFlight
<1> QED BY <1>1, ServeListStays, ServeGetStays, ServeCreateStays, ServeUpdateStays, ServeDeleteStays

-----------------------------------------------------------------------------
(* What the store does with answers *)

\* A call is over, answered or not.
LEMMA OverStays ==
    ASSUME StoreInv, NEW c \in Calls, Store!InFlight(c), loading' = FALSE,
           fetches' = [fetches EXCEPT ![c] = Store!Free], UNCHANGED <<shelf, view, filter>>,
           IsLatest(latest'), latest'.call = latest.call, latest'.query = latest.query,
           latest'.came = latest.came \/ latest.call = c \/ latest.came = "shown",
           Store!Untouched /\ latest'.came = "shown" =>
               Ids(listed') = {b \in DOMAIN shelf : Store!Matches(b, latest.query)},
           sure' => sure,
           sure' /\ Pending(fetches[c], shelf, listed, total, current, Whole(latest))
               => Pending(Store!Free, shelf, listed', total', current', Whole(latest'))
    PROVE  StoreInv'
<1>0. /\ StoreTyped /\ Asked /\ Unchanged(shelf, fetches, latest, listed) /\ InStep
      /\ Store!LoadsWhileCalled
  BY DEF StoreInv
<1>1. /\ fetches' = [d \in Calls |-> fetches'[d]] /\ fetches'[c] = Store!Free
      /\ \A d \in Calls \ {c} : fetches'[d] = fetches[d]
  BY <1>0 DEF StoreTyped
<1>2. shelf' = shelf /\ view' = view /\ filter' = filter
  OBVIOUS
<1>3. StoreTyped'
  BY <1>0, <1>1, <1>2, FreeStoreCall DEF StoreTyped
<1>4. Store!LoadsWhileCalled'
  BY DEF Store!LoadsWhileCalled
<1>5. Unchanged(shelf', fetches', latest', listed')
  <2>1. \A d \in Calls : fetches'[d].kind # "free" => fetches'[d] = fetches[d]
    BY <1>1, FreeStoreCall
  <2> QED BY <1>0, <1>2, <2>1, FreeStoreCall DEF Unchanged, Store!Untouched, Changing
<1>6. InStep'
  <2> SUFFICES ASSUME sure'
      PROVE  (\A d \in Calls : ~Store!InFlight(d)') /\ Rightly'
    BY DEF InStep, Store!Idle
  <2>1. \A d \in Calls : ~Store!InFlight(d)'
    BY <1>0, <1>1, FreeStoreCall DEF InStep, Store!InFlight
  <2>2. Pending(fetches[c], shelf, listed, total, current, Whole(latest))
    BY <1>0 DEF InStep
  <2>3. Rightly'
    BY <1>2, <2>2 DEF Rightly
  <2> QED BY <2>1, <2>3
<1>7. Asked'
  <2>1. ASSUME NEW d \in Calls, fetches'[d].kind = "list", latest'.call = d
        PROVE  latest'.came = None /\ fetches'[d].query = latest'.query
    <3>1. d # c /\ fetches'[d] = fetches[d]
      BY <1>1, <2>1, FreeStoreCall
    <3>2. latest.came = None /\ fetches[d].query = latest.query
      BY <1>0, <2>1, <3>1 DEF Asked
    <3> QED BY <2>1, <3>1, <3>2, StoreConstants
  <2> QED BY <1>0, <1>2, <2>1 DEF Asked
<1> QED BY <1>3, <1>4, <1>5, <1>6, <1>7 DEF StoreInv

\* A list replaces the one that was shown; what else is answered is put into it.
LEMMA ReceiveStays ==
    ASSUME StoreInv, NEW c \in Calls, Store!Receive(c) PROVE StoreInv'
<1> DEFINE p == fetches[c]
           a == p.result
<1>0. /\ StoreTyped /\ Asked /\ Unchanged(shelf, fetches, latest, listed) /\ InStep
  BY DEF StoreInv
<1>1. /\ Store!InFlight(c) /\ a # None /\ loading' = FALSE
      /\ fetches' = [fetches EXCEPT ![c] = Store!Free] /\ UNCHANGED <<shelf, view, filter>>
      /\ sure' = sure
      /\ latest' = IF p.kind # "list" THEN latest
                   ELSE IF latest.call = c THEN [latest EXCEPT !.came = "shown"]
                   ELSE IF latest.came = "shown" THEN [latest EXCEPT !.came = "overtaken"]
                   ELSE latest
  BY DEF Store!Receive
<1>2. p.kind \in {"list", "get", "create", "update", "delete"}
  BY <1>0, <1>1 DEF StoreTyped, StoreCall, Changing, Store!InFlight
<1>3. latest = [call |-> latest.call, query |-> latest.query, came |-> latest.came]
  BY <1>0 DEF StoreTyped, IsLatest
<1>4. /\ IsLatest(latest') /\ latest'.call = latest.call /\ latest'.query = latest.query
      /\ latest'.came = latest.came \/ latest.call = c \/ latest.came = "shown"
      /\ p.kind # "list" => latest' = latest
      /\ latest'.came = "shown" /\ p.kind = "list" => latest.call = c
  BY <1>1, <1>3 DEF IsLatest
<1>5. CASE p.kind = "list"
  <2>1. listed' = a /\ total' = Len(a) /\ current' = current
    BY <1>5 DEF Store!Receive
  <2>2. latest'.came = "shown" => p.query = latest.query
    BY <1>0, <1>4, <1>5 DEF Asked
  <2>3. Store!Untouched /\ latest'.came = "shown" =>
          Ids(listed') = {b \in DOMAIN shelf : Store!Matches(b, latest.query)}
    BY <1>0, <1>1, <1>5, <2>1, <2>2 DEF Unchanged, Store!Untouched
  <2>4. Pending(p, shelf, listed, total, current, Whole(latest))
          => Pending(Store!Free, shelf, listed', total', current', Whole(latest'))
    BY <1>1, <1>4, <1>5, <2>1, <2>2, FreeStoreCall
       DEF Pending, ListAfter, TotalAfter, CurrentAfter, Whole
  <2> QED BY <1>1, <1>4, <2>3, <2>4, OverStays
<1>6. CASE p.kind # "list"
  <2>1. latest' = latest
    BY <1>4, <1>6
  <2>2. /\ listed' = ListAfter(p, listed) /\ total' = TotalAfter(p, total)
        /\ current' = CurrentAfter(p, current)
    BY <1>1, <1>2, <1>6
       DEF Store!Receive, ListAfter, TotalAfter, CurrentAfter, Becomes, Store!Current
  <2>3. Store!Untouched /\ latest'.came = "shown" =>
          Ids(listed') = {b \in DOMAIN shelf : Store!Matches(b, latest.query)}
    <3>1. SUFFICES ASSUME Store!Untouched, latest'.came = "shown"
          PROVE  Ids(listed') = {b \in DOMAIN shelf : Store!Matches(b, latest.query)}
      OBVIOUS
    <3>2. p.kind \notin Changing
      BY <1>0, <1>1, <3>1 DEF Unchanged, Store!Untouched
    <3>3. listed' = listed
      BY <2>2, <3>2 DEF ListAfter, Changing
    <3> QED BY <1>0, <2>1, <3>1, <3>3 DEF Unchanged, Store!Untouched
  <2>4. Pending(p, shelf, listed, total, current, Whole(latest))
          => Pending(Store!Free, shelf, listed', total', current', Whole(latest'))
    BY <2>1, <2>2, FreeStoreCall DEF Pending, ListAfter, TotalAfter, CurrentAfter
  <2> QED BY <1>1, <1>4, <2>3, <2>4, OverStays
<1> QED BY <1>5, <1>6

\* A call that failed leaves the list; if it had its effect, the store is behind.
LEMMA FailStays ==
    ASSUME StoreInv, NEW c \in Calls, Store!Fail(c) PROVE StoreInv'
<1> DEFINE p == fetches[c]
<1>0. /\ StoreTyped /\ Asked /\ Unchanged(shelf, fetches, latest, listed) /\ InStep
  BY DEF StoreInv
<1>1. /\ Store!InFlight(c) /\ loading' = FALSE
      /\ fetches' = [fetches EXCEPT ![c] = Store!Free] /\ UNCHANGED <<shelf, view, filter>>
      /\ listed' = listed /\ total' = total /\ current' = current
      /\ latest' = IF p.kind = "list" /\ latest.call = c
                   THEN [latest EXCEPT !.came = "failed"] ELSE latest
      /\ sure' = (sure /\ p.result = None)
  BY DEF Store!Fail
<1>2. latest = [call |-> latest.call, query |-> latest.query, came |-> latest.came]
  BY <1>0 DEF StoreTyped, IsLatest
<1>3. /\ IsLatest(latest') /\ latest'.call = latest.call /\ latest'.query = latest.query
      /\ latest'.came = latest.came \/ latest.call = c
      /\ latest'.came = "shown" => latest' = latest
  BY <1>1, <1>2 DEF IsLatest
<1>4. Store!Untouched /\ latest'.came = "shown" =>
        Ids(listed') = {b \in DOMAIN shelf : Store!Matches(b, latest.query)}
  BY <1>0, <1>1, <1>3 DEF Unchanged, Store!Untouched
<1>5. sure' /\ Pending(p, shelf, listed, total, current, Whole(latest))
        => Pending(Store!Free, shelf, listed', total', current', Whole(latest'))
  <2>1. Whole(latest') => Whole(latest)
    BY <1>3 DEF Whole
  <2> QED BY <1>1, <2>1, FreeStoreCall DEF Pending, ListAfter, TotalAfter, CurrentAfter
<1> QED BY <1>1, <1>3, <1>4, <1>5, OverStays

-----------------------------------------------------------------------------
(* What is listed *)

\* The invariant holds from the start, and each step keeps it.
THEOREM StoreInductive == Store!Spec => []StoreInv
<1>1. ASSUME StoreInv, [Store!Next]_(Store!vars) PROVE StoreInv'
  <2>1. CASE UNCHANGED Store!vars
    BY <1>1, <2>1 DEF Store!vars, Store!store, StoreInv, StoreTyped, Asked, InStep, Rightly,
       Store!LoadsWhileCalled, Store!Idle, Store!InFlight
  <2>2. CASE Store!OpenAuthors
    BY <1>1, <2>2, OpenAuthorsStays
  <2>3. CASE \E c \in Calls :
               \/ \E v \in Views : Store!Open(c, v)
               \/ \E f \in Filters : Store!Enter(c, f)
               \/ Store!ViewAuthorBooks(c)
    BY <1>1, <2>3, PagesSend
  <2>4. CASE \E c \in Calls, kind \in StoreOps, b \in DOMAIN shelf \cup {None} :
               Store!Change(c, kind, b)
    BY <1>1, <2>4, ChangeStays
  <2>5. CASE \E c \in Calls : Store!Serve(c) \/ Store!Receive(c) \/ Store!Fail(c)
    BY <1>1, <2>5, ServeStays, ReceiveStays, FailStays
  <2> QED BY <1>1, <2>1, <2>2, <2>3, <2>4, <2>5 DEF Store!Next
<1> QED BY <1>1, StoreBegins, PTL DEF Store!Spec

\* It has what is promised of the lists.
LEMMA StoreShows ==
    ASSUME StoreInv PROVE ListsShown
<1>0. /\ StoreTyped /\ Asked /\ Unchanged(shelf, fetches, latest, listed) /\ InStep
      /\ Store!LoadsWhileCalled
  BY DEF StoreInv
<1>1. Store!ShowsFilter
  <2> SUFFICES ASSUME view = "books", latest.came = "shown", Store!Untouched,
                      ~(filter.range /\ (filter.text \/ Guest))
      PROVE  Store!ShownIds = {b \in Store!There : Store!Matches(b, filter)}
    BY DEF Store!ShowsFilter
  <2>1. Ids(listed) = {b \in DOMAIN shelf : Store!Matches(b, Store!Query(filter))}
    BY <1>0 DEF Unchanged, Store!Untouched, Asked
  <2>2. Store!There = DOMAIN shelf
    BY StoreConstants DEF Store!There, Store!Untouched
  <2>3. filter \in [text : BOOLEAN, range : BOOLEAN, author : {FALSE}]
    <3>1. filter \in Filters \/ filter = Store!Everything
      BY <1>0 DEF Asked
    <3>2. Store!Everything \in [text : BOOLEAN, range : BOOLEAN, author : {FALSE}]
      BY DEF Store!Everything
    <3>3. Filters \subseteq [text : BOOLEAN, range : BOOLEAN, author : {FALSE}]
      BY StoreConstants
    <3> QED BY <3>1, <3>2, <3>3
  <2>4. \A b : Store!Matches(b, Store!Query(filter)) <=> Store!Matches(b, filter)
    BY <2>3 DEF Store!Matches, Store!Query, Store!Everything
  <2>5. Store!ShownIds = Ids(listed)
    BY DEF Store!ShownIds, Store!Shown, Ids
  <2> QED BY <2>1, <2>2, <2>4, <2>5
<1>2. RowsOf(shelf) = {Store!Row(b) : b \in Store!There}
  BY DEF RowsOf, Store!Row, Store!There
<1>3. sure /\ Store!Idle => /\ Whole(latest) => Lists(listed, RowsOf(shelf)) /\ total = Len(listed)
                            /\ current # None => current \in RowsOf(shelf)
  BY <1>0, FreeStoreCall DEF InStep, Rightly, Pending, ListAfter, TotalAfter, CurrentAfter
<1>4. Store!StoreIsServer
  <2> SUFFICES ASSUME sure, Store!Idle, Whole(latest)
      PROVE  /\ Store!Shown = RowsOf(shelf) /\ total = Len(listed)
             /\ Len(listed) = Store!Cardinality(Store!Shown)
    BY <1>2 DEF Store!StoreIsServer, Whole
  <2> DEFINE R == RowsOf(shelf)
  <2>1. Lists(listed, R) /\ total = Len(listed)
    BY <1>3
  <2>2. Store!Shown = R
    BY <2>1 DEF Store!Shown, Lists, Elements
  <2> HIDE DEF R
  <2>3. Cardinality(R) = Len(listed)
    BY <2>1, Counted
  <2> QED BY <2>1, <2>2, <2>3 DEF R, Store!Cardinality, Cardinality
<1>5. Store!CurrentIsServer
  BY <1>2, <1>3 DEF Store!CurrentIsServer
<1> QED BY <1>0, <1>1, <1>4, <1>5 DEF ListsShown

\* The lists of books are those of the server: as the fields of the page ask for,
\* while no book is changed, and in number and rows after operations upon each other.
THEOREM StoreIsShown == Store!Spec => []ListsShown
BY StoreInductive, StoreShows, PTL
=============================================================================
