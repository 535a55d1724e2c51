------------------------------- MODULE MCShop -------------------------------
(* A behaviour is one part of the example, chosen in Init: a group of        *)
(* operations of the server, called by two requests at a time of an admin, a *)
(* user and a guest; or, of the frontend, the session, the books as the page *)
(* filters them or as operations change them, or the favorites.  The guest   *)
(* takes no part in the groups whose properties are not about it.            *)
EXTENDS Shop, TLC

CONSTANT Parts

VARIABLES part

MCSample == 1 :> "admin" @@ 2 :> "user" @@ 3 :> "guest"
MCUsers == 1 .. 4
MCBooks == 1 .. 2
MCAuthors == 1 .. 2
MCFavorites == 1 .. 2
MCFirstAuthors == {1}
MCFirstBooks == 1 :> [author |-> 1, dear |-> FALSE]
MCAccounts == {[name |-> 4, mail |-> 4, password |-> "old"],
               [name |-> 4, mail |-> 5, password |-> "old"]}
MCUserChanges == {[name |-> 4], [mail |-> 5]}
MCBookChanges == {[author |-> 1, dear |-> TRUE], [dear |-> TRUE]}
MCVolumes == 1 .. 3
MCFilters == [text : BOOLEAN, range : BOOLEAN, author : {FALSE}]

Groups ==
    [accounts |-> {"register", "password", "editUser", "deleteUser"},
     own |-> {"register", "login", "profile", "user", "editUser", "favorites"},
     books |-> {"addFavorite", "favorites", "books", "book", "editBook", "removeFavorite",
                "createAuthor"},
     references |-> {"addFavorite", "deleteUser", "createBook", "deleteBook", "deleteAuthor"}]
MCOps == UNION {Groups[g] : g \in DOMAIN Groups}
ServerParts == DOMAIN Groups
FrontendParts == {"session", "filters", "changes", "favorites"}

sessionVars == <<token, user, stored, page, going, calls, crossed>>
favoriteVars == <<saved, shown, waiting, removals, orderly>>
bookVars == <<shelf, view, filter, listed, total, current, loading, fetches, latest, sure>>

MCInit ==
    /\ part \in Parts
    /\ Init /\ Session!Init /\ Page!Init /\ Store!Init
    /\ DOMAIN shelf = IF part = "changes" THEN {1} ELSE First

Server ==
    /\ \E r \in Requests : Request(r, Groups[part]) \/ Step(r)
    /\ part \in {"accounts", "references"} => answer'.by # 3 /\ \A r \in Requests :
          local'[r].by # 3 /\ (local'[r].target = 3 => local'[r].op \notin Groups["accounts"])
    /\ part = "accounts" => \A r \in Requests :
          /\ local'[r].op = "editUser" => "name" \in DOMAIN local'[r].change
          /\ local'[r].op = "register" => local'[r].change.mail = 4

\* Books that differ in what they match, filtered while they stay; or one book, to
\* which another comes, changed and never filtered.
BooksStep ==
    /\ Store!Next
    /\ IF part = "filters" THEN \A c \in Calls : fetches'[c].kind \in {"free", "list"}
       ELSE view' \in {None, "books"} /\ filter' = Store!Everything

MCNext ==
    /\ UNCHANGED part
    /\ \/ part \in ServerParts /\ Server /\ UNCHANGED <<sessionVars, favoriteVars, bookVars>>
       \/ part = "session" /\ Session!Next /\ UNCHANGED <<vars, favoriteVars, bookVars>>
       \/ part = "favorites" /\ Page!Next /\ UNCHANGED <<vars, sessionVars, bookVars>>
       \/ part \in {"filters", "changes"} /\ BooksStep /\ UNCHANGED <<vars, sessionVars, favoriteVars>>
MCSpec ==
    /\ MCInit /\ [][MCNext]_<<part, vars, sessionVars, favoriteVars, bookVars>>
    /\ \A c \in Calls : WF_sessionVars(part = "session" /\ Session!Answer(c))
Symmetry == Permutations(Requests)

\* A page is shown in the end, unless the application is loaded again and again.
PageIsShown == part = "session" => Session!PageShown
=============================================================================
