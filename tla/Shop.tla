-------------------------------- MODULE Shop --------------------------------
(***************************************************************************)
(* The example application: its server, and of its frontend the session,    *)
(* the store of books and the page of favorites, in one browser.  They meet *)
(* in HTTP only, which the frontend's modules model by what a call may      *)
(* bring back; so they share no state, and what is promised of them is      *)
(* stated here together.                                                    *)
(***************************************************************************)
EXTENDS BookShop

CONSTANTS Members, Administrators, \* who signs in at the browser
          Volumes,                 \* the books among its favorites
          Calls,                   \* calls of the browser that may be in flight
          Shelved, First, MaxVersion, MaxTotal, \* the books that the store is about,
          Narrow, Found, ByAuthor, \* those that queries match,
          Guest, StoreOps, Views, Filters \* and who calls what of the store

VARIABLES token, user, stored, page, going, calls, crossed, \* of the session
          saved, shown, waiting, removals, orderly,         \* of the page of favorites
          shelf, view, filter, listed, total, current, loading, fetches, latest, sure
                                                            \* of the store of books

Session == INSTANCE ShopSession WITH Users <- Members, Admins <- Administrators
Page == INSTANCE ShopFavorites WITH
    Books <- Volumes, favorites <- shown, loading <- waiting, calls <- removals, sure <- orderly

Store == INSTANCE ShopBooks WITH
    Books <- Shelved, Ops <- StoreOps, rows <- shelf, books <- listed, calls <- fetches

ASSUME ShopAssumption ==
    Session!ShopSessionAssumption /\ Page!ShopFavoritesAssumption /\ Store!ShopBooksAssumption

\* What is shown is for the user who is signed in, whichever call failed or was
\* answered late.
PagesMatchSession == Session!PagesMatchSession

\* What has been signed out comes back by signing in only, also after the
\* application is loaded again.
SignedOutStays == Session!SignedOutStays

\* The page of favorites loads while its fetch is in flight, and no longer; it
\* shows what is saved as long as removals do not overlap, though each cuts the
\* list at a place that was read before its call.
FavoritesShown == Page!LoadsWhileFetching /\ Page!ShownIsSaved

\* The lists of books are those of the server: the page of books shows what the
\* text or the range asks for, unless its last fetch failed or was overtaken;
\* list, total and single book follow operations upon each other; and the pages
\* load only while calls are in flight.
ListsShown ==
    Store!ShowsFilter /\ Store!StoreIsServer /\ Store!CurrentIsServer /\ Store!LoadsWhileCalled

\* All fields of the page of books narrow the list (violated).
ShowsAllFilters == Store!ShowsAllFilters

\* The list is that of the fields as they are, once all is answered (violated).
ShowsLatest == Store!ShowsLatest

\* What a removal takes off the page is what it has removed (violated).
RemovesItsOwn == Page!RemovesItsOwn

\* The page of administrators is entered in their sessions only (violated).
EnteredByAdmins == Session!EnteredByAdmins
=============================================================================
