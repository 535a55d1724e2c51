---------------------------- MODULE ShopFavorites ---------------------------
(***************************************************************************)
(* The page of favorites of the example: a list that is fetched when the    *)
(* page is opened and from which what the user removes is cut out by its    *)
(* place.  A call is sent, takes effect at the server, and is answered;     *)
(* calls overtake each other, and fail before or after their effect.        *)
(*                                                                          *)
(* One user; its other pages add favorites.  A favorite is known by its     *)
(* book, and all favorites fit a page of the list.                          *)
(***************************************************************************)
EXTENDS Naturals, Sequences, FiniteSets, SequencesExt

CONSTANTS Books,
          Calls,   \* calls that may be in flight
          None

ShopFavoritesAssumption == IsFiniteSet(Books) /\ None \notin Books /\ None # "ok"

VARIABLES saved,      \* the favorites at the server
          favorites,  \* the list shown
          loading,
          calls,
          sure        \* history: calls never overlapped, and none failed unnoticed

vars == <<saved, favorites, loading, calls, sure>>

Free == [kind |-> "free", book |-> None, index |-> 0, result |-> None]
Sent(kind, book, index) == [kind |-> kind, book |-> book, index |-> index, result |-> None]
InFlight(c) == calls[c].kind # "free"
Idle == \A c \in Calls : ~InFlight(c)
Answered(c, result) == [calls EXCEPT ![c].result = result]

\* A slip: the list ends at the place.
CutRest(s, index) == IF index \in 1 .. Len(s) THEN SubSeq(s, 1, index - 1) ELSE s

\* splice(index, 1): what is beyond the end is nothing.
Cut(s, index) == IF index \in 1 .. Len(s) THEN RemoveAt(s, index) ELSE s

-----------------------------------------------------------------------------
\* Opening the page fetches the list; what an earlier page waits for takes
\* effect, and its answer finds no page.
Open(c) ==
    /\ ~InFlight(c)
    /\ favorites' = <<>> /\ loading' = TRUE /\ sure' = (sure /\ Idle)
    /\ calls' = [d \in Calls |-> IF d = c THEN Sent("fetch", None, 0)
                                 ELSE IF InFlight(d) THEN [calls[d] EXCEPT !.kind = "left"]
                                 ELSE Free]
    /\ UNCHANGED saved

\* The button of the favorite at a place.
RemoveFrom(c, index) ==
    /\ ~InFlight(c) /\ index \in 1 .. Len(favorites)
    /\ calls' = [calls EXCEPT ![c] = Sent("remove", favorites[index], index)]
    /\ sure' = (sure /\ Idle) /\ UNCHANGED <<saved, favorites, loading>>

\* The server, which removes what is there.
Serve(c) ==
    /\ InFlight(c) /\ calls[c].result = None
    /\ IF calls[c].book = None
       THEN \E s \in SetToSeqs(saved) : calls' = Answered(c, s) /\ UNCHANGED saved
       ELSE /\ calls' = Answered(c, IF calls[c].book \in saved THEN "ok" ELSE "failed")
            /\ saved' = saved \ {calls[c].book}
    /\ UNCHANGED <<favorites, loading, sure>>

Add(b) == saved' = saved \cup {b} /\ sure' = FALSE /\ UNCHANGED <<favorites, loading, calls>>

Return(c) == calls' = [calls EXCEPT ![c] = Free]

Receive(c) ==
    /\ InFlight(c) /\ calls[c].result # None
    /\ CASE calls[c].kind = "fetch" -> favorites' = calls[c].result /\ loading' = FALSE
         [] calls[c].kind = "remove" ->
              /\ favorites' = IF calls[c].result = "ok" THEN Cut(favorites, calls[c].index)
                              ELSE favorites
              /\ UNCHANGED loading
         [] calls[c].kind = "left" -> UNCHANGED <<favorites, loading>>
    /\ Return(c) /\ UNCHANGED <<saved, sure>>

\* A slip: loading is reset on success only.
FailLoading(c) ==
    /\ InFlight(c) /\ Return(c)
    /\ sure' = (sure /\ calls[c].kind = "remove" /\ calls[c].result # "ok")
    /\ UNCHANGED <<saved, favorites, loading>>

\* No answer, before or after the effect.
Fail(c) ==
    /\ InFlight(c) /\ Return(c)
    /\ loading' = (loading /\ calls[c].kind # "fetch")
    /\ sure' = (sure /\ calls[c].kind = "remove" /\ calls[c].result # "ok")
    /\ UNCHANGED <<saved, favorites>>

-----------------------------------------------------------------------------
Init ==
    /\ saved = Books /\ favorites = <<>> /\ loading = FALSE
    /\ calls = [c \in Calls |-> Free] /\ sure = TRUE

Next ==
    \/ \E b \in Books : Add(b)
    \/ \E c \in Calls : \/ Open(c) \/ Serve(c) \/ Receive(c) \/ Fail(c)
                        \/ \E index \in 1 .. Cardinality(Books) : RemoveFrom(c, index)
Spec == Init /\ [][Next]_vars

-----------------------------------------------------------------------------
(* Properties *)

Shown == {favorites[i] : i \in DOMAIN favorites}

\* The page loads while its fetch is in flight, and no longer.
LoadsWhileFetching == loading <=> \E c \in Calls : calls[c].kind = "fetch"

\* When removals do not overlap and nobody adds favorites, the page shows what
\* the server has.
ShownIsSaved ==
    sure /\ Idle /\ (\E b \in Books : b \in Shown) => Shown = saved

\* What a removal takes off the page is what it has removed.
RemovesItsOwn ==
    [][\A c \in Calls :
         calls[c].kind = "remove" /\ calls'[c] = Free /\ favorites' # favorites
            => Shown' = Shown \ {calls[c].book}]_vars
=============================================================================
