---------------------------- MODULE TokenStore ----------------------------
(***************************************************************************)
(* What the client library promises about the tokens it stores: they are    *)
(* those of the session that was signed in last, until they are cleared,    *)
(* and no request that is still under way brings an earlier session back.   *)
(***************************************************************************)
EXTENDS Naturals

CONSTANT None \* no session

VARIABLES latest, \* the number of sessions signed in so far
          session \* the session whose tokens are stored, or None

Init == latest = 0 /\ session = None

SignIn == latest' = latest + 1 /\ session' = latest'
Clear == session' = None /\ UNCHANGED latest

Next == SignIn \/ Clear
Spec == Init /\ [][Next]_<<latest, session>>
=============================================================================
