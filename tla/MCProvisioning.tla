-------------------------- MODULE MCProvisioning --------------------------
(* Three scenarios, one chosen in Init for the whole behaviour: one request *)
(* at a time, calling anything; two requests over one person, with no bootstrap; *)
(* and two that bootstrap the administrator while somebody logs in.         *)
EXTENDS Provisioning

VARIABLE scenario

Token(s, n, e, p, u) == [sub |-> s, number |-> n, email |-> e, preferred |-> p, username |-> u]
\* One person whose tokens carry the address or not.
Person == {Token("s1", 1, e, "", "") : e \in {"a@x", ""}}
Body(roles) == [username |-> "ann", email |-> "a@x", roles |-> roles, active |-> TRUE]

MCTokens ==
    [alone |-> Person \cup {Token("s1", 1, "b@x", "", ""), Token("s2", 0, "a@x", "", "ann"),
                            Token("", 0, "a@x", "", "ann")},
     together |-> Person,
     \* A login of the user the bootstrap names.
     bootstrap |-> {Token("s1", 1, "a@x", "root", "other")}]
MCLocal ==
    [alone |-> {Body({"admin", "unknown", "dev"})}, together |-> {Body({})}, bootstrap |-> {}]
Everybody(sets) == UNION {sets[s] : s \in DOMAIN sets}
AllTokens == Everybody(MCTokens)
AllLocal == Everybody(MCLocal)
MCAdmin == {[username |-> "root", email |-> "a@x"]}

\* The requests of a scenario, and the failed calls and crashes it allows.
Active == IF scenario = "alone" THEN {1} ELSE Requests
Faults == IF scenario = "together" THEN 0 ELSE MaxFaults

MCCall(r) ==
    \/ \E t \in MCTokens[scenario] : StartValidate(r, t)
    \/ \E d \in MCLocal[scenario] : StartLocal(r, d)
    \/ /\ scenario # "bootstrap"
       /\ \E id \in 1 .. MaxUsers, flag \in BOOLEAN : StartSetStatus(r, id, flag)
    \/ /\ scenario # "together"
       /\ \E d \in Admins, ok \in BOOLEAN : StartBootstrap(r, d, ok)

MCInit == Init /\ scenario \in {"alone", "together", "bootstrap"}
MCNext ==
    /\ UNCHANGED scenario
    /\ \/ \E r \in Active : MCCall(r) \/ Step(r) \/ Fail(r) \/ LoseCreated(r)
       \/ Crash
    /\ faults' <= Faults
MCSpec ==
    /\ MCInit /\ [][MCNext]_<<vars, scenario>>
    /\ Answers
    /\ \A r \in Requests : SF_vars(scenario = "bootstrap" /\ BootstrapAgain(r))

\* BootstrapCompletes, where somebody repeats the bootstrap.
RepeatedBootstrapCompletes == scenario = "bootstrap" => BootstrapCompletes
=============================================================================
