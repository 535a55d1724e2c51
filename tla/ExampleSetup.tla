---------------------------- MODULE ExampleSetup ----------------------------
(***************************************************************************)
(* The setup script of the example: it creates the database, its tables and *)
(* the sample rows, one call after the other, and reports each failure and  *)
(* goes on.  It may be stopped anywhere and is run again.                   *)
(*                                                                          *)
(* A bulk insert is all or nothing, and only the script writes.  The        *)
(* permissions, which NocoDB need not support, come last and change nothing *)
(* here.                                                                    *)
(***************************************************************************)
EXTENDS Naturals, Sequences

CONSTANTS Tables,     \* sequence of tables, in the order of the script
          WithUnique, \* tables whose sample rows have unique columns
          MaxCopies   \* bound on the copies of sample rows

VARIABLES database, tables, \* what exists
          copies,           \* how often the sample rows of a table were inserted
          todo,             \* the calls that the running script has yet to make
          status,           \* "stopped", "running" or "completed"
          failed            \* history: a call of this run failed, but for what existed

vars == <<database, tables, copies, todo, status, failed>>

Names == {Tables[i] : i \in DOMAIN Tables}

\* What is assumed of the constants.
ExampleSetupAssumption ==
    Tables \in Seq(Names) /\ MaxCopies \in Nat \ {0} /\ WithUnique \subseteq Names

Step(kind, table) == [kind |-> kind, table |-> table]

\* createDatabase, createTables, insertSampleData
Script ==
    <<Step("database", Tables[1])>> \o [i \in DOMAIN Tables |-> Step("table", Tables[i])]
                                    \o [i \in DOMAIN Tables |-> Step("rows", Tables[i])]

Start ==
    /\ status # "running" /\ status' = "running" /\ todo' = Script /\ failed' = FALSE
    /\ UNCHANGED <<database, tables, copies>>

\* A slip: no column is unique.
PossibleAlways(step) ==
    CASE step.kind = "database" -> ~database
      [] step.kind = "table" -> database /\ step.table \notin tables
      [] step.kind = "rows" -> step.table \in tables

\* NocoDB refuses what exists, what has no place, and rows that are not unique.
Possible(step) ==
    CASE step.kind = "database" -> ~database
      [] step.kind = "table" -> database /\ step.table \notin tables
      [] step.kind = "rows" -> step.table \in tables
                               /\ (step.table \in WithUnique => copies[step.table] = 0)

Effect(step) ==
    /\ database' = (database \/ step.kind = "database")
    /\ tables' = tables \cup (IF step.kind = "table" THEN {step.table} ELSE {})
    /\ copies' = IF step.kind = "rows" THEN [copies EXCEPT ![step.table] = @ + 1] ELSE copies

\* A slip: the first call that is refused ends the script.
AfterRefusalEnd(step) == <<>>

\* Whatever becomes of a call, the next one is made.
AfterRefusal(step) == Tail(todo)

Goes(rest) == todo' = rest /\ status' = IF rest = <<>> THEN "completed" ELSE "running"

Done ==
    /\ status = "running" /\ Possible(Head(todo)) /\ Effect(Head(todo))
    /\ (Head(todo).kind = "rows" => copies[Head(todo).table] < MaxCopies)
    /\ Goes(Tail(todo)) /\ UNCHANGED failed

Refused ==
    /\ status = "running" /\ ~Possible(Head(todo))
    /\ Goes(AfterRefusal(Head(todo))) /\ UNCHANGED <<database, tables, copies, failed>>

\* No answer: the call had no effect, or had one.
Fail ==
    /\ status = "running" /\ failed' = TRUE
    /\ \/ UNCHANGED <<database, tables, copies>>
       \/ /\ Possible(Head(todo)) /\ Effect(Head(todo))
          /\ (Head(todo).kind = "rows" => copies[Head(todo).table] < MaxCopies)
    /\ Goes(Tail(todo))

\* The script is stopped.
Stop ==
    /\ status = "running" /\ status' = "stopped" /\ todo' = <<>>
    /\ UNCHANGED <<database, tables, copies, failed>>

Init ==
    /\ database = FALSE /\ tables = {} /\ copies = [t \in Names |-> 0]
    /\ todo = <<>> /\ status = "stopped" /\ failed = FALSE

Next == Start \/ Done \/ Refused \/ Fail \/ Stop
Spec == Init /\ [][Next]_vars

-----------------------------------------------------------------------------
(* Properties *)

AllThere == database /\ tables = Names /\ \A t \in Names : copies[t] > 0

\* A run whose calls are all answered completes what earlier runs have left, and
\* is not kept from it by what they have done.
RerunCompletes == status = "completed" /\ ~failed => AllThere

\* Sample rows with unique columns are inserted once, however often the script
\* is run and wherever it failed.
SampleOnce == \A t \in WithUnique : copies[t] <= 1

\* When the script says that the setup completed, it did.
CompletedIsComplete == status = "completed" => AllThere
=============================================================================
