------------------------------- MODULE Setup -------------------------------
(***************************************************************************)
(* The two programs that create tables and first rows: the start of the     *)
(* middleware, and the setup script of the example.  They share no state;   *)
(* both may be stopped anywhere, and are run again over what is left.       *)
(***************************************************************************)
EXTENDS DatabaseInit

CONSTANTS ExampleTables, WithUnique, MaxCopies  \* of the script

VARIABLES database, tables, copies, script, status, failed  \* of the script

Example == INSTANCE ExampleSetup WITH Tables <- ExampleTables, todo <- script

ASSUME SetupAssumption == Example!ExampleSetupAssumption

\* A run of the setup script whose calls are all answered completes what earlier
\* runs have left and is not kept from it by what they have done; sample rows
\* with unique columns are inserted once, wherever a run failed.
SetupSafe == Example!RerunCompletes /\ Example!SampleOnce

\* A run that reports success has made and filled every table (violated).
CompletedIsComplete == Example!CompletedIsComplete
=============================================================================
