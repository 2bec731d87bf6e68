--------------------------- MODULE MCConsoleSession ---------------------------
(***************************************************************************)
(* The bound of the small instance of ConsoleSession.  It holds back only  *)
(* steps of users and of the server that no fairness asks for.             *)
(***************************************************************************)
EXTENDS ConsoleSession

\* Bound: a profile is saved in the first session, and the save answered, before the data on
\* the server changes and with nothing being published; what it may cross, a logout, the
\* second login, loads, polls and reloads, stays.
ProfileFirst ==
    /\ saving = Nobody /\ saving' # Nobody => logins = 1
    /\ saving # Nobody \/ saving' # Nobody => version' = 1 /\ publishing' = "none"

=============================================================================
