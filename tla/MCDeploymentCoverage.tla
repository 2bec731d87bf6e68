-------------------------- MODULE MCDeploymentCoverage --------------------------
(***************************************************************************)
(* Small instances of DeploymentCoverage.                                  *)
(***************************************************************************)
EXTENDS DeploymentCoverage

NothingUnsupported == [a \in Agents |-> {}]
NothingRefused     == [a \in Agents |-> {}]

\* Bound: a record that waits for the database is written, skipped or lost before
\* anything else happens.
RecordsPersistPromptly == queued # {} => queued' = {}

\* Bound: an agent fades while nothing of it is in the server.
FadesInSilence ==
    online \ online' # {} =>
        /\ \A a \in Agents, s \in Slots : handler[a][s] = Idle
        /\ push.step = "idle"

\* Bound: after a crash one row waits at a time.
OneRowAfterCrash == restarts' > 0 => Len(updates') <= 1

\* The behaviours in which the database takes every row it is handed.
RowsAreWritten ==
    Len(updates') < Len(updates) =>
        LET u == Head(updates) IN rows'[u.policy][u.version][u.agent] = u.row

LosslessSpec == CoverageInit /\ [][CoverageNext /\ RowsAreWritten]_coverageVars
=============================================================================
