------------------------------- MODULE LoadRun -------------------------------
(***************************************************************************)
(* What one load Job promises to the rest of the system, without threads,  *)
(* pools or retries: it prints at most one result line, the line accounts  *)
(* for every requested track, and the Job succeeds only on a clean line    *)
(* (or, past the end of the experiment, on none).  LoadRunner implements   *)
(* it; the Collector relies on it.                                         *)
(***************************************************************************)
EXTENDS RunResult, FiniteSets

CONSTANT COUNT      \* the number of tracks this Job requests

NoLine == [requested |-> "no result line"]

Index == 0 .. COUNT - 1

\* Each track adds at most one error per stage and one final status.
Lines == [requested     : {COUNT},
          submitted     : 0 .. COUNT,
          upload_errors : 0 .. 2 * COUNT,
          status_counts : [StatusKey -> 0 .. COUNT]]

VARIABLES job,      \* the state of the Kubernetes Job
          line,     \* the FINOPS_RUN_RESULT line in its log
          ready     \* the tracks the service has made READY

vars == <<job, line, ready>>

TypeOK == /\ job \in {"active", "succeeded", "failed"}
          /\ line \in Lines \cup {NoLine}
          /\ ready \subseteq Index

Init == /\ job = "active"
        /\ line = NoLine
        /\ ready = {}

\* The service finishes a track, whether or not the Job still runs.
BecomeReady(i) == /\ ready' = ready \cup {i}
                  /\ UNCHANGED <<job, line>>

\* main() prints its result.
Report == /\ job = "active"
          /\ line = NoLine
          /\ line' \in {r \in Lines : WellFormed(r, COUNT, Cardinality(ready))}
          /\ UNCHANGED <<job, ready>>

\* Exit code 0: every track is READY, or the experiment was over.
Succeed == /\ job = "active"
           /\ \/ line = NoLine /\ ready = {}
              \/ line # NoLine /\ ExitClean(line)
           /\ job' = "succeeded"
           /\ UNCHANGED <<line, ready>>

\* Exit code 1, a traceback, the Job's deadline or the loss of the Pod.
Fail == /\ job = "active"
        /\ job' = "failed"
        /\ UNCHANGED <<line, ready>>

Next == \/ \E i \in Index : BecomeReady(i)
        \/ Report
        \/ Succeed
        \/ Fail

Spec == Init /\ [][Next]_vars

\* A Job that succeeded with a result line left no track unfinished: each of
\* the requested tracks is READY in the service, not merely as many statuses.
SuccessMeansAllReady == job = "succeeded" /\ line # NoLine => ready = Index
=============================================================================
