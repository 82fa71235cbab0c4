------------------------------ MODULE RunResult ------------------------------
(***************************************************************************)
(* The result line of a load run (FINOPS_RUN_RESULT=...) and the two       *)
(* verdicts computed from it: the exit code of the Runner, which decides   *)
(* whether the Kubernetes Job succeeds, and the functional_success gauge   *)
(* the Collector publishes.  They are written in two programs; what makes  *)
(* them agree is the shape of the lines the Runner can print.              *)
(***************************************************************************)
EXTENDS Integers

\* The statuses on which poll_ready stops before its deadline.
TerminalStatus == {"READY", "FAILED", "REJECTED"}

\* The final_status values of an item.
FinalStatus == TerminalStatus \cup {"TIMEOUT"}

\* The keys of status_counts: the Collector's synthetic result adds one.
StatusKey == FinalStatus \cup {"JOB_FAILED"}

\* A result, reduced to the numbers the verdicts read.  A status missing from
\* the status_counts dictionary counts zero.
Result == [requested     : Nat,
           submitted     : Nat,
           upload_errors : Nat,
           status_counts : [StatusKey -> Nat]]

NotReady(r) == r.status_counts["FAILED"] + r.status_counts["REJECTED"]
               + r.status_counts["TIMEOUT"] + r.status_counts["JOB_FAILED"]

Ready(r) == r.status_counts["READY"]

\* Upload and tracking errors are summed with the statuses that are not READY.
Failed(r) == r.upload_errors + NotReady(r)

FunctionalSuccess(r) == /\ Failed(r) = 0
                        /\ r.submitted = r.requested
                        /\ Ready(r) = r.requested

MutantExitIgnoresErrors(r) == Ready(r) = r.requested

\* The Runner's exit code is 0.
ExitClean(r) == r.upload_errors = 0 /\ Ready(r) = r.requested

\* The result the Collector makes up for a failed Job without a result line.
FailedJobResult(load_count) ==
    [requested     |-> load_count,
     submitted     |-> 0,
     upload_errors |-> 0,
     status_counts |-> [s \in StatusKey |-> IF s = "JOB_FAILED" THEN load_count ELSE 0]]

\* What a Runner asked for `count` tracks may print when `done` of them are
\* READY in the service: no track is counted under two statuses, and each one
\* is counted under a status or has an entry in errors.
WellFormed(r, count, done) ==
    /\ r.requested = count
    /\ r.submitted <= count
    /\ Ready(r) <= done
    /\ Ready(r) + NotReady(r) <= r.submitted
    /\ count <= Ready(r) + NotReady(r) + r.upload_errors
    /\ r.status_counts["JOB_FAILED"] = 0
=============================================================================
