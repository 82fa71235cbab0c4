-------------------------- MODULE MCResultCollector --------------------------
(***************************************************************************)
(* Two runs of one track each, the first with a RUN_ID, the second without *)
(* as the CronJobs start it: a clean line, and one of a track that was not *)
(* READY in time.                                                          *)
(***************************************************************************)
EXTENDS ResultCollector

NoStatuses == [s \in StatusKey |-> 0]

MCRunLines ==
  {[requested |-> 1, submitted |-> 1, upload_errors |-> 0, status_counts |-> [NoStatuses EXCEPT ![s] = 1]] :
     s \in {"READY", "TIMEOUT"}}

TwoJobs == <<"first", "second">>
OneNamed == [j \in {"first", "second"} |-> IF j = "first" THEN "reviewed" ELSE Unset]
=============================================================================
