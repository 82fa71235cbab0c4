---------------------------- MODULE ProviderExport ----------------------------
(***************************************************************************)
(* What the collectors of provider recommendations share: two groups of    *)
(* the Pushgateway, replaced by one PUT each - the recommendations, then   *)
(* the collector's status - and what can become of each PUT.  One attempt  *)
(* (a Pod of the CronJob's Job, or a retry of it) runs at a time.          *)
(***************************************************************************)
EXTENDS FiniteSets, Naturals

VARIABLES stage,   \* where the attempt is, "idle" between attempts
          recs,    \* the group "recommendations" with the items published, or NoGroup
          status,  \* the group "collector", or NoGroup
          latest   \* the group with the newer push_time_seconds

groups == <<recs, status, latest>>

NoGroup == [group |-> "none"]

Present(group) == group # NoGroup

GroupsInit == recs = NoGroup /\ status = NoGroup /\ latest = "collector"

\* Two recommendations for one node are two samples of one series, and the
\* Pushgateway answers 400.
Repeats(items) == \E r, q \in items : r # q /\ r.node = q.node

PublishItems(items) == /\ ~Repeats(items)
                       /\ recs' = [items |-> items]
                       /\ latest' = "recommendations"
                       /\ UNCHANGED status

PublishStatus(s) == /\ status' = s
                    /\ latest' = "collector"
                    /\ UNCHANGED recs

Succeeded(n) == [success |-> TRUE, count |-> n]
FailedStatus == [success |-> FALSE, count |-> 0]

-----------------------------------------------------------------------------
(* push("recommendations", ...) with the items parsed. *)

ExportAnswered(items) == /\ stage = "push recommendations"
                         /\ PublishItems(items)
                         /\ stage' = "push success"

\* The group is replaced, but the answer is lost: to main() the PUT failed.
ExportAnswerLost(items) == /\ stage = "push recommendations"
                           /\ PublishItems(items)
                           /\ stage' = "push failure"

ExportFails == /\ stage = "push recommendations"
               /\ stage' = "push failure"
               /\ UNCHANGED groups

(* push("collector", ...) with success. *)

SuccessAnswered(n) == /\ stage = "push success"
                      /\ PublishStatus(Succeeded(n))
                      /\ stage' = "idle"

SuccessAnswerLost(n) == /\ stage = "push success"
                        /\ PublishStatus(Succeeded(n))
                        /\ stage' = "push failure"

SuccessFails == /\ stage = "push success"
                /\ stage' = "push failure"
                /\ UNCHANGED groups

(* push("collector", ...) in the handler of the exception. *)

FailureReported == /\ stage = "push failure"
                   /\ PublishStatus(FailedStatus)
                   /\ stage' = "idle"

FailureNotReported == /\ stage = "push failure"
                      /\ stage' = "idle"
                      /\ UNCHANGED groups

-----------------------------------------------------------------------------
\* activeDeadlineSeconds, an eviction or a lost node ends the Pod anywhere.
Kill == /\ stage # "idle"
        /\ stage' = "idle"
        /\ UNCHANGED groups

\* The Pushgateway keeps its groups in memory only.
RestartGateway == /\ recs' = NoGroup /\ status' = NoGroup
                  /\ UNCHANGED <<stage, latest>>

-----------------------------------------------------------------------------
\* A success that was reported after the recommendations were replaced counts
\* exactly the recommendations that are published, whatever request was lost,
\* refused or repeated and wherever an attempt was ended.
SuccessCounts ==
  Present(recs) /\ Present(status) /\ status.success /\ latest = "collector"
    => status.count = Cardinality(recs.items)
=============================================================================
