--------------------------- MODULE ComputeOptimizer ---------------------------
(***************************************************************************)
(* The Pod of aws-compute-optimizer-collector: an init container that asks *)
(* the AWS API four times for what it writes to files, ending at the first *)
(* error (set -eu), then aws_compute_optimizer_collector.py, which reads   *)
(* the files, the nodes, and replaces the groups of ProviderExport.  The   *)
(* findings of the provider change between the calls.                      *)
(***************************************************************************)
EXTENDS ProviderExport

CONSTANTS Nodes,    \* the EC2 instances that can be nodes
          Types,    \* instance types
          Findings, \* the recommendations considered
          NoOption  \* a finding without an option of rank 1

Finding == [current : Types, recommended : Types \cup {NoOption}]
None == [current |-> "none"]

ASSUME OptimizerConstants == Findings \subseteq Finding /\ NoOption \notin Types

VARIABLES cluster,  \* the nodes of the cluster with an aws:// providerID
          provider, \* the finding for each node, or None
          api,      \* whether the AWS API answers
          nodes,    \* kubernetes_nodes() of the attempt
          file,     \* recommendations.json
          described \* the types of instance-types.json

world == <<cluster, provider, api>>
work == <<nodes, file, described>>
vars == <<stage, groups, world, work>>

NoFile == [n \in Nodes |-> None]

Init == /\ stage = "idle" /\ GroupsInit
        /\ cluster \in SUBSET Nodes
        /\ provider \in [Nodes -> Findings \cup {None}]
        /\ api = TRUE
        /\ nodes = {} /\ file = NoFile /\ described = {}

ChangeWorld == /\ \/ /\ \E n \in Nodes : cluster' \in {cluster \cup {n}, cluster \ {n}}
                     /\ UNCHANGED <<provider, api>>
                  \/ /\ \E n \in Nodes, f \in Findings \cup {None} :
                          provider' = [provider EXCEPT ![n] = f]
                     /\ UNCHANGED <<cluster, api>>
                  \/ api' = ~api /\ UNCHANGED <<cluster, provider>>
               /\ UNCHANGED <<stage, groups, work>>

-----------------------------------------------------------------------------
(* The init container: the emptyDir is new in every Pod. *)

Found(findings) == {n \in Nodes : findings[n] # None}

Start == /\ stage = "idle"
         /\ stage' = "enrollment"
         /\ nodes' = {} /\ file' = NoFile /\ described' = {}
         /\ UNCHANGED <<groups, world>>

Answer(from, to) == stage = from /\ api /\ stage' = to

ReadEnrollment == /\ Answer("enrollment", "recommendations")
                  /\ UNCHANGED <<groups, world, work>>

ReadRecommendations == /\ Answer("recommendations", "current types")
                       /\ file' = provider
                       /\ UNCHANGED <<groups, world, nodes, described>>

ReadCurrentTypes == /\ Answer("current types", "recommended types")
                    /\ described' = {provider[n].current : n \in Found(provider)}
                    /\ UNCHANGED <<groups, world, nodes, file>>

RankOne(findings) == {findings[n].recommended : n \in Found(findings)} \ {NoOption}

MutantReadRecommendedTypes ==
  /\ Answer("recommended types", "describe")
  /\ described' = RankOne(provider)
  /\ UNCHANGED <<groups, world, nodes, file>>

ReadRecommendedTypes == /\ Answer("recommended types", "describe")
                        /\ described' = described \cup RankOne(provider)
                        /\ UNCHANGED <<groups, world, nodes, file>>

\* describe-instance-types, or an empty list when no type was named.
Describe == /\ stage = "describe"
            /\ api \/ described = {}
            /\ stage' = "nodes"
            /\ UNCHANGED <<groups, world, work>>

InitStages == {"enrollment", "recommendations", "current types", "recommended types", "describe"}

\* The init container fails, and with it the Pod.
InitFails == /\ stage \in InitStages
             /\ stage' = "idle"
             /\ UNCHANGED <<groups, world, work>>

-----------------------------------------------------------------------------
(* main() *)

ReadNodes == /\ stage = "nodes"
             /\ cluster # {}
             /\ nodes' = cluster
             /\ stage' = "push recommendations"
             /\ UNCHANGED <<groups, world, file, described>>

ReadNodesFails == /\ stage = "nodes"
                  /\ stage' = "push failure"
                  /\ UNCHANGED <<groups, world, work>>

\* A type that is not in instance-types.json is published with zero vCPUs and
\* zero bytes of memory.
Item(n, f, types) ==
  [node |-> n, current |-> f.current, recommended |-> f.recommended,
   sized |-> {f.current, f.recommended} \subseteq types]

\* parse_recommendations: the findings of nodes, if they have an option of rank 1.
Parse(ns, findings, types) ==
  {Item(n, findings[n], types) :
     n \in {k \in ns \cap Found(findings) : findings[k].recommended # NoOption}}

Parsed == Parse(nodes, file, described)

MutantCount == Cardinality(Found(file))
Count == Cardinality(Parsed)

Export == ExportAnswered(Parsed) /\ UNCHANGED <<world, work>>
ReportSuccess == SuccessAnswered(Count) /\ UNCHANGED <<world, work>>
ReportFailure == FailureReported /\ UNCHANGED <<world, work>>

PutFails == /\ \/ ExportAnswerLost(Parsed) \/ ExportFails
               \/ SuccessAnswerLost(Count) \/ SuccessFails
               \/ FailureNotReported
            /\ UNCHANGED <<world, work>>

EndAttempt == Kill /\ UNCHANGED <<world, work>>
EmptyGateway == RestartGateway /\ UNCHANGED <<world, work>>

-----------------------------------------------------------------------------
Attempt == \/ ReadEnrollment \/ ReadRecommendations
           \/ ReadCurrentTypes \/ ReadRecommendedTypes \/ Describe \/ InitFails
           \/ ReadNodes \/ ReadNodesFails
           \/ Export \/ ReportSuccess \/ ReportFailure \/ PutFails
           \/ EndAttempt

Next == ChangeWorld \/ EmptyGateway \/ Start \/ Attempt

Spec == Init /\ [][Next]_vars

\* As in GcpRecommender.
Fairness == /\ WF_vars(Start) /\ WF_vars(Attempt)
            /\ SF_vars(ReadEnrollment) /\ SF_vars(ReadRecommendations)
            /\ SF_vars(ReadCurrentTypes) /\ SF_vars(ReadRecommendedTypes)
            /\ SF_vars(Describe) /\ SF_vars(ReadNodes)
            /\ SF_vars(Export) /\ SF_vars(ReportSuccess) /\ SF_vars(ReportFailure)

FairSpec == Spec /\ Fairness
-----------------------------------------------------------------------------
(* Properties; SuccessCounts is in ProviderExport. *)

\* Once findings, cluster and API are steady, what is published is what the
\* provider finds for the nodes, with the sizes of both types.
Settled == [][FALSE]_<<cluster, provider, api>>
Current == {r \in Parse(cluster, provider, Types) : r.sized}
CatchesUp == <>Settled => []<>(recs = [items |-> Current] \/ cluster = {} \/ ~api)

\* FINOPS.md: a failed collection is told apart by its status, for AWS by the
\* same contract of metrics as for GCP.
OutageIsShown == <>[](~api /\ cluster # {}) => <>[](~Present(status) \/ ~status.success)
=============================================================================
