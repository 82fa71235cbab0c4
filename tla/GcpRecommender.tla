---------------------------- MODULE GcpRecommender ----------------------------
(***************************************************************************)
(* gcp_recommender_collector.py: an attempt lists the cluster's nodes,     *)
(* then the recommendations zone by zone and page by page, and replaces    *)
(* the groups of ProviderExport.  The cluster and the recommendations go   *)
(* on changing while it reads; the Recommender API comes and goes.         *)
(***************************************************************************)
EXTENDS ProviderExport, Sequences

CONSTANTS LISTING,  \* every recommendation there may be, in the API's order
          ZoneOf,   \* ZoneOf[vm], for every VM of the project
          Nodes     \* the VMs that can be nodes, with a gce:// providerID

Recommendations == {LISTING[k] : k \in DOMAIN LISTING}
Zones == {ZoneOf[n] : n \in Nodes}

ASSUME RecommenderConstants == /\ LISTING \in Seq(Recommendations)
                               /\ \A r \in Recommendations : r.node \in DOMAIN ZoneOf
                               /\ Nodes \subseteq DOMAIN ZoneOf
                               /\ Zones \subseteq Nat

VARIABLES cluster,    \* the nodes of the cluster
          provider,   \* the recommendations the API would list now
          api,        \* whether the API answers
          nodes,      \* kubernetes_nodes() of the attempt
          todo,       \* the zones not read to the end
          cursor,     \* the place the page token stands for, in LISTING
          raw,        \* the recommendations read so far
          throughout, \* those listed ever since the attempt began
          ever        \* those listed at some time since the attempt began

world == <<cluster, provider, api, throughout, ever>>
reading == <<nodes, todo, cursor, raw>>
vars == <<stage, groups, world, reading>>

Init == /\ stage = "idle" /\ GroupsInit
        /\ cluster \in SUBSET Nodes
        /\ provider \in SUBSET Recommendations
        /\ api = TRUE
        /\ nodes = {} /\ todo = {} /\ cursor = 0 /\ raw = {}
        /\ throughout = provider /\ ever = provider

-----------------------------------------------------------------------------
(* The world. *)

ChangeCluster == /\ \E n \in Nodes : cluster' \in {cluster \cup {n}, cluster \ {n}}
                 /\ UNCHANGED <<stage, groups, provider, api, throughout, ever, reading>>

ChangeProvider ==
  /\ \E r \in Recommendations : provider' \in {provider \cup {r}, provider \ {r}}
  /\ throughout' = throughout \cap provider'
  /\ ever' = ever \cup provider'
  /\ UNCHANGED <<stage, groups, cluster, api, reading>>

ChangeApi == /\ api' = ~api
             /\ UNCHANGED <<stage, groups, cluster, provider, throughout, ever, reading>>

-----------------------------------------------------------------------------
(* The attempt. *)

Start == /\ stage = "idle"
         /\ stage' = "nodes"
         /\ throughout' = provider /\ ever' = provider
         /\ nodes' = {} /\ todo' = {} /\ cursor' = 0 /\ raw' = {}
         /\ UNCHANGED <<groups, cluster, provider, api>>

\* The nodes, and the access token for the listing.
ReadNodes == /\ stage = "nodes"
             /\ cluster # {}
             /\ nodes' = cluster
             /\ todo' = {ZoneOf[n] : n \in cluster}
             /\ stage' = "list"
             /\ UNCHANGED <<groups, world, cursor, raw>>

Unread(zone) == {k \in DOMAIN LISTING : /\ k > cursor
                                        /\ LISTING[k] \in provider
                                        /\ ZoneOf[LISTING[k].node] = zone}

\* The zones are read in sorted order.
Reading(zone) == /\ stage = "list"
                 /\ api
                 /\ zone \in todo
                 /\ \A z \in todo : zone <= z

ReadUpTo(zone, last) == raw' = raw \cup {LISTING[k] : k \in {l \in Unread(zone) : l <= last}}

ZoneRead(zone) ==
  /\ todo' = todo \ {zone}
  /\ cursor' = 0
  /\ stage' = IF todo' = {} THEN "push recommendations" ELSE "list"

MutantReadPage(zone) ==
  /\ Reading(zone)
  /\ \E last \in Unread(zone) : ReadUpTo(zone, last)
  /\ ZoneRead(zone)
  /\ UNCHANGED <<groups, world, nodes>>

\* A page with a nextPageToken.
ReadPage(zone) ==
  /\ Reading(zone)
  /\ \E last \in Unread(zone) : ReadUpTo(zone, last) /\ cursor' = last
  /\ UNCHANGED <<stage, groups, world, nodes, todo>>

\* A page without one, the rest of the zone.
LastPage(zone) ==
  /\ Reading(zone)
  /\ ReadUpTo(zone, Len(LISTING))
  /\ ZoneRead(zone)
  /\ UNCHANGED <<groups, world, nodes>>

\* No gce:// node, no token, or a request that fails.
ReadFails == /\ stage \in {"nodes", "list"}
             /\ stage' = "push failure"
             /\ UNCHANGED <<groups, world, reading>>

ListFailsInOutage == /\ stage = "list"
                     /\ ~api
                     /\ ReadFails

\* parse_recommendation drops the instances that are not nodes.
Parsed == {r \in raw : r.node \in nodes}

MutantCount == Cardinality(raw)
Count == Cardinality(Parsed)

MutantExport == /\ Parsed # {} /\ ExportAnswered(Parsed)
                /\ UNCHANGED <<world, reading>>

Export == /\ ExportAnswered(Parsed)
          /\ UNCHANGED <<world, reading>>

MutantReportFailure == /\ stage = "push failure"
                       /\ stage' = "idle"
                       /\ PublishItems({})
                       /\ UNCHANGED <<world, reading>>

ReportFailure == /\ FailureReported
                 /\ UNCHANGED <<world, reading>>

ReportSuccess == /\ SuccessAnswered(Count)
                 /\ UNCHANGED <<world, reading>>

PutFails == /\ \/ ExportAnswerLost(Parsed) \/ ExportFails
               \/ SuccessAnswerLost(Count) \/ SuccessFails
               \/ FailureNotReported
            /\ UNCHANGED <<world, reading>>

-----------------------------------------------------------------------------
EndAttempt == Kill /\ UNCHANGED <<world, reading>>
EmptyGateway == RestartGateway /\ UNCHANGED <<world, reading>>

Attempt == \/ ReadNodes
           \/ \E zone \in Zones : ReadPage(zone) \/ LastPage(zone)
           \/ ReadFails \/ ListFailsInOutage
           \/ Export \/ ReportSuccess \/ ReportFailure \/ PutFails
           \/ EndAttempt

Next == \/ ChangeCluster \/ ChangeProvider \/ ChangeApi \/ EmptyGateway
        \/ Start \/ Attempt

Spec == Init /\ [][Next]_vars

\* The CronJob starts attempt after attempt, and every attempt ends, at the
\* latest by its deadline; a request that is made again in every attempt is
\* answered in one of them.
Fairness == /\ WF_vars(Start) /\ WF_vars(Attempt)
            /\ SF_vars(ReadNodes)
            /\ \A zone \in Zones : SF_vars(LastPage(zone))
            /\ SF_vars(ListFailsInOutage)
            /\ SF_vars(Export) /\ SF_vars(ReportSuccess) /\ SF_vars(ReportFailure)

FairSpec == Spec /\ Fairness
-----------------------------------------------------------------------------
(* Properties; SuccessCounts is in ProviderExport. *)

Of(items) == {r \in items : r.node \in nodes}

\* The published group is replaced only by a whole listing: no recommendation
\* that was there all along is missing, and none is published that was not
\* there at all, although pages and zones are read one by one from a listing
\* that changes.  A failed attempt leaves the last valid group as it is.
WholeListing ==
  [][Present(recs') => Of(throughout) \subseteq recs'.items /\ recs'.items \subseteq Of(ever)]_recs

\* Once the provider and the cluster stop changing and the API answers, what is
\* published is what the provider recommends for the nodes; recommendations
\* that the provider dropped are gone.  Two recommendations for one node are
\* never accepted.
Settled == [][FALSE]_<<cluster, provider, api>>
Current == {r \in provider : r.node \in cluster}
CatchesUp ==
  <>Settled => []<>(recs = [items |-> Current] \/ Repeats(Current) \/ cluster = {} \/ ~api)

\* An outage of the API that lasts is shown as a failed collection, and what
\* was exported before it stays (FINOPS.md).
OutageIsShown ==
  <>[](~api /\ cluster # {}) => <>[](~Present(status) \/ ~status.success)
=============================================================================
