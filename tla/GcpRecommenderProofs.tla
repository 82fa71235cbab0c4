------------------------- MODULE GcpRecommenderProofs -------------------------
(***************************************************************************)
(* Proofs about GcpRecommender, for every listing, every set of zones and  *)
(* nodes: only whole listings are published, and a success counts what is. *)
(* The last section proves the same of the other client of ProviderExport, *)
(* ComputeOptimizer, for every set of nodes, types and findings.           *)
(***************************************************************************)
EXTENDS GcpRecommender, TLAPS

First(zone) == zone \in todo /\ \A z \in todo : zone <= z

\* The place k of the listing has been passed by the attempt.
Passed(k) == LET zone == ZoneOf[LISTING[k].node]
             IN zone \notin todo \/ (First(zone) /\ k <= cursor)

\* What was listed all along at a place that was passed has been read.
ReadOnce == \A k \in DOMAIN LISTING :
              LISTING[k] \in throughout /\ LISTING[k].node \in nodes /\ Passed(k)
                => LISTING[k] \in raw

Pushing == {"push recommendations", "push success"}

WorldInv == /\ cluster \subseteq Nodes /\ nodes \subseteq Nodes
            /\ provider \subseteq Recommendations
            /\ throughout \subseteq provider /\ provider \subseteq ever
            /\ raw \subseteq ever
            /\ todo \subseteq Zones
            /\ cursor \in Nat

ListInv == /\ stage \in {"list"} \cup Pushing => ReadOnce
           /\ stage \in Pushing => todo = {}
           /\ stage = "nodes" => cursor = 0

CountInv == /\ stage = "push success" => recs = NoGroup \/ recs = [items |-> Parsed]
            /\ SuccessCounts

IInv == WorldInv /\ ListInv /\ CountInv

-----------------------------------------------------------------------------
LEMMA Places == /\ DOMAIN LISTING = 1 .. Len(LISTING)
                /\ Len(LISTING) \in Nat
                /\ \A r \in Recommendations : \E k \in DOMAIN LISTING : LISTING[k] = r
BY RecommenderConstants DEF RecommenderConstants, Recommendations

LEMMA InitInv == Init => IInv
<1> SUFFICES ASSUME Init PROVE IInv
  OBVIOUS
<1>1. WorldInv
  BY DEF Init, WorldInv
<1>2. ListInv /\ CountInv
  BY DEF Init, GroupsInit, ListInv, CountInv, SuccessCounts, Pushing, Present
<1> QED BY <1>1, <1>2 DEF IInv

\* The attempt's reading, step by step.
LEMMA PagePasses ==
  ASSUME IInv, NEW zone \in Zones, ReadPage(zone)
  PROVE  WorldInv' /\ ListInv'
<1>1. PICK last \in Unread(zone) : ReadUpTo(zone, last) /\ cursor' = last
  BY DEF ReadPage
<1>2. /\ stage = "list" /\ stage' = "list" /\ First(zone)
      /\ UNCHANGED <<groups, world, nodes, todo>>
  BY DEF ReadPage, Reading, First
<1>3. /\ last \in DOMAIN LISTING /\ last \in Nat
  BY <1>1, Places DEF Unread
<1>4. raw \subseteq raw' /\ raw' \subseteq raw \cup provider
  BY <1>1 DEF ReadUpTo, Unread
<1>5. WorldInv'
  BY <1>1, <1>2, <1>3, <1>4 DEF IInv, WorldInv, world
<1>6. ReadOnce'
  <2> SUFFICES ASSUME NEW k \in DOMAIN LISTING,
                      LISTING[k] \in throughout, LISTING[k].node \in nodes, Passed(k)'
               PROVE  LISTING[k] \in raw'
    BY <1>2 DEF ReadOnce, world
  <2> DEFINE z == ZoneOf[LISTING[k].node]
  <2>1. CASE Passed(k)
    BY <2>1, <1>2, <1>4 DEF IInv, ListInv, ReadOnce
  <2>2. CASE ~Passed(k)
    <3>1. First(z) /\ k <= last /\ ~(k <= cursor)
      BY <2>2, <1>1, <1>2 DEF Passed, First
    <3>2. z = zone
      BY <3>1, <1>2, RecommenderConstants DEF First, RecommenderConstants, IInv, WorldInv
    <3>3. k \in Unread(zone)
      BY <3>1, <3>2, Places DEF Unread, IInv, WorldInv
    <3> QED BY <3>1, <3>3, <1>1 DEF ReadUpTo
  <2> QED BY <2>1, <2>2
<1> QED BY <1>2, <1>5, <1>6 DEF ListInv, Pushing

LEMMA LastPagePasses ==
  ASSUME IInv, NEW zone \in Zones, LastPage(zone)
  PROVE  WorldInv' /\ ListInv'
<1>1. /\ stage = "list" /\ First(zone) /\ ReadUpTo(zone, Len(LISTING))
      /\ todo' = todo \ {zone} /\ cursor' = 0
      /\ stage' = IF todo' = {} THEN "push recommendations" ELSE "list"
      /\ UNCHANGED <<groups, world, nodes>>
  BY DEF LastPage, Reading, First, ZoneRead
<1>2. raw \subseteq raw' /\ raw' \subseteq raw \cup provider
  BY <1>1 DEF ReadUpTo, Unread
<1>3. WorldInv'
  BY <1>1, <1>2 DEF IInv, WorldInv, world
<1>4. ReadOnce'
  <2> SUFFICES ASSUME NEW k \in DOMAIN LISTING,
                      LISTING[k] \in throughout, LISTING[k].node \in nodes, Passed(k)'
               PROVE  LISTING[k] \in raw'
    BY <1>1 DEF ReadOnce, world
  <2> DEFINE z == ZoneOf[LISTING[k].node]
  <2>0. k \in 1 .. Len(LISTING) /\ Len(LISTING) \in Nat
    BY Places
  <2>1. z \notin todo'
    <3>1. z \notin todo' \/ k <= cursor'
      BY DEF Passed
    <3>2. ~(k <= 0)
      BY <2>0
    <3> QED BY <3>1, <3>2, <1>1
  <2>2. CASE Passed(k)
    BY <2>2, <1>1, <1>2 DEF IInv, ListInv, ReadOnce
  <2>3. CASE ~Passed(k)
    <3>1. z = zone /\ ~(k <= cursor)
      BY <2>1, <2>3, <1>1 DEF Passed
    <3>2. k \in Unread(zone)
      BY <3>1, <2>0 DEF Unread, IInv, WorldInv
    <3>3. k <= Len(LISTING)
      BY <2>0
    <3>4. raw' = raw \cup {LISTING[l] : l \in {m \in Unread(zone) : m <= Len(LISTING)}}
      BY <1>1 DEF ReadUpTo
    <3> QED BY <3>2, <3>3, <3>4
  <2> QED BY <2>2, <2>3
<1>5. (stage' \in Pushing => todo' = {}) /\ stage' # "nodes"
  BY <1>1 DEF Pushing
<1> QED BY <1>3, <1>4, <1>5 DEF ListInv

\* No other step of the attempt, and nothing in the world, undoes what was read.
LEMMA ReadingKept ==
  ASSUME IInv, UNCHANGED reading, throughout' \subseteq throughout,
         stage' \in {"list"} \cup Pushing => stage \in {"list"} \cup Pushing,
         stage' \in Pushing => stage \in Pushing, stage' = "nodes" => stage = "nodes"
  PROVE  ListInv'
<1>1. \A k \in DOMAIN LISTING : Passed(k)' <=> Passed(k)
  BY DEF Passed, First, reading
<1>2. ReadOnce => ReadOnce'
  BY <1>1 DEF ReadOnce, reading
<1> QED BY <1>2 DEF IInv, ListInv, reading

LEMMA ReadNodesPasses ==
  ASSUME IInv, ReadNodes
  PROVE  WorldInv' /\ ListInv'
<1>1. /\ nodes' = cluster /\ todo' = {ZoneOf[n] : n \in cluster} /\ cursor' = 0
      /\ stage' = "list" /\ UNCHANGED <<world, cursor, raw>>
  BY DEF ReadNodes, IInv, ListInv
<1>2. WorldInv'
  BY <1>1 DEF IInv, WorldInv, world, Zones
<1>3. ReadOnce'
  <2> SUFFICES ASSUME NEW k \in DOMAIN LISTING, LISTING[k].node \in nodes', Passed(k)'
               PROVE  FALSE
    BY DEF ReadOnce
  <2>1. ZoneOf[LISTING[k].node] \in todo'
    BY <1>1
  <2>2. k <= cursor'
    BY <2>1 DEF Passed
  <2>3. k \in Nat /\ k >= 1
    BY Places
  <2> QED BY <2>2, <2>3, <1>1
<1>4. stage' \notin Pushing /\ stage' # "nodes"
  BY <1>1 DEF Pushing
<1> QED BY <1>2, <1>3, <1>4 DEF ListInv

\* Steps of the requests to the Pushgateway and of the world.
LEMMA OtherSteps ==
  ASSUME IInv,
         \/ ChangeCluster \/ ChangeProvider \/ ChangeApi \/ EmptyGateway
         \/ ReadFails \/ ListFailsInOutage \/ Export \/ ReportSuccess \/ ReportFailure
         \/ PutFails \/ EndAttempt \/ UNCHANGED vars
  PROVE  WorldInv' /\ ListInv'
<1> USE DEF IInv, WorldInv, reading, world, Pushing
<1>0. ASSUME UNCHANGED <<cluster, provider, api, throughout, ever, reading>>,
             \/ UNCHANGED stage
             \/ stage = "push recommendations" /\ stage' = "push success"
             \/ stage' \in {"idle", "push failure"}
      PROVE  WorldInv' /\ ListInv'
  <2>1. WorldInv'
    BY <1>0
  <2>2. ListInv'
    BY <1>0, ReadingKept
  <2> QED BY <2>1, <2>2
<1>1. CASE ChangeCluster
  <2>1. UNCHANGED <<stage, throughout, provider, ever, reading>> /\ cluster' \subseteq Nodes
    BY <1>1 DEF ChangeCluster
  <2>2. ListInv'
    BY <2>1, ReadingKept
  <2> QED BY <2>1, <2>2
<1>2. CASE ChangeProvider
  <2>1. /\ UNCHANGED <<stage, cluster, reading>> /\ provider' \subseteq Recommendations
        /\ throughout' = throughout \cap provider' /\ ever' = ever \cup provider'
    BY <1>2 DEF ChangeProvider
  <2>2. ListInv'
    BY <2>1, ReadingKept
  <2> QED BY <2>1, <2>2
<1>3. CASE ChangeApi
  <2>1. UNCHANGED <<stage, cluster, provider, throughout, ever, reading>>
    BY <1>3 DEF ChangeApi
  <2>2. ListInv'
    BY <2>1, ReadingKept
  <2> QED BY <2>1, <2>2
<1>4. CASE EmptyGateway \/ ReadFails \/ ListFailsInOutage \/ EndAttempt
  BY <1>0, <1>4 DEF EmptyGateway, RestartGateway, ReadFails, ListFailsInOutage,
                    EndAttempt, Kill
<1>5. CASE Export \/ ReportSuccess \/ ReportFailure
  BY <1>0, <1>5 DEF Export, ExportAnswered, ReportSuccess, SuccessAnswered, ReportFailure,
                    FailureReported
<1>6. CASE PutFails
  BY <1>0, <1>6 DEF PutFails, ExportAnswerLost, ExportFails, SuccessAnswerLost, SuccessFails,
                    FailureNotReported
<1>7. CASE UNCHANGED vars
  BY <1>0, <1>7 DEF vars
<1> QED BY <1>1, <1>2, <1>3, <1>4, <1>5, <1>6, <1>7

LEMMA StartPasses ==
  ASSUME IInv, Start
  PROVE  WorldInv' /\ ListInv'
BY DEF Start, IInv, WorldInv, ListInv, Pushing

-----------------------------------------------------------------------------
\* The groups change by the PUTs and a restart only.
LEMMA GroupSteps ==
  ASSUME Next \/ UNCHANGED vars
  PROVE  \/ recs' = NoGroup /\ status' = NoGroup /\ UNCHANGED <<stage, latest, world, reading>>
         \/ /\ stage = "push recommendations"
            /\ PublishItems(Parsed) /\ UNCHANGED <<world, reading>>
         \/ /\ stage = "push success" /\ stage' # "push success"
            /\ PublishStatus(Succeeded(Count))
         \/ stage' # "push success" /\ PublishStatus(FailedStatus)
         \/ /\ UNCHANGED groups
            /\ stage' = "push success" => UNCHANGED <<stage, raw, nodes>>
<1>1. CASE ChangeCluster \/ ChangeProvider \/ ChangeApi \/ UNCHANGED vars
  BY <1>1 DEF ChangeCluster, ChangeProvider, ChangeApi, vars, reading, groups
<1>2. CASE EmptyGateway
  BY <1>2 DEF EmptyGateway, RestartGateway
<1>3. CASE Start \/ ReadNodes \/ ReadFails \/ ListFailsInOutage \/ EndAttempt
  BY <1>3 DEF Start, ReadNodes, ReadFails, ListFailsInOutage, EndAttempt, Kill
<1>4. CASE \E zone \in Zones : ReadPage(zone) \/ LastPage(zone)
  BY <1>4 DEF ReadPage, LastPage, Reading, ZoneRead
<1>5. CASE Export
  BY <1>5 DEF Export, ExportAnswered
<1>6. CASE ReportSuccess \/ ReportFailure
  BY <1>6 DEF ReportSuccess, ReportFailure, SuccessAnswered, FailureReported
<1>7. CASE PutFails
  BY <1>7 DEF PutFails, ExportAnswerLost, ExportFails, SuccessAnswerLost, SuccessFails,
              FailureNotReported
<1> QED BY <1>1, <1>2, <1>3, <1>4, <1>5, <1>6, <1>7 DEF Next, Attempt

LEMMA CountStep ==
  ASSUME CountInv, Next \/ UNCHANGED vars
  PROVE  CountInv'
<1>1. CASE recs' = NoGroup /\ status' = NoGroup
  BY <1>1 DEF CountInv, SuccessCounts, Present
<1>2. CASE stage = "push recommendations" /\ PublishItems(Parsed) /\ UNCHANGED <<world, reading>>
  <2>1. recs' = [items |-> Parsed] /\ latest' = "recommendations" /\ Parsed' = Parsed
    BY <1>2 DEF PublishItems, reading, Parsed
  <2>2. SuccessCounts'
    BY <2>1 DEF SuccessCounts
  <2>3. recs' = [items |-> Parsed']
    BY <2>1
  <2> QED BY Zenon, <2>2, <2>3 DEF CountInv
<1>3. CASE /\ stage = "push success" /\ stage' # "push success"
           /\ PublishStatus(Succeeded(Count))
  <2>1. recs' = recs /\ (recs = NoGroup \/ recs = [items |-> Parsed])
    BY <1>3 DEF CountInv, PublishStatus
  <2>2. status'.count = Cardinality(Parsed)
    BY <1>3 DEF PublishStatus, Succeeded, Count
  <2>3. Present(recs)' => recs'.items = Parsed
    BY <2>1 DEF Present
  <2>4. SuccessCounts'
    BY <2>2, <2>3 DEF SuccessCounts
  <2> QED BY Zenon, <1>3, <2>4 DEF CountInv
<1>4. CASE stage' # "push success" /\ PublishStatus(FailedStatus)
  BY <1>4 DEF CountInv, SuccessCounts, PublishStatus, FailedStatus
<1>5. CASE /\ UNCHANGED groups
           /\ stage' = "push success" => UNCHANGED <<stage, raw, nodes>>
  BY <1>5 DEF CountInv, SuccessCounts, groups, Present, Parsed
<1> QED BY <1>1, <1>2, <1>3, <1>4, <1>5, GroupSteps

LEMMA StepInv == IInv /\ [Next]_vars => IInv'
<1> SUFFICES ASSUME IInv, [Next]_vars PROVE IInv'
  OBVIOUS
<1>1. CountInv'
  BY CountStep DEF IInv
<1>2. WorldInv' /\ ListInv'
  BY PagePasses, LastPagePasses, ReadNodesPasses, StartPasses, OtherSteps DEF Next, Attempt
<1> QED BY <1>1, <1>2 DEF IInv

\* The strengthened invariant holds in every state of the collector.
THEOREM Invariance == Spec => []IInv
BY InitInv, StepInv, PTL DEF Spec

\* A success that was reported after the recommendations counts exactly what is
\* published (main(), the order of its two PUTs).
THEOREM SuccessCountsAll == Spec => []SuccessCounts
<1>1. IInv => SuccessCounts
  BY DEF IInv, CountInv
<1> QED BY Invariance, <1>1, PTL

\* Only whole listings replace the published group (list_recommendations and
\* main(), whatever changes between two pages and wherever an attempt fails).
THEOREM WholeListingAlways == Spec => WholeListing
<1>1. ASSUME IInv, Next \/ UNCHANGED vars, recs' # recs, Present(recs')
      PROVE  Of(throughout) \subseteq recs'.items /\ recs'.items \subseteq Of(ever)
  <2>1. stage = "push recommendations" /\ recs' = [items |-> Parsed]
    BY <1>1, GroupSteps DEF Present, PublishItems, PublishStatus, groups
  <2>2. todo = {} /\ ReadOnce
    BY <1>1, <2>1 DEF IInv, ListInv, Pushing
  <2>3. ASSUME NEW r \in Of(throughout)
        PROVE  r \in Parsed
    <3>1. PICK k \in DOMAIN LISTING : LISTING[k] = r
      BY <1>1, Places DEF Of, IInv, WorldInv
    <3>2. Passed(k)
      BY <2>2 DEF Passed
    <3> QED BY <2>2, <3>1, <3>2 DEF ReadOnce, Of, Parsed
  <2>4. Parsed \subseteq Of(ever)
    BY <1>1 DEF Parsed, Of, IInv, WorldInv
  <2> QED BY <2>1, <2>3, <2>4
<1>2. IInv /\ [Next]_vars
        => [Present(recs') => Of(throughout) \subseteq recs'.items /\ recs'.items \subseteq Of(ever)]_recs
  BY <1>1
<1> QED BY Invariance, <1>2, PTL DEF Spec, WholeListing

-----------------------------------------------------------------------------
(* ComputeOptimizer. *)

CONSTANTS Types, Findings, NoOption
VARIABLES file, described

Aws == INSTANCE ComputeOptimizer

AwsCount == /\ stage = "push success" => recs = NoGroup \/ recs = [items |-> Aws!Parsed]
            /\ SuccessCounts

USE DEF Aws!groups, Aws!Succeeded, Aws!FailedStatus

\* The instance speaks of the groups in the same words as this module.
LEMMA SameGroups == Aws!NoGroup = NoGroup /\ \A S : Aws!Cardinality(S) = Cardinality(S)
  BY DEF Aws!NoGroup, NoGroup, Aws!Cardinality, Cardinality

\* The groups change by the PUTs and a restart only, and between the two PUTs
\* the files and the nodes are those that were exported.
LEMMA AwsGroupSteps ==
  ASSUME Aws!Next \/ UNCHANGED Aws!vars
  PROVE  \/ recs' = NoGroup /\ status' = NoGroup
         \/ /\ stage = "push recommendations" /\ recs' = [items |-> Aws!Parsed]
            /\ latest' = "recommendations" /\ UNCHANGED <<nodes, file, described>>
         \/ /\ stage = "push success" /\ stage' # "push success"
            /\ status' = [success |-> TRUE, count |-> Cardinality(Aws!Parsed)]
            /\ UNCHANGED recs
         \/ /\ stage' # "push success" /\ UNCHANGED recs
            /\ status' = [success |-> FALSE, count |-> 0]
         \/ /\ UNCHANGED <<recs, status, latest>>
            /\ stage' = "push success" => UNCHANGED <<stage, nodes, file, described>>
<1> USE SameGroups DEF Aws!world, Aws!work
<1>1. CASE Aws!ChangeWorld \/ UNCHANGED Aws!vars
  BY <1>1 DEF Aws!ChangeWorld, Aws!vars
<1>2. CASE Aws!EmptyGateway
  BY <1>2 DEF Aws!EmptyGateway, Aws!RestartGateway
<1>3. CASE \/ Aws!Start \/ Aws!ReadEnrollment \/ Aws!ReadRecommendations
           \/ Aws!ReadCurrentTypes \/ Aws!ReadRecommendedTypes \/ Aws!Describe
           \/ Aws!InitFails \/ Aws!ReadNodes \/ Aws!ReadNodesFails \/ Aws!EndAttempt
  BY <1>3 DEF Aws!Start, Aws!ReadEnrollment, Aws!ReadRecommendations, Aws!ReadCurrentTypes,
              Aws!ReadRecommendedTypes, Aws!Describe, Aws!InitFails, Aws!ReadNodes,
              Aws!ReadNodesFails, Aws!EndAttempt, Aws!Kill, Aws!Answer
<1>4. CASE Aws!Export
  BY <1>4 DEF Aws!Export, Aws!ExportAnswered, Aws!PublishItems
<1>5. CASE Aws!ReportSuccess \/ Aws!ReportFailure
  BY <1>5 DEF Aws!ReportSuccess, Aws!ReportFailure, Aws!SuccessAnswered, Aws!FailureReported,
              Aws!PublishStatus, Aws!Count
<1>6. CASE Aws!PutFails
  BY <1>6 DEF Aws!PutFails, Aws!ExportAnswerLost, Aws!ExportFails, Aws!SuccessAnswerLost,
              Aws!SuccessFails, Aws!FailureNotReported, Aws!PublishItems, Aws!PublishStatus,
              Aws!Count
<1> QED BY <1>1, <1>2, <1>3, <1>4, <1>5, <1>6 DEF Aws!Next, Aws!Attempt

LEMMA AwsCountStep ==
  ASSUME AwsCount, Aws!Next \/ UNCHANGED Aws!vars
  PROVE  AwsCount'
<1> DEFINE parsed == Aws!Parsed
<1>0. UNCHANGED <<nodes, file, described>> => parsed' = parsed
  BY DEF Aws!Parsed
<1> USE DEF SuccessCounts, Present, NoGroup
<1> HIDE DEF parsed
<1>1. CASE recs' = NoGroup /\ status' = NoGroup
  BY <1>1 DEF AwsCount
<1>2. CASE /\ stage = "push recommendations" /\ recs' = [items |-> parsed]
           /\ latest' = "recommendations" /\ UNCHANGED <<nodes, file, described>>
  <2>1. recs' = [items |-> parsed'] /\ latest' # "collector"
    BY <1>0, <1>2
  <2> QED BY <2>1 DEF AwsCount, parsed
<1>3. CASE /\ stage = "push success" /\ stage' # "push success"
           /\ status' = [success |-> TRUE, count |-> Cardinality(parsed)] /\ UNCHANGED recs
  <2>1. recs = NoGroup \/ recs = [items |-> parsed]
    BY <1>3 DEF AwsCount, parsed
  <2>2. Present(recs)' => recs'.items = parsed
    <3>1. recs' = recs
      BY <1>3
    <3>2. recs # NoGroup => recs.items = parsed
      BY <2>1
    <3> QED BY <3>1, <3>2
  <2>3. status'.count = Cardinality(parsed)
    BY <1>3
  <2>4. SuccessCounts'
    BY <2>2, <2>3
  <2> QED BY Zenon, <1>3, <2>4 DEF AwsCount
<1>4. CASE /\ stage' # "push success" /\ UNCHANGED recs
           /\ status' = [success |-> FALSE, count |-> 0]
  BY <1>4 DEF AwsCount
<1>5. CASE /\ UNCHANGED <<recs, status, latest>>
           /\ stage' = "push success" => UNCHANGED <<stage, nodes, file, described>>
  BY <1>0, <1>5 DEF AwsCount, parsed
<1> QED BY <1>1, <1>2, <1>3, <1>4, <1>5, AwsGroupSteps DEF parsed

\* For AWS too, a success reported after the recommendations counts exactly what
\* is published (aws_compute_optimizer_collector.py, main()).
THEOREM AwsSuccessCountsAll == Aws!Spec => []SuccessCounts
<1>1. Aws!Init => AwsCount
  BY SameGroups DEF Aws!Init, Aws!GroupsInit, AwsCount, SuccessCounts, Present
<1>2. AwsCount /\ [Aws!Next]_(Aws!vars) => AwsCount'
  BY AwsCountStep
<1>3. AwsCount => SuccessCounts
  BY DEF AwsCount
<1> QED BY <1>1, <1>2, <1>3, PTL DEF Aws!Spec
=============================================================================
