----------------------- MODULE OnpremRightSizingProofs -----------------------
(***************************************************************************)
(* Proofs about the right-sizing of a node, for every catalog, host,       *)
(* headroom and load: the signals of a node agree with the policy's        *)
(* classification; and for all Pods, nodes and lookbacks: the guardrails   *)
(* of a review keep an OOM that was seen, and what is called safe is.      *)
(***************************************************************************)
EXTENDS RightSizingReview, SumTheorems

TypeInv == current \in Profiles \cup {Unlisted} /\ load \in Load

\* Profiles are numbered, and their sizes and costs are natural numbers.
LEMMA ProfileFacts ==
  ASSUME NEW p \in Profiles
  PROVE  p \in Nat /\ PROFILES[p].vcpu \in Nat /\ PROFILES[p].memory \in Nat /\ HourlyCost(p) \in Nat
<1>1. p \in Nat /\ PROFILES[p] \in Capacity
  BY PolicyConstants DEF PolicyConstants, Profiles
<1>2. PROFILES[p].vcpu \in Nat /\ PROFILES[p].memory \in Nat
  BY <1>1 DEF Capacity
<1>3. HOST.vcpu \in Nat /\ HOST.memory \in Nat
  BY PolicyConstants DEF PolicyConstants, Capacity
<1>4. PROFILES[p].vcpu * HOST.memory \in Nat /\ PROFILES[p].memory * HOST.vcpu \in Nat
  BY <1>2, <1>3
<1> QED BY <1>1, <1>2, <1>4 DEF HourlyCost

\* The order of the rules is strict and total.
LEMMA BeforeIsStrict ==
  ASSUME NEW p \in Profiles, NEW q \in Profiles
  PROVE  /\ ~(Before(p, q) /\ Before(q, p))
         /\ p # q => Before(p, q) \/ Before(q, p)
<1> HIDE DEF HourlyCost
<1> QED BY ProfileFacts DEF Before

\* Of the profiles of one non-empty set, one is before all others: the least
\* number among the least memory among the least vCPU among the least cost.
LEMMA FirstProfile ==
  ASSUME NEW S \in SUBSET Profiles, S # {}
  PROVE  \E p \in S : \A q \in S : ~Before(q, p)
<1> HIDE DEF HourlyCost
<1>1. \A p \in S : p \in Nat /\ PROFILES[p].vcpu \in Nat /\ PROFILES[p].memory \in Nat
                   /\ HourlyCost(p) \in Nat
  BY ProfileFacts
<1>2. PICK a \in S : \A q \in S : HourlyCost(a) <= HourlyCost(q)
  <2> DEFINE T == {HourlyCost(p) : p \in S}
  <2>1. T \in SUBSET Nat /\ T # {}
    BY <1>1
  <2>2. PICK m \in T : \A s \in T : m <= s
    <3> HIDE DEF T
    <3> QED BY <2>1, LeastNat
  <2> QED BY <2>2
<1> DEFINE A == {p \in S : HourlyCost(p) = HourlyCost(a)}
<1>3. PICK b \in A : \A q \in A : PROFILES[b].vcpu <= PROFILES[q].vcpu
  <2> DEFINE T == {PROFILES[p].vcpu : p \in A}
  <2>1. T \in SUBSET Nat /\ T # {}
    BY <1>1
  <2>2. PICK m \in T : \A s \in T : m <= s
    <3> HIDE DEF T
    <3> QED BY <2>1, LeastNat
  <2> QED BY <2>2
<1> DEFINE B == {p \in A : PROFILES[p].vcpu = PROFILES[b].vcpu}
<1>4. PICK c \in B : \A q \in B : PROFILES[c].memory <= PROFILES[q].memory
  <2> DEFINE T == {PROFILES[p].memory : p \in B}
  <2>1. T \in SUBSET Nat /\ T # {}
    BY <1>1
  <2>2. PICK m \in T : \A s \in T : m <= s
    <3> HIDE DEF T
    <3> QED BY <2>1, LeastNat
  <2> QED BY <2>2
<1> DEFINE C == {p \in B : PROFILES[p].memory = PROFILES[c].memory}
<1>5. PICK d \in C : \A q \in C : d <= q
  <2>1. C \in SUBSET Nat /\ C # {}
    BY <1>1
  <2> HIDE DEF C
  <2> QED BY <2>1, LeastNat
<1>6. ASSUME NEW q \in S, Before(q, d) PROVE FALSE
  <2>1. HourlyCost(d) = HourlyCost(a) /\ HourlyCost(a) <= HourlyCost(q)
    BY <1>2
  <2>2. q \in A
    BY <1>1, <1>6, <2>1 DEF Before
  <2>3. PROFILES[d].vcpu = PROFILES[b].vcpu /\ PROFILES[b].vcpu <= PROFILES[q].vcpu
    BY <1>3, <2>2
  <2>4. q \in B
    BY <1>1, <1>6, <2>1, <2>2, <2>3 DEF Before
  <2>5. PROFILES[d].memory = PROFILES[c].memory /\ PROFILES[c].memory <= PROFILES[q].memory
    BY <1>4, <2>4
  <2>6. q \in C
    BY <1>1, <1>6, <2>1, <2>2, <2>3, <2>4, <2>5 DEF Before
  <2>7. d <= q
    BY <1>5, <2>6
  <2> QED BY <1>1, <1>6, <2>2, <2>4, <2>6, <2>7 DEF Before
<1> QED BY <1>6

-----------------------------------------------------------------------------
\* There is one recommended profile if any is feasible, and it is a cheapest one.
LEMMA Recommendation ==
  ASSUME NEW l \in Load
  PROVE  /\ Recommended(l) \subseteq Approved(l)
         /\ Approved(l) # {} => Recommended(l) # {}
         /\ \A p, q \in Recommended(l) : p = q
         /\ \A p \in Recommended(l), q \in Approved(l) : HourlyCost(p) <= HourlyCost(q)
<1> HIDE DEF HourlyCost
<1>1. Recommended(l) \subseteq Approved(l) /\ Approved(l) \subseteq Profiles
  BY DEF Recommended, Approved
<1>2. ASSUME Approved(l) # {} PROVE Recommended(l) # {}
  <2>1. PICK p \in Approved(l) : \A q \in Approved(l) : ~Before(q, p)
    BY <1>1, <1>2, FirstProfile
  <2> QED BY <2>1 DEF Recommended, Approved
<1>3. ASSUME NEW p \in Recommended(l), NEW q \in Recommended(l) PROVE p = q
  <2>1. p \in Profiles /\ q \in Profiles /\ Feasible(p, l) /\ Feasible(q, l)
    BY DEF Recommended
  <2>2. ~Before(p, q) /\ ~Before(q, p)
    BY <2>1 DEF Recommended
  <2> QED BY <2>1, <2>2, BeforeIsStrict
<1>4. ASSUME NEW p \in Recommended(l), NEW q \in Approved(l)
      PROVE  HourlyCost(p) <= HourlyCost(q)
  <2>1. p \in Profiles /\ q \in Profiles /\ ~Before(q, p)
    BY DEF Recommended, Approved
  <2> QED BY <2>1, ProfileFacts DEF Before
<1> QED BY <1>1, <1>2, <1>3, <1>4

LEMMA UnderIsInfeasible ==
  ASSUME TypeInv, current \in Profiles
  PROVE  /\ Under <=> current \notin Approved(load)
         /\ NotUnder <=> current \in Approved(load)
<1>1. load.vcpu \in Nat /\ load.memory \in Nat
      /\ HEADROOM.vcpu \in Nat /\ HEADROOM.memory \in Nat
      /\ RESERVED.vcpu \in Nat /\ RESERVED.memory \in Nat
  BY PolicyConstants DEF PolicyConstants, Capacity, TypeInv
<1>2. load.vcpu * HEADROOM.vcpu \in Nat /\ load.memory * HEADROOM.memory \in Nat
  BY <1>1
<1>3. Required(load).vcpu \in Nat /\ Required(load).memory \in Nat
  BY <1>1, <1>2 DEF Required
<1>4. PROFILES[current].vcpu \in Nat /\ PROFILES[current].memory \in Nat
  BY ProfileFacts
<1> QED BY <1>3, <1>4 DEF Under, NotUnder, Approved, Feasible

\* One of the signals is set, and it is the policy's.
LEMMA SignalIsPolicy ==
  ASSUME TypeInv, current \in Profiles
  PROVE  Decisions = {PolicyDecision}
<1> HIDE DEF HourlyCost
<1> DEFINE R == Recommended(load)
           A == Approved(load)
<1>0. /\ R \subseteq A /\ (A # {} => R # {})
      /\ \A p \in R, q \in A : HourlyCost(p) <= HourlyCost(q)
  BY Recommendation DEF TypeInv
<1>1. \A p \in A : p \in Profiles /\ HourlyCost(p) \in Nat
  BY ProfileFacts DEF Approved
<1>2. HourlyCost(current) \in Nat
  BY ProfileFacts
<1>3. (Under <=> current \notin A) /\ (NotUnder <=> current \in A)
  BY UnderIsInfeasible
<1>4. Decisions = {d \in {"CATALOG_EXCEEDED", "UNDER_PROVISIONED", "OVER_PROVISIONED", "OPTIMIZED"} :
                     Signal[d]}
  BY DEF Decisions, Signal
<1>5. /\ Signal["CATALOG_EXCEEDED"] <=> Under /\ R = {}
      /\ Signal["UNDER_PROVISIONED"] <=> Under /\ R # {}
      /\ Signal["OVER_PROVISIONED"] <=>
           NotUnder /\ \E p \in R : HourlyCost(p) < HourlyCost(current)
      /\ Signal["OPTIMIZED"] <=>
           NotUnder /\ \E p \in R : HourlyCost(p) = HourlyCost(current)
  BY DEF Signal
<1> HIDE DEF R, A
<1>6. CASE A = {}
  <2>1. PolicyDecision = "CATALOG_EXCEEDED"
    BY <1>6 DEF PolicyDecision, A
  <2> QED BY <1>0, <1>3, <1>4, <1>5, <1>6, <2>1
<1>7. CASE A # {} /\ current \notin A
  <2>1. PolicyDecision = "UNDER_PROVISIONED"
    BY <1>7 DEF PolicyDecision, A
  <2> QED BY <1>0, <1>3, <1>4, <1>5, <1>7, <2>1
<1>8. CASE current \in A /\ Cheaper # {}
  <2>1. PolicyDecision = "OVER_PROVISIONED"
    BY <1>8 DEF PolicyDecision, A
  <2>2. PICK q \in A : HourlyCost(q) < HourlyCost(current)
    BY <1>8 DEF Cheaper, A
  <2>3. \A p \in R : HourlyCost(p) < HourlyCost(current)
    BY <1>0, <1>1, <1>2, <2>2
  <2>4. \A p \in R : HourlyCost(p) # HourlyCost(current)
    BY <1>0, <1>1, <1>2, <2>3
  <2> QED BY <1>0, <1>3, <1>4, <1>5, <1>8, <2>1, <2>3, <2>4
<1>9. CASE current \in A /\ Cheaper = {}
  <2>1. PolicyDecision = "OPTIMIZED"
    BY <1>9 DEF PolicyDecision, A
  <2>2. \A p \in R : ~(HourlyCost(p) < HourlyCost(current))
    BY <1>0, <1>9 DEF Cheaper, A
  <2>3. \A p \in R : HourlyCost(p) = HourlyCost(current)
    BY <1>0, <1>1, <1>2, <1>9, <2>2
  <2> QED BY <1>0, <1>3, <1>4, <1>5, <1>9, <2>1, <2>2, <2>3
<1> QED BY <1>6, <1>7, <1>8, <1>9

LEMMA NextSignalIsPolicy ==
  (TypeInv /\ current \in Profiles => Decisions = {PolicyDecision})'
<1>1. TypeInv /\ current \in Profiles => Decisions = {PolicyDecision}
  BY SignalIsPolicy
<1> QED BY <1>1, PTL

LEMMA TypeInvariance == Spec => []TypeInv
<1>1. Init => TypeInv
  BY DEF Init, TypeInv
<1>2. TypeInv /\ [Next]_vars => TypeInv'
  BY DEF TypeInv, Next, ChangeLoad, Resize, Replace, Recommended, vars
<1> QED BY <1>1, <1>2, PTL DEF Spec

\* For every catalog and load, a node of the catalog has exactly the decision of
\* the policy's classification (rules(), onprem_node_decision_info).
THEOREM DecisionIsAlwaysPolicy == Spec => []DecisionIsPolicy
<1>1. TypeInv => DecisionIsPolicy
  BY SignalIsPolicy DEF DecisionIsPolicy
<1> QED BY TypeInvariance, <1>1, PTL

\* For every catalog and load, one profile is recommended if any is feasible
\* (recommendation_expr).
THEOREM OneRecommendationAlways == Spec => []OneRecommendation
<1>1. TypeInv => OneRecommendation
  BY Recommendation DEF OneRecommendation, TypeInv
<1> QED BY TypeInvariance, <1>1, PTL

\* A node that gets the recommended profile is optimized (rules(), the signals
\* for over-provisioned and optimized nodes).
THEOREM ResizeAlwaysSettles == Spec => ResizeSettles
<1>1. ASSUME TypeInv, Resize
      PROVE  Decisions' = {"OPTIMIZED"}
  <2>1. current' \in Recommended(load) /\ load' = load /\ load \in Load
    BY <1>1 DEF Resize, TypeInv
  <2>2. /\ current' \in Approved(load)
        /\ \A q \in Approved(load) : HourlyCost(current') <= HourlyCost(q)
    <3> HIDE DEF HourlyCost
    <3> QED BY <2>1, Recommendation
  <2>3. current' \in Profiles /\ TypeInv'
    BY <2>1, <2>2 DEF Approved, TypeInv
  <2>4. Approved(load)' = Approved(load)
    BY <2>1 DEF Approved, Feasible, Required
  <2>5. Cheaper' = {}
    <3>1. \A q \in Approved(load) :
            HourlyCost(q) \in Nat /\ HourlyCost(current') \in Nat
      BY <2>3, ProfileFacts DEF Approved
    <3>2. \A q \in Approved(load) : ~(HourlyCost(q) < HourlyCost(current'))
      <4> HIDE DEF HourlyCost
      <4> QED BY <2>2, <3>1
    <3> QED BY <2>4, <3>2 DEF Cheaper, HourlyCost
  <2>6. PolicyDecision' = "OPTIMIZED"
    BY <2>2, <2>4, <2>5 DEF PolicyDecision
  <2>7. Decisions' = {PolicyDecision'}
    BY <2>3, NextSignalIsPolicy
  <2> QED BY <2>6, <2>7
<1>2. TypeInv /\ [Next]_vars => [Resize => Decisions' = {"OPTIMIZED"}]_current
  BY <1>1
<1> QED BY TypeInvariance, <1>2, PTL DEF Spec, ResizeSettles

\* Whatever the Pods, the scrapes and the kubelet do, a review is a behaviour of
\* the decision rules: what is proved of them holds in every review (rules()).
THEOREM ReviewIsRightSizing == ReviewSpec => Spec
<1>1. ReviewInit => Init
  BY DEF ReviewInit
<1>2. [ReviewNext]_reviewVars => [Next]_vars
  BY DEF ReviewNext, Provision, MovePods, ScrapeState, LoseState, Evaluate, Next, reviewVars
<1> QED BY <1>1, <1>2, PTL DEF ReviewSpec, Spec

-----------------------------------------------------------------------------
(* The guardrails of the review.  What is kept of a Pod that still exists is *)
(* in the last answered scrape, at the same node, and in the Pod's series.   *)

Place == [node : Nodes \cup {Nowhere}, oom : BOOLEAN]

GuardTypes == /\ pod \in [Pods -> Place] /\ shown \in [Pods -> Place]
              /\ raw \in [Pods -> 0 .. WINDOW] /\ kept \in [Pods -> 0 .. WINDOW]
              /\ observed = known
              /\ known \in [Guard!Workloads -> 0 .. WINDOW]

SeriesKept == \A p \in Pods : raw[p] <= kept[p]

KeptIsResident ==
  \A p \in Pods : pod[p].node = Nowhere => pod[p] = Guard!NoPod /\ kept[p] = WINDOW

KeptIsShown == answered => \A p \in Pods : kept[p] < WINDOW =>
                              /\ shown[p] # Guard!NoPod
                              /\ shown[p].node = pod[p].node

GInv == GuardTypes /\ SeriesKept /\ KeptIsResident /\ KeptIsShown

LEMMA Constants == /\ WINDOW \in Nat /\ WINDOW > 0
                   /\ Places \in [Pods -> SUBSET Nodes]
                   /\ Nowhere \notin Nodes
BY ReviewConstants DEF Guard!GuardrailConstants

LEMMA OlderFacts ==
  ASSUME NEW a \in 0 .. WINDOW
  PROVE  /\ Guard!Older(a) \in 0 .. WINDOW /\ a <= Guard!Older(a)
         /\ a = WINDOW => Guard!Older(a) = WINDOW
         /\ \A b \in 0 .. WINDOW : a <= b => Guard!Older(a) <= Guard!Older(b)
BY Constants DEF Guard!Older

LEMMA GInit == ReviewInit => GInv
BY Constants DEF ReviewInit, Guard!Init, GInv, GuardTypes, SeriesKept, KeptIsResident,
   KeptIsShown, Place, Guard!NoPod

LEMMA PodsKeepGInv == ASSUME GInv, Guard!PodStep PROVE GInv'
<1> USE Constants DEF GInv
<1>1. PICK p \in Pods : \/ \E n \in Places[p] : Guard!Create(p, n)
                        \/ \E oom \in BOOLEAN : Guard!Terminate(p, oom)
                        \/ Guard!Delete(p)
  BY DEF Guard!PodStep
<1>2. ASSUME NEW n \in Places[p], Guard!Create(p, n) PROVE GInv'
  <2>1. /\ pod' = [pod EXCEPT ![p] = [node |-> n, oom |-> FALSE]]
        /\ pod[p].node = Nowhere /\ n \in Nodes
        /\ UNCHANGED <<answered, shown, raw, observed, kept, known>>
    BY <1>2 DEF Guard!Create, Guard!NoPod, Guard!scraped, Guard!history
  <2>2. kept[p] = WINDOW
    BY <2>1 DEF KeptIsResident
  <2>3. GuardTypes'
    BY <2>1 DEF GuardTypes, Place
  <2>4. \A q \in Pods : pod'[q] = IF q = p THEN [node |-> n, oom |-> FALSE] ELSE pod[q]
    BY <2>1 DEF GuardTypes
  <2>5. KeptIsResident'
    BY <2>1, <2>4 DEF KeptIsResident, Guard!NoPod
  <2>6. ASSUME NEW q \in Pods, answered, kept[q] < WINDOW
        PROVE  shown[q] # Guard!NoPod /\ shown[q].node = pod'[q].node
    <3>1. q # p
      BY <2>2, <2>6
    <3>2. pod'[q] = pod[q]
      BY <2>4, <3>1
    <3> QED BY <2>6, <3>2 DEF KeptIsShown
  <2>7. KeptIsShown'
    BY <2>1, <2>6 DEF KeptIsShown, Guard!NoPod
  <2> QED BY <2>1, <2>3, <2>5, <2>7 DEF SeriesKept
<1>3. ASSUME NEW oom \in BOOLEAN, Guard!Terminate(p, oom) PROVE GInv'
  <2>1. /\ pod' = [pod EXCEPT ![p].oom = oom]
        /\ pod[p] # Guard!NoPod
        /\ UNCHANGED <<answered, shown, raw, observed, kept, known>>
    BY <1>3 DEF Guard!Terminate, Guard!scraped, Guard!history
  <2>2. pod[p].node # Nowhere
    BY <2>1 DEF KeptIsResident
  <2>3. pod'[p] = [pod[p] EXCEPT !.oom = oom] /\ \A q \in Pods \ {p} : pod'[q] = pod[q]
    BY <2>1 DEF GuardTypes
  <2>4. pod'[p] = [node |-> pod[p].node, oom |-> oom]
    BY <2>3 DEF GuardTypes, Place
  <2>5. GuardTypes'
    BY <2>1, <2>4 DEF GuardTypes, Place
  <2>6. KeptIsResident'
    BY <2>1, <2>2, <2>3, <2>4 DEF KeptIsResident, Guard!NoPod
  <2>7. KeptIsShown'
    <3>1. \A q \in Pods : pod'[q].node = pod[q].node
      BY <2>3, <2>4
    <3> QED BY <2>1, <3>1 DEF KeptIsShown, Guard!NoPod
  <2> QED BY <2>1, <2>5, <2>6, <2>7 DEF SeriesKept
<1>4. ASSUME Guard!Delete(p) PROVE GInv'
  <2>1. /\ pod' = [pod EXCEPT ![p] = Guard!NoPod]
        /\ kept' = [kept EXCEPT ![p] = WINDOW]
        /\ UNCHANGED <<answered, shown, raw, observed, known>>
    BY <1>4 DEF Guard!Delete, Guard!scraped
  <2>2. GuardTypes'
    BY <2>1 DEF GuardTypes, Place, Guard!NoPod
  <2>3. /\ pod'[p] = Guard!NoPod /\ kept'[p] = WINDOW
        /\ \A q \in Pods \ {p} : pod'[q] = pod[q] /\ kept'[q] = kept[q]
    BY <2>1 DEF GuardTypes
  <2>4. SeriesKept'
    BY <2>1, <2>3 DEF SeriesKept, GuardTypes
  <2>5. KeptIsResident'
    BY <2>3 DEF KeptIsResident, Guard!NoPod
  <2>6. KeptIsShown'
    <3>1. \A q \in Pods : kept'[q] < WINDOW => q # p
      BY <2>3
    <3>2. \A q \in Pods : kept'[q] < WINDOW => pod'[q] = pod[q] /\ kept'[q] = kept[q]
      BY <2>3, <3>1
    <3> QED BY <2>1, <3>2 DEF KeptIsShown, Guard!NoPod
  <2> QED BY <2>2, <2>4, <2>5, <2>6
<1> QED BY <1>1, <1>2, <1>3, <1>4

LEMMA ScrapeKeepsGInv ==
  ASSUME GInv, Guard!Scrape \/ Guard!ScrapeFails PROVE GInv'
<1> USE Constants DEF GInv
<1>1. ASSUME Guard!Scrape PROVE GInv'
  <2>1. /\ shown' = pod /\ pod' = pod /\ observed' = observed /\ known' = known
        /\ raw' = [p \in Pods |-> IF pod[p].oom THEN 0 ELSE raw[p]]
        /\ kept' = [p \in Pods |-> IF pod[p].oom THEN 0 ELSE kept[p]]
    BY <1>1 DEF Guard!Scrape, Guard!Sampled
  <2>2. \A p \in Pods : kept'[p] < WINDOW => pod[p].node # Nowhere
    BY <2>1 DEF KeptIsResident, GuardTypes, Guard!NoPod
  <2>3. GuardTypes'
    BY <2>1 DEF GuardTypes
  <2>4. SeriesKept'
    BY <2>1 DEF SeriesKept, GuardTypes
  <2>5. KeptIsResident'
    BY <2>1 DEF KeptIsResident, GuardTypes, Guard!NoPod
  <2>6. Guard!NoPod.node = Nowhere
    BY DEF Guard!NoPod
  <2>7. \A p \in Pods : kept'[p] < WINDOW => pod[p] # Guard!NoPod
    BY <2>2, <2>6
  <2>8. KeptIsShown'
    BY <2>1, <2>7 DEF KeptIsShown, Guard!NoPod
  <2> QED BY <2>3, <2>4, <2>5, <2>8
<1>2. ASSUME Guard!ScrapeFails PROVE GInv'
  BY <1>2 DEF Guard!ScrapeFails, Guard!history, Guard!NoPod, GuardTypes, SeriesKept,
     KeptIsResident, KeptIsShown, Place
<1> QED BY <1>1, <1>2

LEMMA EvaluateKeepsGInv == ASSUME GInv, Guard!Evaluate PROVE GInv'
<1> USE DEF GInv
<1>1. /\ pod' = pod /\ shown' = shown /\ answered' = answered
      /\ raw' = [p \in Pods |-> Guard!Older(raw[p])]
      /\ kept' = [p \in Pods |-> Guard!Older(kept[p])]
      /\ known' = [w \in Guard!Workloads |->
                     Guard!Older(IF w \in Guard!Found THEN 0 ELSE known[w])]
      /\ observed' = known'
  BY DEF Guard!Evaluate, Guard!Observations, GuardTypes
<1>2. GuardTypes'
  <2>1. \A p \in Pods : Guard!Older(raw[p]) \in 0 .. WINDOW /\ Guard!Older(kept[p]) \in 0 .. WINDOW
    BY OlderFacts DEF GuardTypes
  <2>2. \A w \in Guard!Workloads : (IF w \in Guard!Found THEN 0 ELSE known[w]) \in 0 .. WINDOW
    BY Constants DEF GuardTypes
  <2>3. \A w \in Guard!Workloads :
          Guard!Older(IF w \in Guard!Found THEN 0 ELSE known[w]) \in 0 .. WINDOW
    BY <2>2, OlderFacts
  <2> QED BY <1>1, <2>1, <2>3 DEF GuardTypes
<1>3. SeriesKept'
  BY <1>1, OlderFacts DEF SeriesKept, GuardTypes
<1>4. KeptIsResident'
  BY <1>1, OlderFacts DEF KeptIsResident, GuardTypes
<1>5. KeptIsShown'
  BY <1>1, OlderFacts, Constants DEF KeptIsShown, GuardTypes
<1> QED BY <1>2, <1>3, <1>4, <1>5

LEMMA GuardInvariance == ReviewSpec => []GInv
<1>1. GInv /\ [ReviewNext]_reviewVars => GInv'
  <2> SUFFICES ASSUME GInv, [ReviewNext]_reviewVars PROVE GInv'
    OBVIOUS
  <2>1. CASE MovePods
    BY <2>1, PodsKeepGInv DEF MovePods
  <2>2. CASE (\E short \in BOOLEAN : ScrapeState(short)) \/ LoseState
    BY <2>2, ScrapeKeepsGInv DEF ScrapeState, LoseState
  <2>3. CASE \E read \in SUBSET {0} : Evaluate(read)
    BY <2>3, EvaluateKeepsGInv DEF Evaluate
  <2>4. CASE Provision \/ UNCHANGED reviewVars
    BY <2>4 DEF Provision, reviewVars, guard, GInv, GuardTypes, SeriesKept, KeptIsResident,
       KeptIsShown
  <2> QED BY <2>1, <2>2, <2>3, <2>4 DEF ReviewNext
<1> QED BY GInit, <1>1, PTL DEF ReviewSpec

\* For every lookback and all Pods and nodes: an OOM of a Pod that is still on
\* the node keeps the node from a review (oom_expr).
THEOREM ResidentOomAlwaysBlocks == ReviewSpec => []ResidentOomBlocks
<1>1. GInv => ResidentOomBlocks
  <2> SUFFICES ASSUME GInv, answered, NEW p \in Pods, kept[p] < WINDOW
               PROVE  pod[p].node \in Guard!NodeSignal
    BY DEF ResidentOomBlocks, Guard!ResidentOomBlocks, Guard!Recent
  <2>1. raw[p] < WINDOW
    BY Constants DEF GInv, GuardTypes, SeriesKept
  <2>2. shown[p] # Guard!NoPod /\ shown[p].node = pod[p].node
    BY DEF GInv, KeptIsShown
  <2> QED BY <2>1, <2>2 DEF Guard!NodeSignal, Guard!Recent
<1> QED BY GuardInvariance, <1>1, PTL

\* For every lookback and all Pods: an OOM that one evaluation found marks the
\* workload for the lookback (workload_container_recent_oom_signal).
THEOREM WorkloadOomAlwaysKept == ReviewSpec => []WorkloadOomKept
<1>1. GInv => WorkloadOomKept
  BY Constants DEF GInv, GuardTypes, WorkloadOomKept, Guard!WorkloadOomKept,
     Guard!WorkloadSignal, Guard!Observations, Guard!Recent
<1> QED BY GuardInvariance, <1>1, PTL

-----------------------------------------------------------------------------
(* What the review promises. *)

Total(places, resource) == SumFunction([q \in places |-> Request[q][resource]])

\* Fewer Pods request no more.
LEMMA FewerRequestLess ==
  ASSUME NEW T \in SUBSET Pods, NEW S \in SUBSET T, NEW resource \in {"vcpu", "memory"}
  PROVE  /\ Total(S, resource) \in Nat /\ Total(T, resource) \in Nat
         /\ Total(S, resource) <= Total(T, resource)
<1> DEFINE f == [q \in T |-> Request[q][resource]]
           g == [q \in S |-> Request[q][resource]]
<1>1. IsFiniteSet(T) /\ IsFiniteSet(S)
  <2>1. IsFiniteSet(Pods)
    BY ReviewConstants
  <2>2. IsFiniteSet(T)
    BY <2>1, FS_Subset
  <2> QED BY <2>2, FS_Subset
<1>2. \A q \in T : f[q] \in Nat
  <2>1. \A q \in Pods : Request[q] \in Capacity
    BY ReviewConstants
  <2>2. \A c \in Capacity : c.vcpu \in Nat /\ c.memory \in Nat
    BY DEF Capacity
  <2> QED BY <2>1, <2>2
<1>3. \A q \in S : g[q] = f[q] /\ g[q] \in Nat
  BY <1>2
<1>4. DOMAIN f = T /\ DOMAIN g = S
  OBVIOUS
<1>5. /\ Total(T, resource) = SumFunctionOnSet(f, T)
      /\ Total(S, resource) = SumFunctionOnSet(g, S)
  BY <1>4, Zenon DEF Total, SumFunction
<1> HIDE DEF f, g
<1>6. SumFunctionOnSet(g, S) = SumFunctionOnSet(f, S)
  BY <1>1, <1>3, SumSame
<1>7. SumFunctionOnSet(f, S) <= SumFunctionOnSet(f, T)
  BY <1>1, <1>2, SumGrows
<1>8. SumFunctionOnSet(f, T) \in Nat /\ SumFunctionOnSet(g, S) \in Nat
  BY <1>1, <1>2, <1>3, SumType
<1> QED BY <1>5, <1>6, <1>7, <1>8

LEMMA FewerFit ==
  ASSUME NEW T \in SUBSET Pods, NEW S \in SUBSET T, NEW p \in Profiles, Fits(T, p)
  PROVE  Fits(S, p)
<1> SUFFICES ASSUME NEW resource \in {"vcpu", "memory"}
             PROVE  10 * Total(S, resource) <= SCHEDULABLE * PROFILES[p][resource]
  BY DEF Fits, Total
<1>1. 10 * Total(T, resource) <= SCHEDULABLE * PROFILES[p][resource]
  BY DEF Fits, Total
<1>2. SCHEDULABLE * PROFILES[p][resource] \in Nat
  <2>1. PROFILES[p].vcpu \in Nat /\ PROFILES[p].memory \in Nat
    BY ProfileFacts
  <2>2. PROFILES[p][resource] \in Nat
    BY <2>1
  <2> QED BY <2>2, ReviewConstants
<1> QED BY <1>1, <1>2, FewerRequestLess

\* For all Pods, Requests, nodes and catalogs: a node that is called safe to review has
\* a profile that holds its load and the Requests of the Pods on it, none of which was
\* seen killed in the lookback; a failure of kube-state-metrics never makes it safe
\* (safe_review_expr).
THEOREM SafeIsAlwaysSafe == ReviewSpec => []SafeIsSafe
<1>1. ASSUME ResidentOomBlocks, SafeToReview
      PROVE  SafeIsSafe
  <2>1. answered /\ NODE \notin Guard!NodeSignal
    BY <1>1 DEF SafeToReview, RequestsFit, Published
  <2>2. \A q \in Resident(pod) : ~Guard!Recent(kept[q])
    BY <1>1, <2>1 DEF ResidentOomBlocks, Guard!ResidentOomBlocks, Resident
  <2>3. PICK p \in Recommended(load) : Fits(Resident(shown), p)
    BY <1>1 DEF SafeToReview, RequestsFit
  <2>4. Resident(pod) \subseteq Resident(shown) => Fits(Resident(pod), p)
    <3>1. Resident(shown) \in SUBSET Pods /\ p \in Profiles
      BY DEF Resident, Recommended
    <3> QED BY <2>3, <3>1, FewerFit
  <2>5. Feasible(p, load)
    BY DEF Recommended
  <2> QED BY <2>1, <2>2, <2>3, <2>4, <2>5 DEF SafeIsSafe
<1>2. ResidentOomBlocks => SafeIsSafe
  BY <1>1 DEF SafeIsSafe
<1> QED BY ResidentOomAlwaysBlocks, <1>2, PTL
=============================================================================
