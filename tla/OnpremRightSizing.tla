-------------------------- MODULE OnpremRightSizing --------------------------
(***************************************************************************)
(* The rules that generate_onprem_rightsizing.py writes, for one node: the *)
(* capacity it needs, the cheapest approved profile that has it, and the   *)
(* decision, evaluated again after every change of the load and after the  *)
(* operator has resized the node.  Quantities are scaled to integers.      *)
(***************************************************************************)
EXTENDS Integers, Sequences

CONSTANTS PROFILES,  \* the policy's profiles, each with its vcpu and memory
          HOST,      \* physicalHostCapacity
          HEADROOM,  \* cpuHeadroomRatio and memoryHeadroomRatio
          RESERVED,  \* systemReservedCPU and systemReservedMemoryGiB
          Load,      \* the loads considered: the P95 of the node's CPU and memory
          Unlisted   \* an instance type that no profile has

Capacity == [vcpu : Nat, memory : Nat]

ASSUME PolicyConstants == /\ PROFILES \in Seq(Capacity)
                          /\ HOST \in Capacity /\ RESERVED \in Capacity
                          /\ HEADROOM \in Capacity
                          /\ Load \subseteq Capacity
                          /\ Unlisted \notin DOMAIN PROFILES

VARIABLES current, \* the profile with the node's instance type, or Unlisted
          load     \* the node's P95 of the lookback

vars == <<current, load>>

Profiles == DOMAIN PROFILES

Init == current \in Profiles \cup {Unlisted} /\ load \in Load

\* profile_hourly_cost, the larger of two ratios, in 1/(HOST.vcpu * HOST.memory)
\* of the host's hourly TCO.
HourlyCost(p) == LET cpu == PROFILES[p].vcpu * HOST.memory
                     memory == PROFILES[p].memory * HOST.vcpu
                 IN IF cpu >= memory THEN cpu ELSE memory

Required(l) == [vcpu   |-> l.vcpu * HEADROOM.vcpu + RESERVED.vcpu,
                memory |-> l.memory * HEADROOM.memory + RESERVED.memory]

MutantFeasible(p, l) == /\ l.vcpu * HEADROOM.vcpu <= PROFILES[p].vcpu
                        /\ l.memory * HEADROOM.memory <= PROFILES[p].memory

Feasible(p, l) == /\ Required(l).vcpu <= PROFILES[p].vcpu
                  /\ Required(l).memory <= PROFILES[p].memory

MutantTie(p, q) == \/ HourlyCost(p) < HourlyCost(q)
                   \/ /\ HourlyCost(p) = HourlyCost(q)
                      /\ PROFILES[p].vcpu < PROFILES[q].vcpu

\* The order of recommendation_expr: sorted() by cost, vCPU and memory is stable.
Before(p, q) ==
  \/ HourlyCost(p) < HourlyCost(q)
  \/ /\ HourlyCost(p) = HourlyCost(q)
     /\ \/ PROFILES[p].vcpu < PROFILES[q].vcpu
        \/ /\ PROFILES[p].vcpu = PROFILES[q].vcpu
           /\ \/ PROFILES[p].memory < PROFILES[q].memory
              \/ PROFILES[p].memory = PROFILES[q].memory /\ p < q

\* recommendation_info: one series for each profile that is feasible, unless one
\* before it is.
Recommended(l) == {p \in Profiles : /\ Feasible(p, l)
                                    /\ \A q \in Profiles : Before(q, p) => ~Feasible(q, l)}

MutantUnder == /\ current \in Profiles
               /\ Required(load).vcpu > PROFILES[current].vcpu
               /\ Required(load).memory > PROFILES[current].memory

\* under_provisioned_signal; without a current profile there is no such series.
Under == /\ current \in Profiles
         /\ \/ Required(load).vcpu > PROFILES[current].vcpu
            \/ Required(load).memory > PROFILES[current].memory
NotUnder == current \in Profiles /\ ~Under

\* The four signals of onprem_node_decision_info.
Signal ==
  [CATALOG_EXCEEDED  |-> Under /\ Recommended(load) = {},
   UNDER_PROVISIONED |-> Under /\ Recommended(load) # {},
   OVER_PROVISIONED  |->
     NotUnder /\ \E p \in Recommended(load) : HourlyCost(p) < HourlyCost(current),
   OPTIMIZED         |->
     NotUnder /\ \E p \in Recommended(load) : HourlyCost(p) = HourlyCost(current)]

Decisions == LET signal == Signal IN {d \in DOMAIN signal : signal[d]}

-----------------------------------------------------------------------------
ChangeLoad == load' \in Load /\ UNCHANGED current

\* The operator gives the node the recommended profile.
Resize == current' \in Recommended(load) /\ UNCHANGED load

\* ... or one that is not, or not yet, in the catalog.
Replace == current' \in Profiles \cup {Unlisted} /\ UNCHANGED load

Next == ChangeLoad \/ Resize \/ Replace

Spec == Init /\ [][Next]_vars
-----------------------------------------------------------------------------
(* Properties. *)

Approved(l) == {p \in Profiles : Feasible(p, l)}
Cheaper == {p \in Approved(load) : HourlyCost(p) < HourlyCost(current)}

\* The classification of the policy (onprem-rightsizing-policy.yaml).
PolicyDecision ==
  CASE Approved(load) = {} -> "CATALOG_EXCEEDED"
    [] Approved(load) # {} /\ current \notin Approved(load) -> "UNDER_PROVISIONED"
    [] current \in Approved(load) /\ Cheaper # {} -> "OVER_PROVISIONED"
    [] current \in Approved(load) /\ Cheaper = {} -> "OPTIMIZED"

\* Whatever the load, a node with an approved profile has one decision, and it
\* is the one the policy defines, although four rules compute it from signals of
\* their own.
DecisionIsPolicy == current \in Profiles => Decisions = {PolicyDecision}

\* A node has at most one recommended profile, and one if any profile fits.
OneRecommendation ==
  /\ Approved(load) # {} => Recommended(load) # {}
  /\ \A p, q \in Recommended(load) : p = q

\* Following the advice ends it: a node that gets the recommended profile is
\* optimized, as long as its load stays what it was.
ResizeSettles == [][current' # current /\ Resize => Decisions' = {"OPTIMIZED"}]_current
=============================================================================
