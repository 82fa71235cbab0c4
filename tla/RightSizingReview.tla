-------------------------- MODULE RightSizingReview --------------------------
(***************************************************************************)
(* The review of an on-prem node: the recommendation of the decision rules *)
(* (OnpremRightSizing) with the guardrails around it, which ask how long   *)
(* the node was observed, whether the Requests of its Pods fit, and        *)
(* whether a Pod was killed (OomGuardrail) or the node short of memory.    *)
(* Every rule filters by the labels of kube-state-metrics, so what is said *)
(* of a node depends on the last scrape.                                   *)
(***************************************************************************)
EXTENDS OnpremRightSizing, FiniteSetsExt

CONSTANTS NODE,         \* the on-prem node under review
          Request,      \* Request[p], what the containers of Pod p request
          SCHEDULABLE,  \* maxSchedulableRatio, in tenths
          REVIEW,       \* evaluations in the 24 hours of a review
          Pods, Nodes, Places, Workload, WINDOW, Nowhere

VARIABLES pod, answered, shown, raw, observed, kept, known,
          usage,    \* the ages of the kubelet's samples of the lookback
          pressure  \* whether the last scrape showed MemoryPressure

Guard == INSTANCE OomGuardrail

ASSUME ReviewConstants == /\ Guard!GuardrailConstants
                          /\ IsFiniteSet(Pods)
                          /\ NODE \in Nodes
                          /\ Request \in [Pods -> Capacity]
                          /\ SCHEDULABLE \in 0 .. 10
                          /\ REVIEW \in 1 .. WINDOW

review == <<usage, pressure>>
guard == <<pod, answered, shown, raw, observed, kept, known>>
reviewVars == <<vars, guard, review>>

ReviewInit == Init /\ Guard!Init /\ usage = {} /\ pressure = FALSE

-----------------------------------------------------------------------------
(* The rules, over the last scrape. *)

\* onprem_node_observation_hours, in samples of the lookback.
Observed == Cardinality(usage)

\* Without the node's labels, or without a P95, there is no recommendation.
Published == answered /\ usage # {}

Resident(places) == {q \in Pods : places[q].node = NODE}

Fits(residents, p) ==
  LET total(resource) == SumFunction([q \in residents |-> Request[q][resource]])
  IN \A resource \in {"vcpu", "memory"} :
       10 * total(resource) <= SCHEDULABLE * PROFILES[p][resource]

\* requests_fit_recommendation: without a Pod on the node there is no sum.
RequestsFit == /\ Published /\ Resident(shown) # {}
               /\ \E p \in Recommended(load) : Fits(Resident(shown), p)

MutantSafeToReview == /\ Observed >= REVIEW
                      /\ NODE \notin Guard!NodeSignal
                      /\ ~pressure

SafeToReview == /\ Observed >= REVIEW
                /\ NODE \notin Guard!NodeSignal
                /\ ~pressure
                /\ RequestsFit

-----------------------------------------------------------------------------
\* The P95 changes, or the operator follows what is published.  The node's first
\* profile is any.
Provision == (ChangeLoad \/ (Published /\ Resize)) /\ UNCHANGED <<guard, review>>

MovePods == Guard!PodStep /\ UNCHANGED <<vars, review>>

\* A scrape of kube-state-metrics; MemoryPressure ends with the other series.
ScrapeState(short) == /\ Guard!Scrape
                      /\ pressure' = short
                      /\ UNCHANGED <<vars, usage>>

LoseState == /\ Guard!ScrapeFails
             /\ pressure' = FALSE
             /\ UNCHANGED <<vars, usage>>

\* An evaluation of the rules; until the next one the kubelet is read, or not.
Evaluate(read) ==
  /\ usage' = read \cup {age + 1 : age \in {a \in usage : a + 1 < WINDOW}}
  /\ Guard!Evaluate
  /\ UNCHANGED <<vars, pressure>>

ReviewNext == \/ Provision
              \/ MovePods
              \/ \E short \in BOOLEAN : ScrapeState(short)
              \/ LoseState
              \/ \E read \in SUBSET {0} : Evaluate(read)

\* The rules are evaluated for ever.  Nothing says that kube-state-metrics or the
\* kubelet answers again.
ReviewSpec == /\ ReviewInit /\ [][ReviewNext]_reviewVars
              /\ WF_reviewVars(Evaluate(usage \cap {0}))
-----------------------------------------------------------------------------
(* Properties. *)

\* See OomGuardrail.
WorkloadOomKept == Guard!WorkloadOomKept
ResidentOomBlocks == Guard!ResidentOomBlocks

\* A node is called safe to review only if the recommended profile really holds
\* its load and, as long as no Pod came since the last scrape, the Requests of
\* its Pods, and if none of these Pods was seen killed by an OOM in the lookback;
\* a failure of kube-state-metrics, which hides the reasons against it, never
\* makes it safe (TCO-METHODOLOGY.md).
SafeIsSafe ==
  SafeToReview =>
    /\ answered
    /\ \A q \in Resident(pod) : ~Guard!Recent(kept[q])
    /\ \E p \in Recommended(load) :
         /\ Feasible(p, load)
         /\ Resident(pod) \subseteq Resident(shown) => Fits(Resident(pod), p)

\* Of no Pod that exists the last termination was an OOM: each that was killed has
\* been replaced, or its container has ended in another way since.  Until then
\* kube-state-metrics repeats the kill, however old it is, and the node stays blocked.
KillsForgotten == \A q \in Pods : ~pod[q].oom
Quiet == 0 \in usage /\ ~pressure /\ RequestsFit /\ KillsForgotten

\* The series of a kill, of a Pod that is gone or moved, and the hours without
\* samples block a node no longer than the lookback: one that is scraped and
\* measured again, whose Pods are shown to fit and whose kills are forgotten,
\* becomes safe to review and stays so.
QuietNodeIsReleased == <>[]Quiet => <>[]SafeToReview
=============================================================================
