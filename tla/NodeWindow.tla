------------------------------ MODULE NodeWindow ------------------------------
(***************************************************************************)
(* karpenter_node_metrics over the life of one run.  Prometheus keeps      *)
(* scraping the number of burst nodes; the Collector evaluates the run     *)
(* again in every cycle, each time over the whole history from the run's   *)
(* start to now, and replaces what it published.  Time is counted in       *)
(* steps of the range query: points[t] is the sample at the t-th step.     *)
(***************************************************************************)
EXTENDS Integers, Sequences, SequencesExt

CONSTANTS FINISH,     \* the step at which the run finished
          DELAY,      \* COLLECTION_DELAY_SECONDS, in steps
          MAX_NODES,  \* the NodePools' limit
          HORIZON     \* bound on the number of steps

ASSUME WindowConstants == /\ FINISH \in Nat \ {0}
                          /\ DELAY \in Nat
                          /\ MAX_NODES \in Nat
                          /\ HORIZON \in Nat

None == -1

VARIABLES points,     \* the node counts scraped so far
          published   \* the run's node metrics in the Pushgateway

vars == <<points, published>>

NotPublished == [complete |-> None]

\* The samples at which the loop over the points stops: no node at or after the
\* finish, and at least one node seen before.
MutantReturns(p) == {t \in DOMAIN p : p[t] = 0 /\ \E s \in 1 .. t : p[s] > 0}

Returns(p) == {t \in DOMAIN p : /\ t >= FINISH
                                /\ p[t] = 0
                                /\ \E s \in 1 .. t : p[s] > 0}

SeenPositive(p) == \E t \in DOMAIN p : p[t] > 0

MutantCleanup(p) == IF Returns(p) # {}
                    THEN CHOOSE t \in Returns(p) : \A s \in Returns(p) : t >= s
                    ELSE IF SeenPositive(p) THEN None ELSE FINISH

\* cleanup_timestamp: the first such sample, or the finish if there never was a
\* node, or None while nodes remain.
Cleanup(p) == IF Returns(p) # {}
              THEN CHOOSE t \in Returns(p) : \A s \in Returns(p) : t <= s
              ELSE IF SeenPositive(p) THEN None ELSE FINISH

Total(p) == FoldSeq(+, 0, p)

\* integrate_step_series on a series without gaps, in node-steps.
NodeSteps(p, cutoff) == Total(SubSeq(p, 1, cutoff - 1))

Largest(p) == CHOOSE v \in Range(p) : \A w \in Range(p) : w <= v

NodeMetrics(p) ==
  LET cleanup == Cleanup(p)
  IN [complete |-> IF cleanup # None THEN 1 ELSE 0,
      steps    |-> IF cleanup # None THEN NodeSteps(p, cleanup) ELSE None,
      max      |-> Largest(p),
      final    |-> IF cleanup # None THEN 0 ELSE Last(p)]

Init == points = <<>> /\ published = NotPublished

Scrape(v) == /\ Len(points) < HORIZON
             /\ points' = Append(points, v)
             /\ UNCHANGED published

\* One cycle of the Collector, once the run is due.
Collect == /\ Len(points) >= FINISH + DELAY
           /\ published' = NodeMetrics(points)
           /\ UNCHANGED points

Next == Collect \/ \E v \in 0 .. MAX_NODES : Scrape(v)

Spec == Init /\ [][Next]_vars

-----------------------------------------------------------------------------
Complete(m) == m.complete = 1

\* Once the nodes of a run have been seen to return to zero, its node time is
\* settled: no later cycle of the Collector changes it, whatever nodes later
\* runs start.  Cost per track is divided by it.
NodeTimeSettles ==
  [][Complete(published) /\ published.max > 0
       => Complete(published') /\ published'.steps = published.steps]_published

\* A node time is published only for a whole episode: it counts every node-step
\* up to the finish and the tail after it, and it ends with no node running.
NodeTimeWhole ==
  Complete(published) =>
    \A c \in FINISH .. Len(points) :
      /\ points[c] = 0
      /\ \A t \in FINISH .. c - 1 : points[t] > 0
      /\ \E t \in 1 .. FINISH : points[t] > 0
      => published.steps = Total(SubSeq(points, 1, c))

\* What the comment in karpenter_node_metrics says of the window: it closes when
\* the run's nodes have gone, so that nodes of later runs do not mix in.
NoLaterNodesInEmptyRun ==
  [][Complete(published) /\ published.max = 0
       => Complete(published') /\ published'.steps = published.steps]_published
=============================================================================
