---------------------------- MODULE EvidenceProofs ----------------------------
(***************************************************************************)
(* What the Collector concludes of a run from its evidence, for every      *)
(* history: the node time, once settled, is never changed by a later       *)
(* evaluation (NodeWindow), and the verdicts on the queue agree, whatever  *)
(* was scraped (QueueEvidence).                                            *)
(***************************************************************************)
EXTENDS NodeWindow, QueueEvidence, SumTheorems, SequenceTheorems

(* The node time: NodeWindow. *)

Counts == Seq(0 .. MAX_NODES)

Prefix(n) == SubSeq(points, 1, n)

\* What is published was computed from the history up to some step since the finish.
Evaluated == \E n \in FINISH .. Len(points) : published = NodeMetrics(Prefix(n))

IInv == /\ points \in Counts
        /\ published = NotPublished \/ Evaluated

-----------------------------------------------------------------------------
\* The steps at which the window can close lie in the history.
LEMMA ReturnsAreSteps == ASSUME NEW p \in Counts PROVE Returns(p) \subseteq 1 .. Len(p)
BY DEF Returns, Counts

\* The history up to n has the samples, and the closing steps, of the whole one.
LEMMA PrefixAgrees ==
  ASSUME NEW p \in Counts, NEW n \in 0 .. Len(p)
  PROVE  /\ SubSeq(p, 1, n) \in Counts
         /\ Len(SubSeq(p, 1, n)) = n
         /\ \A t \in 1 .. n : SubSeq(p, 1, n)[t] = p[t]
<1>1. n \in Nat /\ n <= Len(p)
  BY DEF Counts
<1>2. SubSeq(p, 1, n) = [t \in 1 .. n |-> p[t]]
  BY <1>1 DEF Counts
<1>3. \A t \in 1 .. n : p[t] \in 0 .. MAX_NODES
  <2>1. \A t \in 1 .. Len(p) : p[t] \in 0 .. MAX_NODES
    BY ElementOfSeq DEF Counts
  <2> QED BY <1>1, <2>1
<1>4. SubSeq(p, 1, n) \in Counts
  BY <1>1, <1>2, <1>3, SeqDef DEF Counts
<1> QED BY <1>1, <1>2, <1>4 DEF Counts

LEMMA PrefixReturns ==
  ASSUME NEW p \in Counts, NEW n \in 0 .. Len(p)
  PROVE  Returns(SubSeq(p, 1, n)) = Returns(p) \cap (1 .. n)
<1> DEFINE q == SubSeq(p, 1, n)
<1>1. q \in Counts /\ Len(q) = n /\ \A t \in 1 .. n : q[t] = p[t]
  BY PrefixAgrees
<1> HIDE DEF q
<1>2. DOMAIN q = 1 .. n /\ DOMAIN p = 1 .. Len(p)
  BY <1>1 DEF Counts
<1>3. \A t \in 1 .. n : t \in DOMAIN p /\ 1 .. t \subseteq 1 .. n
  BY <1>2
<1>4. \A t \in 1 .. n : t \in Returns(q) <=> t \in Returns(p)
  BY <1>1, <1>2, <1>3, WindowConstants DEF Returns
<1> QED BY <1>2, <1>4 DEF Returns, q

\* Once the window is closed, it is closed at the same step in every longer history.
LEMMA CleanupSettles ==
  ASSUME NEW p \in Counts, NEW n \in 0 .. Len(p), Returns(SubSeq(p, 1, n)) # {}
  PROVE  /\ Returns(p) # {}
         /\ Cleanup(p) = Cleanup(SubSeq(p, 1, n))
         /\ Cleanup(p) \in 1 .. n
<1> DEFINE q == SubSeq(p, 1, n)
           First(m, T) == m \in T /\ \A s \in T : m <= s
<1>1. Returns(q) = Returns(p) \cap (1 .. n)
  BY PrefixReturns
<1>2. Returns(p) \subseteq Nat /\ Returns(q) \subseteq Nat
  BY <1>1, ReturnsAreSteps
<1>3. PICK m : First(m, Returns(q))
  BY <1>2, LeastNat
<1>4. m \in 1 .. n /\ First(m, Returns(p))
  <2>1. m \in 1 .. n /\ m \in Returns(p)
    BY <1>1, <1>3
  <2>2. ASSUME NEW s \in Returns(p) PROVE m <= s
    <3>1. CASE s \in 1 .. n
      BY <1>1, <1>3, <3>1
    <3>2. CASE ~(s \in 1 .. n)
      <4>1. s \in Nat /\ s >= 1 /\ n \in Nat
        BY ReturnsAreSteps DEF Counts
      <4> QED BY <2>1, <3>2, <4>1
    <3> QED BY <3>1, <3>2
  <2> QED BY <2>1, <2>2
<1>5. Cleanup(q) = m
  <2>1. \A k : First(k, Returns(q)) => k = m
    BY <1>2, <1>3
  <2> QED BY <1>3, <2>1 DEF Cleanup
<1>6. Cleanup(p) = m
  <2>1. \A k : First(k, Returns(p)) => k = m
    BY <1>2, <1>4
  <2> QED BY <1>4, <2>1 DEF Cleanup
<1> QED BY <1>4, <1>5, <1>6

\* The node time up to a step inside the prefix does not depend on what follows.
LEMMA NodeStepsSettle ==
  ASSUME NEW p \in Counts, NEW n \in 0 .. Len(p), NEW c \in 1 .. n
  PROVE  NodeSteps(SubSeq(p, 1, n), c) = NodeSteps(p, c)
<1>1. SubSeq(SubSeq(p, 1, n), 1, c - 1) = SubSeq(p, 1, c - 1)
  BY DEF Counts
<1> HIDE DEF Total
<1> QED BY <1>1 DEF NodeSteps

-----------------------------------------------------------------------------
\* Every evaluation is one of a history that only grew.
LEMMA Invariance == Spec => []IInv
<1>1. Init => IInv
  BY DEF Init, IInv, Counts
<1>2. IInv /\ [Next]_vars => IInv'
  <2> SUFFICES ASSUME IInv, [Next]_vars PROVE IInv'
    OBVIOUS
  <2>1. CASE Collect
    <3>1. Len(points) \in FINISH .. Len(points) /\ SubSeq(points, 1, Len(points)) = points
      BY <2>1, WindowConstants DEF Collect, IInv, Counts
    <3>2. published' = NodeMetrics(SubSeq(points', 1, Len(points')))
      BY <2>1, <3>1, Zenon DEF Collect
    <3>3. Len(points') \in FINISH .. Len(points')
      BY <2>1, <3>1, Zenon DEF Collect
    <3>4. Evaluated'
      BY <3>2, <3>3, Zenon DEF Evaluated, Prefix
    <3> QED BY <2>1, <3>4, Zenon DEF Collect, IInv
  <2>2. ASSUME NEW v \in 0 .. MAX_NODES, Scrape(v) PROVE IInv'
    <3>1. points' \in Counts /\ Len(points') = Len(points) + 1
      BY <2>2 DEF Scrape, IInv, Counts
    <3>2. \A n \in 1 .. Len(points) : Prefix(n)' = Prefix(n)
      BY <2>2, <3>1 DEF Scrape, IInv, Counts, Prefix
    <3>3. \A n \in FINISH .. Len(points) : n \in FINISH .. Len(points') /\ n \in 1 .. Len(points)
      BY <3>1, WindowConstants DEF IInv, Counts
    <3>4. ASSUME Evaluated PROVE Evaluated'
      <4>1. PICK n \in FINISH .. Len(points) : published = NodeMetrics(Prefix(n))
        BY <3>4 DEF Evaluated
      <4>2. published' = NodeMetrics(SubSeq(points', 1, n))
        BY <2>2, <3>2, <3>3, <4>1, Zenon DEF Scrape, Prefix
      <4>3. n \in FINISH .. Len(points')
        BY <3>3
      <4> QED BY <4>2, <4>3, Zenon DEF Evaluated, Prefix
    <3> QED BY <2>2, <3>1, <3>4, Zenon DEF Scrape, IInv
  <2>3. CASE UNCHANGED vars
    BY <2>3, Zenon DEF vars, IInv, Evaluated, Prefix
  <2> QED BY <2>1, <2>2, <2>3 DEF Next
<1> QED BY <1>1, <1>2, PTL DEF Spec

\* A largest count above zero means that a node was seen.
LEMMA NodesWereSeen ==
  ASSUME NEW p \in Counts, p # <<>>, ~SeenPositive(p), MAX_NODES \in Nat
  PROVE  Largest(p) = 0
<1>1. \A t \in 1 .. Len(p) : p[t] = 0
  <2>1. \A t \in 1 .. Len(p) : p[t] \in 0 .. MAX_NODES
    BY ElementOfSeq DEF Counts
  <2> QED BY <2>1 DEF SeenPositive, Counts
<1>2. Range(p) = {0}
  <2>1. 1 \in DOMAIN p /\ DOMAIN p = 1 .. Len(p)
    BY DEF Counts
  <2> QED BY <1>1, <2>1 DEF Range
<1>3. \A v : (v \in Range(p) /\ \A w \in Range(p) : w <= v) <=> v = 0
  BY <1>2
<1> QED BY <1>3 DEF Largest

\* The node time of a run is settled once its nodes were seen to return to zero.
THEOREM NodeTimeNeverChanges == Spec => NodeTimeSettles
<1> DEFINE Settled == Complete(published) /\ published.max > 0
                       => Complete(published') /\ published'.steps = published.steps
<1>1. IInv /\ [Next]_vars => [Settled]_published
  <2> SUFFICES ASSUME IInv, Next, published' # published,
                      Complete(published), published.max > 0
               PROVE  Complete(published') /\ published'.steps = published.steps
    BY DEF vars
  <2>1. Collect
    BY DEF Next, Scrape
  <2>2. published # NotPublished
    BY DEF Complete, NotPublished, None
  <2>3. PICK n \in 1 .. Len(points) : published = NodeMetrics(Prefix(n))
    BY <2>2, WindowConstants DEF IInv, Evaluated
  <2>4. points \in Counts /\ n \in 0 .. Len(points) /\ Prefix(n) \in Counts /\ Len(Prefix(n)) = n
    BY PrefixAgrees DEF IInv, Prefix
  <2>5. Cleanup(Prefix(n)) # None
    <3> HIDE DEF None
    <3> QED BY <2>3 DEF NodeMetrics, Complete
  <2>6. published.steps = NodeSteps(Prefix(n), Cleanup(Prefix(n)))
    BY <2>3, <2>5, Zenon DEF NodeMetrics
  <2>7. SeenPositive(Prefix(n))
    <3>1. published.max = Largest(Prefix(n))
      BY <2>3, Zenon DEF NodeMetrics
    <3>2. Largest(Prefix(n)) # 0
      BY <3>1
    <3>3. Prefix(n) # <<>>
      BY <2>4
    <3> QED BY <2>4, <3>2, <3>3, NodesWereSeen, WindowConstants
  <2>8. Returns(Prefix(n)) # {}
    BY <2>5, <2>7, Zenon DEF Cleanup
  <2>9. /\ Cleanup(points) = Cleanup(Prefix(n))
        /\ Cleanup(points) \in 1 .. n
    BY <2>4, <2>8, CleanupSettles DEF Prefix
  <2>10. NodeSteps(points, Cleanup(points)) = published.steps
    BY <2>4, <2>6, <2>9, NodeStepsSettle DEF Prefix
  <2>11. published'.complete = 1 /\ published'.steps = NodeSteps(points, Cleanup(points))
    <3>1. published' = NodeMetrics(points) /\ Cleanup(points) # None
      BY <2>1, <2>5, <2>9 DEF Collect
    <3> QED BY <3>1, Zenon DEF NodeMetrics
  <2> QED BY <2>10, <2>11 DEF Complete
<1> QED BY <1>1, Invariance, PTL DEF Spec, NodeTimeSettles

\* A sample of zero adds nothing to the node time.
LEMMA ZeroAddsNothing ==
  ASSUME NEW p \in Counts, NEW c \in 1 .. Len(p), p[c] = 0
  PROVE  Total(SubSeq(p, 1, c)) = Total(SubSeq(p, 1, c - 1))
<1> DEFINE q == SubSeq(p, 1, c)
           r == SubSeq(p, 1, c - 1)
           before == 1 .. c - 1
<1>1. /\ c \in Nat /\ c >= 1 /\ c \in 0 .. Len(p) /\ c - 1 \in 0 .. Len(p)
  BY DEF Counts
<1>2. /\ q \in Counts /\ Len(q) = c /\ \A t \in 1 .. c : q[t] = p[t]
      /\ r \in Counts /\ Len(r) = c - 1 /\ \A t \in 1 .. c - 1 : r[t] = p[t]
  BY <1>1, PrefixAgrees
<1> HIDE DEF q, r
<1>3. DOMAIN q = before \cup {c} /\ DOMAIN r = before /\ c \notin before
  BY <1>1, <1>2 DEF Counts
<1>4. /\ \A t \in before \cup {c} : q[t] \in Nat
      /\ \A t \in before : r[t] = q[t]
      /\ q[c] = 0
  <2>1. \A t \in 1 .. Len(q) : q[t] \in 0 .. MAX_NODES
    BY <1>2, ElementOfSeq DEF Counts
  <2> QED BY <1>1, <1>2, <2>1, WindowConstants
<1>5. IsFiniteSet(before)
  BY <1>1, FS_Interval
<1>6. Total(q) = SumFunctionOnSet(q, before \cup {c}) /\ Total(r) = SumFunctionOnSet(r, before)
  BY <1>3 DEF Total, FoldSeq, FoldFunction, SumFunctionOnSet
<1> HIDE DEF before
<1>7. SumFunctionOnSet(q, before \cup {c}) = q[c] + SumFunctionOnSet(q, before)
  BY <1>3, <1>4, <1>5, SumAdds
<1>8. SumFunctionOnSet(r, before) = SumFunctionOnSet(q, before)
  BY <1>4, <1>5, SumSame
<1>9. SumFunctionOnSet(q, before) \in Nat
  BY <1>4, <1>5, SumType
<1> QED BY <1>4, <1>6, <1>7, <1>8, <1>9 DEF q, r

\* What is published counts the whole episode of the run's nodes: every sample until
\* they were first seen to be gone after the finish.
THEOREM NodeTimeAlwaysWhole == Spec => []NodeTimeWhole
<1>1. IInv => NodeTimeWhole
  <2> SUFFICES ASSUME IInv, Complete(published), NEW c \in FINISH .. Len(points),
                      points[c] = 0, \A t \in FINISH .. c - 1 : points[t] > 0,
                      \E t \in 1 .. FINISH : points[t] > 0
               PROVE  published.steps = Total(SubSeq(points, 1, c))
    BY DEF NodeTimeWhole
  <2>1. published # NotPublished
    BY DEF Complete, NotPublished, None
  <2>2. PICK n \in FINISH .. Len(points) : published = NodeMetrics(Prefix(n))
    BY <2>1 DEF IInv, Evaluated
  <2>3. /\ points \in Counts /\ n \in 0 .. Len(points) /\ c \in 1 .. Len(points)
        /\ FINISH \in Nat \ {0} /\ n \in Nat /\ c \in Nat /\ DOMAIN points = 1 .. Len(points)
        /\ n >= FINISH
    BY WindowConstants DEF IInv, Counts
  <2>4. /\ Prefix(n) \in Counts /\ Len(Prefix(n)) = n
        /\ \A t \in 1 .. n : Prefix(n)[t] = points[t]
    BY <2>3, PrefixAgrees DEF Prefix
  <2>5. Cleanup(Prefix(n)) # None
    <3> HIDE DEF None
    <3> QED BY <2>2 DEF NodeMetrics, Complete
  <2>6. published.steps = NodeSteps(Prefix(n), Cleanup(Prefix(n)))
    BY <2>2, <2>5, Zenon DEF NodeMetrics
  <2>7. SeenPositive(Prefix(n))
    <3>1. PICK t \in 1 .. FINISH : points[t] > 0
      OBVIOUS
    <3>2. t \in 1 .. n /\ DOMAIN Prefix(n) = 1 .. n
      BY <2>3, <2>4, <3>1 DEF Counts
    <3> QED BY <2>4, <3>1, <3>2 DEF SeenPositive
  <2>8. Returns(Prefix(n)) # {}
    BY <2>5, <2>7, Zenon DEF Cleanup
  <2>9. Cleanup(points) = Cleanup(Prefix(n)) /\ Cleanup(points) \in 1 .. n /\ Returns(points) # {}
    BY <2>3, <2>8, CleanupSettles DEF Prefix
  <2>10. c \in Returns(points)
    <3>1. PICK t \in 1 .. FINISH : points[t] > 0
      OBVIOUS
    <3>2. t \in 1 .. c /\ c >= FINISH
      BY <2>3, <3>1
    <3> QED BY <2>3, <3>1, <3>2 DEF Returns
  <2>11. ASSUME NEW s \in Returns(points) PROVE c <= s
    <3>1. s \in Nat /\ s >= FINISH /\ points[s] = 0
      BY <2>3 DEF Returns
    <3>2. ~(s \in FINISH .. c - 1)
      BY <3>1
    <3> QED BY <2>3, <3>1, <3>2
  <2>12. Cleanup(points) = c
    <3>1. \A t : (t \in Returns(points) /\ \A s \in Returns(points) : t <= s) => t = c
      <4>1. Returns(points) \subseteq Nat
        BY <2>3 DEF Returns
      <4> QED BY <2>3, <2>10, <2>11, <4>1
    <3> QED BY <2>9, <2>10, <2>11, <3>1 DEF Cleanup
  <2>13. NodeSteps(points, c) = published.steps
    BY <2>3, <2>6, <2>9, <2>12, NodeStepsSettle DEF Prefix
  <2> QED BY <2>3, <2>13, ZeroAddsNothing DEF NodeSteps
<1> QED BY <1>1, Invariance, PTL

-----------------------------------------------------------------------------
(* The queue: QueueEvidence. *)

\* A non-empty set of naturals below a bound has a least and a largest.
LEMMA Extremes ==
  ASSUME NEW n \in Nat, NEW S \in SUBSET (0 .. n), S # {}
  PROVE  /\ Min(S) \in S /\ \A x \in S : Min(S) <= x
         /\ Max(S) \in S /\ \A x \in S : Max(S) >= x
<1>1. \E m \in S : \A x \in S : m <= x
  BY LeastNat
<1>2. \E m \in S : \A x \in S : m >= x
  <2> DEFINE T == {n - x : x \in S}
  <2>1. T \in SUBSET Nat /\ T # {}
    <3>1. \A x \in S : n - x \in Nat
      OBVIOUS
    <3> QED BY <3>1
  <2>2. PICK k \in T : \A j \in T : k <= j
    BY <2>1, LeastNat
  <2>3. PICK m \in S : k = n - m
    OBVIOUS
  <2>4. \A x \in S : n - m <= n - x
    BY <2>2, <2>3
  <2> QED BY <2>4
<1> QED BY <1>1, <1>2 DEF Min, Max

Messages == [visible : 0 .. MESSAGES, inflight : 0 .. MESSAGES]
Series == Seq(0 .. MESSAGES \cup {Missing})

\* A sample is the value of LAG minutes before, if there is one.
Late(series, t, value) == t > LAG => series[t] \in {value, Missing}

QueueInv ==
  /\ queue \in Seq(Messages) /\ visible \in Series /\ inflight \in Series
  /\ Len(visible) = Len(queue) /\ Len(inflight) = Len(queue) /\ Len(queue) <= END
  /\ \A t \in 1 .. Len(queue) : /\ Late(visible, t, queue[t - LAG].visible)
                                /\ Late(inflight, t, queue[t - LAG].inflight)

LEMMA QueueInvariance == QueueSpec => []QueueInv
<1>1. QueueInit => QueueInv
  BY EvidenceConstants DEF QueueInit, QueueInv, Series
<1>2. QueueInv /\ [QueueNext]_queueVars => QueueInv'
  <2> SUFFICES ASSUME QueueInv, [QueueNext]_queueVars PROVE QueueInv'
    OBVIOUS
  <2>1. ASSUME NEW v \in 0 .. MESSAGES, NEW f \in 0 .. MESSAGES,
               Minute([visible |-> v, inflight |-> f])
        PROVE  QueueInv'
    <3> DEFINE now == [visible |-> v, inflight |-> f]
               none == [visible |-> 0, inflight |-> 0]
               n == Len(queue)
               late == IF n + 1 > LAG THEN queue'[n + 1 - LAG] ELSE none
    <3>1. /\ queue \in Seq(Messages) /\ visible \in Series /\ inflight \in Series
          /\ n \in Nat /\ Len(visible) = n /\ Len(inflight) = n
          /\ LAG \in Nat /\ END \in Nat /\ MESSAGES \in Nat
      BY EvidenceConstants DEF QueueInv
    <3>2. now \in Messages /\ none \in Messages
      BY <3>1 DEF Messages
    <3>3. n < END /\ queue' = Append(queue, now)
      BY <2>1 DEF Minute, Now
    <3>4. /\ queue' \in Seq(Messages) /\ Len(queue') = n + 1
          /\ \A t \in 1 .. n : queue'[t] = queue[t]
      BY <3>1, <3>2, <3>3
    <3>5. late \in Messages
      <4>1. n + 1 > LAG => n + 1 - LAG \in 1 .. Len(queue')
        BY <3>1, <3>4
      <4> QED BY <4>1, <3>2, <3>4, ElementOfSeq
    <3>6. PICK sv \in Sample(late.visible) : visible' = Append(visible, sv)
      BY <2>1, <3>1, <3>3, <3>4 DEF Minute
    <3>7. PICK sf \in Sample(late.inflight) : inflight' = Append(inflight, sf)
      BY <2>1, <3>1, <3>3, <3>4 DEF Minute
    <3> HIDE DEF now, none, n, late
    <3>8. /\ sv \in {late.visible, Missing} /\ sf \in {late.inflight, Missing}
          /\ late.visible \in 0 .. MESSAGES /\ late.inflight \in 0 .. MESSAGES
      BY <3>5, <3>6, <3>7 DEF Sample, Messages
    <3>9. /\ visible' \in Series /\ Len(visible') = n + 1 /\ visible'[n + 1] = sv
          /\ \A t \in 1 .. n : visible'[t] = visible[t]
      BY <3>1, <3>6, <3>8 DEF Series
    <3>10. /\ inflight' \in Series /\ Len(inflight') = n + 1 /\ inflight'[n + 1] = sf
           /\ \A t \in 1 .. n : inflight'[t] = inflight[t]
      BY <3>1, <3>7, <3>8 DEF Series
    <3>11. ASSUME NEW t \in 1 .. n + 1
           PROVE  /\ Late(visible', t, queue'[t - LAG].visible)
                  /\ Late(inflight', t, queue'[t - LAG].inflight)
      <4>1. CASE t = n + 1
        <5>1. t > LAG => queue'[t - LAG] = late
          BY <4>1, <3>1 DEF late
        <5> QED BY <4>1, <5>1, <3>8, <3>9, <3>10 DEF Late
      <4>2. CASE t # n + 1
        <5>1. t \in 1 .. n /\ (t > LAG => t - LAG \in 1 .. n)
          BY <4>2, <3>1
        <5>2. t > LAG => queue'[t - LAG] = queue[t - LAG]
          BY <5>1, <3>4
        <5>3. /\ Late(visible, t, queue[t - LAG].visible)
              /\ Late(inflight, t, queue[t - LAG].inflight)
          BY <5>1 DEF QueueInv, n
        <5> QED BY <5>1, <5>2, <5>3, <3>9, <3>10 DEF Late
      <4> QED BY <4>1, <4>2
    <3>12. Len(queue') <= END
      BY <3>1, <3>3, <3>4
    <3> QED BY <3>4, <3>9, <3>10, <3>11, <3>12 DEF QueueInv
  <2>2. CASE UNCHANGED queueVars
    BY <2>2 DEF queueVars, QueueInv
  <2> QED BY <2>1, <2>2 DEF QueueNext
<1> QED BY <1>1, <1>2, PTL DEF QueueSpec

\* The window's steps, and what is recorded at them.
LEMMA WindowSteps == /\ Window \subseteq 1 .. END
                     /\ \A series : Times(series) \subseteq Window
                     /\ Points \subseteq Window /\ END \in Nat
  BY EvidenceConstants DEF Window, Times, Points

LEMMA RecordedIsSample ==
  ASSUME NEW series \in Series, Len(series) = END, NEW t \in 1 .. END
  PROVE  /\ Recorded(series, t) \in 0 .. MESSAGES \cup {Missing}
         /\ series[t] # Missing => Recorded(series, t) = series[t]
<1> DEFINE held == {u \in 1 .. t : u >= t - HOLD /\ series[u] # Missing}
<1>1. held \in SUBSET (1 .. t) /\ held \in SUBSET (0 .. t) /\ t \in Nat /\ 1 .. t \subseteq 1 .. END
  BY WindowSteps
<1>2. \A u \in 1 .. END : series[u] \in 0 .. MESSAGES \cup {Missing}
  BY ElementOfSeq DEF Series
<1>3. held # {} => Max(held) \in held /\ \A u \in held : Max(held) >= u
  <2> HIDE DEF held
  <2> QED BY <1>1, Extremes
<1>4. series[t] # Missing => t \in held
  BY EvidenceConstants
<1>5. Recorded(series, t) = IF held = {} THEN Missing ELSE series[Max(held)]
  BY DEF Recorded
<1> HIDE DEF held
<1>6. t \in held => Max(held) = t
  <2> DEFINE m == Max(held)
  <2>1. t \in held => m \in 1 .. t /\ m >= t
    BY <1>1, <1>3
  <2> HIDE DEF m
  <2>2. t \in held => m = t
    BY <1>1, <2>1
  <2> QED BY <2>2 DEF m
<1> QED BY <1>1, <1>2, <1>3, <1>4, <1>5, <1>6

\* At each step the backlog is a number of messages.
LEMMA BacklogType ==
  ASSUME QueueInv, Collected, NEW t \in 1 .. END
  PROVE  Backlog(t) \in 0 .. 2 * MESSAGES
<1>1. /\ visible \in Series /\ inflight \in Series
      /\ Len(visible) = END /\ Len(inflight) = END /\ MESSAGES \in Nat
  BY EvidenceConstants DEF QueueInv, Collected, Now
<1>2. Part(visible, t) \in 0 .. MESSAGES /\ Part(inflight, t) \in 0 .. MESSAGES
  BY <1>1, RecordedIsSample DEF Part
<1> QED BY <1>1, <1>2 DEF Backlog

Positive == {t \in Points : Backlog(t) > 0}
After == {t \in Points : Positive # {} /\ \A s \in Positive : s < t /\ Backlog(t) = 0}

LEMMA DrainedAtIsFirst ==
  /\ DrainedAt = Unknown <=> After = {}
  /\ After # {} => DrainedAt \in After /\ DrainedAt \in 1 .. END
<1>1. DrainedAt = IF After = {} THEN Unknown ELSE Min(After)
  BY DEF DrainedAt, After, Positive
<1>2. After \in SUBSET (1 .. END) /\ After \in SUBSET (0 .. END) /\ END \in Nat
  <2>1. After \subseteq Points
    BY DEF After
  <2> QED BY <2>1, WindowSteps
<1>3. After # {} => Min(After) \in After
  BY <1>2, Extremes
<1>4. \A t \in 1 .. END : t # Unknown
  BY DEF Unknown
<1> HIDE DEF Unknown
<1> QED BY <1>1, <1>2, <1>3, <1>4

\* A drain was observed exactly if there was a message, and none at the last point.
LEMMA DrainMeaning ==
  ASSUME QueueInv, Collected, Points # {}
  PROVE  After # {} <=> Positive # {} /\ Backlog(Max(Points)) = 0
<1>1. Points \in SUBSET (1 .. END) /\ Points \in SUBSET (0 .. END) /\ END \in Nat
  BY WindowSteps
<1>2. Max(Points) \in Points /\ \A t \in Points : Max(Points) >= t
  BY <1>1, Extremes
<1>3. \A t \in Points : Backlog(t) \in Nat /\ t \in Int
  BY <1>1, BacklogType, EvidenceConstants
<1>4. ASSUME After # {} PROVE Positive # {} /\ Backlog(Max(Points)) = 0
  BY <1>2, <1>3, <1>4 DEF After, Positive
<1>5. ASSUME Positive # {}, Backlog(Max(Points)) = 0 PROVE Max(Points) \in After
  <2>1. \A s \in Positive : s < Max(Points)
    BY <1>2, <1>3, <1>5 DEF Positive
  <2> QED BY <1>2, <1>5, <2>1 DEF After
<1> QED BY <1>4, <1>5

LEMMA ActivityMeaning ==
  ASSUME QueueInv, Collected, Points # {}
  PROVE  Max({Backlog(t) : t \in Points}) = 0 <=> Positive = {}
<1> DEFINE B == {Backlog(t) : t \in Points}
<1>1. B \in SUBSET (0 .. 2 * MESSAGES) /\ B # {} /\ 2 * MESSAGES \in Nat
  <2>1. \A t \in Points : Backlog(t) \in 0 .. 2 * MESSAGES
    BY BacklogType, WindowSteps
  <2> QED BY <2>1, EvidenceConstants
<1>2. Max(B) \in B /\ \A b \in B : Max(B) >= b
  <2> HIDE DEF B
  <2> QED BY <1>1, Extremes
<1>3. \A b \in B : b \in Nat
  BY <1>1, EvidenceConstants
<1>4. Positive = {} <=> \A b \in B : b = 0
  BY <1>3 DEF Positive
<1> HIDE DEF B
<1>5. Max(B) = 0 <=> \A b \in B : b = 0
  BY <1>2, <1>3
<1> QED BY <1>4, <1>5 DEF B

\* The three verdicts, for one evaluation.
LEMMA VerdictsOfMetrics ==
  ASSUME QueueInv, Collected
  PROVE  /\ QueueMetrics.drainedAt # Unknown
              <=> QueueMetrics.drained = 1 /\ QueueMetrics.activityMissing = 0
         /\ QueueMetrics.activityMissing \in {0, 1}
         /\ QueueMetrics.drainedAt # Unknown => QueueMetrics.drainedAt = DrainedAt
<1>1. CASE Times(visible) = {} \/ Times(inflight) = {}
  BY <1>1 DEF QueueMetrics, NoEvidence, Unknown
<1>2. CASE ~(Times(visible) = {} \/ Times(inflight) = {})
  <2> DEFINE top == Max({Backlog(t) : t \in Points})
             last == Backlog(Max(Points))
  <2>1. Points # {}
    BY <1>2 DEF Points
  <2>2. /\ QueueMetrics.drainedAt = DrainedAt
        /\ QueueMetrics.drained = IF last = 0 THEN 1 ELSE 0
        /\ QueueMetrics.activityMissing = IF top = 0 THEN 1 ELSE 0
    BY <1>2 DEF QueueMetrics
  <2>3. /\ top = 0 <=> Positive = {}
        /\ After # {} <=> Positive # {} /\ last = 0
        /\ DrainedAt = Unknown <=> After = {}
    BY <2>1, ActivityMeaning, DrainMeaning, DrainedAtIsFirst
  <2> HIDE DEF top, last
  <2> QED BY <2>2, <2>3
<1> QED BY <1>1, <1>2

\* A drain was observed exactly if the queue was active and ended empty, whatever was
\* scraped of it (queue_metrics: drained, drained_timestamp, activity_missing).
THEOREM DrainVerdictsAlwaysAgree == QueueSpec => []DrainVerdictsAgree
<1>1. QueueInv => DrainVerdictsAgree
  BY VerdictsOfMetrics DEF DrainVerdictsAgree
<1> QED BY <1>1, QueueInvariance, PTL

\* A run with burst replicas is complete only with a drain that was observed.
THEOREM BurstAlwaysNeedsDrain == QueueSpec => []BurstNeedsDrain
<1>1. QueueInv => BurstNeedsDrain
  <2> SUFFICES ASSUME QueueInv, Collected, NEW burst \in 0 .. 1,
                      QueueComplete(QueueMetrics, burst), burst > 0
               PROVE  QueueMetrics.drainedAt # Unknown
    BY DEF BurstNeedsDrain
  <2> QED BY VerdictsOfMetrics DEF QueueComplete, MeasurementComplete
<1> QED BY <1>1, QueueInvariance, PTL

\* If every scrape was answered, the queue was empty from the observed drain on.
THEOREM DrainAlwaysUpperBound == QueueSpec => []DrainIsUpperBound
<1>1. QueueInv => DrainIsUpperBound
  <2> SUFFICES ASSUME QueueInv, Collected, Answered, QueueMetrics.drainedAt # Unknown,
                      NEW u \in QueueMetrics.drainedAt .. END - LAG
               PROVE  queue[u] = [visible |-> 0, inflight |-> 0]
    BY DEF DrainIsUpperBound
  <2> DEFINE at == DrainedAt
             t == u + LAG
  <2>1. QueueMetrics.drainedAt = at /\ at # Unknown
    BY VerdictsOfMetrics
  <2>2. at \in After /\ at \in 1 .. END
    BY <2>1, DrainedAtIsFirst
  <2> HIDE DEF at
  <2>3. /\ LAG \in Nat /\ END \in Nat /\ u \in at .. END - LAG /\ Len(queue) = END
        /\ visible \in Series /\ inflight \in Series
        /\ Len(visible) = END /\ Len(inflight) = END
    BY <2>1, EvidenceConstants DEF QueueInv, Collected, Now
  <2>4. t \in 1 .. END /\ t >= at /\ t > LAG /\ t - LAG = u /\ u \in 1 .. END
    BY <2>2, <2>3
  <2>5. visible[t] # Missing /\ inflight[t] # Missing
    BY <2>3, <2>4 DEF Answered, Range, Series
  <2>6. visible[t] = queue[u].visible /\ inflight[t] = queue[u].inflight
    BY <2>3, <2>4, <2>5 DEF QueueInv, Late
  <2>7. Recorded(visible, t) = visible[t] /\ Recorded(inflight, t) = inflight[t]
    BY <2>3, <2>4, <2>5, RecordedIsSample
  <2>8. t \in Points
    <3>1. at \in Window
      BY <2>2, WindowSteps DEF After
    <3> QED BY <2>3, <2>4, <2>5, <2>7, <3>1, EvidenceConstants DEF Points, Times, Window
  <2>9. Backlog(t) = 0
    <3>1. t \notin Positive
      BY <2>2, <2>4 DEF After
    <3> QED BY <2>4, <2>8, <3>1, BacklogType, EvidenceConstants DEF Positive
  <2>10. queue[u] \in Messages
    BY <2>3, <2>4, ElementOfSeq DEF QueueInv
  <2>11. queue[u].visible + queue[u].inflight = 0
    BY <2>5, <2>6, <2>7, <2>9 DEF Backlog, Part
  <2>12. queue[u].visible = 0 /\ queue[u].inflight = 0
    BY <2>10, <2>11, EvidenceConstants DEF Messages
  <2> QED BY <2>10, <2>12 DEF Messages
<1> QED BY <1>1, QueueInvariance, PTL
=============================================================================
