----------------------------- MODULE OomGuardrail -----------------------------
(***************************************************************************)
(* The OOM guardrails of right-sizing: Pods are killed, replaced and moved *)
(* while Prometheus scrapes their state and evaluates two rules over the   *)
(* last WINDOW intervals.  The container rule records who was killed when  *)
(* it is seen and looks back over its record; the node rule looks back     *)
(* over the Pods' own series and joins them with where the Pods are now.   *)
(***************************************************************************)
EXTENDS Naturals

CONSTANTS Pods,       \* names of Pods; a StatefulSet uses a name again
          Nodes,
          Places,     \* Places[p], the nodes on which Pod p may be scheduled
          Workload,   \* Workload[p], the owner of the Pods of this name
          WINDOW,     \* the lookback, in evaluation intervals
          Nowhere     \* the place of a Pod that does not exist

GuardrailConstants == /\ WINDOW \in Nat \ {0}
                      /\ Nowhere \notin Nodes
                      /\ Places \in [Pods -> SUBSET Nodes]

Workloads == {Workload[p] : p \in Pods}
NoPod == [node |-> Nowhere, oom |-> FALSE]

VARIABLES
  pod,      \* each Pod: its node, and whether its last termination was an OOM
  answered, \* whether kube-state-metrics answered the last scrape
  shown,    \* the Pods in the last scrape, none if it was not answered
  raw,      \* the age of the newest OOM sample of each Pod
  observed, \* the age of the newest positive oom_observation of each workload
  kept,     \* the age of the newest OOM sample of the Pod since it was created
  known     \* the age of the newest evaluation that found an OOM of the workload

scraped == <<answered, shown, raw>>
history == <<kept, known>>
vars == <<pod, scraped, observed, history>>

\* An age is counted in evaluations; WINDOW stands for everything older.
Ages == 0 .. WINDOW
MutantOlder(age) == age
Older(age) == IF age < WINDOW THEN age + 1 ELSE age
Recent(age) == age < WINDOW

Init == /\ pod = [p \in Pods |-> NoPod] /\ shown = pod /\ answered = FALSE
        /\ raw = [p \in Pods |-> WINDOW] /\ kept = raw
        /\ observed = [w \in Workloads |-> WINDOW] /\ known = observed

-----------------------------------------------------------------------------
(* The Pods. *)

Create(p, n) == /\ pod[p] = NoPod
                /\ pod' = [pod EXCEPT ![p] = [node |-> n, oom |-> FALSE]]
                /\ UNCHANGED <<scraped, observed, history>>

\* A container ends, by an OOM kill or otherwise, and is started again.
Terminate(p, oom) == /\ pod[p] # NoPod
                     /\ pod' = [pod EXCEPT ![p].oom = oom]
                     /\ UNCHANGED <<scraped, observed, history>>

Delete(p) == /\ pod[p] # NoPod
             /\ pod' = [pod EXCEPT ![p] = NoPod]
             /\ kept' = [kept EXCEPT ![p] = WINDOW]
             /\ UNCHANGED <<scraped, observed, known>>

-----------------------------------------------------------------------------
(* Prometheus. *)

Sampled(ages) == [p \in Pods |-> IF pod[p].oom THEN 0 ELSE ages[p]]

Scrape == /\ answered' = TRUE
          /\ shown' = pod
          /\ raw' = Sampled(raw)
          /\ kept' = Sampled(kept)
          /\ UNCHANGED <<pod, observed, known>>

\* A scrape that fails ends every series of kube-state-metrics, not their past.
ScrapeFails == /\ answered' = FALSE
               /\ shown' = [p \in Pods |-> NoPod]
               /\ UNCHANGED <<pod, raw, observed, history>>

\* oom_expr of the node rules: max_over_time of the Pods' series, joined with
\* kube_pod_info.
MutantNodeSignal == {shown[p].node : p \in {q \in Pods : shown[q].oom}}

NodeSignal == {shown[p].node : p \in {q \in Pods : Recent(raw[q]) /\ shown[q] # NoPod}}

\* workload_container_oom_observation at this moment.
Found == {Workload[p] : p \in {q \in Pods : shown[q].oom}}

MutantObservations == [w \in Workloads |-> IF w \in Found THEN 0 ELSE WINDOW]
Observations == [w \in Workloads |-> IF w \in Found THEN 0 ELSE observed[w]]

\* workload_container_recent_oom_signal; the rules of a group are evaluated in
\* their order, the later ones with the results of the earlier ones.
WorkloadSignal == {w \in Workloads : Recent(Observations[w])}

Evaluate ==
  /\ observed' = [w \in Workloads |-> Older(Observations[w])]
  /\ raw' = [p \in Pods |-> Older(raw[p])]
  /\ kept' = [p \in Pods |-> Older(kept[p])]
  /\ known' = [w \in Workloads |-> Older(IF w \in Found THEN 0 ELSE known[w])]
  /\ UNCHANGED <<pod, answered, shown>>

PodStep == \E p \in Pods : \/ \E n \in Places[p] : Create(p, n)
                           \/ \E oom \in BOOLEAN : Terminate(p, oom)
                           \/ Delete(p)
-----------------------------------------------------------------------------
(* Properties. *)

\* An OOM of any Pod that one evaluation has found marks the Pod's workload in
\* every evaluation of the lookback, also when the Pod is gone and the other
\* Pods of the workload are well (finops-recording-rules.yaml).
WorkloadOomKept == \A w \in Workloads : Recent(known[w]) => w \in WorkloadSignal

\* A node is not safe to shrink for the whole lookback after an OOM of a Pod
\* that is still on it, whatever its containers did since, as long as
\* kube-state-metrics answers.
ResidentOomBlocks ==
  answered => \A p \in Pods : Recent(kept[p]) => pod[p].node \in NodeSignal
=============================================================================
