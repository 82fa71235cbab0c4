--------------------------- MODULE ResultCollector ---------------------------
(***************************************************************************)
(* The result Collector (collector.py, a CronJob) among what it works on:  *)
(* the load Jobs as Kubernetes keeps them, each of them a LoadRun, their   *)
(* Pods, and the groups of the Pushgateway, which keeps them in memory.    *)
(* A cycle lists the terminal Jobs once and handles them in that order;    *)
(* Jobs, Pods and the Pushgateway go on changing between its steps.  What  *)
(* the API or Prometheus refuses for one of them ends the cycle there.     *)
(***************************************************************************)
EXTENDS RunResult, Sequences, FiniteSets

CONSTANTS JobList,   \* the load Jobs, in the order the API lists them
          RUN_ID,    \* RUN_ID[j]: the RUN_ID in the Job's environment, or Unset
          COUNT,     \* the number of tracks each Job requests
          RunLines   \* the result lines considered

CONSTANT Unset

Jobs == {JobList[k] : k \in DOMAIN JobList}
Index == 0 .. COUNT - 1

\* EXPERIMENT.md has every one-off Job reviewed for a unique Run ID; in a result line
\* each track has at most one error per stage.
ASSUME CollectorConstants ==
  /\ JobList \in Seq(Jobs)
  /\ \A k, l \in DOMAIN JobList : JobList[k] = JobList[l] => k = l
  /\ COUNT \in Nat \ {0}
  /\ RunLines \subseteq Result
  /\ \A r \in RunLines : r.upload_errors <= 2 * COUNT
  /\ \A j, k \in Jobs : j # k /\ RUN_ID[j] # Unset => RUN_ID[j] # RUN_ID[k]

NoLine  == [requested |-> "no result line"]
NoGroup == [job |-> "no group"]

\* The run_id the Runner uses: RUN_ID, or the name of its Pod.
RunId(j) == IF RUN_ID[j] = Unset THEN <<"pod", j>> ELSE <<"run", RUN_ID[j]>>

\* The run_id of failed_job_result: RUN_ID, or the name of the Job.
SyntheticId(j) == IF RUN_ID[j] = Unset THEN <<"job", j>> ELSE <<"run", RUN_ID[j]>>

GroupIds == {<<kind, j>> : kind \in {"pod", "job"}, j \in Jobs}
              \cup {<<"run", RUN_ID[j]>> : j \in Jobs}

VARIABLES
  status,   \* status[j]: "active", "succeeded" or "failed"
  line,     \* line[j]: the result line in the log of the Job's Pod
  ready,    \* ready[j]: the tracks the service has made READY
  pod,      \* the Jobs whose Pod exists
  gone,     \* the Jobs that were deleted
  mute,     \* the Jobs whose Pod exists but has no log to read
  settled,  \* the runs that finished COLLECTION_DELAY_SECONDS ago
  aged,     \* the runs that started more than 11,000 steps of 15 s ago
  groups,   \* the Pushgateway: one group per run_id
  over,     \* END_DATE has passed
  listed,   \* the terminal Jobs of the cycle's list, with their failed count
  position  \* the cycle's place in the list, 0 between cycles

pods == <<pod, mute>>
times == <<settled, aged>>
jobVars == <<status, line, ready, pods, gone, times>>
cycle == <<listed, position>>
vars == <<jobVars, groups, over, cycle>>

Init == /\ status = [j \in Jobs |-> "active"]
        /\ line = [j \in Jobs |-> NoLine]
        /\ ready = [j \in Jobs |-> {}]
        /\ pod = Jobs /\ mute = {}
        /\ gone = {}
        /\ settled = {} /\ aged = {}
        /\ groups = [g \in GroupIds |-> NoGroup]
        /\ over = FALSE
        /\ listed = {}
        /\ position = 0

Terminal(j) == status[j] \in {"succeeded", "failed"} /\ j \notin gone

-----------------------------------------------------------------------------
(* The Jobs: LoadRun, Job by Job. *)

BecomeReady(j, i) ==
  /\ i \notin ready[j]
  /\ ready' = [ready EXCEPT ![j] = @ \cup {i}]
  /\ UNCHANGED <<status, line, pods, gone, times, groups, over, cycle>>

Replace(g, sample) == groups' = [groups EXCEPT ![g] = sample]

\* push_progress replaces the whole group of the run.
PushProgress(j) ==
  /\ status[j] = "active" /\ j \in pod /\ line[j] = NoLine
  /\ Replace(RunId(j), [job |-> j, by |-> "runner", functional |-> FALSE, info |-> FALSE])
  /\ UNCHANGED <<jobVars, over, cycle>>

Report(j) ==
  /\ status[j] = "active" /\ j \in pod /\ line[j] = NoLine
  /\ \E r \in RunLines : /\ WellFormed(r, COUNT, Cardinality(ready[j]))
                         /\ line' = [line EXCEPT ![j] = r]
  /\ UNCHANGED <<status, ready, pods, gone, times, groups, over, cycle>>

MutantSucceed(j) == /\ status[j] = "active" /\ j \in pod
                    /\ status' = [status EXCEPT ![j] = "succeeded"]
                    /\ UNCHANGED <<line, ready, pods, gone, times, groups, over, cycle>>

\* Exit code 0, past the end of the experiment without a result line.
Succeed(j) ==
  /\ status[j] = "active" /\ j \in pod
  /\ \/ line[j] = NoLine /\ ready[j] = {} /\ over
     \/ line[j] # NoLine /\ ExitClean(line[j])
  /\ status' = [status EXCEPT ![j] = "succeeded"]
  /\ UNCHANGED <<line, ready, pods, gone, times, groups, over, cycle>>

Fail(j) ==
  /\ status[j] = "active"
  /\ status' = [status EXCEPT ![j] = "failed"]
  /\ UNCHANGED <<line, ready, pods, gone, times, groups, over, cycle>>

\* A node is lost, or the Pod of a finished Job is collected; the Job remains.
LosePod(j) ==
  /\ j \in pod
  /\ pod' = pod \ {j} /\ mute' = mute \ {j}
  /\ UNCHANGED <<status, line, ready, gone, times, groups, over, cycle>>

\* The Pod of a failed Job is kept, but no container of it was ever started (the
\* kubelet rejected it): it has no log.
MuteLog(j) ==
  /\ Terminal(j) /\ j \in pod \ mute
  /\ status[j] = "failed" /\ line[j] = NoLine /\ ready[j] = {}
  /\ mute' = mute \cup {j}
  /\ UNCHANGED <<status, line, ready, pod, gone, times, groups, over, cycle>>

\* The delay has passed since the finish: that of the result line, or the
\* lastTransitionTime of the Failed condition.
Settle(j) ==
  /\ Terminal(j) /\ j \notin settled
  /\ settled' = settled \cup {j}
  /\ UNCHANGED <<status, line, ready, pods, gone, aged, groups, over, cycle>>

\* The range from the start of the run until now has more samples than Prometheus
\* gives in one answer (11,000 steps of 15 s, about 46 hours).
Age(j) ==
  /\ j \in settled \ (aged \cup gone)
  /\ aged' = aged \cup {j}
  /\ UNCHANGED <<status, line, ready, pods, gone, settled, groups, over, cycle>>

\* The history limits of the CronJob remove a finished Job with its Pod.
DeleteJob(j) ==
  /\ Terminal(j)
  /\ gone' = gone \cup {j}
  /\ pod' = pod \ {j} /\ mute' = mute \ {j}
  /\ UNCHANGED <<status, line, ready, times, groups, over, cycle>>

-----------------------------------------------------------------------------
(* The Pushgateway and the calendar. *)

\* It has no persistence file: a restart empties it.
RestartGateway ==
  /\ groups' = [g \in GroupIds |-> NoGroup]
  /\ UNCHANGED <<jobVars, over, cycle>>

PassEndDate ==
  /\ over' = TRUE
  /\ UNCHANGED <<jobVars, groups, cycle>>

-----------------------------------------------------------------------------
(* The Collector. *)

\* What the loop keeps of a listed Job: its name and whether it failed.
Entry(j) == [job |-> j, failed |-> status[j] = "failed"]

\* main() up to the list of Jobs.
StartCycle ==
  /\ position = 0
  /\ ~over
  /\ listed' = {Entry(j) : j \in {k \in Jobs : Terminal(k)}}
  /\ position' = 1
  /\ UNCHANGED <<jobVars, groups, over>>

Current == JobList[position]
InLoop == position \in DOMAIN JobList
Advance == position' = position + 1 /\ UNCHANGED listed

\* Jobs that were neither succeeded nor failed when they were listed.
SkipActive ==
  /\ InLoop
  /\ \A e \in listed : e.job # Current
  /\ Advance
  /\ UNCHANGED <<jobVars, groups, over>>

\* The request for the log raises; so does that for the nodes since the start.
LogRefused(e) == e.job \in mute
RangeRefused(e) == e.job \in aged

\* result_from_log on the log of the newest Pod, None without one.
LogResult(j) == IF j \in pod THEN line[j] ELSE NoLine

MutantSynthetic(e) == LogResult(e.job) = NoLine

\* Without a result line, a result is made up for a failed Job only.
Synthetic(e) == LogResult(e.job) = NoLine /\ e.failed

MissingLog(e) == LogResult(e.job) = NoLine /\ ~Synthetic(e)

ResultOf(e) == IF Synthetic(e) THEN FailedJobResult(COUNT) ELSE LogResult(e.job)

MutantIsDue(e) == e.job \in settled /\ ~Synthetic(e)

IsDue(e) == e.job \in settled

\* The Job is passed over: its log is missing, or the delay is not over.
SkipListed ==
  /\ InLoop
  /\ \E e \in listed : /\ e.job = Current /\ ~LogRefused(e)
                       /\ MissingLog(e) \/ ~IsDue(e)
  /\ Advance
  /\ UNCHANGED <<jobVars, groups, over>>

MutantValid(e, evidence) == FunctionalSuccess(ResultOf(e)) /\ evidence

\* run_info; `evidence` stands for metrics_complete = 1 and deployment_changed = 0.
Valid(e, evidence) == /\ FunctionalSuccess(ResultOf(e))
                      /\ evidence
                      /\ ~(e.failed \/ Synthetic(e))

\* collect and push, with whatever evidence Prometheus has in this cycle.
Publish ==
  /\ InLoop
  /\ \E e \in listed, evidence \in BOOLEAN :
       /\ e.job = Current /\ ~LogRefused(e)
       /\ ~MissingLog(e) /\ IsDue(e) /\ ~RangeRefused(e)
       /\ Replace(IF Synthetic(e) THEN SyntheticId(e.job) ELSE RunId(e.job),
                  [job        |-> e.job,
                   by         |-> IF Synthetic(e) THEN "synthetic" ELSE "collector",
                   functional |-> FunctionalSuccess(ResultOf(e)),
                   info       |-> Valid(e, evidence)])
  /\ Advance
  /\ UNCHANGED <<jobVars, over>>

EndCycle ==
  /\ position > Len(JobList)
  /\ position' = 0 /\ listed' = {}
  /\ UNCHANGED <<jobVars, groups, over>>

\* A request raises, as every refused one does, or the Job's deadline ends the Pod:
\* the rest of the list waits for the next cycle, which begins with the first Job.
AbortCycle ==
  /\ position > 0
  /\ position' = 0 /\ listed' = {}
  /\ UNCHANGED <<jobVars, groups, over>>

-----------------------------------------------------------------------------
JobStep(j) == \/ \E i \in Index : BecomeReady(j, i)
              \/ PushProgress(j) \/ Report(j) \/ Succeed(j) \/ Fail(j)
              \/ LosePod(j) \/ MuteLog(j) \/ Settle(j) \/ Age(j) \/ DeleteJob(j)

Handle == SkipActive \/ SkipListed \/ Publish \/ EndCycle

Next == \/ \E j \in Jobs : JobStep(j)
        \/ RestartGateway \/ PassEndDate
        \/ StartCycle \/ Handle \/ AbortCycle

Spec == Init /\ [][Next]_vars

\* The CronJob starts cycle after cycle, and its deadline ends each.  Time passes for
\* every finished run.  A request that is not refused (the actions are not enabled
\* while it is) may fail, but is answered in one of the cycles that make it.
Fairness == /\ WF_vars(StartCycle)
            /\ \A k \in DOMAIN JobList :
                 SF_vars(position = k /\ (SkipActive \/ SkipListed \/ Publish))
            /\ WF_vars(EndCycle)
            /\ WF_vars(AbortCycle)
            /\ \A j \in Jobs : WF_vars(Settle(j))

FairSpec == Spec /\ Fairness
-----------------------------------------------------------------------------
(* Properties. *)

Collected(g) == groups[g] # NoGroup /\ groups[g].by \in {"collector", "synthetic"}

\* A run that counts as a FinOps sample really did its work: its Job succeeded,
\* and each of its tracks is READY in the service, whatever was lost, deleted or
\* restarted between the Runner's result and the gauge.
InfoMeansAllReady ==
  \A g \in GroupIds :
    groups[g] # NoGroup /\ groups[g].info =>
      status[groups[g].job] = "succeeded" /\ ready[groups[g].job] = Index

\* Nothing but a restart of the Pushgateway takes the functional success of a
\* succeeded run back: not the loss of its Pod or of its Job, and no later push.
SuccessIsKept ==
  [][\A g \in GroupIds :
       /\ groups[g] # NoGroup /\ groups[g].functional
       /\ status[groups[g].job] = "succeeded"
       /\ groups'[g] # NoGroup
       => groups'[g].functional /\ groups'[g].job = groups[g].job]_groups

Reported(j) == \E g \in GroupIds : Collected(g) /\ groups[g].job = j
OutOfReach(j) == \/ status[j] = "active"
                 \/ j \in gone
                 \/ status[j] = "succeeded" /\ LogResult(j) = NoLine

\* Of a kept Job, its log or, with a result, the range of its nodes is refused.
Refused(j) == Terminal(j) /\ (j \in mute \/ (j \in aged /\ ~OutOfReach(j)))

\* Until the end of the experiment, a finished run that is kept and has a log, or
\* failed, is reported again and again, so that a restart of the Pushgateway or an
\* aborted cycle costs no result -- as long as nothing is refused of its Job or of
\* a Job before it in the list: main() catches no exception, so that each cycle
\* ends at the first Job of which something is refused, and no run after it is
\* collected.  Without the last disjunct the property is violated.
ResultsReported ==
  \A k \in DOMAIN JobList :
    []<>(\/ over \/ OutOfReach(JobList[k]) \/ Reported(JobList[k])
         \/ \E i \in 1 .. k : Refused(JobList[i]))

\* Every Job behaves as the Runner promises.
LoadJob(j) == INSTANCE LoadRun WITH job <- status[j], line <- line[j], ready <- ready[j]
JobsAreLoadRuns == /\ \A j \in Jobs : LoadJob(j)!Init
                   /\ [][\A j \in Jobs : [LoadJob(j)!Next]_(LoadJob(j)!vars)]_jobVars
=============================================================================
