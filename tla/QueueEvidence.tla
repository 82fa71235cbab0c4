---------------------------- MODULE QueueEvidence ----------------------------
(***************************************************************************)
(* What the Collector concludes about the transcode queue from what was    *)
(* scraped of it.  Time is counted in minutes, the step of the range       *)
(* query.  CloudWatch shows the queue LAG minutes late, a scrape may fail, *)
(* and the recording rules repeat the last sample for HOLD minutes.        *)
(* queue_metrics reads both series from the start of the run to            *)
(* COLLECTION_DELAY_SECONDS after its finish: the window START .. END.     *)
(***************************************************************************)
EXTENDS Integers, Sequences, FiniteSetsExt, Functions

CONSTANTS START, END,  \* the window of the range query
          LAG,         \* minutes by which CloudWatch is late
          HOLD,        \* minutes for which last_over_time repeats a sample
          MESSAGES,    \* bound on the messages in each part of the queue
          MISSED       \* whether scrapes of one series can fail

ASSUME EvidenceConstants == /\ START \in Nat \ {0}
                            /\ END \in Nat
                            /\ START <= END
                            /\ LAG \in Nat
                            /\ HOLD \in Nat
                            /\ MESSAGES \in Nat
                            /\ MISSED \in BOOLEAN

Missing == -1
Unknown == -1

VARIABLES queue,     \* the real visible and in-flight messages, minute by minute
          visible,   \* the scraped samples, Missing where the scrape failed
          inflight

queueVars == <<queue, visible, inflight>>

Window == START .. END
Now == Len(queue)

QueueInit == /\ queue = <<>>
             /\ visible = <<>>
             /\ inflight = <<>>

\* One scrape: the value of LAG minutes ago, or nothing.
Sample(value) == {value} \cup IF MISSED THEN {Missing} ELSE {}

Minute(now) ==
  LET seen == Append(queue, now)
      late == IF Len(seen) > LAG THEN seen[Len(seen) - LAG] ELSE [visible |-> 0, inflight |-> 0]
  IN /\ Now < END
     /\ queue' = seen
     /\ \E v \in Sample(late.visible) : visible' = Append(visible, v)
     /\ \E f \in Sample(late.inflight) : inflight' = Append(inflight, f)

QueueNext == \E v, f \in 0 .. MESSAGES : Minute([visible |-> v, inflight |-> f])

QueueSpec == QueueInit /\ [][QueueNext]_queueVars

-----------------------------------------------------------------------------
\* The recording rule: the newest sample of the last HOLD minutes.
Recorded(series, t) ==
  LET held == {u \in 1 .. t : u >= t - HOLD /\ series[u] # Missing}
  IN IF held = {} THEN Missing ELSE series[Max(held)]

Times(series) == {t \in Window : Recorded(series, t) # Missing}

LargestSample(series) == Max({Recorded(series, t) : t \in Times(series)})

\* A sample of a series at a point of the backlog, zero where it has none.
Part(series, t) == LET sample == Recorded(series, t)
                   IN IF sample = Missing THEN 0 ELSE sample

Points == Times(visible) \cup Times(inflight)

Backlog(t) == Part(visible, t) + Part(inflight, t)

\* The first point without a message, though messages may come after it.
MutantDrainedAt ==
  LET zeros == {t \in Points : Backlog(t) = 0 /\ \E s \in Points : s < t /\ Backlog(s) > 0}
  IN IF zeros = {} THEN Unknown ELSE Min(zeros)

\* The first point without a message after the last one with a message.
DrainedAt ==
  LET positive == {t \in Points : Backlog(t) > 0}
      after    == {t \in Points : positive # {} /\ \A s \in positive : s < t /\ Backlog(t) = 0}
  IN IF after = {} THEN Unknown ELSE Min(after)

NoEvidence == [visibleMax |-> Unknown, inflightMax |-> Unknown, backlogMax |-> Unknown,
               drained |-> Unknown, drainedAt |-> Unknown, activityMissing |-> 1]

MutantQueueMetrics ==
  IF Times(visible) = {} \/ Times(inflight) = {} THEN NoEvidence
  ELSE [visibleMax      |-> LargestSample(visible),
        inflightMax     |-> LargestSample(inflight),
        backlogMax      |-> Max({Backlog(t) : t \in Points}),
        drained         |-> IF Backlog(Max(Points)) = 0 THEN 1 ELSE 0,
        drainedAt       |-> DrainedAt,
        activityMissing |-> IF LargestSample(visible) = 0 THEN 1 ELSE 0]

QueueMetrics ==
  IF Times(visible) = {} \/ Times(inflight) = {} THEN NoEvidence
  ELSE LET backlogMax == Max({Backlog(t) : t \in Points})
       IN [visibleMax      |-> LargestSample(visible),
           inflightMax     |-> LargestSample(inflight),
           backlogMax      |-> backlogMax,
           drained         |-> IF Backlog(Max(Points)) = 0 THEN 1 ELSE 0,
           drainedAt       |-> DrainedAt,
           activityMissing |-> IF backlogMax = 0 THEN 1 ELSE 0]

MutantMeasurementComplete(m, burst) == ~(m.activityMissing = 1 /\ m.visibleMax > 0)

\* Burst replicas (burst_replicas_max) without queue activity: CloudWatch missed a
\* short spike.
MeasurementComplete(m, burst) == ~(m.activityMissing = 1 /\ burst > 0)

\* The part of metrics_complete that depends on the queue.
QueueComplete(m, burst) == /\ m.visibleMax # Unknown
                           /\ m.inflightMax # Unknown
                           /\ m.drained = 1
                           /\ MeasurementComplete(m, burst)

-----------------------------------------------------------------------------
\* The run is collected: its window is over.
Collected == Now = END

\* The three verdicts on the queue agree however the scrapes failed: a drain was
\* observed exactly if the queue was active and ended empty.
DrainVerdictsAgree ==
  Collected => LET m == QueueMetrics
               IN m.drainedAt # Unknown <=> m.drained = 1 /\ m.activityMissing = 0

\* A run during which KEDA started burst replicas passes as complete only with a
\* drain that was observed.
BurstNeedsDrain ==
  Collected => LET m == QueueMetrics
               IN \A burst \in 0 .. 1 : QueueComplete(m, burst) /\ burst > 0 => m.drainedAt # Unknown

\* The observed drain is an upper bound: if every scrape was answered, the queue
\* was really empty from then on, as far as the lag lets the window see.
Answered == Missing \notin Range(visible) \cup Range(inflight)
DrainIsUpperBound ==
  Collected /\ Answered =>
    LET at == QueueMetrics.drainedAt
    IN at # Unknown => \A t \in at .. END - LAG : queue[t] = [visible |-> 0, inflight |-> 0]
=============================================================================
