----------------------------- MODULE LoadRunner -----------------------------
(***************************************************************************)
(* One execution of runner.py: the main thread, the upload pool, the       *)
(* tracker pool that polls each track until it is terminal, the progress   *)
(* PUTs to the Pushgateway, and the end of the Job by exit, traceback or   *)
(* kill.  The audio service is the environment: `audio` is its truth about *)
(* each track, which the Runner sees only through its requests.            *)
(***************************************************************************)
EXTENDS RunResult, FiniteSets, Sequences

CONSTANTS LOAD_COUNT,        \* environment LOAD_COUNT
          MAX_COUNT,         \* the safety cap on it (200)
          LOAD_CONCURRENCY,  \* environment LOAD_CONCURRENCY
          MAX_WORKERS,       \* the cap on either thread pool (20)
          INTERVAL           \* TRUE iff LOAD_INTERVAL_SECONDS is not zero

ASSUME RunnerConstants == /\ LOAD_COUNT \in Nat
                          /\ MAX_COUNT \in Nat
                          /\ LOAD_CONCURRENCY \in Nat \ {0}
                          /\ MAX_WORKERS \in Nat \ {0}
                          /\ INTERVAL \in BOOLEAN

Least(a, b) == IF a <= b THEN a ELSE b

COUNT == Least(LOAD_COUNT, MAX_COUNT)
Index == 0 .. COUNT - 1
CONCURRENCY == Least(LOAD_CONCURRENCY, MAX_WORKERS)
Trackers == Least(IF COUNT = 0 THEN 1 ELSE COUNT, MAX_WORKERS)

NoLine  == [requested |-> "no result line"]
NoGroup == [submitted |-> "no group"]
NoStatus == "no status"

Gauge == [submitted : Nat, ready : Nat, failed : Nat]

\* upload_one: waiting in the pool, its three requests, and the future's
\* outcome until main() takes it.
UploadState == {"queued", "create", "put", "complete", "item", "raised", "handled"}
\* poll_ready: no future, waiting in the pool, polling, the future's outcome.
TrackState == {"none", "pending", "polling", "done", "raised", "handled"}
\* The service's view of a track.
AudioState == {"none", "session", "stored", "accepted"} \cup TerminalStatus
Stage == {"upload", "tracking"}

VARIABLES
  pc,           \* main(): "start", "running", "printed", "exit0", "exit1", "killed"
  up,           \* up[i]: the state of upload_one(i)
  track,        \* track[i]: the state of poll_ready for track i
  waiting,      \* the tracker pool's work queue
  final,        \* final[i]: final_status of the item
  expired,      \* the tracks whose READY_TIMEOUT has run out
  items,        \* main()'s list of terminal items
  errors,       \* main()'s list of errors, as <<index, stage>>
  submitted,    \* main()'s counters
  ready_count,
  failed_count,
  audio,        \* the service's state of each track
  gauge,        \* the run's group in the Pushgateway
  line          \* the FINOPS_RUN_RESULT line

mainVars == <<items, errors, submitted, ready_count, failed_count>>
vars == <<pc, up, track, waiting, final, expired, mainVars, audio, gauge, line>>

TypeOK ==
  /\ pc \in {"start", "running", "printed", "exit0", "exit1", "killed"}
  /\ up \in [Index -> UploadState]
  /\ track \in [Index -> TrackState]
  /\ waiting \in Seq(Index)
  /\ final \in [Index -> FinalStatus \cup {NoStatus}]
  /\ expired \subseteq Index
  /\ items \subseteq Index
  /\ errors \subseteq Index \X Stage
  /\ submitted \in Nat /\ ready_count \in Nat /\ failed_count \in Nat
  /\ audio \in [Index -> AudioState]
  /\ gauge \in Gauge \cup {NoGroup}
  /\ line \in Result \cup {NoLine}

Init ==
  /\ pc = "start"
  /\ up = [i \in Index |-> "queued"]
  /\ track = [i \in Index |-> "none"]
  /\ waiting = <<>>
  /\ final = [i \in Index |-> NoStatus]
  /\ expired = {}
  /\ items = {} /\ errors = {}
  /\ submitted = 0 /\ ready_count = 0 /\ failed_count = 0
  /\ audio = [i \in Index |-> "none"]
  /\ gauge = NoGroup
  /\ line = NoLine

Ended == pc \in {"exit0", "exit1", "killed"}

-----------------------------------------------------------------------------
(* Pushgateway. *)

MutantProgress(s, r, f) == [submitted |-> s, ready |-> r, failed |-> s - r]

Progress(s, r, f) == [submitted |-> s, ready |-> r, failed |-> f]

\* push_progress returns: the PUT replaced the run's group.
PushOk(g) == gauge' = g
\* push_progress raises: the gateway refused the PUT, or took it and the
\* answer was lost.
PushRaises(g) == gauge' \in {gauge, g}

-----------------------------------------------------------------------------
(* main(), before the pools exist. *)

\* TODAY > END_DATE: exit code 0 and no result line.
SkipEndDate ==
  /\ pc = "start"
  /\ pc' = "exit0"
  /\ UNCHANGED <<up, track, waiting, final, expired, mainVars, audio, gauge, line>>

\* The first push_progress is outside every try: if it raises, main() does.
Start ==
  /\ pc = "start"
  /\ \/ PushOk(Progress(0, 0, 0)) /\ pc' = "running"
     \/ PushRaises(Progress(0, 0, 0)) /\ pc' = "exit1"
  /\ UNCHANGED <<up, track, waiting, final, expired, mainVars, audio, line>>

-----------------------------------------------------------------------------
(* upload_one, on a thread of the pool, or on the main thread if INTERVAL. *)

InUpload == {i \in Index : up[i] \in {"create", "put", "complete"}}

\* Indices start in order.  With INTERVAL the main thread uploads one track and
\* deals with its outcome before the next; else the pool's size is the limit.
StartUpload(i) ==
  /\ pc = "running"
  /\ up[i] = "queued"
  /\ \A j \in Index : j < i => up[j] # "queued"
  /\ IF INTERVAL THEN \A j \in Index : j < i => up[j] = "handled"
                 ELSE Cardinality(InUpload) < CONCURRENCY
  /\ up' = [up EXCEPT ![i] = "create"]
  /\ UNCHANGED <<pc, track, waiting, final, expired, mainVars, audio, gauge, line>>

\* One request of upload_one: it succeeds, or it raises with the service having
\* carried it out or not (the token, the request or only the answer failed).
UploadRequest(i, from, to, effect) ==
  /\ pc = "running"
  /\ up[i] = from
  /\ \/ /\ up' = [up EXCEPT ![i] = to]
        /\ audio' = [audio EXCEPT ![i] = effect]
     \/ /\ up' = [up EXCEPT ![i] = "raised"]
        /\ \/ audio' = [audio EXCEPT ![i] = effect]
           \/ UNCHANGED audio
  /\ UNCHANGED <<pc, track, waiting, final, expired, mainVars, gauge, line>>

CreateSession(i) == UploadRequest(i, "create", "put", "session")
PutObject(i)     == UploadRequest(i, "put", "complete", "stored")
Complete(i)      == UploadRequest(i, "complete", "item", "accepted")

\* main() takes a finished upload: the tracker is submitted and counted before
\* the push, and all of it is one try, so a push that raises leaves the track
\* both tracked and recorded as an upload error.
TakeItem(i) ==
  /\ pc = "running"
  /\ up[i] = "item"
  /\ up' = [up EXCEPT ![i] = "handled"]
  /\ track' = [track EXCEPT ![i] = "pending"]
  /\ waiting' = Append(waiting, i)
  /\ submitted' = submitted + 1
  /\ LET g == Progress(submitted + 1, ready_count, failed_count)
     IN \/ PushOk(g) /\ UNCHANGED errors
        \/ PushRaises(g) /\ errors' = errors \cup {<<i, "upload">>}
  /\ UNCHANGED <<pc, final, expired, items, ready_count, failed_count, audio, line>>

MutantTakeUploadError(i) ==
  /\ pc = "running"
  /\ up[i] = "raised"
  /\ up' = [up EXCEPT ![i] = "handled"]
  /\ UNCHANGED <<errors, pc, track, waiting, final, expired, items, submitted,
                 ready_count, failed_count, audio, gauge, line>>

TakeUploadError(i) ==
  /\ pc = "running"
  /\ up[i] = "raised"
  /\ up' = [up EXCEPT ![i] = "handled"]
  /\ errors' = errors \cup {<<i, "upload">>}
  /\ UNCHANGED <<pc, track, waiting, final, expired, items, submitted,
                 ready_count, failed_count, audio, gauge, line>>

-----------------------------------------------------------------------------
(* poll_ready, on a thread of the tracker pool. *)

Polling == {i \in Index : track[i] = "polling"}

\* A free tracker thread takes the oldest future.
StartTracker(i) ==
  /\ pc = "running"
  /\ waiting # <<>> /\ i = Head(waiting) /\ track[i] = "pending"
  /\ Cardinality(Polling) < Trackers
  /\ waiting' = Tail(waiting)
  /\ track' = [track EXCEPT ![i] = "polling"]
  /\ UNCHANGED <<pc, up, final, expired, mainVars, audio, gauge, line>>

MutantPollAnyStatus(i) ==
  /\ pc = "running"
  /\ track[i] = "polling" /\ i \notin expired
  /\ final' = [final EXCEPT ![i] = audio[i]]
  /\ track' = [track EXCEPT ![i] = "done"]
  /\ UNCHANGED <<pc, up, waiting, expired, mainVars, audio, gauge, line>>

MutantPollNotFailed(i) ==
  /\ pc = "running"
  /\ track[i] = "polling" /\ i \notin expired
  /\ final' = [final EXCEPT ![i] = IF audio[i] \in {"FAILED", "REJECTED"} THEN audio[i] ELSE "READY"]
  /\ track' = [track EXCEPT ![i] = "done"]
  /\ UNCHANGED <<pc, up, waiting, expired, mainVars, audio, gauge, line>>

\* A GET that sees a terminal status ends the poll.  One that sees another
\* status sleeps and changes nothing, so it is no step here.
PollTerminal(i) ==
  /\ pc = "running"
  /\ track[i] = "polling" /\ i \notin expired
  /\ audio[i] \in TerminalStatus
  /\ final' = [final EXCEPT ![i] = audio[i]]
  /\ track' = [track EXCEPT ![i] = "done"]
  /\ UNCHANGED <<pc, up, waiting, expired, mainVars, audio, gauge, line>>

\* A GET, or the token for it, raises: the tracker gives up on the track.
PollRaises(i) ==
  /\ pc = "running"
  /\ track[i] = "polling" /\ i \notin expired
  /\ track' = [track EXCEPT ![i] = "raised"]
  /\ UNCHANGED <<pc, up, waiting, final, expired, mainVars, audio, gauge, line>>

MutantPollTimeout(i) ==
  /\ pc = "running"
  /\ track[i] = "polling" /\ i \in expired
  /\ audio[i] \in TerminalStatus
  /\ final' = [final EXCEPT ![i] = "TIMEOUT"]
  /\ track' = [track EXCEPT ![i] = "done"]
  /\ UNCHANGED <<pc, up, waiting, expired, mainVars, audio, gauge, line>>

\* The deadline, which runs from the end of the upload and not from the start
\* of the tracker, has passed: no further GET is made.
PollTimeout(i) ==
  /\ pc = "running"
  /\ track[i] = "polling" /\ i \in expired
  /\ final' = [final EXCEPT ![i] = "TIMEOUT"]
  /\ track' = [track EXCEPT ![i] = "done"]
  /\ UNCHANGED <<pc, up, waiting, expired, mainVars, audio, gauge, line>>

\* READY_TIMEOUT seconds have passed since upload_one returned.
Expire(i) ==
  /\ pc = "running"
  /\ up[i] = "item" \/ track[i] # "none"
  /\ i \notin expired
  /\ expired' = expired \cup {i}
  /\ UNCHANGED <<pc, up, track, waiting, final, mainVars, audio, gauge, line>>

-----------------------------------------------------------------------------
(* main(), the loop over the trackers, the result and the exit. *)

UploadsTaken == pc = "running" /\ \A i \in Index : up[i] = "handled"
Tracked == {i \in Index : track[i] # "none"}

\* A finished tracker is an item and is counted before the push; a push that
\* raises adds a tracking error for a track that is already in items.
TakeTerminal(i) ==
  /\ UploadsTaken
  /\ track[i] = "done"
  /\ track' = [track EXCEPT ![i] = "handled"]
  /\ items' = items \cup {i}
  /\ IF final[i] = "READY"
     THEN ready_count' = ready_count + 1 /\ UNCHANGED failed_count
     ELSE failed_count' = failed_count + 1 /\ UNCHANGED ready_count
  /\ LET g == Progress(submitted, ready_count', failed_count')
     IN \/ PushOk(g) /\ UNCHANGED errors
        \/ PushRaises(g) /\ errors' = errors \cup {<<i, "tracking">>}
  /\ UNCHANGED <<pc, up, waiting, final, expired, submitted, audio, line>>

TakeTrackingError(i) ==
  /\ UploadsTaken
  /\ track[i] = "raised"
  /\ track' = [track EXCEPT ![i] = "handled"]
  /\ errors' = errors \cup {<<i, "tracking">>}
  /\ UNCHANGED <<pc, up, waiting, final, expired, items, submitted,
                 ready_count, failed_count, audio, gauge, line>>

Count(s) == Cardinality({i \in items : final[i] = s})

ResultLine == [requested     |-> COUNT,
               submitted     |-> Cardinality(Tracked),
               upload_errors |-> Cardinality(errors),
               status_counts |-> [s \in StatusKey |-> Count(s)]]

MutantAllTaken == UploadsTaken

AllTaken == UploadsTaken /\ \A i \in Tracked : track[i] = "handled"

PrintResult ==
  /\ AllTaken
  /\ line' = ResultLine
  /\ pc' = "printed"
  /\ UNCHANGED <<up, track, waiting, final, expired, mainVars, audio, gauge>>

Exit ==
  /\ pc = "printed"
  /\ pc' = IF ExitClean(line) THEN "exit0" ELSE "exit1"
  /\ UNCHANGED <<up, track, waiting, final, expired, mainVars, audio, gauge, line>>

\* The Job's activeDeadlineSeconds, an eviction or a lost node ends the process
\* between any two steps, also between the result line and the exit.
Kill ==
  /\ ~Ended
  /\ pc' = "killed"
  /\ UNCHANGED <<up, track, waiting, final, expired, mainVars, audio, gauge, line>>

-----------------------------------------------------------------------------
(* The audio service, which goes on after the Runner has ended. *)

Transcode(i) ==
  /\ audio[i] = "accepted"
  /\ \E s \in TerminalStatus : audio' = [audio EXCEPT ![i] = s]
  /\ UNCHANGED <<pc, up, track, waiting, final, expired, mainVars, gauge, line>>

-----------------------------------------------------------------------------
Upload(i) == StartUpload(i) \/ CreateSession(i) \/ PutObject(i) \/ Complete(i)
Poll(i)   == StartTracker(i) \/ PollTerminal(i) \/ PollRaises(i) \/ PollTimeout(i)
Take(i)   == TakeItem(i) \/ TakeUploadError(i) \/ TakeTerminal(i) \/ TakeTrackingError(i)

Next == \/ SkipEndDate \/ Start \/ PrintResult \/ Exit \/ Kill
        \/ \E i \in Index : Upload(i) \/ Poll(i) \/ Take(i) \/ Expire(i) \/ Transcode(i)

Spec == Init /\ [][Next]_vars

\* The interpreter runs every runnable thread and every urlopen has a timeout;
\* nothing is assumed of the service, whose tracks may never be terminal.
Fairness == /\ WF_vars(SkipEndDate \/ Start \/ PrintResult \/ Exit)
            /\ \A i \in Index : /\ WF_vars(Upload(i))
                                /\ WF_vars(Poll(i))
                                /\ WF_vars(Take(i))
                                /\ WF_vars(Expire(i))

FairSpec == Spec /\ Fairness
-----------------------------------------------------------------------------
(* Properties. *)

\* No track is silently lost: when the result is printed, every requested
\* track has either a final status in it or an entry in errors, whatever
\* failed in whichever thread (runner.py main, the two as_completed loops).
EveryRequestAccounted ==
  line # NoLine =>
    \A i \in Index : i \in items \/ \E s \in Stage : <<i, s>> \in errors

\* Exit code 0 after a result speaks for the service and not only for the
\* Runner's own bookkeeping: each requested track is READY there.
CleanExitMeansReady ==
  pc = "exit0" /\ line # NoLine => \A i \in Index : audio[i] = "READY"

\* The two programs that judge a run agree on every line the Runner prints:
\* the Job's exit code and the Collector's functional_success.
VerdictsAgree ==
  line # NoLine => (ExitClean(line) <=> FunctionalSuccess(line))

\* The progress published during the run never claims more than has happened:
\* no READY the service does not have, no submission the service has not
\* accepted, no terminal track that was not submitted.
ProgressSound ==
  gauge # NoGroup =>
    /\ gauge.ready + gauge.failed <= gauge.submitted
    /\ gauge.ready <= Cardinality({i \in Index : audio[i] = "READY"})
    /\ gauge.submitted <=
         Cardinality({i \in Index : audio[i] \in {"accepted"} \cup TerminalStatus})

\* Every PUT replaces the whole group, so a dashboard that reads it must not
\* see a run go backwards, although any of the PUTs may fail.
ProgressMonotone ==
  [][gauge # NoGroup => /\ gauge'.submitted >= gauge.submitted
                        /\ gauge'.ready >= gauge.ready
                        /\ gauge'.failed >= gauge.failed]_gauge

\* Every run ends by itself, whatever the service does with the tracks: the
\* READY_TIMEOUT bounds each poll and no pool waits on the other.
RunEnds == <>Ended

\* The run as the rest of the system sees it.
JobState == IF pc = "exit0" THEN "succeeded"
            ELSE IF pc \in {"exit1", "killed"} THEN "failed" ELSE "active"
ReadyTracks == {i \in Index : audio[i] = "READY"}

Run == INSTANCE LoadRun WITH job <- JobState, ready <- ReadyTracks

\* Every behaviour of the Runner is one LoadRun allows.
ImplementsLoadRun == Run!Spec
=============================================================================
