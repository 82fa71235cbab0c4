---------------------------- MODULE PolicyFeedback ----------------------------
(***************************************************************************)
(* A pull request: every push cancels the check of the commit before it,   *)
(* and every check that ends, also one that was cancelled, starts a        *)
(* feedback of its own, which sets or removes the violation label and      *)
(* writes the comment.  Feedbacks run in any order and at the same time.   *)
(***************************************************************************)
EXTENDS ResourcePolicy

CONSTANTS Commits, \* what may be pushed
          PUSHES   \* bound on the pushes of the pull request

Sources == [repo : STRING, path : STRING, revision : STRING, values : SUBSET STRING,
            chart : BOOLEAN, ref : BOOLEAN]
Applications == [name : STRING, namespace : STRING, sources : Seq(Sources)]

ASSUME CommitsAreYaml == \A c \in Commits : c.applications \in Seq(Applications)

VARIABLES
  commit,     \* the newest commit
  due,        \* history: what the check of the newest commit has to say
  conclusion, \* the conclusion of each run of the check; "error" is a failure of
              \* the runner or the network, which GitHub reports as a failure
  step,       \* the next step of the feedback of each run
  found,      \* the comment that feedback found, or 0
  label,      \* whether the pull request has the label finops-policy-violation
  comments,   \* the bodies of the comments
  labelled,   \* history: the run whose feedback last changed the label, or 0
  overlapped  \* history: whether a feedback listed the comments during another

vars == <<commit, due, conclusion, step, found, label, comments, labelled, overlapped>>

Runs == DOMAIN conclusion
Newest == Len(conclusion)

\* Nothing is asked about a commit for which the renderer was not made.
Due(c) == IF ~Distinct(c) THEN "open" ELSE IF Complies(c) THEN "success" ELSE "violation"

Init == /\ commit \in Commits /\ due = Due(commit)
        /\ conclusion = <<"running">> /\ step = <<"none">> /\ found = <<0>>
        /\ label = FALSE /\ comments = <<>> /\ labelled = 0 /\ overlapped = FALSE

-----------------------------------------------------------------------------
(* The check; its runs are in one concurrency group, with cancel-in-progress. *)

Push == /\ Newest < PUSHES
        /\ commit' \in Commits /\ due' = Due(commit')
        /\ LET cancels == conclusion[Newest] = "running" IN
             /\ conclusion' = Append(IF cancels THEN [conclusion EXCEPT ![Newest] = "cancelled"]
                                     ELSE conclusion, "running")
             /\ step' = Append(IF cancels THEN [step EXCEPT ![Newest] = "list"] ELSE step,
                               "none")
        /\ found' = Append(found, 0)
        /\ UNCHANGED <<label, comments, labelled, overlapped>>

Conclude(result) == /\ conclusion[Newest] = "running"
                    /\ conclusion' = [conclusion EXCEPT ![Newest] = result]
                    /\ step' = [step EXCEPT ![Newest] = "list"]
                    /\ UNCHANGED <<commit, due, found, label, comments, labelled, overlapped>>

Check == Conclude(IF Passes(commit) THEN "success" ELSE "failure")
Break == Conclude("error")
End == \E result \in {"success", "failure", "error"} : Conclude(result)

-----------------------------------------------------------------------------
(* The feedback of run i. *)

MutantBody(i) == [passed |-> conclusion[i] = "success", marked |-> conclusion[i] # "success"]
Body(i) == [passed |-> conclusion[i] = "success", marked |-> TRUE]

\* The last comment with the marker.
Marked == {c \in DOMAIN comments : comments[c].marked}

ListComments(i) ==
  /\ step[i] = "list"
  /\ step' = [step EXCEPT ![i] = "label"]
  /\ found' = [found EXCEPT ![i] = Max(Marked \cup {0})]
  /\ overlapped' = (overlapped \/ \E j \in Runs : step[j] \in {"label", "comment"})
  /\ UNCHANGED <<commit, due, conclusion, label, comments, labelled>>

Violation(i) == conclusion[i] # "success"

\* DELETE or POST of the label.
ChangeLabel(i) == /\ step[i] = "label"
                  /\ step' = [step EXCEPT ![i] = "comment"]
                  /\ label' = Violation(i)
                  /\ labelled' = i
                  /\ UNCHANGED <<commit, due, conclusion, found, comments, overlapped>>

\* The DELETE fails: `|| true`.
KeepLabel(i) == /\ step[i] = "label" /\ ~Violation(i)
                /\ step' = [step EXCEPT ![i] = "comment"]
                /\ UNCHANGED <<commit, due, conclusion, found, label, comments, labelled, overlapped>>

\* PATCH or POST of the comment; a success without a comment writes none.
WriteComment(i) ==
  /\ step[i] = "comment"
  /\ step' = [step EXCEPT ![i] = "ended"]
  /\ comments' = CASE found[i] # 0 -> [comments EXCEPT ![found[i]] = Body(i)]
                   [] found[i] = 0 /\ Violation(i) -> Append(comments, Body(i))
                   [] OTHER -> comments
  /\ UNCHANGED <<commit, due, conclusion, found, label, labelled, overlapped>>

\* Another call fails, or the five minutes are over.  A call that was carried out
\* and not answered is this step after the call's.
GiveUp(i) == /\ step[i] \in {"list", "label", "comment"}
             /\ step' = [step EXCEPT ![i] = "dead"]
             /\ UNCHANGED <<commit, due, conclusion, found, label, comments, labelled, overlapped>>

Feedback(i) == ListComments(i) \/ ChangeLabel(i) \/ WriteComment(i)

Next == \/ Push \/ Check \/ Break
        \/ \E i \in Runs : Feedback(i) \/ KeepLabel(i) \/ GiveUp(i)

\* GitHub runs what is queued: the check, which ends, and the next step of a feedback, which
\* succeeds or ends it.
Spec == /\ Init /\ [][Next]_vars
        /\ WF_vars(End)
        /\ \A i \in 1 .. PUSHES : WF_vars(i \in Runs /\ Feedback(i))
-----------------------------------------------------------------------------
(* Properties. *)

\* The label says whether the newest commit complies, once its feedback has ended
\* as the last that changed the label: the sources that the renderer drops or
\* takes from a clone it has, the runs that were cancelled and the feedbacks before
\* leave no trace, whatever they did.
LabelIsTheCommit ==
  (/\ step[Newest] = "ended" /\ labelled = Newest
   /\ conclusion[Newest] # "error" /\ due # "open")
  => (label <=> due = "violation")

\* A pull request has one comment of the feedback, however often it is written,
\* unless two feedbacks ran at the same time.
OneComment == Len(comments) > 1 => overlapped

\* A commit that does not comply is labelled, unless a newer one is pushed, its
\* feedback gives up, or an older feedback removes the label after it.
ViolationIsLabelled ==
  \A n \in 1 .. PUSHES :
    (Newest = n /\ due = "violation")
      ~> (label \/ Newest # n \/ step[n] = "dead" \/ (step[n] = "ended" /\ labelled # n))
=============================================================================
