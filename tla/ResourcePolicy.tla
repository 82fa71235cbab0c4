---------------------------- MODULE ResourcePolicy ----------------------------
(***************************************************************************)
(* The check of one commit: render_finops_targets.py renders the sources   *)
(* of the Argo CD Applications of the managed namespaces, Kyverno applies  *)
(* the policy of the commit to what was rendered, and then to one Pod that *)
(* it has to reject.                                                       *)
(***************************************************************************)
EXTENDS Naturals, SequencesExt

CONSTANTS MANAGED_NAMESPACES, \* the script's; the policy has a list of its own
          REPOSITORY,         \* REPOSITORY_URL, this repository
          Released,           \* <<repository, path, revision>> that can be fetched
          Helm(_, _)          \* Helm(release, settings), what `helm template` renders

\* A commit is a record: its Applications in the order of their files, the
\* documents under its paths, what its value files set, and the namespaces of its
\* policy.  An Application has a name, a destination namespace and a sequence of
\* sources; a source has a repository, a revision, a set of value files, a path or
\* the name of a chart ("" if it has neither), and may be a `ref`.  A document has
\* a namespace and says whether its containers declare what the policy asks for.

\* load_applications, and the sources of those that main renders.
Targets(commit) ==
  LET applications == commit.applications
      sources(a) == IF a.namespace \in MANAGED_NAMESPACES
                    THEN [i \in DOMAIN a.sources |-> [app |-> a.name, source |-> a.sources[i]]]
                    ELSE <<>>
  IN FlattenSeq([i \in DOMAIN applications |-> sources(applications[i])])

MutantIdentity(t) == <<t.source.repo, t.source.path>>
Identity(t) == <<t.app, t.source.repo, t.source.path>>

\* What main has done so far; clones has the revision of each repository cloned.
Nothing == [seen |-> {}, clones |-> [r \in {} |-> ""], documents |-> {},
            rendered |-> 0, raised |-> FALSE]

\* A path without a manifest is left out.
MutantLocalRender(commit, done, source) ==
  IF source.path \in DOMAIN commit.files
  THEN [done EXCEPT !.documents = @ \cup commit.files[source.path], !.rendered = @ + 1]
  ELSE done

\* local_render.
LocalRender(commit, done, source) ==
  IF source.path \in DOMAIN commit.files /\ commit.files[source.path] # {}
  THEN [done EXCEPT !.documents = @ \cup commit.files[source.path], !.rendered = @ + 1]
  ELSE [done EXCEPT !.raised = TRUE]

Settings(commit, source) == {commit.values[f] : f \in source.values}

\* helm_render; a chart is fetched at its own revision, a repository is cloned once, at
\* the revision of its first source.
Clones(done, source) ==
  LET cloned == DOMAIN done.clones
  IN IF source.chart \/ source.repo \in cloned THEN done.clones
     ELSE [r \in cloned \cup {source.repo} |-> IF r \in cloned THEN done.clones[r]
                                               ELSE source.revision]

HelmRender(commit, done, source) ==
  LET clones == Clones(done, source)
      revision == IF source.chart THEN source.revision ELSE clones[source.repo]
      release == <<source.repo, source.path, revision>>
  IN IF release \in Released /\ source.values \subseteq DOMAIN commit.values
     THEN [done EXCEPT !.clones = clones, !.rendered = @ + 1,
                       !.documents = @ \cup Helm(release, Settings(commit, source))]
     ELSE [done EXCEPT !.raised = TRUE]

RenderSource(commit, done, t) ==
  LET source == t.source
      now == [done EXCEPT !.seen = @ \cup {Identity(t)}]
  IN CASE done.raised \/ source.ref \/ Identity(t) \in done.seen -> done
       [] OTHER -> IF source.path = "" THEN now
                   ELSE IF source.chart \/ source.repo # REPOSITORY
                        THEN HelmRender(commit, now, source)
                        ELSE LocalRender(commit, now, source)

\* The loop of main over the targets.
Rendering(commit) ==
  LET targets == Targets(commit)
      done[i \in 0 .. Len(targets)] ==
        IF i = 0 THEN Nothing ELSE RenderSource(commit, done[i - 1], targets[i])
  IN done

Render(commit) == Rendering(commit)[Len(Targets(commit))]

\* `kyverno apply`: whether the policy fails a document.
Rejects(policy, documents) == \E d \in documents : d.namespace \in policy /\ ~d.complete

\* verify_negative_case.sh: a Pod of the namespace apps without resources.
NegativeCase == [namespace |-> "apps", complete |-> FALSE]

\* The steps of the job, each of which has to succeed.
Passes(commit) == LET done == Render(commit)
                  IN /\ ~done.raised /\ done.rendered > 0
                     /\ ~Rejects(commit.policy, done.documents)
                     /\ Rejects(commit.policy, {NegativeCase})

-----------------------------------------------------------------------------
(* What the check promises: every source by itself, in no order. *)

Deployed(commit) == {t \in ToSet(Targets(commit)) : ~t.source.ref /\ t.source.path # ""}

Local(source) == ~source.chart /\ source.repo = REPOSITORY

Documents(commit, source) ==
  IF Local(source) THEN commit.files[source.path]
  ELSE Helm(<<source.repo, source.path, source.revision>>, Settings(commit, source))

Available(commit, source) ==
  IF Local(source)
  THEN source.path \in DOMAIN commit.files /\ commit.files[source.path] # {}
  ELSE /\ <<source.repo, source.path, source.revision>> \in Released
       /\ source.values \subseteq DOMAIN commit.values

Complies(commit) ==
  /\ Deployed(commit) # {} /\ "apps" \in commit.policy
  /\ \A t \in Deployed(commit) :
       /\ Available(commit, t.source)
       /\ ~Rejects(commit.policy, Documents(commit, t.source))

\* What the renderer relies on: an Application does not use one path twice, and
\* all paths of another repository are used at one revision.
Distinct(commit) ==
  \A t, u \in Deployed(commit) :
    /\ (t.app = u.app /\ t.source.repo = u.source.repo /\ t.source.path = u.source.path)
         => t = u
    /\ (~t.source.chart /\ ~u.source.chart /\ ~Local(t.source) /\ t.source.repo = u.source.repo)
         => t.source.revision = u.source.revision
=============================================================================
