--------------------------- MODULE MCPolicyFeedback ---------------------------
(***************************************************************************)
(* Two Applications with all the kinds of sources, and commits in which    *)
(* the manifests, the value file, the policy or a source is good or bad.   *)
(***************************************************************************)
EXTENDS PolicyFeedback

Source(repo, path, revision, values, chart, ref) ==
  [repo |-> repo, path |-> path, revision |-> revision, values |-> values,
   chart |-> chart, ref |-> ref]

Document(namespace, complete) == [namespace |-> namespace, complete |-> complete]

Local1 == Source("own", "one", "main", {}, FALSE, FALSE)
Absent == Source("own", "gone", "main", {}, FALSE, FALSE)
Vpa1   == Source("git", "vpa", "v1", {}, FALSE, FALSE)
Vpa2   == Source("git", "vpa", "v2", {}, FALSE, FALSE)
Values == Source("own", "", "main", {}, FALSE, TRUE)
Chart1 == Source("charts", "web", "v1", {}, TRUE, FALSE)
Chart2 == Source("charts", "web", "v2", {"values"}, TRUE, FALSE)
Chart3 == Source("charts", "web", "v1", {"lost"}, TRUE, FALSE)

MCReleased == {<<"git", "vpa", "v1">>, <<"git", "vpa", "v2">>,
               <<"charts", "web", "v1">>, <<"charts", "web", "v2">>}

\* Only the first releases declare resources by themselves.
MCHelm(release, settings) ==
  {Document("apps", release[3] = "v1" \/ "resources" \in settings)}

Application(name, namespace, sources) ==
  [name |-> name, namespace |-> namespace, sources |-> sources]

Commit(first, second, namespace, complete, setting, policy) ==
  [applications |-> <<Application("a", "logging", first), Application("b", namespace, second)>>,
   files |-> "one" :> {Document("logging", complete)},
   values |-> "values" :> setting,
   policy |-> policy]

Both == {"apps", "logging"}

MCCommits ==
  {Commit(<<Chart1>>, <<Chart2, Values>>, "apps", TRUE, setting, Both) :
     setting \in {"resources", "replicas"}}
  \cup {Commit(<<Vpa1>>, second, "apps", TRUE, "replicas", Both) :
          second \in {<<Vpa1>>, <<Vpa2>>, <<Values, Local1>>, <<Chart3>>}}
  \cup {Commit(<<Local1>>, <<Absent>>, namespace, TRUE, "replicas", Both) :
          namespace \in {"apps", "kube-system"}}
  \cup {Commit(<<Local1>>, <<Values>>, "apps", complete, "replicas", policy) :
          complete \in BOOLEAN, policy \in {Both, {"apps"}, {"logging"}}}
  \cup {Commit(<<Values>>, <<Local1>>, "kube-system", TRUE, "replicas", Both)}
=============================================================================
