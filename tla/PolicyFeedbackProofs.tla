------------------------- MODULE PolicyFeedbackProofs -------------------------
(***************************************************************************)
(* The check of a commit and its feedback, for every list of Applications, *)
(* every set of releases and commits, and any number of pushes: the loop   *)
(* of the renderer finds what every source by itself would, and the label  *)
(* of the pull request is what the newest commit deserves.                 *)
(***************************************************************************)
EXTENDS PolicyFeedback, SumTheorems, SequenceTheorems

-----------------------------------------------------------------------------
(* The loop of the renderer. *)

\* Sequences one after the other are a sequence.
LEMMA FlattenType ==
  ASSUME NEW S, NEW seqs \in Seq(Seq(S))
  PROVE  FlattenSeq(seqs) \in Seq(S)
<1> DEFINE Parts(f, m) == f = [i \in 1 .. m |-> IF i = 1 THEN seqs[i] ELSE f[i - 1] \o seqs[i]]
           flatten == CHOOSE f : Parts(f, Len(seqs))
<1>1. \A m \in Nat : \E f : Parts(f, m)
  <2> DEFINE Ex(m) == \E f : Parts(f, m)
             Bad == {m \in Nat : ~Ex(m)}
  <2> SUFFICES ASSUME Bad # {} PROVE FALSE
    OBVIOUS
  <2> HIDE DEF Ex
  <2>1. PICK m \in Bad : \A k \in Bad : m <= k
    BY LeastNat
  <2>2. Ex(0)
    <3>1. Parts([i \in 1 .. 0 |-> 0], 0)
      OBVIOUS
    <3> QED BY <3>1 DEF Ex
  <2>3. m \in Nat \ {0} /\ m - 1 \notin Bad
    BY <2>1, <2>2
  <2>4. PICK g : Parts(g, m - 1)
    <3> HIDE DEF Parts
    <3>1. Ex(m - 1)
      BY <2>3
    <3> QED BY <3>1 DEF Ex
  <2> DEFINE last == IF m = 1 THEN seqs[m] ELSE g[m - 1] \o seqs[m]
             f == [i \in 1 .. m |-> IF i < m THEN g[i] ELSE last]
  <2>5. ASSUME NEW i \in 1 .. m PROVE f[i] = IF i = 1 THEN seqs[i] ELSE f[i - 1] \o seqs[i]
    <3>1. CASE i = m
      <4>1. i # 1 => f[i - 1] = g[m - 1]
        BY <2>3, <3>1
      <4> QED BY <3>1, <4>1
    <3>2. CASE i < m
      <4>1. g[i] = IF i = 1 THEN seqs[i] ELSE g[i - 1] \o seqs[i]
        <5>1. i \in 1 .. m - 1
          BY <2>3, <3>2
        <5> QED BY <2>4, <5>1
      <4>2. f[i] = g[i] /\ (i # 1 => f[i - 1] = g[i - 1])
        BY <2>3, <3>2
      <4> QED BY <4>1, <4>2
    <3> QED BY <2>3, <3>1, <3>2
  <2>6. Parts(f, m)
    BY <2>5
  <2>7. Ex(m)
    BY <2>6 DEF Ex
  <2> QED BY <2>1, <2>7
<1>2. Parts(flatten, Len(seqs))
  <2> HIDE DEF Parts
  <2>1. Len(seqs) \in Nat
    OBVIOUS
  <2>2. \E f : Parts(f, Len(seqs))
    BY <1>1, <2>1
  <2> QED BY <2>2
<1>3. \A i \in 1 .. Len(seqs) : flatten[i] \in Seq(S)
  <2> DEFINE Bad == {i \in 1 .. Len(seqs) : flatten[i] \notin Seq(S)}
  <2> SUFFICES ASSUME Bad # {} PROVE FALSE
    OBVIOUS
  <2> HIDE DEF flatten
  <2>0. Bad \in SUBSET Nat
    OBVIOUS
  <2>1. PICK i \in Bad : \A k \in Bad : i <= k
    BY <2>0, LeastNat
  <2>2. seqs[i] \in Seq(S)
    BY ElementOfSeq
  <2>3. flatten[i] = IF i = 1 THEN seqs[i] ELSE flatten[i - 1] \o seqs[i]
    BY <1>2
  <2>4. i # 1 => flatten[i - 1] \in Seq(S)
    BY <2>1
  <2>5. flatten[i] \in Seq(S)
    <3>1. CASE i = 1
      BY <2>2, <2>3, <3>1
    <3>2. CASE i # 1
      <4>1. flatten[i] = flatten[i - 1] \o seqs[i] /\ flatten[i - 1] \in Seq(S)
        BY <2>3, <2>4, <3>2
      <4> QED BY <2>2, <4>1
    <3> QED BY <3>1, <3>2
  <2> QED BY <2>5
<1>4. CASE Len(seqs) = 0
  <2>1. seqs = <<>>
    BY <1>4
  <2> QED BY <1>4, <2>1 DEF FlattenSeq
<1>5. CASE Len(seqs) # 0
  <2>1. FlattenSeq(seqs) = flatten[Len(seqs)]
    BY <1>5 DEF FlattenSeq
  <2>2. Len(seqs) \in 1 .. Len(seqs)
    BY <1>5
  <2> HIDE DEF flatten
  <2> QED BY <1>3, <2>1, <2>2
<1> QED BY <1>4, <1>5

Target == [app : STRING, source : Sources]

LEMMA TargetsType ==
  ASSUME NEW c \in Commits
  PROVE  Targets(c) \in Seq(Target)
<1> DEFINE applications == c.applications
           sources(a) == IF a.namespace \in MANAGED_NAMESPACES
                         THEN [i \in DOMAIN a.sources |-> [app |-> a.name, source |-> a.sources[i]]]
                         ELSE <<>>
<1>1. applications \in Seq(Applications)
  BY CommitsAreYaml
<1>2. ASSUME NEW a \in Applications PROVE sources(a) \in Seq(Target)
  <2>1. a.sources \in Seq(Sources) /\ a.name \in STRING
    BY DEF Applications
  <2>2. \A i \in 1 .. Len(a.sources) : a.sources[i] \in Sources
    BY <2>1, ElementOfSeq
  <2>3. [i \in DOMAIN a.sources |-> [app |-> a.name, source |-> a.sources[i]]]
          \in [1 .. Len(a.sources) -> Target]
    BY <2>1, <2>2 DEF Target
  <2>4. Len(a.sources) \in Nat
    BY <2>1
  <2>5. <<>> \in Seq(Target)
    OBVIOUS
  <2>6. \A f : f \in [1 .. Len(a.sources) -> Target] => f \in Seq(Target)
    BY <2>4, SeqDef
  <2>7. [i \in DOMAIN a.sources |-> [app |-> a.name, source |-> a.sources[i]]] \in Seq(Target)
    BY <2>3, <2>6
  <2> QED BY <2>5, <2>7
<1>3. [i \in DOMAIN applications |-> sources(applications[i])] \in Seq(Seq(Target))
  <2>1. \A i \in 1 .. Len(applications) : sources(applications[i]) \in Seq(Target)
    <3> HIDE DEF applications, sources
    <3> QED BY <1>1, <1>2, ElementOfSeq
  <2> HIDE DEF sources, applications
  <2>2. [i \in DOMAIN applications |-> sources(applications[i])]
          \in [1 .. Len(applications) -> Seq(Target)]
    BY <1>1, <2>1
  <2> QED BY <1>1, <2>2, SeqDef
<1> QED BY <1>3, FlattenType DEF Targets

\* The loop goes over the targets one by one.
LEMMA RenderingSteps ==
  ASSUME NEW c \in Commits
  PROVE  /\ Rendering(c)[0] = Nothing
         /\ \A i \in 1 .. Len(Targets(c)) :
              Rendering(c)[i] = RenderSource(c, Rendering(c)[i - 1], Targets(c)[i])
<1> DEFINE T == Targets(c)
           Steps(f, m) == f = [i \in 0 .. m |-> IF i = 0 THEN Nothing
                                                ELSE RenderSource(c, f[i - 1], T[i])]
           done == CHOOSE f : Steps(f, Len(T))
<1>0. Len(T) \in Nat
  BY TargetsType
<1> HIDE DEF T
<1>1. \A m \in Nat : \E f : Steps(f, m)
  <2> DEFINE Ex(m) == \E f : Steps(f, m)
             Bad == {m \in Nat : ~Ex(m)}
  <2> SUFFICES ASSUME Bad # {} PROVE FALSE
    OBVIOUS
  <2> HIDE DEF Ex
  <2>1. PICK m \in Bad : \A k \in Bad : m <= k
    BY LeastNat
  <2>2. Ex(0)
    <3>1. \A i \in 0 .. 0 : i = 0
      OBVIOUS
    <3>2. Steps([i \in 0 .. 0 |-> Nothing], 0)
      BY <3>1
    <3> QED BY <3>2 DEF Ex
  <2>3. m \in Nat \ {0} /\ m - 1 \notin Bad
    BY <2>1, <2>2
  <2>4. PICK g : Steps(g, m - 1)
    <3> HIDE DEF Steps
    <3>1. Ex(m - 1)
      BY <2>3
    <3> QED BY <3>1 DEF Ex
  <2> DEFINE f == [i \in 0 .. m |-> IF i < m THEN g[i] ELSE RenderSource(c, g[m - 1], T[m])]
  <2>5. ASSUME NEW i \in 0 .. m
        PROVE  f[i] = IF i = 0 THEN Nothing ELSE RenderSource(c, f[i - 1], T[i])
    <3>1. CASE i = m
      <4>1. f[i - 1] = g[m - 1]
        BY <2>3, <3>1
      <4> QED BY <2>3, <3>1, <4>1
    <3>2. CASE i < m
      <4>1. g[i] = IF i = 0 THEN Nothing ELSE RenderSource(c, g[i - 1], T[i])
        <5>1. i \in 0 .. m - 1
          BY <2>3, <3>2
        <5> QED BY <2>4, <5>1
      <4>2. f[i] = g[i] /\ (i # 0 => f[i - 1] = g[i - 1])
        BY <2>3, <3>2
      <4> QED BY <4>1, <4>2
    <3> QED BY <2>3, <3>1, <3>2
  <2>6. Steps(f, m)
    BY <2>5
  <2>7. Ex(m)
    BY <2>6 DEF Ex
  <2> QED BY <2>1, <2>7
<1>2. Steps(done, Len(T))
  BY <1>0, <1>1
<1>3. Rendering(c) = done
  BY DEF Rendering, T
<1> HIDE DEF done
<1> QED BY <1>0, <1>2, <1>3 DEF T

\* Those of the targets that are rendered.
Placed(P) == {t \in P : ~t.source.ref /\ t.source.path # ""}

Done(s, cl, ds, n, r) == [seen |-> s, clones |-> cl, documents |-> ds, rendered |-> n, raised |-> r]

\* What main has after the targets P, if they are Distinct: it raised because one of
\* them cannot be rendered, or has the documents of all of them, and clones at the
\* revisions that they ask for.
RenderInv(c, d, P) ==
  /\ d = Done(d.seen, d.clones, d.documents, d.rendered, d.raised)
  /\ d.rendered \in Nat /\ d.raised \in BOOLEAN
  /\ d.raised => \E t \in Placed(P) : ~Available(c, t.source)
  /\ ~d.raised =>
       /\ \A t \in P : ~t.source.ref => Identity(t) \in d.seen
       /\ \A id \in d.seen : \E t \in P : ~t.source.ref /\ Identity(t) = id
       /\ \A t \in Placed(P) : Available(c, t.source)
       /\ d.documents = UNION {Documents(c, t.source) : t \in Placed(P)}
       /\ d.rendered > 0 <=> Placed(P) # {}
       /\ \A r \in DOMAIN d.clones :
            \E t \in Placed(P) : /\ ~t.source.chart /\ ~Local(t.source)
                                 /\ t.source.repo = r /\ t.source.revision = d.clones[r]

\* No two of the targets share a path at two revisions, as Distinct says.
DistinctAmong(P) ==
  \A t, u \in Placed(P) :
    /\ Identity(t) = Identity(u) => t = u
    /\ (~t.source.chart /\ ~u.source.chart /\ ~Local(t.source) /\ t.source.repo = u.source.repo)
         => t.source.revision = u.source.revision

\* A source that is not rendered changes at most what was seen.
LEMMA SkippedSource ==
  ASSUME NEW c, NEW d, NEW P \in SUBSET Target, NEW t \in Target,
         RenderInv(c, d, P), ~d.raised, Placed(P \cup {t}) = Placed(P), NEW e,
         \/ e = d /\ (t.source.ref \/ Identity(t) \in d.seen)
         \/ /\ e = Done(d.seen \cup {Identity(t)}, d.clones, d.documents, d.rendered, d.raised)
            /\ ~t.source.ref
  PROVE  RenderInv(c, e, P \cup {t})
<1>1. CASE e = d /\ (t.source.ref \/ Identity(t) \in d.seen)
  <2>1. \A u \in P \cup {t} : ~u.source.ref => Identity(u) \in d.seen
    BY <1>1 DEF RenderInv
  <2>2. \A id \in d.seen : \E u \in P \cup {t} : ~u.source.ref /\ Identity(u) = id
    BY DEF RenderInv
  <2> QED BY <1>1, <2>1, <2>2 DEF RenderInv
<1>2. CASE /\ e = Done(d.seen \cup {Identity(t)}, d.clones, d.documents, d.rendered, d.raised)
           /\ ~t.source.ref
  <2>1. /\ e.seen = d.seen \cup {Identity(t)} /\ e.clones = d.clones
        /\ e.documents = d.documents /\ e.rendered = d.rendered /\ e.raised = d.raised
        /\ e = Done(e.seen, e.clones, e.documents, e.rendered, e.raised)
    BY <1>2 DEF Done
  <2>2. \A u \in P \cup {t} : ~u.source.ref => Identity(u) \in e.seen
    BY <2>1 DEF RenderInv
  <2>3. \A id \in e.seen : \E u \in P \cup {t} : ~u.source.ref /\ Identity(u) = id
    BY <1>2, <2>1 DEF RenderInv
  <2>4. e.rendered \in Nat /\ e.raised = FALSE /\ (e.rendered > 0 <=> Placed(P) # {})
    BY <2>1 DEF RenderInv
  <2>5. \A u \in Placed(P) : Available(c, u.source)
    BY DEF RenderInv
  <2>6. e.documents = UNION {Documents(c, u.source) : u \in Placed(P)}
    BY <2>1 DEF RenderInv
  <2>7. \A r \in DOMAIN e.clones :
          \E u \in Placed(P) : /\ ~u.source.chart /\ ~Local(u.source)
                               /\ u.source.repo = r /\ u.source.revision = e.clones[r]
    BY <2>1 DEF RenderInv
  <2> QED BY <2>1, <2>2, <2>3, <2>4, <2>5, <2>6, <2>7 DEF RenderInv
<1> QED BY <1>1, <1>2

\* A source that is rendered adds its documents, or raises if it is not available.
LEMMA PlacedSource ==
  ASSUME NEW c, NEW d, NEW P \in SUBSET Target, NEW t \in Target,
         RenderInv(c, d, P), ~d.raised, Placed(P \cup {t}) = Placed(P) \cup {t},
         ~t.source.ref, NEW cl, NEW e,
         \/ /\ ~Available(c, t.source)
            /\ e = Done(d.seen \cup {Identity(t)}, d.clones, d.documents, d.rendered, TRUE)
         \/ /\ Available(c, t.source)
            /\ e = Done(d.seen \cup {Identity(t)}, cl,
                        d.documents \cup Documents(c, t.source), d.rendered + 1, d.raised)
            /\ \A r \in DOMAIN cl :
                 \/ r \in DOMAIN d.clones /\ cl[r] = d.clones[r]
                 \/ /\ ~t.source.chart /\ ~Local(t.source)
                    /\ t.source.repo = r /\ t.source.revision = cl[r]
  PROVE  RenderInv(c, e, P \cup {t})
<1> DEFINE Q == P \cup {t}
<1>1. CASE /\ ~Available(c, t.source)
           /\ e = Done(d.seen \cup {Identity(t)}, d.clones, d.documents, d.rendered, TRUE)
  <2>1. e.raised = TRUE /\ e.rendered = d.rendered
        /\ e = Done(e.seen, e.clones, e.documents, e.rendered, e.raised)
    BY <1>1 DEF Done
  <2> QED BY <1>1, <2>1 DEF RenderInv
<1>2. CASE /\ Available(c, t.source)
           /\ e = Done(d.seen \cup {Identity(t)}, cl,
                       d.documents \cup Documents(c, t.source), d.rendered + 1, d.raised)
           /\ \A r \in DOMAIN cl :
                \/ r \in DOMAIN d.clones /\ cl[r] = d.clones[r]
                \/ /\ ~t.source.chart /\ ~Local(t.source)
                   /\ t.source.repo = r /\ t.source.revision = cl[r]
  <2>1. /\ e.seen = d.seen \cup {Identity(t)} /\ e.clones = cl
        /\ e.documents = d.documents \cup Documents(c, t.source)
        /\ e.rendered = d.rendered + 1 /\ e.raised = d.raised
        /\ e = Done(e.seen, e.clones, e.documents, e.rendered, e.raised)
    BY <1>2 DEF Done
  <2>2. \A u \in Q : ~u.source.ref => Identity(u) \in e.seen
    BY <2>1 DEF RenderInv
  <2>3. \A id \in e.seen : \E u \in Q : ~u.source.ref /\ Identity(u) = id
    BY <2>1 DEF RenderInv
  <2>4. \A u \in Placed(Q) : Available(c, u.source)
    BY <1>2 DEF RenderInv
  <2>5. e.documents = UNION {Documents(c, u.source) : u \in Placed(Q)}
    <3>1. d.documents = UNION {Documents(c, u.source) : u \in Placed(P)}
      BY DEF RenderInv
    <3>2. UNION {Documents(c, u.source) : u \in Placed(P) \cup {t}}
            = (UNION {Documents(c, u.source) : u \in Placed(P)}) \cup Documents(c, t.source)
      OBVIOUS
    <3> QED BY <2>1, <3>1, <3>2
  <2>6. e.rendered \in Nat /\ e.rendered > 0 /\ Placed(Q) # {}
    <3>1. d.rendered \in Nat
      BY DEF RenderInv
    <3>2. e.rendered \in Nat /\ e.rendered > 0
      BY <2>1, <3>1
    <3>3. t \in Placed(Q)
      OBVIOUS
    <3> QED BY <3>2, <3>3
  <2>7. \A r \in DOMAIN e.clones :
          \E u \in Placed(Q) : /\ ~u.source.chart /\ ~Local(u.source)
                               /\ u.source.repo = r /\ u.source.revision = e.clones[r]
    <3> SUFFICES ASSUME NEW r \in DOMAIN cl
                 PROVE  \E u \in Placed(Q) : /\ ~u.source.chart /\ ~Local(u.source)
                                              /\ u.source.repo = r /\ u.source.revision = cl[r]
      BY <2>1
    <3>1. CASE r \in DOMAIN d.clones /\ cl[r] = d.clones[r]
      BY <3>1 DEF RenderInv
    <3>2. CASE /\ ~t.source.chart /\ ~Local(t.source)
               /\ t.source.repo = r /\ t.source.revision = cl[r]
      BY <3>2
    <3> QED BY <1>2, <3>1, <3>2
  <2> QED BY <2>1, <2>2, <2>3, <2>4, <2>5, <2>6, <2>7 DEF RenderInv
<1> QED BY <1>1, <1>2

\* One turn of the loop.
LEMMA RenderStep ==
  ASSUME NEW c, NEW d, NEW P \in SUBSET Target, NEW t \in Target,
         RenderInv(c, d, P), DistinctAmong(P \cup {t})
  PROVE  RenderInv(c, RenderSource(c, d, t), P \cup {t})
<1> DEFINE source == t.source
           e == RenderSource(c, d, t)
           now == [d EXCEPT !.seen = @ \cup {Identity(t)}]
<1>1. t \in Placed(P \cup {t}) <=> ~source.ref /\ source.path # ""
  BY DEF Placed
<1>2. Placed(P \cup {t}) = IF t \in Placed(P \cup {t}) THEN Placed(P) \cup {t} ELSE Placed(P)
  BY DEF Placed
<1>3. d = Done(d.seen, d.clones, d.documents, d.rendered, d.raised)
  BY DEF RenderInv
<1>4. now = Done(d.seen \cup {Identity(t)}, d.clones, d.documents, d.rendered, d.raised)
  BY <1>3 DEF Done
<1>5. CASE d.raised
  <2>1. e = d
    BY <1>5 DEF RenderSource
  <2>2. Placed(P) \subseteq Placed(P \cup {t})
    BY <1>2
  <2> QED BY <1>5, <2>1, <2>2 DEF RenderInv
<1>6. CASE ~d.raised /\ (source.ref \/ Identity(t) \in d.seen)
  <2>1. e = d
    BY <1>6 DEF RenderSource
  <2>2. Placed(P \cup {t}) = Placed(P)
    <3>1. CASE t \notin Placed(P \cup {t})
      BY <1>2, <3>1
    <3>2. CASE t \in Placed(P \cup {t})
      <4>1. PICK u \in P : ~u.source.ref /\ Identity(u) = Identity(t)
        BY <1>1, <1>6, <3>2 DEF RenderInv
      <4>2. u.source.path # ""
        BY <1>1, <3>2, <4>1 DEF Identity
      <4>3. u \in Placed(P) /\ u \in Placed(P \cup {t})
        BY <4>1, <4>2 DEF Placed
      <4>4. u = t
        BY <3>2, <4>1, <4>3 DEF DistinctAmong
      <4> QED BY <1>2, <3>2, <4>3, <4>4
    <3> QED BY <3>1, <3>2
  <2> QED BY <1>6, <2>1, <2>2, SkippedSource
<1>7. CASE ~d.raised /\ ~source.ref /\ Identity(t) \notin d.seen /\ source.path = ""
  <2>1. e = now
    BY <1>7 DEF RenderSource
  <2>2. Placed(P \cup {t}) = Placed(P)
    BY <1>1, <1>2, <1>7
  <2> QED BY <1>4, <1>7, <2>1, <2>2, SkippedSource
<1>8. CASE ~d.raised /\ ~source.ref /\ Identity(t) \notin d.seen /\ source.path # ""
  <2>1. Placed(P \cup {t}) = Placed(P) \cup {t}
    BY <1>1, <1>2, <1>8
  <2>2. CASE Local(source)
    <3>1. e = LocalRender(c, now, source)
      BY <1>8, <2>2 DEF RenderSource, Local
    <3>2. CASE Available(c, source)
      <4>1. source.path \in DOMAIN c.files /\ c.files[source.path] # {}
            /\ Documents(c, source) = c.files[source.path]
        BY <2>2, <3>2 DEF Available, Documents
      <4>2. e = [now EXCEPT !.documents = @ \cup Documents(c, source), !.rendered = @ + 1]
        BY <3>1, <4>1 DEF LocalRender
      <4>3. e = Done(d.seen \cup {Identity(t)}, d.clones, d.documents \cup Documents(c, source),
                     d.rendered + 1, d.raised)
        BY <1>4, <4>2 DEF Done
      <4> QED BY <1>8, <2>1, <3>2, <4>3, PlacedSource
    <3>3. CASE ~Available(c, source)
      <4>1. e = [now EXCEPT !.raised = TRUE]
        BY <2>2, <3>1, <3>3 DEF LocalRender, Available
      <4>2. e = Done(d.seen \cup {Identity(t)}, d.clones, d.documents, d.rendered, TRUE)
        BY <1>4, <4>1 DEF Done
      <4> QED BY <1>8, <2>1, <3>3, <4>2, PlacedSource
    <3> QED BY <3>2, <3>3
  <2>3. CASE ~Local(source)
    <3> DEFINE clones == Clones(now, source)
               revision == IF source.chart THEN source.revision ELSE clones[source.repo]
    <3>1. e = HelmRender(c, now, source)
      BY <1>8, <2>3 DEF RenderSource, Local
    <3>2. now.clones = d.clones
      BY <1>4 DEF Done
    <3>3. ~source.chart /\ source.repo \notin DOMAIN d.clones
            => /\ DOMAIN clones = DOMAIN d.clones \cup {source.repo}
               /\ clones[source.repo] = source.revision
               /\ \A r \in DOMAIN d.clones : clones[r] = d.clones[r]
      BY <3>2 DEF Clones
    <3>4. source.chart \/ source.repo \in DOMAIN d.clones => clones = d.clones
      BY <3>2 DEF Clones
    <3>5. revision = source.revision
      <4>1. ASSUME ~source.chart, source.repo \in DOMAIN d.clones
            PROVE  d.clones[source.repo] = source.revision
        <5>1. PICK u \in Placed(P) : /\ ~u.source.chart /\ ~Local(u.source)
                                     /\ u.source.repo = source.repo
                                     /\ u.source.revision = d.clones[source.repo]
          BY <1>8, <4>1 DEF RenderInv
        <5>2. u \in Placed(P \cup {t}) /\ t \in Placed(P \cup {t})
          BY <2>1
        <5> QED BY <2>3, <4>1, <5>1, <5>2 DEF DistinctAmong
      <4> QED BY <3>3, <3>4, <4>1
    <3>6. \A r \in DOMAIN clones :
            \/ r \in DOMAIN d.clones /\ clones[r] = d.clones[r]
            \/ /\ ~source.chart /\ ~Local(source)
               /\ source.repo = r /\ source.revision = clones[r]
      BY <2>3, <3>3, <3>4
    <3>7. CASE Available(c, source)
      <4>1. e = [now EXCEPT !.clones = clones, !.rendered = @ + 1,
                            !.documents = @ \cup Documents(c, source)]
        BY <2>3, <3>1, <3>5, <3>7 DEF HelmRender, Available, Documents
      <4>2. e = Done(d.seen \cup {Identity(t)}, clones, d.documents \cup Documents(c, source),
                     d.rendered + 1, d.raised)
        <5> HIDE DEF clones
        <5> QED BY <1>4, <4>1 DEF Done
      <4> HIDE DEF clones, e
      <4> QED BY <1>8, <2>1, <3>6, <3>7, <4>2, PlacedSource DEF e
    <3>8. CASE ~Available(c, source)
      <4>1. e = [now EXCEPT !.raised = TRUE]
        BY <2>3, <3>1, <3>5, <3>8 DEF HelmRender, Available
      <4>2. e = Done(d.seen \cup {Identity(t)}, d.clones, d.documents, d.rendered, TRUE)
        BY <1>4, <4>1 DEF Done
      <4> QED BY <1>8, <2>1, <3>8, <4>2, PlacedSource
    <3> QED BY <3>7, <3>8
  <2> QED BY <2>2, <2>3
<1> QED BY <1>5, <1>6, <1>7, <1>8

LEMMA RenderInvariance ==
  ASSUME NEW c \in Commits, Distinct(c)
  PROVE  RenderInv(c, Render(c), ToSet(Targets(c))) /\ Placed(ToSet(Targets(c))) = Deployed(c)
<1> DEFINE T == Targets(c)
           n == Len(T)
           Upto(k) == {T[i] : i \in 1 .. k}
           Good(k) == RenderInv(c, Rendering(c)[k], Upto(k))
           Bad == {k \in 0 .. n : ~Good(k)}
<1>1. /\ T \in Seq(Target) /\ n \in Nat /\ ToSet(T) = Upto(n)
      /\ \A i \in 1 .. n : T[i] \in Target
  <2>1. T \in Seq(Target)
    BY TargetsType
  <2> HIDE DEF T
  <2> QED BY <2>1, ElementOfSeq DEF ToSet
<1>2. Placed(ToSet(T)) = Deployed(c)
  BY DEF Placed, Deployed
<1>3. \A k \in 0 .. n : DistinctAmong(Upto(k)) /\ Upto(k) \in SUBSET Target
  <2> SUFFICES ASSUME NEW k \in 0 .. n PROVE DistinctAmong(Upto(k)) /\ Upto(k) \in SUBSET Target
    OBVIOUS
  <2>1. Upto(k) \subseteq ToSet(T) /\ Upto(k) \in SUBSET Target
    BY <1>1
  <2>2. Placed(Upto(k)) \subseteq Deployed(c)
    BY <1>2, <2>1 DEF Placed
  <2> HIDE DEF T
  <2> QED BY <2>1, <2>2 DEF DistinctAmong, Distinct, Identity
<1>4. Bad = {}
  <2> SUFFICES ASSUME Bad # {} PROVE FALSE
    OBVIOUS
  <2> HIDE DEF T, Good
  <2>1. PICK k \in Bad : \A j \in Bad : k <= j
    <3>1. Bad \in SUBSET Nat
      BY <1>1
    <3> QED BY <3>1, LeastNat
  <2>2. Good(0)
    <3>1. Upto(0) = {}
      BY <1>1
    <3>2. Rendering(c)[0] = Nothing
      BY RenderingSteps
    <3>3. RenderInv(c, Nothing, {})
      BY DEF RenderInv, Nothing, Done, Placed
    <3> QED BY <3>1, <3>2, <3>3 DEF Good
  <2>3. k \in 1 .. n /\ k - 1 \in 0 .. n /\ Good(k - 1) /\ ~Good(k)
    BY <1>1, <2>1, <2>2
  <2>4. Upto(k) = Upto(k - 1) \cup {T[k]} /\ T[k] \in Target
    BY <1>1, <2>3
  <2>5. Rendering(c)[k] = RenderSource(c, Rendering(c)[k - 1], T[k])
    BY <2>3, RenderingSteps DEF T
  <2>6. RenderInv(c, Rendering(c)[k - 1], Upto(k - 1))
    BY <2>3 DEF Good
  <2>7. DistinctAmong(Upto(k - 1) \cup {T[k]}) /\ Upto(k - 1) \in SUBSET Target
    BY <1>3, <2>3, <2>4
  <2>8. RenderInv(c, Rendering(c)[k], Upto(k - 1) \cup {T[k]})
    <3> HIDE DEF Upto
    <3> QED BY <2>4, <2>5, <2>6, <2>7, RenderStep
  <2> QED BY <2>3, <2>4, <2>8 DEF Good
<1>5. Good(n)
  <2> HIDE DEF Good, T
  <2> QED BY <1>1, <1>4
<1> QED BY <1>1, <1>2, <1>5 DEF Render

\* The check passes a commit exactly if each of its sources complies by itself, as
\* long as no two of them share a path or a clone at two revisions.
THEOREM CheckIsComplete ==
  ASSUME NEW c \in Commits, Distinct(c)
  PROVE  Passes(c) <=> Complies(c)
<1> DEFINE d == Render(c)
           D == Deployed(c)
<1>1. RenderInv(c, d, ToSet(Targets(c))) /\ Placed(ToSet(Targets(c))) = D
  BY RenderInvariance
<1> HIDE DEF d, D
<1>2. Rejects(c.policy, {NegativeCase}) <=> "apps" \in c.policy
  BY DEF Rejects, NegativeCase
<1>3. d.raised => ~Complies(c)
  BY <1>1 DEF RenderInv, Complies, D
<1>4. ASSUME ~d.raised
      PROVE  /\ \A t \in D : Available(c, t.source)
             /\ d.documents = UNION {Documents(c, t.source) : t \in D}
             /\ d.rendered > 0 <=> D # {}
  BY <1>1, <1>4 DEF RenderInv
<1>5. ASSUME ~d.raised
      PROVE  Rejects(c.policy, d.documents)
               <=> \E t \in D : Rejects(c.policy, Documents(c, t.source))
  BY <1>4, <1>5 DEF Rejects
<1>6. Passes(c) <=> /\ ~d.raised /\ d.rendered > 0
                    /\ ~Rejects(c.policy, d.documents) /\ "apps" \in c.policy
  BY <1>2 DEF Passes, d
<1>7. Complies(c) <=> /\ D # {} /\ "apps" \in c.policy
                      /\ \A t \in D : /\ Available(c, t.source)
                                      /\ ~Rejects(c.policy, Documents(c, t.source))
  BY DEF Complies, D
<1> QED BY <1>3, <1>4, <1>5, <1>6, <1>7

-----------------------------------------------------------------------------
(* The pull request. *)

\* Replacing and appending an entry.
LEMMA Replaced ==
  ASSUME NEW S, NEW s \in Seq(S), NEW i \in 1 .. Len(s), NEW x \in S
  PROVE  /\ [s EXCEPT ![i] = x] \in Seq(S)
         /\ Len([s EXCEPT ![i] = x]) = Len(s)
         /\ \A j \in 1 .. Len(s) : [s EXCEPT ![i] = x][j] = IF j = i THEN x ELSE s[j]
  BY ExceptSeq

LEMMA Appended ==
  ASSUME NEW S, NEW s \in Seq(S), NEW x \in S
  PROVE  /\ Append(s, x) \in Seq(S)
         /\ Len(Append(s, x)) = Len(s) + 1
         /\ Append(s, x)[Len(s) + 1] = x
         /\ \A j \in 1 .. Len(s) : Append(s, x)[j] = s[j]
  OBVIOUS

Conclusions == {"running", "success", "failure", "error", "cancelled"}
Steps == {"none", "list", "label", "comment", "ended", "dead"}

Bodies == [passed : BOOLEAN, marked : {TRUE}]

Busy(i) == step[i] \in {"label", "comment"}

\* One entry of each sequence for each push.
Lengths == /\ conclusion \in Seq(Conclusions) /\ step \in Seq(Steps) /\ found \in Seq(Nat)
           /\ Newest >= 1 /\ Len(step) = Newest /\ Len(found) = Newest
           /\ commit \in Commits /\ due = Due(commit)
           /\ label \in BOOLEAN /\ labelled \in 0 .. Newest

\* The conclusion of the newest run is the verdict on the newest commit.
Verdict == /\ conclusion[Newest] \in {"running", "success", "failure", "error"}
           /\ conclusion[Newest] = "success" => Passes(commit)
           /\ conclusion[Newest] = "failure" => ~Passes(commit)
           /\ conclusion[Newest] = "running" => step[Newest] = "none"

\* The label is what the last feedback that changed it made of its conclusion.
Labelled == labelled = Newest => /\ conclusion[Newest] # "running"
                                 /\ label <=> conclusion[Newest] # "success"

\* As long as no two feedbacks were past the list of comments at once, there is at
\* most one comment, and the one feedback under way has found it.
Comments ==
  /\ comments \in Seq(Bodies)
  /\ ~overlapped => /\ Len(comments) <= 1
                    /\ \A i, j \in Runs : Busy(i) /\ Busy(j) => i = j
                    /\ \A i \in Runs : Busy(i) => found[i] = Len(comments)

PullInv == Lengths /\ Verdict /\ Labelled /\ Comments

LEMMA InitPull == Init => PullInv
<1> SUFFICES ASSUME Init PROVE PullInv
  OBVIOUS
<1>1. /\ Newest = 1 /\ conclusion[1] = "running" /\ step[1] = "none"
      /\ Len(step) = 1 /\ Len(found) = 1 /\ Runs = {1} /\ labelled = 0
  BY DEF Init, Newest, Runs
<1>2. Lengths
  <2>1. /\ <<"running">> \in Seq(Conclusions) /\ <<"none">> \in Seq(Steps)
        /\ <<0>> \in Seq(Nat)
    BY DEF Conclusions, Steps
  <2>2. conclusion = <<"running">> /\ step = <<"none">> /\ found = <<0>>
    BY DEF Init
  <2>3. commit \in Commits /\ due = Due(commit) /\ label \in BOOLEAN
    BY Zenon DEF Init
  <2>4. Newest >= 1 /\ labelled \in 0 .. Newest
    BY <1>1
  <2> QED BY <1>1, <2>1, <2>2, <2>3, <2>4 DEF Lengths
<1>3. Verdict /\ Labelled
  BY <1>1 DEF Verdict, Labelled
<1>4. Comments
  BY <1>1 DEF Init, Comments, Busy
<1> QED BY <1>2, <1>3, <1>4 DEF PullInv

\* A push keeps Comments: the run it adds and the one it cancels are not busy.
LEMMA PushKeeps == ASSUME PullInv, Push PROVE PullInv'
<1> DEFINE n == Newest
           cancels == conclusion[n] = "running"
<1>1. /\ n \in Nat /\ n >= 1 /\ Len(step) = n /\ Len(found) = n
      /\ conclusion \in Seq(Conclusions) /\ step \in Seq(Steps) /\ found \in Seq(Nat)
  BY DEF PullInv, Lengths, Newest
<1>2. /\ commit' \in Commits /\ due' = Due(commit')
      /\ found' = Append(found, 0)
      /\ UNCHANGED <<label, comments, labelled, overlapped>>
      /\ conclusion' = Append(IF cancels THEN [conclusion EXCEPT ![n] = "cancelled"]
                              ELSE conclusion, "running")
      /\ step' = Append(IF cancels THEN [step EXCEPT ![n] = "list"] ELSE step, "none")
  BY DEF Push
<1> HIDE DEF n, cancels
<1>3. /\ conclusion' \in Seq(Conclusions) /\ Len(conclusion') = n + 1
      /\ conclusion'[n + 1] = "running"
  <2> DEFINE before == IF cancels THEN [conclusion EXCEPT ![n] = "cancelled"] ELSE conclusion
  <2>1. n \in 1 .. Len(conclusion) /\ "cancelled" \in Conclusions /\ Len(conclusion) = n
    BY <1>1 DEF n, Newest, Conclusions
  <2>2. before \in Seq(Conclusions) /\ Len(before) = n
    BY <1>1, <2>1, Replaced
  <2>3. conclusion' = Append(before, "running")
    BY <1>2
  <2> HIDE DEF before
  <2>4. "running" \in Conclusions
    BY DEF Conclusions
  <2> QED BY <2>2, <2>3, <2>4, Appended
<1>4. /\ step' \in Seq(Steps) /\ Len(step') = n + 1 /\ step'[n + 1] = "none"
      /\ \A i \in 1 .. n : step'[i] = step[i] \/ step'[i] = "list"
  <2> DEFINE before == IF cancels THEN [step EXCEPT ![n] = "list"] ELSE step
  <2>1. n \in 1 .. Len(step) /\ "list" \in Steps
    BY <1>1 DEF Steps
  <2>2. /\ before \in Seq(Steps) /\ Len(before) = n
        /\ \A i \in 1 .. n : before[i] = step[i] \/ before[i] = "list"
    BY <1>1, <2>1, Replaced
  <2>3. step' = Append(before, "none")
    BY <1>2
  <2> HIDE DEF before
  <2>4. "none" \in Steps
    BY DEF Steps
  <2> QED BY <2>2, <2>3, <2>4, Appended
<1>5. /\ found' \in Seq(Nat) /\ Len(found') = n + 1
      /\ \A i \in 1 .. n : found'[i] = found[i]
  BY <1>1, <1>2
<1>6. Newest' = n + 1 /\ Newest = n /\ Runs = 1 .. n /\ Runs' = 1 .. n + 1
  BY <1>1, <1>3 DEF Newest, Runs, n
<1>7. Lengths'
  BY <1>1, <1>2, <1>3, <1>4, <1>5, <1>6 DEF Lengths, PullInv
<1>8. Verdict'
  BY <1>3, <1>4, <1>6 DEF Verdict
<1>9. Labelled'
  <2>1. labelled' \in 0 .. n
    BY <1>2, <1>6 DEF PullInv, Lengths
  <2> QED BY <1>1, <1>6, <2>1 DEF Labelled
<1>10. Comments'
  <2>1. \A i \in Runs' : Busy(i)' => i \in Runs /\ Busy(i) /\ found'[i] = found[i]
    BY <1>1, <1>4, <1>5, <1>6 DEF Busy
  <2>2. UNCHANGED <<comments, overlapped>>
    BY <1>2
  <2> QED BY <2>1, <2>2 DEF Comments, PullInv
<1> QED BY <1>7, <1>8, <1>9, <1>10 DEF PullInv

\* The steps of one run only, as the invariant sees them.
LEMMA ConcludeKeeps ==
  ASSUME PullInv, NEW result \in {"success", "failure", "error"}, Conclude(result),
         result = "success" => Passes(commit), result = "failure" => ~Passes(commit)
  PROVE  PullInv'
<1> DEFINE n == Newest
<1>1. /\ n \in Nat /\ n >= 1 /\ Len(step) = n /\ Len(found) = n
      /\ conclusion \in Seq(Conclusions) /\ step \in Seq(Steps) /\ found \in Seq(Nat)
  BY DEF PullInv, Lengths, Newest
<1>2. /\ conclusion[n] = "running"
      /\ conclusion' = [conclusion EXCEPT ![n] = result]
      /\ step' = [step EXCEPT ![n] = "list"]
      /\ UNCHANGED <<commit, due, found, label, comments, labelled, overlapped>>
  BY DEF Conclude
<1> HIDE DEF n
<1>3. conclusion' \in Seq(Conclusions) /\ Len(conclusion') = n /\ conclusion'[n] = result
  <2>1. n \in 1 .. Len(conclusion) /\ result \in Conclusions /\ Len(conclusion) = n
    BY <1>1 DEF n, Newest, Conclusions
  <2> QED BY <1>1, <1>2, <2>1, Replaced
<1>4. /\ step' \in Seq(Steps) /\ Len(step') = n
      /\ \A i \in 1 .. n : step'[i] = IF i = n THEN "list" ELSE step[i]
  <2>1. n \in 1 .. Len(step) /\ "list" \in Steps
    BY <1>1 DEF Steps
  <2> QED BY <1>1, <1>2, <2>1, Replaced
<1>5. Newest' = n /\ Newest = n /\ Runs = 1 .. n /\ Runs' = 1 .. n
  BY <1>1, <1>3 DEF Newest, Runs, n
<1>6. Lengths'
  BY <1>1, <1>2, <1>3, <1>4, <1>5 DEF Lengths, PullInv
<1>7. Verdict' /\ Labelled'
  BY <1>2, <1>3, <1>5 DEF Verdict, Labelled, PullInv
<1>8. Comments'
  <2>1. \A i \in Runs' : Busy(i)' => i \in Runs /\ Busy(i) /\ found'[i] = found[i]
    BY <1>1, <1>2, <1>4, <1>5 DEF Busy
  <2> QED BY <1>2, <2>1 DEF Comments, PullInv
<1> QED BY <1>6, <1>7, <1>8 DEF PullInv

\* One feedback takes a step.
LEMMA FeedbackStep ==
  ASSUME PullInv, NEW i \in Runs, step[i] # "none", NEW x \in Steps \ {"none"},
         step' = [step EXCEPT ![i] = x], UNCHANGED <<commit, due, conclusion>>,
         label' \in BOOLEAN, labelled' \in {labelled, i},
         \/ found' = found
         \/ \E k \in Nat : found' = [found EXCEPT ![i] = k]
  PROVE  /\ Lengths' /\ Verdict'
         /\ Newest' = Newest /\ Runs' = Runs /\ conclusion[Newest]' = conclusion[Newest]
         /\ i = Newest => conclusion[Newest] # "running"
         /\ \A j \in Runs : step'[j] = IF j = i THEN x ELSE step[j]
         /\ \A j \in Runs \ {i} : found'[j] = found[j]
<1>1. /\ Runs = 1 .. Newest /\ Newest \in Nat /\ Len(step) = Newest /\ Len(found) = Newest
      /\ step \in Seq(Steps) /\ found \in Seq(Nat) /\ i \in 1 .. Newest
  BY DEF PullInv, Lengths, Newest, Runs
<1>2. Newest' = Newest /\ Runs' = Runs
  BY DEF Newest, Runs
<1>3. /\ step' \in Seq(Steps) /\ Len(step') = Newest
      /\ \A j \in Runs : step'[j] = IF j = i THEN x ELSE step[j]
  BY <1>1, Replaced
<1>4. /\ found' \in Seq(Nat) /\ Len(found') = Newest
      /\ \A j \in Runs \ {i} : found'[j] = found[j]
  <2>1. CASE found' = found
    BY <1>1, <2>1
  <2>2. ASSUME NEW k \in Nat, found' = [found EXCEPT ![i] = k]
        PROVE  /\ found' \in Seq(Nat) /\ Len(found') = Newest
               /\ \A j \in Runs \ {i} : found'[j] = found[j]
    BY <1>1, <2>2, Replaced
  <2> QED BY <2>1, <2>2
<1>5. i = Newest => conclusion[Newest] # "running"
  BY DEF PullInv, Verdict
<1>6. Lengths'
  BY <1>1, <1>2, <1>3, <1>4 DEF PullInv, Lengths
<1>7. conclusion'[Newest'] = conclusion[Newest]
  BY <1>2
<1>8. Verdict'
  <2>1. conclusion[Newest] = "running" => step'[Newest] = "none"
    BY <1>1, <1>3, <1>5 DEF PullInv, Verdict, Lengths
  <2> QED BY <1>2, <1>7, <2>1 DEF PullInv, Verdict
<1> QED BY <1>2, <1>3, <1>4, <1>5, <1>6, <1>7, <1>8

\* The comment that a feedback finds is the last one, as all have the marker.
LEMMA FindsLast == ASSUME Comments PROVE Max(Marked \cup {0}) = Len(comments)
<1> DEFINE n == Len(comments)
<1>1. /\ n \in Nat /\ DOMAIN comments = 1 .. n
      /\ \A k \in 1 .. n : comments[k].marked
  <2>1. comments \in Seq(Bodies)
    BY DEF Comments
  <2>2. /\ n \in Nat /\ DOMAIN comments = 1 .. n
        /\ \A k \in 1 .. n : comments[k] \in Bodies
    BY <2>1
  <2>3. \A b \in Bodies : b.marked
    BY DEF Bodies
  <2> QED BY <2>2, <2>3
<1> HIDE DEF n
<1>2. Marked \cup {0} = 0 .. n
  BY <1>1 DEF Marked
<1>3. \A m \in 0 .. n : (\A y \in 0 .. n : m >= y) => m = n
  BY <1>1
<1>4. n \in 0 .. n /\ \A y \in 0 .. n : n >= y
  BY <1>1
<1>5. Max(0 .. n) = n
  BY <1>3, <1>4 DEF Max
<1> QED BY <1>2, <1>5 DEF n

LEMMA ListKeeps == ASSUME PullInv, NEW i \in Runs, ListComments(i) PROVE PullInv'
<1>1. /\ step[i] = "list" /\ step' = [step EXCEPT ![i] = "label"]
      /\ found' = [found EXCEPT ![i] = Len(comments)] /\ Len(comments) \in Nat
      /\ overlapped' = (overlapped \/ \E j \in Runs : Busy(j))
      /\ UNCHANGED <<commit, due, conclusion, label, comments, labelled>>
  <2>1. Comments /\ comments \in Seq(Bodies)
    BY DEF PullInv, Comments
  <2>2. Max(Marked \cup {0}) = Len(comments)
    BY <2>1, FindsLast
  <2>3. Len(comments) \in Nat
    BY <2>1
  <2> QED BY <2>2, <2>3, Zenon DEF ListComments, Busy
<1>2. /\ Lengths' /\ Verdict' /\ Newest' = Newest /\ Runs' = Runs
      /\ conclusion[Newest]' = conclusion[Newest]
      /\ \A j \in Runs : step'[j] = IF j = i THEN "label" ELSE step[j]
  BY <1>1, FeedbackStep DEF Steps, PullInv, Lengths
<1>3. Labelled'
  BY <1>1, <1>2 DEF PullInv, Labelled
<1>4. ASSUME ~overlapped'
      PROVE  \A j \in Runs : Busy(j)' => j = i
  BY <1>1, <1>2, <1>4 DEF Busy
<1>5. found'[i] = Len(comments)
  <2>1. i \in 1 .. Len(found) /\ found \in Seq(Nat)
    BY DEF PullInv, Lengths, Runs, Newest
  <2> QED BY <1>1, <2>1, Replaced
<1>6. Comments'
  BY <1>1, <1>2, <1>4, <1>5 DEF Comments, PullInv
<1> QED BY <1>2, <1>3, <1>6 DEF PullInv

LEMMA LabelKeeps ==
  ASSUME PullInv, NEW i \in Runs, ChangeLabel(i) \/ KeepLabel(i) PROVE PullInv'
<1>1. /\ step[i] = "label" /\ step' = [step EXCEPT ![i] = "comment"]
      /\ \/ label' = Violation(i) /\ labelled' = i
         \/ UNCHANGED <<label, labelled>>
      /\ UNCHANGED <<commit, due, conclusion, found, comments, overlapped>>
  BY DEF ChangeLabel, KeepLabel
<1>2. label' \in BOOLEAN
  BY <1>1 DEF Violation, PullInv, Lengths
<1>3. /\ Lengths' /\ Verdict' /\ Newest' = Newest /\ Runs' = Runs
      /\ conclusion[Newest]' = conclusion[Newest]
      /\ i = Newest => conclusion[Newest] # "running"
      /\ \A j \in Runs : step'[j] = IF j = i THEN "comment" ELSE step[j]
  BY <1>1, <1>2, FeedbackStep DEF Steps, PullInv, Lengths
<1>4. Labelled'
  BY <1>1, <1>3 DEF PullInv, Labelled, Violation
<1>5. \A j \in Runs : Busy(j)' <=> Busy(j)
  BY <1>1, <1>3 DEF Busy
<1>6. Comments'
  BY <1>1, <1>3, <1>5 DEF Comments, PullInv
<1> QED BY <1>3, <1>4, <1>6 DEF PullInv

LEMMA GiveUpKeeps == ASSUME PullInv, NEW i \in Runs, GiveUp(i) PROVE PullInv'
<1>1. /\ step[i] # "none" /\ step' = [step EXCEPT ![i] = "dead"]
      /\ UNCHANGED <<commit, due, conclusion, found, label, comments, labelled, overlapped>>
  BY DEF GiveUp
<1>2. /\ Lengths' /\ Verdict' /\ Newest' = Newest /\ Runs' = Runs
      /\ conclusion[Newest]' = conclusion[Newest]
      /\ \A j \in Runs : step'[j] = IF j = i THEN "dead" ELSE step[j]
  <2>1. /\ "dead" \in Steps \ {"none"}
        /\ label' \in BOOLEAN /\ labelled' \in {labelled, i}
    BY <1>1 DEF Steps, PullInv, Lengths
  <2> QED BY <1>1, <2>1, FeedbackStep
<1>3. Labelled'
  BY <1>1, <1>2 DEF PullInv, Labelled
<1>4. \A j \in Runs : Busy(j)' => Busy(j)
  BY <1>1, <1>2 DEF Busy
<1>5. Comments'
  BY <1>1, <1>2, <1>4 DEF Comments, PullInv
<1> QED BY <1>2, <1>3, <1>5 DEF PullInv

LEMMA WriteKeeps == ASSUME PullInv, NEW i \in Runs, WriteComment(i) PROVE PullInv'
<1>1. /\ step[i] = "comment" /\ step' = [step EXCEPT ![i] = "ended"]
      /\ UNCHANGED <<commit, due, conclusion, found, label, labelled, overlapped>>
  BY DEF WriteComment
<1>2. /\ Lengths' /\ Verdict' /\ Newest' = Newest /\ Runs' = Runs
      /\ conclusion[Newest]' = conclusion[Newest]
      /\ \A j \in Runs : step'[j] = IF j = i THEN "ended" ELSE step[j]
  <2>1. /\ "ended" \in Steps \ {"none"} /\ step[i] # "none"
        /\ label' \in BOOLEAN /\ labelled' \in {labelled, i}
    BY <1>1 DEF Steps, PullInv, Lengths
  <2> QED BY <1>1, <2>1, FeedbackStep
<1>3. Labelled'
  BY <1>1, <1>2 DEF PullInv, Labelled
<1>4. comments \in Seq(Bodies) /\ Body(i) \in Bodies
  BY DEF PullInv, Comments, Bodies, Body
<1>5. ~overlapped => /\ Len(comments) <= 1 /\ found[i] = Len(comments)
                     /\ \A j \in Runs : ~Busy(j)'
  <2>1. Busy(i) /\ \A j \in Runs : Busy(j)' => Busy(j) /\ j # i
    BY <1>1, <1>2 DEF Busy
  <2> QED BY <2>1 DEF PullInv, Comments
<1>6. \/ comments' = comments
      \/ comments' = [comments EXCEPT ![found[i]] = Body(i)]
      \/ comments' = Append(comments, Body(i)) /\ found[i] = 0
  BY DEF WriteComment
<1>7. comments' \in Seq(Bodies) /\ (~overlapped => Len(comments') <= 1)
  <2>1. CASE comments' = comments
    BY <1>4, <1>5, <2>1
  <2>2. CASE comments' = [comments EXCEPT ![found[i]] = Body(i)]
    <3>1. CASE found[i] \in 1 .. Len(comments)
      BY <1>4, <1>5, <2>2, <3>1, Replaced
    <3>2. CASE found[i] \notin 1 .. Len(comments)
      <4>1. DOMAIN comments = 1 .. Len(comments)
        BY <1>4
      <4>2. comments' = comments
        BY <1>4, <2>2, <3>2, <4>1
      <4> QED BY <1>4, <1>5, <4>2
    <3> QED BY <3>1, <3>2
  <2>3. CASE comments' = Append(comments, Body(i)) /\ found[i] = 0
    BY <1>4, <1>5, <2>3, Appended
  <2> QED BY <1>6, <2>1, <2>2, <2>3
<1>8. Comments'
  BY <1>1, <1>2, <1>5, <1>7 DEF Comments
<1> QED BY <1>2, <1>3, <1>8 DEF PullInv

LEMMA PullStep == PullInv /\ [Next]_vars => PullInv'
<1> SUFFICES ASSUME PullInv, [Next]_vars PROVE PullInv'
  OBVIOUS
<1>1. CASE Push
  BY <1>1, PushKeeps
<1>2. CASE Check
  BY <1>2, ConcludeKeeps DEF Check
<1>3. CASE Break
  BY <1>3, ConcludeKeeps DEF Break
<1>4. ASSUME NEW i \in Runs, Feedback(i) \/ KeepLabel(i) \/ GiveUp(i)
      PROVE  PullInv'
  BY <1>4, ListKeeps, LabelKeeps, WriteKeeps, GiveUpKeeps DEF Feedback
<1>5. CASE UNCHANGED vars
  BY <1>5 DEF vars, PullInv, Lengths, Verdict, Labelled, Comments, Busy, Newest, Runs
<1> QED BY <1>1, <1>2, <1>3, <1>4, <1>5 DEF Next

LEMMA PullInvariance == Spec => []PullInv
BY InitPull, PullStep, PTL DEF Spec

\* A pull request has one comment of the feedback, however often it is written and
\* whatever fails, unless two feedbacks ran at the same time: the comment that the
\* listing found is still the only one when it is written.
THEOREM OneCommentAlways == Spec => []OneComment
<1>1. PullInv => OneComment
  BY DEF PullInv, Comments, OneComment
<1> QED BY <1>1, PullInvariance, PTL

\* For every number of pushes, the label says whether the newest commit complies,
\* once its feedback has ended as the last that changed the label.
THEOREM LabelAlwaysTheCommit == Spec => []LabelIsTheCommit
<1>1. PullInv => LabelIsTheCommit
  <2> SUFFICES ASSUME PullInv, labelled = Newest, conclusion[Newest] # "error",
                      due # "open"
               PROVE  label <=> due = "violation"
    BY DEF LabelIsTheCommit
  <2>1. commit \in Commits /\ due = Due(commit)
    BY DEF PullInv, Lengths
  <2>2. Distinct(commit) /\ due = IF Complies(commit) THEN "success" ELSE "violation"
    BY <2>1 DEF Due
  <2>3. Passes(commit) <=> Complies(commit)
    BY <2>1, <2>2, CheckIsComplete
  <2>4. conclusion[Newest] = "success" <=> Passes(commit)
    BY DEF PullInv, Verdict, Labelled
  <2>5. label <=> conclusion[Newest] # "success"
    BY DEF PullInv, Labelled
  <2> QED BY <2>2, <2>3, <2>4, <2>5
<1> QED BY <1>1, PullInvariance, PTL
=============================================================================
