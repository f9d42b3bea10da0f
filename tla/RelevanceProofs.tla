--------------------------- MODULE RelevanceProofs ---------------------------
(***************************************************************************)
(* A replayed document says what its history means, for every history, and *)
(* what a site learns of it depends on nothing the site may not see.       *)
(*                                                                         *)
(* Each kind of setting is a register with a clock (ProfileHistoryProofs). *)
(* For consent and opt-outs its meaning needs nothing of the order of the  *)
(* loop; for the preference itself it needs that every applied event sorts *)
(* before every pending one.                                               *)
(*                                                                         *)
(* Of a ranking it is shown that it is its request's candidates, sorted:   *)
(* an insertion keeps a sorted sequence sorted, and what is sorted by a    *)
(* key that tells all entries apart is sorted in one way only.             *)
(***************************************************************************)
EXTENDS Relevance, ProfileHistoryProofs, SequenceTheorems

-----------------------------------------------------------------------------
(* The replay *)

EventsOK == \A e \in pending \cup applied : EventOK(e)

\* The loop has taken the events in their order.
OrderInv == \A a \in applied, p \in pending : Before(a, p)

ReplayInv ==
  EventsOK /\ OrderInv /\ IsFiniteSet(applied) /\ Says(doc, applied)

LEMMA ReplayStart == ReplayInit => ReplayInv
<1> SUFFICES ASSUME ReplayInit PROVE ReplayInv
  OBVIOUS
<1>1. pending \in Histories /\ applied = {} /\ doc = Base(pending)
  BY DEF ReplayInit
<1>2. Registered(pending) /\ \A e \in pending : EventOK(e)
  BY <1>1, ReplayConstants
<1>3. Registration(pending).do.name \in Names /\ Registration(pending).time \in Nat
  BY <1>2, RegisteredOnce DEF EventOK
<1>4. Says(doc, {})
  BY <1>1, <1>3, NewDocumentSays DEF Base
<1>5. IsFiniteSet(applied)
  BY <1>1, FS_EmptySet
<1> QED BY <1>1, <1>2, <1>4, <1>5 DEF ReplayInv, EventsOK, OrderInv

LEMMA ReplayStep == ReplayInv /\ [ApplyNext]_replayVars => ReplayInv'
<1> SUFFICES ASSUME ReplayInv, [ApplyNext]_replayVars
             PROVE  ReplayInv'
  OBVIOUS
<1>1. CASE ApplyNext
  <2>1. PICK e \in pending :
          /\ \A f \in pending \ {e} : Before(e, f)
          /\ pending' = pending \ {e} /\ applied' = applied \cup {e}
          /\ doc' = ApplyEvent(doc, e)
    BY <1>1 DEF ApplyNext
  <2>2. EventsOK'
    BY <2>1 DEF ReplayInv, EventsOK
  <2>3. OrderInv'
    <3> SUFFICES ASSUME NEW a \in applied', NEW p \in pending'
                 PROVE  Before(a, p)
      BY DEF OrderInv
    <3>1. p \in pending /\ Before(e, p)
      BY <2>1
    <3>2. CASE a = e
      BY <3>1, <3>2
    <3>3. CASE a \in applied
      BY <3>1, <3>3 DEF ReplayInv, OrderInv
    <3> QED BY <2>1, <3>2, <3>3
  <2>4. Says(ApplyEvent(doc, e), applied \cup {e})
    BY SaysStep DEF ReplayInv, EventsOK, OrderInv
  <2>5. IsFiniteSet(applied')
    BY <2>1, FS_AddElement DEF ReplayInv
  <2> QED BY <2>1, <2>2, <2>3, <2>4, <2>5 DEF ReplayInv
<1>2. CASE UNCHANGED replayVars
  BY <1>2 DEF replayVars, ReplayInv, EventsOK, OrderInv
<1> QED BY <1>1, <1>2

LEMMA Replayed == ReplaySpec => []ReplayInv
BY ReplayStart, ReplayStep, PTL DEF ReplaySpec

LEMMA ReplayedSettings == ReplayInv => SettingsAreNewest
<1> SUFFICES ASSUME ReplayInv PROVE SettingsAreNewest
  OBVIOUS
<1>1. Says(doc, applied) /\ \A e \in applied : EventOK(e)
  BY DEF ReplayInv, EventsOK
<1>2. ConsentIsNewest
  BY <1>1, ConsentMeaning DEF ConsentIsNewest
<1>3. OptOutIsNewest
  BY <1>1, OptOutMeaning DEF OptOutIsNewest
<1>4. TopicIsNewest
  BY <1>1, TopicMeaning DEF TopicIsNewest, PreferenceOf
<1> QED BY <1>2, <1>3, <1>4 DEF SettingsAreNewest

\* Consent: at every step of the replay of every history, a consent field is
\* given exactly when no newest event on it withdraws it, so a withdrawal
\* signed at the clock of a grant wins in whatever order they sort
\* (SET_CONSENT of apply_event).
THEOREM ReplayedConsent == ReplaySpec => []ConsentIsNewest
BY Replayed, ReplayedSettings, PTL DEF SettingsAreNewest

\* Opt-outs: the same of the topics a user opted out of (SET_OPT_OUT of
\* apply_event).
THEOREM ReplayedOptOuts == ReplaySpec => []OptOutIsNewest
BY Replayed, ReplayedSettings, PTL DEF SettingsAreNewest

\* Topics: a preference is the one signed last at the newest clock of its
\* topic, and is stored unless that clock has removals only (SET_TOPIC and
\* REMOVE_TOPIC of apply_event).
THEOREM ReplayedTopics == ReplaySpec => []TopicIsNewest
BY Replayed, ReplayedSettings, PTL DEF SettingsAreNewest

-----------------------------------------------------------------------------
(* The site *)

\* The topics a session sees.
SeenTopics(d, approved) ==
  {t \in Stored(d) : Disclosed(d, Normalized(approved), t)}

LEMMA SeenDef ==
  ASSUME NEW d, NEW approved
  PROVE  ConsentedProjection(d, approved).topics =
           {Shown(d, t) : t \in SeenTopics(d, approved)}
BY DEF ConsentedProjection, SeenTopics

LEMMA WeightsDef ==
  ASSUME NEW d, NEW approved
  PROVE  GrantedWeights(d, approved) =
           [t \in SeenTopics(d, approved) |-> d.topics[t].weight]
<1>1. \A t : Shown(d, t).topic = t
  BY DEF Shown
<1>2. {s.topic : s \in {Shown(d, t) : t \in SeenTopics(d, approved)}} =
        SeenTopics(d, approved)
  BY <1>1
<1> QED BY <1>2, SeenDef DEF GrantedWeights

\* Disclosed discloses nothing hidden.
LEMMA HiddenIsUnseen ==
  ASSUME NEW d, NEW approved \in Approved, NEW t \in Topics,
         Hidden(d, approved, t)
  PROVE  t \notin SeenTopics(d, approved)
<1> SUFFICES ASSUME t \in Stored(d), Disclosed(d, Normalized(approved), t)
             PROVE  FALSE
  BY DEF SeenTopics
<1>1. d.topics[t] # Absent /\ t \notin d.optOut
  BY DEF Stored, Disclosed
<1>2. PublicTopics \in Normalized(approved) => PublicTopics \in approved
  BY DEF Normalized
<1>3. t \in SelectiveTopics(Normalized(approved)) => TopicScope(t) \in approved
  <2> SUFFICES ASSUME NEW s \in approved, s.kind = "topics.selective", s.topic = t
               PROVE  TopicScope(t) \in approved
    BY DEF SelectiveTopics, Normalized
  <2>1. s = [kind |-> s.kind, topic |-> s.topic]
    BY RelevanceConstants
  <2> QED BY <2>1 DEF TopicScope
<1>4. CASE d.topics[t].visibility = "public"
  BY <1>1, <1>2, <1>4 DEF Hidden, Disclosed
<1>5. CASE d.topics[t].visibility = "selective"
  BY <1>1, <1>3, <1>5 DEF Hidden, Disclosed
<1> QED BY <1>4, <1>5 DEF Disclosed

\* Two documents that differ on a topic hidden in both: a session reads the
\* same of them, but for the date.
LEMMA HiddenChangesNothing ==
  ASSUME NEW d \in Documents, NEW n \in Documents,
         NEW approved \in Approved, NEW t \in Topics,
         Hidden(d, approved, t), Hidden(n, approved, t),
         \A x \in Topics \ {t} : n.topics[x] = d.topics[x],
         n.optOut \ {t} = d.optOut \ {t},
         n.consent = d.consent, n.name = d.name
  PROVE  /\ ConsentedProjection(n, approved) =
              [ConsentedProjection(d, approved) EXCEPT !.updated = n.updatedAt]
         /\ GrantedWeights(n, approved) = GrantedWeights(d, approved)
<1>1. t \notin SeenTopics(d, approved) /\ t \notin SeenTopics(n, approved)
  BY HiddenIsUnseen
<1>2. ASSUME NEW x \in Topics \ {t}
      PROVE  x \in SeenTopics(n, approved) <=> x \in SeenTopics(d, approved)
  <2>1. x \in n.optOut <=> x \in d.optOut
    OBVIOUS
  <2> QED BY <2>1 DEF SeenTopics, Stored, Disclosed
<1>3. SeenTopics(n, approved) = SeenTopics(d, approved)
  <2>1. \A x \in SeenTopics(n, approved) \cup SeenTopics(d, approved) : x \in Topics
    BY DEF SeenTopics, Stored
  <2> QED BY <1>1, <1>2, <2>1
<1>4. \A x \in SeenTopics(d, approved) : x \in Topics \ {t}
  BY <1>1 DEF SeenTopics, Stored
<1>5. \A x \in SeenTopics(d, approved) :
        /\ Shown(n, x) = Shown(d, x)
        /\ n.topics[x].weight = d.topics[x].weight
  BY <1>4 DEF Shown
<1>6. {Shown(n, x) : x \in SeenTopics(d, approved)} =
        {Shown(d, x) : x \in SeenTopics(d, approved)}
  BY <1>5
<1>7. [x \in SeenTopics(d, approved) |-> n.topics[x].weight] =
        [x \in SeenTopics(d, approved) |-> d.topics[x].weight]
  BY <1>5
<1>8. ConsentedProjection(n, approved) =
        [ConsentedProjection(d, approved) EXCEPT !.updated = n.updatedAt]
  <2>1. ConsentedProjection(n, approved).topics =
          {Shown(n, x) : x \in SeenTopics(n, approved)}
    BY SeenDef
  <2>2. ConsentedProjection(d, approved).topics =
          {Shown(d, x) : x \in SeenTopics(d, approved)}
    BY SeenDef
  <2>3. ConsentedProjection(n, approved).topics =
          ConsentedProjection(d, approved).topics
    BY <1>3, <1>6, <2>1, <2>2
  <2> DEFINE scopes == Normalized(approved)
             Rest(topics, updated) ==
               [granted |-> scopes, ignored |-> Unknown(approved),
                topics |-> topics, updated |-> updated,
                name |-> IF ProfileRead \in scopes THEN d.name ELSE Absent,
                shares |-> IF ConsentSummary \in scopes
                           THEN d.consent["share_public_topics"] ELSE Absent,
                ads |-> IF ConsentSummary \in scopes
                        THEN d.consent["ad_personalization"] ELSE Absent]
  <2>4. /\ ConsentedProjection(n, approved) =
             Rest(ConsentedProjection(n, approved).topics, n.updatedAt)
        /\ ConsentedProjection(d, approved) =
             Rest(ConsentedProjection(d, approved).topics, d.updatedAt)
    BY DEF ConsentedProjection
  <2>5. ASSUME NEW topics, NEW x, NEW y
        PROVE  Rest(topics, y) = [Rest(topics, x) EXCEPT !.updated = y]
    <3> HIDE DEF scopes
    <3> QED OBVIOUS
  <2> HIDE DEF Rest
  <2> QED BY <2>3, <2>4, <2>5
<1>9. GrantedWeights(n, approved) = GrantedWeights(d, approved)
  <2>1. GrantedWeights(n, approved) =
          [x \in SeenTopics(d, approved) |-> n.topics[x].weight]
    BY <1>3, WeightsDef
  <2> QED BY <1>7, <2>1, WeightsDef
<1> QED BY <1>8, <1>9

\* An edit of a topic touches that topic and the date.
LEMMA TopicEdit ==
  ASSUME NEW d \in Documents, NEW e, EventOK(e),
         e.do.op \in {"set_topic", "remove_topic", "set_opt_out"}
  PROVE  LET n == ApplyEvent(d, e)
             t == e.do.on
         IN /\ n \in Documents /\ t \in Topics
            /\ \A x \in Topics \ {t} : n.topics[x] = d.topics[x]
            /\ n.optOut \ {t} = d.optOut \ {t}
            /\ n.consent = d.consent /\ n.name = d.name
            /\ n.updatedAt = Larger(d.updatedAt, e.time)
<1> DEFINE n == ApplyEvent(d, e)
           t == e.do.on
<1>1. n.name = d.name /\ n.updatedAt = Larger(d.updatedAt, e.time)
  BY NameEffect
<1>2. CASE e.do.op \in {"set_topic", "remove_topic"}
  <2>1. /\ n \in Documents /\ t \in Topics
        /\ n.optOut = d.optOut /\ n.consent = d.consent
        /\ \E x : n.topics = [d.topics EXCEPT ![t] = x]
    <3> DEFINE set == IF e.clock >= d.topicClock[t] THEN PreferenceOf(e)
                      ELSE d.topics[t]
               kept == IF e.clock > d.topicClock[t] THEN Absent ELSE d.topics[t]
    <3>1. /\ e.do.op = "set_topic" => n.topics = [d.topics EXCEPT ![t] = set]
          /\ e.do.op = "remove_topic" => n.topics = [d.topics EXCEPT ![t] = kept]
      BY <1>2, TopicEffect
    <3> HIDE DEF set, kept
    <3> QED BY <1>2, <3>1, TopicEffect
  <2>2. \A x \in Topics \ {t} : n.topics[x] = d.topics[x]
    BY <2>1 DEF Documents
  <2> QED BY <1>1, <2>1, <2>2
<1>3. CASE e.do.op = "set_opt_out"
  BY <1>1, <1>3, OptOutEffect
<1> QED BY <1>2, <1>3

\* What a session reads after an edit of a topic hidden from it.
LEMMA HiddenEdit ==
  ASSUME NEW d \in Documents, NEW e, EventOK(e),
         e.do.op \in {"set_topic", "remove_topic", "set_opt_out"},
         NEW approved \in Approved, NEW n, n = ApplyEvent(d, e),
         Hidden(d, approved, e.do.on), Hidden(n, approved, e.do.on),
         NEW request
  PROVE  View(n, approved, request) =
           [View(d, approved, request) EXCEPT
              !.projection.updated = Larger(@, e.time)]
<1>1. /\ ConsentedProjection(n, approved) =
           [ConsentedProjection(d, approved) EXCEPT !.updated = n.updatedAt]
      /\ GrantedWeights(n, approved) = GrantedWeights(d, approved)
  BY TopicEdit, HiddenChangesNothing
<1>2. n.updatedAt = Larger(d.updatedAt, e.time)
  BY TopicEdit
<1>3. ConsentedProjection(d, approved).updated = d.updatedAt
  BY DEF ConsentedProjection
<1>4. PICK p : p = ConsentedProjection(d, approved)
  OBVIOUS
<1>5. PICK r : r = RankSession(d, approved, feedback, request, Len(request))
  OBVIOUS
<1>6. View(d, approved, request) = [projection |-> p, ranked |-> r]
  BY <1>4, <1>5 DEF View
<1>7. View(n, approved, request) =
        [projection |-> [p EXCEPT !.updated = Larger(p.updated, e.time)],
         ranked |-> r]
  BY <1>1, <1>2, <1>3, <1>4, <1>5 DEF View, RankSession
<1> QED BY <1>6, <1>7

LEMMA HiddenEditsUnseen ==
  ASSUME ReplayInv, [ApplyNext]_replayVars
  PROVE  [\A e \in pending \ pending' : \A approved \in Approved :
            /\ e.do.op \in {"set_topic", "remove_topic", "set_opt_out"}
            /\ Hidden(doc, approved, e.do.on) /\ Hidden(doc', approved, e.do.on)
            => \A request \in Requests :
                 View(doc', approved, request) =
                 [View(doc, approved, request) EXCEPT
                    !.projection.updated = Larger(@, e.time)]]_replayVars
<1> SUFFICES ASSUME ApplyNext, NEW e \in pending \ pending',
                    NEW approved \in Approved,
                    e.do.op \in {"set_topic", "remove_topic", "set_opt_out"},
                    Hidden(doc, approved, e.do.on),
                    Hidden(doc', approved, e.do.on), NEW request \in Requests
             PROVE  View(doc', approved, request) =
                      [View(doc, approved, request) EXCEPT
                         !.projection.updated = Larger(@, e.time)]
  OBVIOUS
<1>1. doc' = ApplyEvent(doc, e)
  <2>1. PICK f \in pending : pending' = pending \ {f} /\ doc' = ApplyEvent(doc, f)
    BY DEF ApplyNext
  <2>2. e = f
    BY <2>1
  <2> QED BY <2>1, <2>2
<1>2. doc \in Documents /\ EventOK(e)
  BY DEF ReplayInv, EventsOK, Says
<1> QED BY <1>1, <1>2, HiddenEdit

\* Feedback moves nothing of the profile.
LEMMA RelevanceStepReplays ==
  [RelevanceNext]_relevanceVars => [ApplyNext]_replayVars
BY DEF RelevanceNext, relevanceVars, Replaying, SendFeedback, replayVars

\* The rows of a batch that are stored.
StoredOf(batch) ==
  {batch[i] : i \in {k \in DOMAIN batch :
                       /\ \A f \in feedback : f.id # batch[k].id
                       /\ \A j \in 1..(k - 1) : batch[j].id # batch[k].id}}

\* A batch without a new id adds nothing.
LEMMA RetriesAddNothing ==
  ASSUME [RelevanceNext]_relevanceVars,
         {e.id : e \in feedback'} = {e.id : e \in feedback}
  PROVE  feedback' = feedback
<1>1. CASE SendFeedback
  <2>1. PICK batch \in Reactions : Ingest(batch)
    BY <1>1 DEF SendFeedback
  <2>2. feedback' = feedback \cup StoredOf(batch)
    BY <2>1 DEF Ingest, StoredOf
  <2>3. ASSUME NEW e \in StoredOf(batch) PROVE FALSE
    <3>1. e.id \in {f.id : f \in feedback'}
      BY <2>2
    <3>2. \E f \in feedback : f.id = e.id
      BY <3>1
    <3>3. \A f \in feedback : f.id # e.id
      BY DEF StoredOf
    <3> QED BY <3>2, <3>3
  <2> QED BY <2>2, <2>3
<1> QED BY <1>1 DEF RelevanceNext, Replaying, relevanceVars

-----------------------------------------------------------------------------
(* Folds.  A fold of the community modules is a recursive function on the  *)
(* subsets of a set, which gives up one picked element after the other.    *)

Picks(S, pick) == \A T \in SUBSET S : T # {} => pick[T] \in T

IsFold(S, base, pick, step, iter) ==
  iter = [T \in SUBSET S |->
            IF T = {} THEN base ELSE step[pick[T]][iter[T \ {pick[T]}]]]

LEMMA FoldsAgree ==
  ASSUME NEW S, IsFiniteSet(S), NEW base, NEW pick, Picks(S, pick), NEW step,
         NEW A \in SUBSET S, NEW B \in SUBSET S, NEW i, NEW j,
         IsFold(A, base, pick, step, i), IsFold(B, base, pick, step, j)
  PROVE  \A T \in SUBSET (A \cap B) : i[T] = j[T]
<1> DEFINE Good == {T \in SUBSET (A \cap B) : i[T] = j[T]}
<1>1. ASSUME NEW T \in SUBSET (A \cap B),
             \A U \in SUBSET T : U # T => U \in Good
      PROVE  T \in Good
  <2>1. i[T] = IF T = {} THEN base ELSE step[pick[T]][i[T \ {pick[T]}]]
    BY DEF IsFold
  <2>2. j[T] = IF T = {} THEN base ELSE step[pick[T]][j[T \ {pick[T]}]]
    BY DEF IsFold
  <2>3. CASE T = {}
    BY <2>1, <2>2, <2>3
  <2>4. CASE T # {}
    <3>1. pick[T] \in T
      BY <2>4 DEF Picks
    <3>2. T \ {pick[T]} \in Good
      BY <1>1, <3>1
    <3> QED BY <2>1, <2>2, <2>4, <3>2
  <2> QED BY <2>3, <2>4
<1>2. IsFiniteSet(A \cap B)
  BY FS_Subset
<1>3. \A T \in SUBSET (A \cap B) : T \in Good
  <2> HIDE DEF Good
  <2> QED BY <1>1, <1>2, SubsetInduction
<1> QED BY <1>3

Fold(S, base, pick, step) ==
  (CHOOSE iter : IsFold(S, base, pick, step, iter))[S]

LEMMA FoldExists ==
  ASSUME NEW S, IsFiniteSet(S), NEW base, NEW pick, Picks(S, pick), NEW step
  PROVE  \E iter : IsFold(S, base, pick, step, iter)
<1> DEFINE Good == {T \in SUBSET S : \E iter : IsFold(T, base, pick, step, iter)}
           Of(T) == Fold(T, base, pick, step)
<1>1. ASSUME NEW T \in SUBSET S, \A U \in SUBSET T : U # T => U \in Good
      PROVE  T \in Good
  <2> DEFINE iter == [s \in SUBSET T |->
                       IF s = {} THEN base ELSE step[pick[s]][Of(s \ {pick[s]})]]
  <2>1. ASSUME NEW s \in SUBSET T, s # {}
        PROVE  iter[s \ {pick[s]}] = Of(s \ {pick[s]})
    <3> DEFINE u == s \ {pick[s]}
               j == CHOOSE g : IsFold(u, base, pick, step, g)
    <3>1. pick[s] \in s
      BY <2>1 DEF Picks
    <3>2. u \in Good
      BY <1>1, <3>1
    <3>3. IsFold(u, base, pick, step, j) /\ Of(u) = j[u]
      BY <3>2 DEF Fold
    <3>4. j[u] = IF u = {} THEN base ELSE step[pick[u]][j[u \ {pick[u]}]]
      BY <3>3 DEF IsFold
    <3>5. CASE u = {}
      BY <3>3, <3>4, <3>5
    <3>6. CASE u # {}
      <4> DEFINE v == u \ {pick[u]}
                 k == CHOOSE g : IsFold(v, base, pick, step, g)
      <4>1. v \in SUBSET u /\ v \in SUBSET T /\ v # T
        BY <3>1
      <4>2. v \in Good
        BY <1>1, <4>1
      <4>3. IsFold(v, base, pick, step, k) /\ Of(v) = k[v]
        BY <4>2 DEF Fold
      <4>4. u \in SUBSET S /\ v \in SUBSET S /\ v \in SUBSET (u \cap v)
        BY <4>1
      <4> HIDE DEF j, k, v, u
      <4>5. j[v] = k[v]
        BY <3>3, <4>3, <4>4, FoldsAgree
      <4> USE DEF v, u
      <4>6. iter[u] = step[pick[u]][Of(v)]
        BY <3>6
      <4> QED BY <3>3, <3>4, <3>6, <4>3, <4>5, <4>6
    <3> QED BY <3>5, <3>6
  <2>2. IsFold(T, base, pick, step, iter)
    <3>1. \A s \in SUBSET T :
            iter[s] = IF s = {} THEN base
                      ELSE step[pick[s]][iter[s \ {pick[s]}]]
      <4> HIDE DEF Of
      <4> QED BY <2>1
    <3>2. iter = [s \in SUBSET T |-> iter[s]]
      OBVIOUS
    <3> HIDE DEF iter
    <3> QED BY <3>1, <3>2 DEF IsFold
  <2> QED BY <2>2
<1>2. \A T \in SUBSET S : T \in Good
  <2> HIDE DEF Good
  <2> QED BY <1>1, SubsetInduction
<1> QED BY <1>2

\* The values of a fold, when every step leads from values to values.
LEMMA FoldType ==
  ASSUME NEW S, IsFiniteSet(S), NEW V, NEW base \in V, NEW pick, Picks(S, pick),
         NEW step, \A x \in S : \A v \in V : step[x][v] \in V,
         NEW iter, IsFold(S, base, pick, step, iter)
  PROVE  \A T \in SUBSET S : iter[T] \in V
<1> DEFINE Good == {T \in SUBSET S : iter[T] \in V}
<1>1. ASSUME NEW T \in SUBSET S, \A U \in SUBSET T : U # T => U \in Good
      PROVE  T \in Good
  <2>1. iter[T] = IF T = {} THEN base ELSE step[pick[T]][iter[T \ {pick[T]}]]
    BY DEF IsFold
  <2>2. CASE T = {}
    BY <2>1, <2>2
  <2>3. CASE T # {}
    <3>1. pick[T] \in T
      BY <2>3 DEF Picks
    <3>2. T \ {pick[T]} \in Good
      BY <1>1, <3>1
    <3> QED BY <2>1, <2>3, <3>1, <3>2
  <2> QED BY <2>2, <2>3
<1>2. \A T \in SUBSET S : T \in Good
  <2> HIDE DEF Good
  <2> QED BY <1>1, SubsetInduction
<1> QED BY <1>2

-----------------------------------------------------------------------------
(* Sums *)

\* MapThenSumSet of the values of a function.
IsSum(S, value, iter) ==
  iter = [T \in SUBSET S |->
            IF T = {} THEN 0
            ELSE value[CHOOSE x \in T : TRUE] + iter[T \ {CHOOSE x \in T : TRUE}]]

LEMMA SumIsInt ==
  ASSUME NEW S, IsFiniteSet(S), NEW value, \A x \in S : value[x] \in Int
  PROVE  (CHOOSE iter : IsSum(S, value, iter))[S] \in Int
<1> DEFINE pick == [T \in SUBSET S |-> CHOOSE x \in T : TRUE]
           step == [x \in S |-> [v \in Int |-> value[x] + v]]
           sum == CHOOSE iter : IsSum(S, value, iter)
<1>1. Picks(S, pick) /\ 0 \in Int
  BY DEF Picks
<1>2. \A x \in S : \A v \in Int : step[x][v] = value[x] + v /\ step[x][v] \in Int
  OBVIOUS
<1>3. PICK iter : IsFold(S, 0, pick, step, iter)
  <2> HIDE DEF pick, step
  <2> QED BY <1>1, FoldExists
<1>4. \A T \in SUBSET S : iter[T] \in Int
  <2> HIDE DEF pick, step
  <2> QED BY <1>1, <1>2, <1>3, FoldType
<1>5. IsSum(S, value, iter)
  <2>1. \A T \in SUBSET S : iter[T] =
          IF T = {} THEN 0 ELSE step[pick[T]][iter[T \ {pick[T]}]]
    <3> HIDE DEF pick, step
    <3> QED BY <1>3 DEF IsFold
  <2>2. iter = [T \in SUBSET S |-> iter[T]]
    <3> HIDE DEF pick, step
    <3> QED BY <1>3 DEF IsFold
  <2>3. ASSUME NEW T \in SUBSET S, T # {}
        PROVE  iter[T] = value[CHOOSE x \in T : TRUE] + iter[T \ {CHOOSE x \in T : TRUE}]
    <3>1. pick[T] = (CHOOSE x \in T : TRUE) /\ pick[T] \in S
      BY <1>1, <2>3 DEF Picks
    <3>2. T \ {pick[T]} \in SUBSET S
      OBVIOUS
    <3>3. iter[T] = step[pick[T]][iter[T \ {pick[T]}]]
      BY <2>1, <2>3
    <3>4. iter[T] = value[pick[T]] + iter[T \ {pick[T]}]
      <4> HIDE DEF pick, step
      <4> QED BY <1>2, <1>4, <3>1, <3>2, <3>3
    <3> HIDE DEF pick
    <3> QED BY <3>1, <3>4
  <2>4. \A T \in SUBSET S : iter[T] =
          IF T = {} THEN 0
          ELSE value[CHOOSE x \in T : TRUE] + iter[T \ {CHOOSE x \in T : TRUE}]
    BY <2>1, <2>3
  <2> QED BY <2>2, <2>4 DEF IsSum
<1>6. IsSum(S, value, sum)
  BY <1>5
<1>7. \A T \in SUBSET S : sum[T] \in Int
  <2> HIDE DEF sum
  <2> DEFINE Good == {T \in SUBSET S : sum[T] \in Int}
  <2>1. ASSUME NEW T \in SUBSET S, \A U \in SUBSET T : U # T => U \in Good
        PROVE  T \in Good
    <3> DEFINE x == CHOOSE y \in T : TRUE
    <3>1. sum[T] = IF T = {} THEN 0 ELSE value[x] + sum[T \ {x}]
      BY <1>6 DEF IsSum
    <3>2. CASE T = {}
      BY <3>1, <3>2
    <3>3. CASE T # {}
      <4>1. x \in T
        BY <3>3
      <4> HIDE DEF x
      <4>2. T \ {x} \in Good
        BY <2>1, <4>1
      <4> QED BY <3>1, <3>3, <4>1, <4>2
    <3> QED BY <3>2, <3>3
  <2>2. \A T \in SUBSET S : T \in Good
    <3> HIDE DEF Good
    <3> QED BY <2>1, SubsetInduction
  <2> QED BY <2>2
<1> QED BY <1>7

Picked(T) == CHOOSE x \in T : TRUE

\* The three sums of a score, unfolded.
SignalSum(S) ==
  (CHOOSE iter : iter =
     [T \in SUBSET S |-> IF T = {} THEN 0
                         ELSE SignalOf(Picked(T).type) + iter[T \ {Picked(T)}]])[S]

TopicSum(S, heard) ==
  (CHOOSE iter : iter =
     [T \in SUBSET S |-> IF T = {} THEN 0
                         ELSE TopicSignal(heard, Picked(T)) + iter[T \ {Picked(T)}]])[S]

WeightSum(S, weights) ==
  (CHOOSE iter : iter =
     [T \in SUBSET S |-> IF T = {} THEN 0
                         ELSE weights[Picked(T)] + iter[T \ {Picked(T)}]])[S]

LEMMA SignalSumIsInt ==
  ASSUME NEW S, IsFiniteSet(S), \A e \in S : e.type \in {"click", "dismiss", "save"}
  PROVE  SignalSum(S) \in Int
<1> DEFINE value == [e \in S |-> SignalOf(e.type)]
<1>1. \A e \in S : value[e] \in Int /\ value[e] = SignalOf(e.type)
  BY DEF SignalOf
<1>2. ASSUME NEW T \in SUBSET S, T # {}
      PROVE  value[Picked(T)] = SignalOf(Picked(T).type)
  <2>1. Picked(T) \in S
    BY <1>2 DEF Picked
  <2> HIDE DEF value
  <2> QED BY <1>1, <2>1
<1>3. ASSUME NEW iter
      PROVE  IsSum(S, value, iter) <=> iter =
               [T \in SUBSET S |-> IF T = {} THEN 0
                                   ELSE SignalOf(Picked(T).type) + iter[T \ {Picked(T)}]]
  <2> HIDE DEF value
  <2>1. [T \in SUBSET S |-> IF T = {} THEN 0
                            ELSE SignalOf(Picked(T).type) + iter[T \ {Picked(T)}]] =
        [T \in SUBSET S |-> IF T = {} THEN 0
                            ELSE value[Picked(T)] + iter[T \ {Picked(T)}]]
    BY <1>2
  <2> QED BY <2>1 DEF IsSum, Picked
<1>4. SignalSum(S) = (CHOOSE iter : IsSum(S, value, iter))[S]
  <2> HIDE DEF value
  <2> QED BY <1>3 DEF SignalSum
<1> HIDE DEF value
<1> QED BY <1>1, <1>4, SumIsInt

LEMMA TopicSumIsInt ==
  ASSUME NEW S, IsFiniteSet(S), NEW heard, \A t \in S : TopicSignal(heard, t) \in Int
  PROVE  TopicSum(S, heard) \in Int
<1> DEFINE value == [x \in S |-> TopicSignal(heard, x)]
<1>1. \A x \in S : value[x] \in Int /\ value[x] = TopicSignal(heard, x)
  OBVIOUS
<1>2. ASSUME NEW T \in SUBSET S, T # {}
      PROVE  value[Picked(T)] = TopicSignal(heard, Picked(T))
  <2>1. Picked(T) \in S
    BY <1>2 DEF Picked
  <2> HIDE DEF value
  <2> QED BY <1>1, <2>1
<1>3. ASSUME NEW iter
      PROVE  IsSum(S, value, iter) <=> iter =
               [T \in SUBSET S |-> IF T = {} THEN 0
                  ELSE TopicSignal(heard, Picked(T)) + iter[T \ {Picked(T)}]]
  <2> HIDE DEF value
  <2>1. [T \in SUBSET S |-> IF T = {} THEN 0
           ELSE TopicSignal(heard, Picked(T)) + iter[T \ {Picked(T)}]] =
        [T \in SUBSET S |-> IF T = {} THEN 0
           ELSE value[Picked(T)] + iter[T \ {Picked(T)}]]
    BY <1>2
  <2> QED BY <2>1 DEF IsSum, Picked
<1>4. TopicSum(S, heard) = (CHOOSE iter : IsSum(S, value, iter))[S]
  <2> HIDE DEF value
  <2> QED BY <1>3 DEF TopicSum
<1> HIDE DEF value
<1> QED BY <1>1, <1>4, SumIsInt

LEMMA WeightSumIsInt ==
  ASSUME NEW S, IsFiniteSet(S), NEW weights, \A t \in S : weights[t] \in Int
  PROVE  WeightSum(S, weights) \in Int
<1>1. WeightSum(S, weights) = (CHOOSE iter : IsSum(S, weights, iter))[S]
  BY DEF WeightSum, IsSum, Picked
<1> QED BY <1>1, SumIsInt

-----------------------------------------------------------------------------
(* Scores *)

\* Feedback a site can have sent.
FeedbackOK(heard) ==
  /\ IsFiniteSet(heard)
  /\ \A e \in heard : ReactionOK(e)

LEMMA SignalsAreInts ==
  ASSUME NEW heard, FeedbackOK(heard), NEW id, NEW t
  PROVE  CandidateSignal(heard, id) \in Int /\ TopicSignal(heard, t) \in Int
<1> DEFINE A == {e \in heard : e.candidate = id}
           B == {e \in heard : t \in e.topics}
<1>1. /\ IsFiniteSet(A) /\ \A e \in A : e.type \in {"click", "dismiss", "save"}
      /\ IsFiniteSet(B) /\ \A e \in B : e.type \in {"click", "dismiss", "save"}
  BY FS_Subset DEF FeedbackOK, ReactionOK
<1>2. SignalSum(A) \in Int /\ SignalSum(B) \in Int
  <2> HIDE DEF A, B
  <2> QED BY <1>1, SignalSumIsInt
<1>3. CandidateSignal(heard, id) = SignalSum(A) /\ TopicSignal(heard, t) = SignalSum(B)
  BY DEF CandidateSignal, TopicSignal, SignalSum, SumOf, MapThenSumSet,
         MapThenFoldSet, Picked
<1> QED BY <1>2, <1>3

LEMMA Quotient ==
  ASSUME NEW a \in Int, NEW b \in Nat \ {0}
  PROVE  a \div b \in Int
OBVIOUS

LEMMA SquashIsInt ==
  ASSUME NEW x \in Int
  PROVE  Squash(x) \in Int
<1>1. CASE x >= 0
  <2>1. 1000 * x \in Int /\ 30 + x \in Nat \ {0}
    BY <1>1
  <2>2. (1000 * x) \div (30 + x) \in Int
    BY <2>1, Quotient
  <2> QED BY <1>1, <2>2 DEF Squash, Unit
<1>2. CASE ~(x >= 0)
  <2>1. 1000 * (-x) \in Int /\ 30 - x \in Nat \ {0}
    BY <1>2
  <2>2. (1000 * (-x)) \div (30 - x) \in Int
    BY <2>1, Quotient
  <2> QED BY <1>2, <2>2 DEF Squash, Unit
<1> QED BY <1>1, <1>2

LEMMA FeedbackScoreIsInt ==
  ASSUME NEW heard, FeedbackOK(heard), NEW candidate, IsFiniteSet(candidate.topics)
  PROVE  FeedbackScore(heard, candidate) \in Int
<1> DEFINE known == {t \in candidate.topics : \E e \in heard : t \in e.topics}
           mean == IF known = {} THEN 0
                   ELSE (3 * TopicSum(known, heard)) \div Cardinality(known)
           exact == CandidateSignal(heard, candidate.id)
<1>1. FeedbackScore(heard, candidate) =
        IF heard = {} THEN 0 ELSE Squash(7 * exact + mean)
  BY DEF FeedbackScore, TopicSum, SumOf, MapThenSumSet, MapThenFoldSet, Picked
<1>2. IsFiniteSet(known)
  BY FS_Subset
<1>3. exact \in Int /\ \A t : TopicSignal(heard, t) \in Int
  BY SignalsAreInts
<1>4. mean \in Int
  <2>1. CASE known = {}
    BY <2>1
  <2>2. CASE known # {}
    <3> HIDE DEF known
    <3>1. Cardinality(known) \in Nat \ {0}
      BY <1>2, <2>2, FS_CardinalityType, FS_EmptySet
    <3>2. TopicSum(known, heard) \in Int
      BY <1>2, <1>3, TopicSumIsInt
    <3>3. 3 * TopicSum(known, heard) \in Int
      BY <3>2
    <3>4. (3 * TopicSum(known, heard)) \div Cardinality(known) \in Int
      BY <3>1, <3>3, Quotient
    <3> QED BY <2>2, <3>4
  <2> QED BY <2>1, <2>2
<1> HIDE DEF mean, exact
<1>5. 7 * exact + mean \in Int
  BY <1>3, <1>4
<1> QED BY <1>1, <1>5, SquashIsInt

LEMMA AffinityIsInt ==
  ASSUME NEW weights, IsFiniteSet(DOMAIN weights),
         \A t \in DOMAIN weights : weights[t] \in Nat, NEW candidate
  PROVE  TopicAffinity(weights, candidate) \in Int
<1> DEFINE all == DOMAIN weights
           part == candidate.topics \cap all
           total == WeightSum(all, weights)
<1>1. TopicAffinity(weights, candidate) =
        IF candidate.topics = {} \/ total <= 0 THEN Unit \div 2
        ELSE (Unit * WeightSum(part, weights)) \div total
  BY DEF TopicAffinity, WeightSum, SumOf, MapThenSumSet, MapThenFoldSet, Picked
<1>2. IsFiniteSet(part) /\ \A t \in part : weights[t] \in Int
  BY FS_Subset
<1>3. total \in Int /\ WeightSum(part, weights) \in Int
  <2> HIDE DEF part
  <2> QED BY <1>2, WeightSumIsInt
<1> HIDE DEF total, part
<1>4. CASE candidate.topics = {} \/ total <= 0
  <2>1. 1000 \div 2 \in Int
    BY Quotient
  <2> QED BY <1>1, <1>4, <2>1 DEF Unit
<1>5. CASE ~(candidate.topics = {} \/ total <= 0)
  <2>1. total \in Nat \ {0} /\ 1000 * WeightSum(part, weights) \in Int
    BY <1>3, <1>5
  <2>2. (1000 * WeightSum(part, weights)) \div total \in Int
    BY <2>1, Quotient
  <2> QED BY <1>1, <1>5, <2>2 DEF Unit
<1> QED BY <1>4, <1>5

LEMMA ScoreRange ==
  ASSUME NEW weights, IsFiniteSet(DOMAIN weights),
         \A t \in DOMAIN weights : weights[t] \in Nat,
         NEW heard, FeedbackOK(heard), NEW candidate, CandidateOK(candidate)
  PROVE  Score(weights, heard, candidate) \in 0..Unit
<1>1. PICK a \in Int : a = TopicAffinity(weights, candidate)
  BY AffinityIsInt
<1>2. PICK f \in Int : f = FeedbackScore(heard, candidate)
  BY FeedbackScoreIsInt DEF CandidateOK
<1>3. candidate.siteScore \in Int /\ candidate.freshness \in Int
  <2>1. \A x \in 0..Unit : x \in Int
    BY DEF Unit
  <2> QED BY <2>1 DEF CandidateOK
<1>4. 7 * candidate.siteScore + 2 * a + candidate.freshness + 2 * f \in Int
  BY <1>3
<1>5. (7 * candidate.siteScore + 2 * a + candidate.freshness + 2 * f) \div 10 \in Int
  BY <1>4, Quotient
<1>6. Score(weights, heard, candidate) =
        Clamp((7 * candidate.siteScore + 2 * a + candidate.freshness + 2 * f) \div 10)
  BY <1>1, <1>2 DEF Score
<1> QED BY <1>5, <1>6 DEF Clamp, Unit

-----------------------------------------------------------------------------
(* Sorting *)

Entries == [id : Nat, siteScore : 0..Unit, score : 0..Unit]

\* The sort key tells any two candidates apart.
LEMMA KeyOrders ==
  ASSUME NEW x \in Entries, NEW y \in Entries
  PROVE  /\ ~(RanksBefore(x, y) /\ RanksBefore(y, x))
         /\ x.id # y.id => RanksBefore(x, y) \/ RanksBefore(y, x)
         /\ \A z \in Entries :
              RanksBefore(x, y) /\ RanksBefore(y, z) => RanksBefore(x, z)
<1>1. \A e \in Entries : e.id \in Int /\ e.siteScore \in Int /\ e.score \in Int
  <2>1. \A n \in 0..Unit : n \in Int
    BY DEF Unit
  <2> QED BY <2>1 DEF Entries
<1> QED BY <1>1 DEF RanksBefore

LEMMA Extremes ==
  ASSUME NEW n \in Nat, NEW T \in SUBSET (1..n), T # {}
  PROVE  /\ Min(T) \in T /\ \A y \in T : Min(T) <= y
         /\ Max(T) \in T /\ \A y \in T : y <= Max(T)
<1> DEFINE Bounded(U) == \E a, b \in U : \A y \in U : a <= y /\ y <= b
           Good == {U \in SUBSET T : U # {} => Bounded(U)}
<1>0. \A x \in T : x \in Int
  OBVIOUS
<1>1. ASSUME NEW U \in SUBSET T, \A W \in SUBSET U : W # U => W \in Good
      PROVE  U \in Good
  <2> SUFFICES ASSUME NEW x \in U PROVE Bounded(U)
    OBVIOUS
  <2>1. CASE U = {x}
    BY <1>0, <2>1
  <2>2. CASE U # {x}
    <3>1. U \ {x} \in Good /\ U \ {x} # {}
      BY <1>1, <2>2
    <3>2. PICK a, b \in U \ {x} : \A y \in U \ {x} : a <= y /\ y <= b
      BY <3>1
    <3>3. a \in Int /\ b \in Int /\ x \in Int /\ \A y \in U : y \in Int
      BY <1>0
    <3>4. PICK c \in U : c = IF x <= a THEN x ELSE a
      BY <3>2
    <3>5. PICK d \in U : d = IF b <= x THEN x ELSE b
      BY <3>2
    <3>6. \A y \in U : c <= y /\ y <= d
      BY <3>2, <3>3, <3>4, <3>5
    <3> QED BY <3>6
  <2> QED BY <2>1, <2>2
<1>2. T \in Good
  <2> HIDE DEF Good
  <2>1. IsFiniteSet(T)
    <3>1. IsFiniteSet(1..n)
      BY FS_Interval
    <3> QED BY <3>1, FS_Subset
  <2> QED BY <1>1, <2>1, SubsetInduction
<1>3. PICK a, b \in T : \A y \in T : a <= y /\ y <= b
  BY <1>2
<1>4. Min(T) \in T /\ \A y \in T : Min(T) <= y
  BY <1>3 DEF Min
<1>5. Max(T) \in T /\ \A y \in T : Max(T) >= y
  <2>1. \E x \in T : \A y \in T : x >= y
    BY <1>0, <1>3
  <2> QED BY <2>1 DEF Max
<1>6. \A y \in T : y <= Max(T)
  BY <1>0, <1>5
<1> QED BY <1>4, <1>5, <1>6

Sorted(s) ==
  /\ s \in Seq(Entries)
  /\ \A i, j \in 1..Len(s) : i < j => RanksBefore(s[i], s[j])

LEMMA AtIndex ==
  ASSUME NEW S, NEW s \in Seq(S), NEW x \in S, NEW k \in 1..Len(s)
  PROVE  LET n == InsertAt(s, k, x) IN
         /\ n \in Seq(S) /\ Len(n) = Len(s) + 1
         /\ \A i \in 1..Len(s) + 1 :
              n[i] = IF i < k THEN s[i] ELSE IF i = k THEN x ELSE s[i - 1]
<1>1. Len(s) \in Nat /\ k \in Nat /\ k - 1 \in Int /\ \A i \in 1..Len(s) : s[i] \in S
  BY LenProperties
<1>2. PICK a : a = SubSeq(s, 1, k - 1)
  OBVIOUS
<1>3. /\ a \in Seq(S) /\ Len(a) = k - 1
      /\ \A i \in 1..k - 1 : a[i] = s[i]
  <2>1. \A i \in 1..(k - 1) : s[i] \in S
    BY <1>1
  <2> QED BY <1>1, <1>2, <2>1, SubSeqProperties
<1>4. PICK b : b = SubSeq(s, k, Len(s))
  OBVIOUS
<1>5. /\ b \in Seq(S) /\ Len(b) = Len(s) - k + 1
      /\ \A i \in 1..Len(s) - k + 1 : b[i] = s[k + i - 1]
  <2>1. \A i \in k..Len(s) : s[i] \in S
    BY <1>1
  <2> QED BY <1>1, <1>4, <2>1, SubSeqProperties
<1>6. PICK m : m = a \o <<x>>
  OBVIOUS
<1>7. /\ m \in Seq(S) /\ Len(m) = k
      /\ \A i \in 1..k : m[i] = IF i < k THEN s[i] ELSE x
  <2>1. <<x>> \in Seq(S) /\ Len(<<x>>) = 1 /\ <<x>>[1] = x
    OBVIOUS
  <2>2. /\ m \in Seq(S) /\ Len(m) = Len(a) + 1
        /\ \A i \in 1..Len(a) + 1 : m[i] = IF i <= Len(a) THEN a[i] ELSE <<x>>[i - Len(a)]
    BY <1>3, <1>6, <2>1, ConcatProperties
  <2> QED BY <1>1, <1>3, <2>1, <2>2
<1>8. PICK n : n = m \o b
  OBVIOUS
<1>9. /\ n \in Seq(S) /\ Len(n) = Len(m) + Len(b)
      /\ \A i \in 1..Len(m) + Len(b) : n[i] = IF i <= Len(m) THEN m[i] ELSE b[i - Len(m)]
  BY <1>5, <1>7, <1>8, ConcatProperties
<1>10. ASSUME NEW i \in 1..Len(s) + 1
       PROVE  n[i] = IF i < k THEN s[i] ELSE IF i = k THEN x ELSE s[i - 1]
  <2>1. n[i] = IF i <= k THEN m[i] ELSE b[i - k]
    BY <1>1, <1>5, <1>7, <1>9
  <2>2. CASE i <= k
    <3>1. i \in 1..k
      BY <2>2
    <3> QED BY <1>7, <2>1, <2>2, <3>1
  <2>3. CASE ~(i <= k)
    <3>1. i - k \in 1..Len(s) - k + 1 /\ k + (i - k) - 1 = i - 1 /\ ~(i < k) /\ i # k
      BY <1>1, <2>3
    <3> QED BY <1>5, <2>1, <2>3, <3>1
  <2> QED BY <2>2, <2>3
<1>11. n = InsertAt(s, k, x)
  BY <1>2, <1>4, <1>6, <1>8 DEF InsertAt
<1> QED BY <1>1, <1>5, <1>7, <1>9, <1>10, <1>11

\* The insertion of Rank.
Inserted(sorted, x) ==
  LET after == SelectInSeq(sorted, LAMBDA y : RanksBefore(x, y))
  IN IF after = 0 THEN Append(sorted, x) ELSE InsertAt(sorted, after, x)

LEMMA InsertionSorts ==
  ASSUME NEW s, Sorted(s), NEW x \in Entries,
         \A i \in 1..Len(s) : s[i].id # x.id
  PROVE  Sorted(Inserted(s, x)) /\ Range(Inserted(s, x)) = Range(s) \cup {x}
<1> DEFINE I == {i \in 1..Len(s) : RanksBefore(x, s[i])}
<1>1. /\ s \in Seq(Entries) /\ Len(s) \in Nat /\ \A i \in 1..Len(s) : s[i] \in Entries
      /\ Range(s) = {s[i] : i \in 1..Len(s)}
  BY LenProperties, RangeEquality DEF Sorted
<1>2. \A i \in 1..Len(s) : i \notin I => RanksBefore(s[i], x)
  BY <1>1, KeyOrders
<1>3. Inserted(s, x) = IF (IF I # {} THEN Min(I) ELSE 0) = 0 THEN Append(s, x)
                       ELSE InsertAt(s, IF I # {} THEN Min(I) ELSE 0, x)
  BY DEF Inserted, SelectInSeq
<1>4. CASE I = {}
  <2>1. PICK n : n = Append(s, x)
    OBVIOUS
  <2>2. /\ n \in Seq(Entries) /\ Len(n) = Len(s) + 1
        /\ \A i \in 1..Len(s) : n[i] = s[i]
        /\ n[Len(s) + 1] = x
    BY <1>1, <2>1, AppendProperties
  <2>3. \A i, j \in 1..Len(n) : i < j => RanksBefore(n[i], n[j])
    <3> SUFFICES ASSUME NEW i \in 1..Len(n), NEW j \in 1..Len(n), i < j
                 PROVE  RanksBefore(n[i], n[j])
      OBVIOUS
    <3>1. i \in 1..Len(s) /\ n[i] = s[i]
      BY <1>1, <2>2
    <3>2. CASE j = Len(s) + 1
      BY <1>2, <1>4, <2>2, <3>1, <3>2
    <3>3. CASE j # Len(s) + 1
      <4>1. j \in 1..Len(s) /\ n[j] = s[j]
        BY <1>1, <2>2, <3>3
      <4> QED BY <3>1, <4>1 DEF Sorted
    <3> QED BY <3>2, <3>3
  <2>4. Range(n) = Range(s) \cup {x}
    <3>1. Range(n) = {n[i] : i \in 1..Len(n)}
      BY <2>2, RangeEquality
    <3>2. \A i \in 1..Len(n) : i \in 1..Len(s) \/ i = Len(s) + 1
      BY <1>1, <2>2
    <3>3. \A i \in 1..Len(s) : i \in 1..Len(n)
      BY <1>1, <2>2
    <3>4. Len(s) + 1 \in 1..Len(n)
      BY <1>1, <2>2
    <3> QED BY <1>1, <2>2, <3>1, <3>2, <3>3, <3>4
  <2>5. Inserted(s, x) = n
    BY <1>3, <1>4, <2>1
  <2> QED BY <2>2, <2>3, <2>4, <2>5 DEF Sorted
<1>5. CASE I # {}
  <2>1. PICK k : k = Min(I)
    OBVIOUS
  <2>2. k \in I /\ \A i \in I : k <= i
    <3>1. I \in SUBSET (1..Len(s))
      OBVIOUS
    <3> HIDE DEF I
    <3> QED BY <1>1, <1>5, <2>1, <3>1, Extremes
  <2>3. /\ k \in 1..Len(s) /\ RanksBefore(x, s[k])
        /\ \A i \in 1..Len(s) : i < k => RanksBefore(s[i], x)
    <3>1. \A i \in 1..Len(s) : i < k => i \notin I
      BY <2>2
    <3> QED BY <1>2, <2>2, <3>1
  <2>4. \A i \in 1..Len(s) : i >= k => RanksBefore(x, s[i])
    <3> SUFFICES ASSUME NEW i \in 1..Len(s), i >= k, i # k
                 PROVE  RanksBefore(x, s[i])
      BY <2>3
    <3>1. RanksBefore(s[k], s[i])
      BY <2>3 DEF Sorted
    <3> QED BY <1>1, <2>3, <3>1, KeyOrders
  <2>5. PICK n : n = InsertAt(s, k, x)
    OBVIOUS
  <2>6. /\ n \in Seq(Entries) /\ Len(n) = Len(s) + 1
        /\ \A i \in 1..Len(s) + 1 :
             n[i] = IF i < k THEN s[i] ELSE IF i = k THEN x ELSE s[i - 1]
    BY <1>1, <2>3, <2>5, AtIndex
  <2>7. \A i, j \in 1..Len(n) : i < j => RanksBefore(n[i], n[j])
    <3> SUFFICES ASSUME NEW i \in 1..Len(n), NEW j \in 1..Len(n), i < j
                 PROVE  RanksBefore(n[i], n[j])
      OBVIOUS
    <3>0. /\ k \in Nat /\ Len(n) = Len(s) + 1
          /\ n[i] = (IF i < k THEN s[i] ELSE IF i = k THEN x ELSE s[i - 1])
          /\ n[j] = (IF j < k THEN s[j] ELSE IF j = k THEN x ELSE s[j - 1])
      BY <2>3, <2>6
    <3>1. CASE j < k
      <4>1. i \in 1..Len(s) /\ j \in 1..Len(s) /\ i < k
        BY <1>1, <2>3, <3>0, <3>1
      <4>2. n[i] = s[i] /\ n[j] = s[j]
        BY <3>0, <3>1, <4>1
      <4> QED BY <4>1, <4>2 DEF Sorted
    <3>2. CASE j = k
      <4>1. i \in 1..Len(s) /\ i < k
        BY <1>1, <2>3, <3>0, <3>2
      <4>2. n[i] = s[i] /\ n[j] = x
        BY <3>0, <3>2, <4>1
      <4> QED BY <2>3, <4>1, <4>2
    <3>3. CASE j > k
      <4>1. j - 1 \in 1..Len(s) /\ j - 1 >= k /\ ~(j < k) /\ j # k
        BY <1>1, <2>3, <3>0, <3>3
      <4>2. n[j] = s[j - 1]
        BY <3>0, <4>1
      <4>3. CASE i < k
        <5>1. n[i] = s[i] /\ i \in 1..Len(s) /\ i < j - 1
          BY <1>1, <2>3, <3>0, <4>3, <4>1
        <5> QED BY <4>1, <4>2, <5>1 DEF Sorted
      <4>4. CASE i = k
        <5>1. n[i] = x
          BY <3>0, <4>4
        <5> QED BY <2>4, <4>1, <4>2, <5>1
      <4>5. CASE i > k
        <5>1. i - 1 \in 1..Len(s) /\ i - 1 < j - 1 /\ ~(i < k) /\ i # k
          BY <1>1, <2>3, <3>0, <4>5
        <5>2. n[i] = s[i - 1]
          BY <3>0, <5>1
        <5> QED BY <4>1, <4>2, <5>1, <5>2 DEF Sorted
      <4> QED BY <3>0, <4>3, <4>4, <4>5
    <3> QED BY <3>0, <3>1, <3>2, <3>3
  <2>8. Range(n) = Range(s) \cup {x}
    <3>1. Range(n) = {n[i] : i \in 1..Len(n)}
      BY <2>6, RangeEquality
    <3>2. ASSUME NEW i \in 1..Len(n) PROVE n[i] \in Range(s) \cup {x}
      <4>1. \/ i < k /\ i \in 1..Len(s)
            \/ i = k
            \/ ~(i < k) /\ i # k /\ i - 1 \in 1..Len(s)
        BY <1>1, <2>3, <2>6
      <4>2. n[i] = IF i < k THEN s[i] ELSE IF i = k THEN x ELSE s[i - 1]
        BY <2>6
      <4> QED BY <1>1, <4>1, <4>2
    <3>3. ASSUME NEW i \in 1..Len(s) PROVE s[i] \in Range(n)
      <4>1. CASE i < k
        <5>1. i \in 1..Len(n)
          BY <1>1, <2>6
        <5>2. n[i] = s[i]
          BY <2>6, <4>1, <5>1
        <5> QED BY <3>1, <5>1, <5>2
      <4>2. CASE ~(i < k)
        <5>1. i + 1 \in 1..Len(n) /\ ~(i + 1 < k) /\ i + 1 # k /\ (i + 1) - 1 = i
          BY <1>1, <2>3, <2>6, <4>2
        <5>2. n[i + 1] = s[i]
          BY <2>6, <5>1
        <5> QED BY <3>1, <5>1, <5>2
      <4> QED BY <4>1, <4>2
    <3>4. x \in Range(n)
      <4>1. k \in 1..Len(n) /\ n[k] = x
        BY <1>1, <2>3, <2>6
      <4> QED BY <3>1, <4>1
    <3> QED BY <1>1, <3>1, <3>2, <3>3, <3>4
  <2>9. Inserted(s, x) = n
    <3>1. k # 0 /\ k = IF I # {} THEN Min(I) ELSE 0
      BY <1>5, <2>1, <2>3
    <3> HIDE DEF I
    <3> QED BY <1>3, <2>5, <3>1
  <2> QED BY <2>6, <2>7, <2>8, <2>9 DEF Sorted
<1> QED BY <1>4, <1>5

LEMMA InsertedType ==
  ASSUME NEW s \in Seq(Entries), NEW x \in Entries
  PROVE  Inserted(s, x) \in Seq(Entries)
<1> DEFINE I == {i \in 1..Len(s) : RanksBefore(x, s[i])}
           k == IF I # {} THEN Min(I) ELSE 0
<1>1. Inserted(s, x) = IF k = 0 THEN Append(s, x) ELSE InsertAt(s, k, x)
  BY DEF Inserted, SelectInSeq
<1>2. I # {} => k \in 1..Len(s)
  <2>1. Len(s) \in Nat /\ I \in SUBSET (1..Len(s))
    BY LenProperties
  <2> HIDE DEF I
  <2> QED BY <2>1, Extremes
<1>3. CASE I = {}
  BY <1>1, <1>3, AppendProperties
<1>4. CASE I # {}
  <2>1. k \in 1..Len(s) /\ k # 0
    <3>1. \A n \in 1..Len(s) : n # 0
      OBVIOUS
    <3> QED BY <1>2, <1>4, <3>1
  <2> HIDE DEF k
  <2> QED BY <1>1, <2>1, AtIndex
<1> QED BY <1>3, <1>4

\* Two sorted sequences of the same entries go along together.
LEMMA SortedAlong ==
  ASSUME NEW s, Sorted(s), NEW t, Sorted(t), Range(s) = Range(t)
  PROVE  \A i \in 1..Len(s) : i \in 1..Len(t) /\ s[i] = t[i]
<1> DEFINE D == {i \in 1..Len(s) : ~(i \in 1..Len(t) /\ s[i] = t[i])}
<1>1. /\ Len(s) \in Nat /\ \A i \in 1..Len(s) : s[i] \in Entries /\ s[i] \in Range(t)
      /\ Len(t) \in Nat /\ \A i \in 1..Len(t) : t[i] \in Entries /\ t[i] \in Range(s)
      /\ \A x \in Range(s) : \E i \in 1..Len(s) : x = s[i]
      /\ \A x \in Range(t) : \E i \in 1..Len(t) : x = t[i]
  <2>1. /\ s \in Seq(Entries) /\ t \in Seq(Entries)
        /\ Range(s) = {s[i] : i \in 1..Len(s)} /\ Range(t) = {t[i] : i \in 1..Len(t)}
    BY RangeEquality DEF Sorted
  <2> QED BY <2>1, LenProperties
<1>2. ASSUME NEW x \in Entries PROVE ~RanksBefore(x, x)
  BY KeyOrders
<1> SUFFICES ASSUME D # {} PROVE FALSE
  OBVIOUS
<1>3. PICK m : m \in D /\ \A i \in D : m <= i
  <2>1. D \in SUBSET (1..Len(s))
    OBVIOUS
  <2> HIDE DEF D
  <2> QED BY <1>1, <2>1, Extremes
<1>4. /\ m \in 1..Len(s) /\ m \in Nat /\ ~(m \in 1..Len(t) /\ s[m] = t[m])
      /\ \A i \in 1..Len(s) : i < m => i \in 1..Len(t) /\ s[i] = t[i]
  BY <1>1, <1>3
<1>5. PICK j \in 1..Len(t) : t[j] = s[m]
  BY <1>1, <1>4
<1>6. ~(j < m)
  <2> SUFFICES ASSUME j < m PROVE FALSE
    OBVIOUS
  <2>1. j \in 1..Len(s) /\ s[j] = t[j]
    BY <1>1, <1>4, <1>5
  <2>2. RanksBefore(s[j], s[m])
    BY <1>4, <2>1 DEF Sorted
  <2> QED BY <1>1, <1>2, <1>4, <1>5, <2>1, <2>2
<1>7. m \in 1..Len(t) /\ m < j
  <2>1. m \in 1..Len(t)
    BY <1>1, <1>4, <1>5, <1>6
  <2>2. m # j
    BY <1>4, <1>5, <2>1
  <2> QED BY <1>4, <1>6, <2>1, <2>2
<1>8. PICK l \in 1..Len(s) : s[l] = t[m]
  BY <1>1, <1>7
<1>9. ~(l < m)
  <2> SUFFICES ASSUME l < m PROVE FALSE
    OBVIOUS
  <2>1. l \in 1..Len(t) /\ s[l] = t[l]
    BY <1>4
  <2>2. RanksBefore(t[l], t[m])
    BY <1>7, <2>1 DEF Sorted
  <2> QED BY <1>1, <1>2, <1>7, <1>8, <2>1, <2>2
<1>10. m < l
  <2>1. m # l
    BY <1>4, <1>7, <1>8
  <2> QED BY <1>4, <1>9, <2>1
<1>11. RanksBefore(s[m], t[m]) /\ RanksBefore(t[m], s[m])
  BY <1>4, <1>5, <1>7, <1>8, <1>10 DEF Sorted
<1> QED BY <1>1, <1>4, <1>7, <1>11, KeyOrders

LEMMA SortedOnce ==
  ASSUME NEW s, Sorted(s), NEW t, Sorted(t), Range(s) = Range(t)
  PROVE  s = t
<1>1. /\ \A i \in 1..Len(s) : i \in 1..Len(t) /\ s[i] = t[i]
      /\ \A i \in 1..Len(t) : i \in 1..Len(s)
  BY SortedAlong
<1>2. s \in Seq(Entries) /\ t \in Seq(Entries) /\ Len(s) \in Nat /\ Len(t) \in Nat
  BY LenProperties DEF Sorted
<1>3. Len(s) = Len(t)
  <2>1. \A a, b \in Nat : (\A i \in 1..a : i \in 1..b) => a <= b
    OBVIOUS
  <2> QED BY <1>1, <1>2, <2>1
<1> QED BY <1>1, <1>2, <1>3, SeqEqual

-----------------------------------------------------------------------------
(* Ranking *)

\* The stable sort of some entries, one index after the other.
IsSort(D, entry, iter) ==
  iter = [T \in SUBSET D |->
            IF T = {} THEN <<>>
            ELSE Inserted(iter[T \ {Max(T)}], entry[Max(T)])]

SortOf(n, entry) == (CHOOSE iter : IsSort(1..n, entry, iter))[1..n]

EntriesOf(n, entry) == {entry[i] : i \in 1..n}

LEMMA SortSorts ==
  ASSUME NEW n \in Nat, NEW entry, \A i \in 1..n : entry[i] \in Entries,
         \A i, j \in 1..n : entry[i].id = entry[j].id => i = j
  PROVE  /\ Sorted(SortOf(n, entry))
         /\ Range(SortOf(n, entry)) = EntriesOf(n, entry)
<1> DEFINE D == 1..n
           pick == [T \in SUBSET D |-> Max(T)]
           step == [i \in D |-> [v \in Seq(Entries) |-> Inserted(v, entry[i])]]
           sort == CHOOSE iter : IsSort(D, entry, iter)
<1>1. /\ IsFiniteSet(D) /\ Picks(D, pick) /\ <<>> \in Seq(Entries)
      /\ \A T \in SUBSET D : T # {} => Max(T) \in T
  <2>1. \A T \in SUBSET D : T # {} => Max(T) \in T
    BY Extremes
  <2>2. IsFiniteSet(D)
    BY FS_Interval
  <2>3. <<>> \in Seq(Entries)
    OBVIOUS
  <2> QED BY <2>1, <2>2, <2>3 DEF Picks
<1>2. \A i \in D : \A v \in Seq(Entries) :
        step[i][v] = Inserted(v, entry[i]) /\ step[i][v] \in Seq(Entries)
  BY InsertedType
<1>3. PICK iter : IsFold(D, <<>>, pick, step, iter)
  <2> HIDE DEF pick, step, D
  <2> QED BY <1>1, FoldExists
<1>4. \A T \in SUBSET D : iter[T] \in Seq(Entries)
  <2> HIDE DEF pick, step, D
  <2> QED BY <1>1, <1>2, <1>3, FoldType
<1>5. IsSort(D, entry, iter)
  <2>1. \A T \in SUBSET D : iter[T] =
          IF T = {} THEN <<>> ELSE step[pick[T]][iter[T \ {pick[T]}]]
    <3> HIDE DEF pick, step
    <3> QED BY <1>3 DEF IsFold
  <2>2. iter = [T \in SUBSET D |-> iter[T]]
    <3> HIDE DEF pick, step
    <3> QED BY <1>3 DEF IsFold
  <2>3. ASSUME NEW T \in SUBSET D, T # {}
        PROVE  iter[T] = Inserted(iter[T \ {Max(T)}], entry[Max(T)])
    <3>1. pick[T] = Max(T) /\ Max(T) \in D /\ T \ {Max(T)} \in SUBSET D
      BY <1>1, <2>3
    <3>2. iter[T] = step[pick[T]][iter[T \ {pick[T]}]]
      BY <2>1, <2>3
    <3> HIDE DEF pick, step, D
    <3> QED BY <1>2, <1>4, <3>1, <3>2
  <2>4. \A T \in SUBSET D : iter[T] =
          IF T = {} THEN <<>> ELSE Inserted(iter[T \ {Max(T)}], entry[Max(T)])
    BY <2>1, <2>3
  <2> HIDE DEF D
  <2> QED BY <2>2, <2>4 DEF IsSort
<1>6. IsSort(D, entry, sort)
  BY <1>5
<1> DEFINE Good == {T \in SUBSET D : /\ Sorted(sort[T])
                                     /\ Range(sort[T]) = {entry[i] : i \in T}}
<1>7. ASSUME NEW T \in SUBSET D, \A U \in SUBSET T : U # T => U \in Good
      PROVE  T \in Good
  <2> HIDE DEF sort
  <2>1. sort[T] = IF T = {} THEN <<>>
                  ELSE Inserted(sort[T \ {Max(T)}], entry[Max(T)])
    BY <1>6 DEF IsSort
  <2>2. CASE T = {}
    <3>1. sort[T] = <<>>
      BY <2>1, <2>2
    <3>2. <<>> \in Seq(Entries) /\ Len(<<>>) = 0 /\ 1..0 = {} /\ Range(<<>>) = {}
      BY EmptySeq DEF Range
    <3>3. Sorted(<<>>)
      BY <3>2 DEF Sorted
    <3> QED BY <2>2, <3>1, <3>2, <3>3
  <2>3. CASE T # {}
    <3>1. PICK m \in T : m = Max(T)
      BY <1>1, <2>3
    <3>2. PICK u : u = sort[T \ {m}]
      OBVIOUS
    <3>3. T \ {m} \in Good
      BY <1>7, <3>1
    <3>4. Sorted(u) /\ Range(u) = {entry[i] : i \in T \ {m}}
      BY <3>2, <3>3
    <3>5. entry[m] \in Entries /\ \A i \in 1..Len(u) : u[i].id # entry[m].id
      <4>1. \A i \in 1..Len(u) : u[i] \in Range(u)
        BY RangeEquality DEF Sorted, Range
      <4> QED BY <3>1, <3>4, <4>1
    <3>6. /\ Sorted(Inserted(u, entry[m]))
          /\ Range(Inserted(u, entry[m])) = Range(u) \cup {entry[m]}
      BY <3>4, <3>5, InsertionSorts
    <3>7. {entry[i] : i \in T} = {entry[i] : i \in T \ {m}} \cup {entry[m]}
      BY <3>1
    <3>8. sort[T] = Inserted(u, entry[m])
      BY <2>1, <2>3, <3>1, <3>2
    <3> QED BY <3>4, <3>6, <3>7, <3>8
  <2> QED BY <2>2, <2>3
<1>8. D \in Good
  <2> HIDE DEF Good, D
  <2> QED BY <1>1, <1>7, SubsetInduction
<1> QED BY <1>8 DEF SortOf, EntriesOf

Scored(weights, heard, c) ==
  [id |-> c.id, siteScore |-> c.siteScore, score |-> Score(weights, heard, c)]

IsRanking(weights, heard, request, iter) ==
  iter = [T \in SUBSET (DOMAIN request) |->
            IF T = {} THEN <<>>
            ELSE Inserted(iter[T \ {Max(T)}],
                          Scored(weights, heard, request[Max(T)]))]

RankedBy(weights, heard, request) ==
  (CHOOSE iter : IsRanking(weights, heard, request, iter))[DOMAIN request]

LEMMA RankUnfolds ==
  ASSUME NEW weights, NEW heard, NEW request, NEW topN
  PROVE  LET ranked == RankedBy(weights, heard, request)
         IN Rank(weights, heard, request, topN) =
              SubSeq(ranked, 1, IF topN < Len(ranked) THEN topN ELSE Len(ranked))
BY DEF Rank, FoldLeft, MapThenFoldSet, RankedBy, IsRanking, Inserted,
       Scored

\* The ranking of a request is its candidates, sorted.
LEMMA RankedSorts ==
  ASSUME NEW weights, IsFiniteSet(DOMAIN weights),
         \A t \in DOMAIN weights : weights[t] \in Nat,
         NEW heard, FeedbackOK(heard), NEW request \in Requests
  PROVE  LET ranked == RankedBy(weights, heard, request) IN
         /\ Sorted(ranked)
         /\ Range(ranked) = {Scored(weights, heard, c) : c \in Range(request)}
<1> DEFINE n == Len(request)
           entry == [i \in 1..n |-> Scored(weights, heard, request[i])]
<1>1. /\ n \in Nat /\ DOMAIN request = 1..n
      /\ \A i \in 1..n : CandidateOK(request[i])
      /\ \A i, j \in 1..n : request[i].id = request[j].id => i = j
  BY RelevanceConstants DEF RequestOK
<1>2. \A i \in 1..n : entry[i] = Scored(weights, heard, request[i])
  OBVIOUS
<1>3. ASSUME NEW i \in 1..n
      PROVE  entry[i] \in Entries /\ entry[i].id = request[i].id
  <2>1. Score(weights, heard, request[i]) \in 0..Unit
    BY <1>1, ScoreRange
  <2>2. PICK c : c = request[i] /\ CandidateOK(c)
    BY <1>1
  <2>3. PICK score \in 0..Unit : score = Score(weights, heard, request[i])
    BY <2>1
  <2>4. entry[i] = [id |-> c.id, siteScore |-> c.siteScore, score |-> score]
    BY <2>2, <2>3 DEF Scored
  <2>5. c.id \in Nat /\ c.siteScore \in 0..Unit
    BY <2>2 DEF CandidateOK
  <2> HIDE DEF n, entry
  <2> QED BY <2>2, <2>3, <2>4, <2>5 DEF Entries
<1>4. \A i, j \in 1..n : entry[i].id = entry[j].id => i = j
  BY <1>1, <1>3
<1>5. RankedBy(weights, heard, request) = SortOf(n, entry)
  <2> HIDE DEF entry, n
  <2>1. ASSUME NEW T \in SUBSET (1..n), T # {} PROVE Max(T) \in 1..n
    BY <1>1, <2>1, Extremes
  <2>2. ASSUME NEW iter
        PROVE  [T \in SUBSET (1..n) |->
                  IF T = {} THEN <<>>
                  ELSE Inserted(iter[T \ {Max(T)}], entry[Max(T)])] =
               [T \in SUBSET (1..n) |->
                  IF T = {} THEN <<>>
                  ELSE Inserted(iter[T \ {Max(T)}],
                                Scored(weights, heard, request[Max(T)]))]
    BY <1>2, <2>1
  <2>3. DOMAIN request = 1..n
    BY <1>1
  <2>4. ASSUME NEW iter
        PROVE  IsSort(1..n, entry, iter) <=>
                 IsRanking(weights, heard, request, iter)
    BY <2>2, <2>3 DEF IsSort, IsRanking
  <2>5. RankedBy(weights, heard, request) =
          (CHOOSE iter : IsSort(1..n, entry, iter))[DOMAIN request]
    BY <2>4 DEF RankedBy
  <2> QED BY <2>3, <2>5 DEF SortOf
<1>6. EntriesOf(n, entry) = {Scored(weights, heard, c) : c \in Range(request)}
  <2>1. Range(request) = {request[i] : i \in 1..n}
    BY <1>1 DEF Range
  <2>2. ASSUME NEW i \in 1..n
        PROVE  entry[i] \in {Scored(weights, heard, c) : c \in Range(request)}
    BY <1>2, <2>1
  <2>3. ASSUME NEW c \in Range(request)
        PROVE  \E i \in 1..n : Scored(weights, heard, c) = entry[i]
    BY <1>2, <2>1
  <2> HIDE DEF entry, n
  <2> QED BY <2>2, <2>3 DEF EntriesOf
<1> HIDE DEF entry, n
<1> QED BY <1>1, <1>3, <1>4, <1>5, <1>6, SortSorts

\* The same candidates in any order are ranked in one way.
LEMMA OrderForgotten ==
  ASSUME NEW weights, IsFiniteSet(DOMAIN weights),
         \A t \in DOMAIN weights : weights[t] \in Nat,
         NEW heard, FeedbackOK(heard), NEW r1 \in Requests, NEW r2 \in Requests,
         Range(r1) = Range(r2), NEW topN
  PROVE  Rank(weights, heard, r1, topN) = Rank(weights, heard, r2, topN)
<1>1. PICK a : a = RankedBy(weights, heard, r1)
  OBVIOUS
<1>2. PICK b : b = RankedBy(weights, heard, r2)
  OBVIOUS
<1>3. Sorted(a) /\ Range(a) = {Scored(weights, heard, c) : c \in Range(r1)}
  BY <1>1, RankedSorts
<1>4. Sorted(b) /\ Range(b) = {Scored(weights, heard, c) : c \in Range(r2)}
  BY <1>2, RankedSorts
<1>5. a = b
  <2>1. Range(a) = Range(b)
    BY <1>3, <1>4
  <2> QED BY <1>3, <1>4, <2>1, SortedOnce
<1> QED BY <1>1, <1>2, <1>5, RankUnfolds

\* The topics a document stores something on are topics of its history.
LEMMA StoredIsFinite ==
  ASSUME ReplayInv
  PROVE  IsFiniteSet(Stored(doc))
<1> DEFINE subjects == {e.do.on : e \in applied}
           subject == [e \in applied |-> e.do.on]
<1>1. subject \in Surjection(applied, subjects)
  BY DEF Surjection
<1>2. IsFiniteSet(subjects)
  <2>1. IsFiniteSet(applied)
    BY DEF ReplayInv
  <2> HIDE DEF subjects, subject
  <2> QED BY <1>1, <2>1, FS_Surjection
<1>3. ASSUME NEW t \in Stored(doc) PROVE t \in subjects
  <2>1. t \in Topics /\ doc.topics[t] # Absent
    BY DEF Stored
  <2>2. SetsAt(applied, t, doc.topicClock[t]) # {}
    BY <2>1 DEF ReplayInv, Says, TopicSaid
  <2>3. PICK e \in applied : e.do.on = t
    BY <2>2 DEF SetsAt, On
  <2> QED BY <2>3
<1> HIDE DEF subjects
<1> QED BY <1>2, <1>3, FS_Subset

LEMMA WeightsAreNats ==
  ASSUME ReplayInv, NEW approved
  PROVE  LET weights == GrantedWeights(doc, approved) IN
         /\ IsFiniteSet(DOMAIN weights)
         /\ \A t \in DOMAIN weights : weights[t] \in Nat
<1>1. PICK weights : weights = GrantedWeights(doc, approved)
  OBVIOUS
<1>2. weights = [t \in SeenTopics(doc, approved) |-> doc.topics[t].weight]
  BY <1>1, WeightsDef
<1>3. SeenTopics(doc, approved) \subseteq Stored(doc)
  BY DEF SeenTopics
<1>4. IsFiniteSet(DOMAIN weights)
  <2>1. IsFiniteSet(SeenTopics(doc, approved))
    BY <1>3, StoredIsFinite, FS_Subset
  <2> QED BY <1>2, <2>1
<1>5. ASSUME NEW t \in DOMAIN weights PROVE weights[t] \in Nat
  <2>1. t \in Topics /\ doc.topics[t] # Absent /\ weights[t] = doc.topics[t].weight
    BY <1>2, <1>3 DEF Stored
  <2>2. doc.topics[t] \in StoredPreferences
    BY <2>1 DEF ReplayInv, Says, Documents
  <2> QED BY <2>1, <2>2 DEF StoredPreferences
<1> QED BY <1>1, <1>4, <1>5

HeardInv == FeedbackOK(feedback)

LEMMA FeedbackTyped == RelevanceSpec => []HeardInv
<1>1. RelevanceInit => HeardInv
  BY FS_EmptySet DEF RelevanceInit, HeardInv, FeedbackOK
<1>2. HeardInv /\ [RelevanceNext]_relevanceVars => HeardInv'
  <2> SUFFICES ASSUME FeedbackOK(feedback), [RelevanceNext]_relevanceVars
               PROVE  FeedbackOK(feedback')
    BY DEF HeardInv
  <2>1. CASE SendFeedback
    <3>1. PICK batch \in Reactions : Ingest(batch)
      BY <2>1 DEF SendFeedback
    <3>2. PICK fresh : fresh = StoredOf(batch) /\ feedback' = feedback \cup fresh
      BY <3>1 DEF Ingest, StoredOf
    <3>3. PICK n \in Nat : DOMAIN batch = 1..n /\ \A i \in 1..n : ReactionOK(batch[i])
      BY <3>1, RelevanceConstants
    <3>4. IsFiniteSet(fresh) /\ \A e \in fresh : ReactionOK(e)
      <4> DEFINE rows == {batch[i] : i \in 1..n}
                 row == [i \in 1..n |-> batch[i]]
      <4>1. row \in Surjection(1..n, rows)
        BY DEF Surjection
      <4>2. fresh \subseteq rows /\ \A e \in rows : ReactionOK(e)
        BY <3>2, <3>3 DEF StoredOf
      <4> HIDE DEF rows, row
      <4>3. IsFiniteSet(1..n)
        BY FS_Interval
      <4>4. IsFiniteSet(rows)
        BY <4>1, <4>3, FS_Surjection
      <4> QED BY <4>2, <4>4, FS_Subset
    <3> QED BY <3>2, <3>4, FS_Union DEF FeedbackOK
  <2>2. CASE UNCHANGED feedback
    BY <2>2
  <2> QED BY <2>1, <2>2 DEF RelevanceNext, Replaying, relevanceVars
<1> QED BY <1>1, <1>2, PTL DEF RelevanceSpec

LEMMA OrderSaysNothing == ReplayInv /\ HeardInv => RankIgnoresRequestOrder
BY WeightsAreNats, OrderForgotten DEF RankIgnoresRequestOrder, RankSession, HeardInv

\* Sessions and feedback: whatever sites ask and send, the document goes
\* through the replay and nothing else (rank_grant_session and
\* ingest_feedback write to no profile).
THEOREM RelevanceReplays == RelevanceSpec => ReplaySpec
<1>1. RelevanceInit => ReplayInit
  BY DEF RelevanceInit
<1> QED BY <1>1, RelevanceStepReplays, PTL DEF RelevanceSpec, ReplaySpec

\* Hidden topics: in every history, and for every session, an edit of a topic
\* the session may not see moves the date of its projection and changes
\* nothing else of what it reads, no score and no place in a ranking either
\* (consented_projection and rank_grant_session).
THEOREM HiddenFromSites == RelevanceSpec => HiddenEditsShowOnlyTheirDate
<1>1. RelevanceSpec => [][ReplayInv /\ [ApplyNext]_replayVars]_replayVars
  BY RelevanceReplays, Replayed, PTL DEF ReplaySpec
<1>2. ReplayInv /\ [ApplyNext]_replayVars =>
        [\A e \in pending \ pending' : \A approved \in Approved :
           /\ e.do.op \in {"set_topic", "remove_topic", "set_opt_out"}
           /\ Hidden(doc, approved, e.do.on) /\ Hidden(doc', approved, e.do.on)
           => \A request \in Requests :
                View(doc', approved, request) =
                [View(doc, approved, request) EXCEPT
                   !.projection.updated = Larger(@, e.time)]]_replayVars
  BY HiddenEditsUnseen
<1> QED BY <1>1, <1>2, PTL DEF HiddenEditsShowOnlyTheirDate

\* Feedback: a batch that brings no new id leaves every ranking as it was
\* (INSERT OR IGNORE in ingest_feedback).
THEOREM RetriesLeaveRankings == RelevanceSpec => RetriesChangeNoRanking
<1>1. [RelevanceNext]_relevanceVars =>
        [{e.id : e \in feedback'} = {e.id : e \in feedback} =>
           \A request \in Requests : \A approved \in Approved :
             RankSession(doc, approved, feedback', request, Len(request)) =
             RankSession(doc, approved, feedback, request, Len(request))
        ]_feedback
  BY RetriesAddNothing
<1> QED BY <1>1, PTL DEF RelevanceSpec, RetriesChangeNoRanking

\* Ranking: whatever the history and the feedback, two requests with the same
\* candidates get the same ranking, ties of the score included (the sort key
\* of GrantSessionRanker.rank ends in the candidate's id).
THEOREM OrderLeavesRankings == RelevanceSpec => []RankIgnoresRequestOrder
BY RelevanceReplays, Replayed, FeedbackTyped, OrderSaysNothing, PTL
=============================================================================
