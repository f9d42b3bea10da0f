------------------------ MODULE ProfileHistoryProofs ------------------------
(***************************************************************************)
(* What replaying a history gives, for every finite history.               *)
(*                                                                         *)
(* Replay is a fold that gives up the latest event again and again, so     *)
(* facts about it are shown by induction over the subsets of a history: if *)
(* a fact holds of a set whenever it holds of all smaller sets, it holds   *)
(* of the history.  On the way a document says what its events mean: each  *)
(* kind of setting is a register with a clock, which is that of the newest *)
(* event on it, and holds what the newest events answer.  The last part is *)
(* about documents that were not replayed at once: later events appended,  *)
(* or a registration that was signed after all the rest.                   *)
(***************************************************************************)
EXTENDS ProfileHistory, FiniteSetTheorems, WellFoundedInduction, TLAPS

\* Induction over the subsets of a finite set, for a family of sets.
LEMMA SubsetInduction ==
  ASSUME NEW S, IsFiniteSet(S), NEW Good,
         \A T \in SUBSET S :
           (\A U \in SUBSET T : U # T => U \in Good) => T \in Good
  PROVE  \A T \in SUBSET S : T \in Good
<1> DEFINE Bad == {T \in SUBSET S : T \notin Good}
<1> SUFFICES ASSUME Bad # {} PROVE FALSE
  OBVIOUS
<1>1. /\ IsWellFoundedOn(StrictSubsetOrdering(S), FiniteSubsetsOf(S))
      /\ FiniteSubsetsOf(S) = SUBSET S
  BY FS_StrictSubsetOrderingWellFounded, FS_FiniteSubsetsOfFinite
<1>2. \E T \in Bad : \A U \in Bad : ~(<<U, T>> \in StrictSubsetOrdering(S))
  <2>1. Bad \subseteq FiniteSubsetsOf(S)
    BY <1>1
  <2> HIDE DEF Bad
  <2> QED BY <1>1, <2>1, WFMin
<1>3. PICK T \in Bad : \A U \in Bad : <<U, T>> \notin StrictSubsetOrdering(S)
  BY <1>2
<1>4. ASSUME NEW U \in SUBSET T, U # T PROVE U \in Good
  <2>1. <<U, T>> \in StrictSubsetOrdering(S)
    BY <1>4 DEF StrictSubsetOrdering
  <2> QED BY <1>3, <2>1
<1> QED BY <1>3, <1>4

\* The fold of a set that gives up its latest element again and again.
IsReplay(doc, log, iter) ==
  iter = [s \in SUBSET log |->
            IF s = {} THEN doc
            ELSE ApplyEvent(iter[s \ {Latest(s)}], Latest(s))]

LEMMA ReplayDef ==
  ASSUME NEW doc, NEW log
  PROVE  Replay(doc, log) = (CHOOSE iter : IsReplay(doc, log, iter))[log]
BY DEF Replay, MapThenFoldSet, IsReplay

\* A history in which ids tell events apart: its events sort in one way.
Sortable(log) ==
  /\ IsFiniteSet(log)
  /\ \A e \in log : EventOK(e)
  /\ \A e, f \in log : e.id = f.id => e = f

LEMMA SortableSubset ==
  ASSUME NEW log, Sortable(log), NEW part \in SUBSET log
  PROVE  Sortable(part)
BY FS_Subset DEF Sortable

\* Sorting before is a strict total order on such a history.
LEMMA BeforeOrders ==
  ASSUME NEW log, Sortable(log), NEW e \in log, NEW f \in log
  PROVE  /\ ~(Before(e, f) /\ Before(f, e))
         /\ e # f => Before(e, f) \/ Before(f, e)
         /\ \A g \in log : Before(e, f) /\ Before(f, g) => Before(e, g)
<1>1. \A x \in log : x.id \in Int /\ x.clock \in Int /\ x.time \in Int
  BY DEF Sortable, EventOK
<1>2. e.id = f.id => e = f
  BY DEF Sortable
<1>3. ~(Before(e, f) /\ Before(f, e))
  BY <1>1 DEF Before
<1>4. e # f => Before(e, f) \/ Before(f, e)
  BY <1>1, <1>2 DEF Before
<1>5. ASSUME NEW g \in log, Before(e, f), Before(f, g) PROVE Before(e, g)
  BY <1>1, <1>5 DEF Before
<1> QED BY <1>3, <1>4, <1>5

LEMMA LatestIsLast ==
  ASSUME NEW log, Sortable(log), log # {}
  PROVE  /\ Latest(log) \in log
         /\ \A f \in log \ {Latest(log)} : Before(f, Latest(log))
<1> DEFINE Ends(T) == \E e \in T : \A f \in T \ {e} : Before(f, e)
           Good == {T \in SUBSET log : T # {} => Ends(T)}
<1>1. ASSUME NEW T \in SUBSET log, \A U \in SUBSET T : U # T => U \in Good
      PROVE  T \in Good
  <2> SUFFICES ASSUME NEW x \in T PROVE Ends(T)
    OBVIOUS
  <2>1. CASE T = {x}
    BY <2>1
  <2>2. CASE T # {x}
    <3>1. T \ {x} \in Good /\ T \ {x} # {}
      BY <1>1, <2>2
    <3>2. PICK e \in T \ {x} : \A f \in (T \ {x}) \ {e} : Before(f, e)
      BY <3>1
    <3>3. \/ Before(x, e)
          \/ Before(e, x)
      BY <3>2, BeforeOrders
    <3>4. ASSUME Before(e, x) PROVE \A f \in T \ {x} : Before(f, x)
      BY <3>2, <3>4, BeforeOrders
    <3> QED BY <3>2, <3>3, <3>4
  <2> QED BY <2>1, <2>2
<1>2. log \in Good
  <2> HIDE DEF Good
  <2>1. IsFiniteSet(log)
    BY DEF Sortable
  <2> QED BY <1>1, <2>1, SubsetInduction
<1> QED BY <1>2 DEF Latest

\* Two folds agree where both are defined.
LEMMA ReplaysAgree ==
  ASSUME NEW log, Sortable(log), NEW d,
         NEW A \in SUBSET log, NEW B \in SUBSET log, NEW i, NEW j,
         IsReplay(d, A, i), IsReplay(d, B, j)
  PROVE  \A s \in SUBSET (A \cap B) : i[s] = j[s]
<1> DEFINE Good == {s \in SUBSET (A \cap B) : i[s] = j[s]}
<1>1. ASSUME NEW s \in SUBSET (A \cap B),
             \A U \in SUBSET s : U # s => U \in Good
      PROVE  s \in Good
  <2>1. i[s] = IF s = {} THEN d ELSE ApplyEvent(i[s \ {Latest(s)}], Latest(s))
    BY DEF IsReplay
  <2>2. j[s] = IF s = {} THEN d ELSE ApplyEvent(j[s \ {Latest(s)}], Latest(s))
    BY DEF IsReplay
  <2>3. CASE s = {}
    BY <2>1, <2>2, <2>3
  <2>4. CASE s # {}
    <3>1. Latest(s) \in s
      BY <2>4, LatestIsLast, SortableSubset
    <3>2. s \ {Latest(s)} \in Good
      BY <1>1, <3>1
    <3> QED BY <2>1, <2>2, <2>4, <3>2
  <2> QED BY <2>3, <2>4
<1>2. IsFiniteSet(A \cap B)
  BY FS_Subset DEF Sortable
<1>3. \A s \in SUBSET (A \cap B) : s \in Good
  <2> HIDE DEF Good
  <2> QED BY <1>1, <1>2, SubsetInduction
<1> QED BY <1>3

\* Every history has a fold.
LEMMA ReplayExists ==
  ASSUME NEW log, Sortable(log), NEW d
  PROVE  \A T \in SUBSET log : \E iter : IsReplay(d, T, iter)
<1> DEFINE Good == {T \in SUBSET log : \E iter : IsReplay(d, T, iter)}
<1>1. ASSUME NEW T \in SUBSET log, \A U \in SUBSET T : U # T => U \in Good
      PROVE  T \in Good
  <2> DEFINE iter == [s \in SUBSET T |->
                       IF s = {} THEN d
                       ELSE ApplyEvent(Replay(d, s \ {Latest(s)}), Latest(s))]
  <2>1. ASSUME NEW s \in SUBSET T, s # {}
        PROVE  iter[s \ {Latest(s)}] = Replay(d, s \ {Latest(s)})
    <3> DEFINE u == s \ {Latest(s)}
               j == CHOOSE g : IsReplay(d, u, g)
    <3>1. Latest(s) \in s
      BY <2>1, LatestIsLast, SortableSubset
    <3>2. u \in Good
      BY <1>1, <3>1
    <3>3. IsReplay(d, u, j) /\ Replay(d, u) = j[u]
      BY <3>2, ReplayDef
    <3>4. j[u] = IF u = {} THEN d ELSE ApplyEvent(j[u \ {Latest(u)}], Latest(u))
      BY <3>3 DEF IsReplay
    <3>5. CASE u = {}
      BY <3>3, <3>4, <3>5
    <3>6. CASE u # {}
      <4> DEFINE v == u \ {Latest(u)}
                 k == CHOOSE g : IsReplay(d, v, g)
      <4>1. v \in SUBSET u /\ v \in SUBSET T /\ v # T
        BY <3>1
      <4>2. v \in Good
        BY <1>1, <4>1
      <4>3. IsReplay(d, v, k) /\ Replay(d, v) = k[v]
        BY <4>2, ReplayDef
      <4> HIDE DEF j, k
      <4>4. j[v] = k[v]
        BY <3>3, <4>1, <4>3, ReplaysAgree
      <4>5. iter[u] = ApplyEvent(Replay(d, v), Latest(u))
        BY <3>6
      <4> QED BY <3>3, <3>4, <3>6, <4>3, <4>4, <4>5
    <3> QED BY <3>5, <3>6
  <2>2. IsReplay(d, T, iter)
    <3>1. \A s \in SUBSET T :
            iter[s] = IF s = {} THEN d
                      ELSE ApplyEvent(iter[s \ {Latest(s)}], Latest(s))
      BY <2>1
    <3>2. iter = [s \in SUBSET T |-> iter[s]]
      OBVIOUS
    <3> HIDE DEF iter
    <3> QED BY <3>1, <3>2 DEF IsReplay
  <2> QED BY <2>2
<1>2. \A T \in SUBSET log : T \in Good
  <2> HIDE DEF Good
  <2>1. IsFiniteSet(log)
    BY DEF Sortable
  <2> QED BY <1>1, <2>1, SubsetInduction
<1> QED BY <1>2

\* Replay is what rebuild_from_verified_history does: nothing for no event,
\* and otherwise the latest event last.
LEMMA ReplayUnfolds ==
  ASSUME NEW log, Sortable(log), NEW d
  PROVE  /\ Replay(d, {}) = d
         /\ log # {} => Replay(d, log) =
              ApplyEvent(Replay(d, log \ {Latest(log)}), Latest(log))
<1>1. ASSUME NEW T \in SUBSET log
      PROVE  \E iter : IsReplay(d, T, iter) /\ Replay(d, T) = iter[T]
  <2>1. IsReplay(d, T, CHOOSE iter : IsReplay(d, T, iter))
    BY ReplayExists
  <2> QED BY <2>1, ReplayDef
<1>2. Replay(d, {}) = d
  <2>1. PICK i : IsReplay(d, {}, i) /\ Replay(d, {}) = i[{}]
    BY <1>1
  <2> QED BY <2>1 DEF IsReplay
<1>3. ASSUME log # {}
      PROVE  Replay(d, log) =
               ApplyEvent(Replay(d, log \ {Latest(log)}), Latest(log))
  <2> DEFINE u == log \ {Latest(log)}
  <2>1. PICK i : IsReplay(d, log, i) /\ Replay(d, log) = i[log]
    BY <1>1
  <2>2. PICK j : IsReplay(d, u, j) /\ Replay(d, u) = j[u]
    BY <1>1
  <2>3. i[u] = j[u]
    <3> HIDE DEF u
    <3>1. u \in SUBSET log
      BY DEF u
    <3> QED BY <2>1, <2>2, <3>1, ReplaysAgree
  <2>4. i[log] = ApplyEvent(i[u], Latest(log))
    BY <1>3, <2>1 DEF IsReplay
  <2> QED BY <2>1, <2>2, <2>3, <2>4
<1> QED BY <1>2, <1>3

-----------------------------------------------------------------------------
(* What a document says *)

StoredPreferences ==
  [weight : Nat, visibility : Visibilities, at : Nat]

Documents ==
  [topics       : [Topics -> StoredPreferences \cup {Absent}],
   optOut       : SUBSET Topics,
   consent      : [Fields -> BOOLEAN],
   name         : Names,
   topicClock   : [Topics -> Int],
   consentClock : [Fields -> Int],
   optOutClock  : [Topics -> Int],
   nameClock    : Int,
   lastClock    : Int,
   createdAt    : Int,
   updatedAt    : Int]

\* The preference an event would store.
PreferenceOf(e) ==
  [weight |-> e.do.weight, visibility |-> e.do.visibility, at |-> e.time]

\* The clock of a register is that of the newest event on it.
IsClock(clock, events) ==
  /\ \A e \in events : e.clock <= clock
  /\ events = {} => clock = -1
  /\ events # {} => \E e \in events : e.clock = clock

\* Some event of that clock gives this answer.
Answered(events, clock, flag) ==
  \E e \in events : e.clock = clock /\ e.do.flag = flag

ConsentSaid(d, log) ==
  \A f \in Fields :
    LET events == On(log, {"set_consent"}, f)
    IN /\ IsClock(d.consentClock[f], events)
       /\ ~d.consent[f] <=> Answered(events, d.consentClock[f], FALSE)

OptOutSaid(d, log) ==
  \A t \in Topics :
    LET events == On(log, {"set_opt_out"}, t)
    IN /\ IsClock(d.optOutClock[t], events)
       /\ t \in d.optOut <=> Answered(events, d.optOutClock[t], TRUE)

\* The events that set a preference at the clock of its topic.
SetsAt(log, t, clock) ==
  {e \in On(log, {"set_topic", "remove_topic"}, t) :
     e.clock = clock /\ e.do.op = "set_topic"}

TopicSaid(d, log) ==
  \A t \in Topics :
    LET events == On(log, {"set_topic", "remove_topic"}, t)
        sets == SetsAt(log, t, d.topicClock[t])
    IN /\ IsClock(d.topicClock[t], events)
       /\ sets = {} => d.topics[t] = Absent
       /\ \A e \in sets : (\A f \in sets \ {e} : Before(f, e)) =>
            d.topics[t] = PreferenceOf(e)

\* The clock of the document is ahead of everything it shows.
Dated(d, log) ==
  /\ d.lastClock \in Nat
  /\ \A e \in log : e.clock <= d.lastClock
  /\ \A f \in Fields : d.consentClock[f] \in -1..d.lastClock
  /\ \A t \in Topics : /\ d.topicClock[t] \in -1..d.lastClock
                       /\ d.optOutClock[t] \in -1..d.lastClock

\* The document says what the history means.
Says(d, log) ==
  /\ d \in Documents
  /\ ConsentSaid(d, log) /\ OptOutSaid(d, log) /\ TopicSaid(d, log)
  /\ Dated(d, log)

-----------------------------------------------------------------------------
(* What one event does to each register *)

LEMMA LargerInt ==
  ASSUME NEW a \in Int, NEW b \in Int
  PROVE  /\ Larger(a, b) \in Int
         /\ a <= Larger(a, b) /\ b <= Larger(a, b)
         /\ Larger(a, b) = a \/ Larger(a, b) = b
BY DEF Larger

LEMMA StampType ==
  ASSUME NEW d \in Documents, NEW e, EventOK(e)
  PROVE  /\ Stamp(d, e) \in Documents
         /\ Stamp(d, e).topics = d.topics
         /\ Stamp(d, e).topicClock = d.topicClock
         /\ Stamp(d, e).consent = d.consent
         /\ Stamp(d, e).consentClock = d.consentClock
         /\ Stamp(d, e).optOut = d.optOut
         /\ Stamp(d, e).optOutClock = d.optOutClock
         /\ Stamp(d, e).lastClock = Larger(d.lastClock, e.clock)
<1>1. /\ d.lastClock \in Int /\ d.updatedAt \in Int
      /\ e.clock \in Int /\ e.time \in Int
  BY DEF Documents, EventOK
<1>2. Larger(d.lastClock, e.clock) \in Int /\ Larger(d.updatedAt, e.time) \in Int
  BY <1>1 DEF Larger
<1> QED BY <1>2 DEF Stamp, Documents

\* What an event on a topic leaves in the register of the topic.
LEMMA TopicEffect ==
  ASSUME NEW d \in Documents, NEW e, EventOK(e),
         e.do.op \in {"set_topic", "remove_topic"}
  PROVE  LET n == ApplyEvent(d, e)
             t == e.do.on
         IN /\ n \in Documents /\ t \in Topics
            /\ n.lastClock = Larger(d.lastClock, e.clock)
            /\ n.consent = d.consent /\ n.consentClock = d.consentClock
            /\ n.optOut = d.optOut /\ n.optOutClock = d.optOutClock
            /\ n.topicClock =
                 [d.topicClock EXCEPT ![t] = Larger(@, e.clock)]
            /\ e.do.op = "set_topic" => n.topics =
                 [d.topics EXCEPT ![t] =
                    IF e.clock >= d.topicClock[t] THEN PreferenceOf(e) ELSE @]
            /\ e.do.op = "remove_topic" => n.topics =
                 [d.topics EXCEPT ![t] =
                    IF e.clock > d.topicClock[t] THEN Absent ELSE @]
<1> DEFINE s == Stamp(d, e)
           t == e.do.on
           clock == s.topicClock[t]
           clocks == [s.topicClock EXCEPT ![t] = Larger(@, e.clock)]
<1>1. s \in Documents
      /\ s.topics = d.topics /\ s.topicClock = d.topicClock
      /\ s.consent = d.consent /\ s.consentClock = d.consentClock
      /\ s.optOut = d.optOut /\ s.optOutClock = d.optOutClock
      /\ s.lastClock = Larger(d.lastClock, e.clock)
  BY StampType
<1> HIDE DEF s
<1>2. t \in Topics /\ clock \in Int /\ e.clock \in Int
  BY <1>1 DEF EventOK, WellFormed, Documents
<1>3. clocks \in [Topics -> Int]
  BY <1>1, <1>2 DEF Documents, Larger
<1>4. CASE e.do.op = "set_topic"
  <2> DEFINE topics == [s.topics EXCEPT ![t] =
                          IF e.clock >= clock THEN PreferenceOf(e) ELSE @]
  <2>1. ApplyEvent(d, e) = [s EXCEPT !.topics = topics, !.topicClock = clocks]
    BY <1>1, <1>4 DEF ApplyEvent, SetTopic, PreferenceOf, s, Documents
  <2>2. PreferenceOf(e) \in StoredPreferences
    BY <1>4 DEF EventOK, WellFormed, StoredPreferences, PreferenceOf
  <2>3. topics \in [Topics -> StoredPreferences \cup {Absent}]
    BY <1>1, <2>2 DEF Documents
  <2>4. /\ topics = [d.topics EXCEPT ![t] =
                 IF e.clock >= d.topicClock[t] THEN PreferenceOf(e) ELSE @]
        /\ clocks = [d.topicClock EXCEPT ![t] = Larger(@, e.clock)]
    BY <1>1
  <2> HIDE DEF topics, clocks
  <2>5. ApplyEvent(d, e) \in Documents
    BY <1>1, <1>3, <2>1, <2>3 DEF Documents
  <2>6. LET n == ApplyEvent(d, e)
        IN /\ n.topics = topics /\ n.topicClock = clocks
           /\ n.consent = s.consent /\ n.consentClock = s.consentClock
           /\ n.optOut = s.optOut /\ n.optOutClock = s.optOutClock
           /\ n.lastClock = s.lastClock
    BY <1>1, <2>1 DEF Documents
  <2> QED BY <1>1, <1>2, <1>4, <2>4, <2>5, <2>6
<1>5. CASE e.do.op = "remove_topic"
  <2> DEFINE topics == [s.topics EXCEPT ![t] =
                          IF e.clock > clock THEN Absent ELSE @]
  <2>1. ApplyEvent(d, e) = [s EXCEPT !.topics = topics, !.topicClock = clocks]
    <3>1. CASE e.clock > clock
      <4>1. Larger(clock, e.clock) = e.clock
        BY <1>2, <3>1 DEF Larger
      <4> QED
        BY <1>1, <1>5, <3>1, <4>1 DEF ApplyEvent, RemoveTopic, s, Documents
    <3>2. CASE ~(e.clock > clock)
      <4>1. Larger(clock, e.clock) = clock
        BY <1>2, <3>2 DEF Larger
      <4>2. ApplyEvent(d, e) = s
        BY <1>5, <3>2 DEF ApplyEvent, RemoveTopic, s
      <4>3. topics = s.topics /\ clocks = s.topicClock
        BY <1>1, <1>2, <3>2, <4>1 DEF Documents
      <4> QED BY <1>1, <4>2, <4>3 DEF Documents
    <3> QED BY <3>1, <3>2
  <2>2. topics \in [Topics -> StoredPreferences \cup {Absent}]
    BY <1>1 DEF Documents
  <2>3. /\ topics = [d.topics EXCEPT ![t] =
                       IF e.clock > d.topicClock[t] THEN Absent ELSE @]
        /\ clocks = [d.topicClock EXCEPT ![t] = Larger(@, e.clock)]
    BY <1>1
  <2> HIDE DEF topics, clocks
  <2>4. ApplyEvent(d, e) \in Documents
    BY <1>1, <1>3, <2>1, <2>2 DEF Documents
  <2>5. LET n == ApplyEvent(d, e)
        IN /\ n.topics = topics /\ n.topicClock = clocks
           /\ n.consent = s.consent /\ n.consentClock = s.consentClock
           /\ n.optOut = s.optOut /\ n.optOutClock = s.optOutClock
           /\ n.lastClock = s.lastClock
    BY <1>1, <2>1 DEF Documents
  <2> QED BY <1>1, <1>2, <1>5, <2>3, <2>4, <2>5
<1> QED BY <1>4, <1>5

\* What a consent event leaves in the register of its field.
LEMMA ConsentEffect ==
  ASSUME NEW d \in Documents, NEW e, EventOK(e), e.do.op = "set_consent"
  PROVE  LET n == ApplyEvent(d, e)
             f == e.do.on
             applies == \/ e.clock > d.consentClock[f]
                        \/ /\ e.clock = d.consentClock[f]
                           /\ d.consent[f] /\ ~e.do.flag
         IN /\ n \in Documents /\ f \in Fields
            /\ n.lastClock = Larger(d.lastClock, e.clock)
            /\ n.topics = d.topics /\ n.topicClock = d.topicClock
            /\ n.optOut = d.optOut /\ n.optOutClock = d.optOutClock
            /\ n.consentClock =
                 [d.consentClock EXCEPT ![f] = Larger(@, e.clock)]
            /\ n.consent =
                 [d.consent EXCEPT ![f] = IF applies THEN e.do.flag ELSE @]
<1> DEFINE s == Stamp(d, e)
           f == e.do.on
           applies == \/ e.clock > s.consentClock[f]
                      \/ /\ e.clock = s.consentClock[f]
                         /\ s.consent[f] /\ ~e.do.flag
           consent == [s.consent EXCEPT ![f] =
                         IF applies THEN e.do.flag ELSE @]
           clocks == [s.consentClock EXCEPT ![f] = Larger(@, e.clock)]
<1>1. s \in Documents
      /\ s.topics = d.topics /\ s.topicClock = d.topicClock
      /\ s.consent = d.consent /\ s.consentClock = d.consentClock
      /\ s.optOut = d.optOut /\ s.optOutClock = d.optOutClock
      /\ s.lastClock = Larger(d.lastClock, e.clock)
  BY StampType
<1> HIDE DEF s
<1>2. f \in Fields /\ e.do.flag \in BOOLEAN /\ e.clock \in Int
  BY DEF EventOK, WellFormed
<1>3. clocks \in [Fields -> Int]
  BY <1>1, <1>2 DEF Documents, Larger
<1>4. consent \in [Fields -> BOOLEAN]
  BY <1>1, <1>2 DEF Documents
<1>5. ApplyEvent(d, e) = [s EXCEPT !.consent = consent, !.consentClock = clocks]
  BY <1>1 DEF ApplyEvent, SetConsent, s, Documents
<1>6. /\ clocks = [d.consentClock EXCEPT ![f] = Larger(@, e.clock)]
      /\ consent = [d.consent EXCEPT ![f] =
           IF \/ e.clock > d.consentClock[f]
              \/ /\ e.clock = d.consentClock[f]
                 /\ d.consent[f] /\ ~e.do.flag
           THEN e.do.flag ELSE @]
  BY <1>1
<1> HIDE DEF consent, clocks, applies
<1> QED BY <1>1, <1>2, <1>3, <1>4, <1>5, <1>6 DEF Documents

\* What an opt-out event leaves in the register of its topic.
LEMMA OptOutEffect ==
  ASSUME NEW d \in Documents, NEW e, EventOK(e), e.do.op = "set_opt_out"
  PROVE  LET n == ApplyEvent(d, e)
             t == e.do.on
             applies == \/ e.clock > d.optOutClock[t]
                        \/ /\ e.clock = d.optOutClock[t]
                           /\ t \notin d.optOut /\ e.do.flag
         IN /\ n \in Documents /\ t \in Topics
            /\ n.lastClock = Larger(d.lastClock, e.clock)
            /\ n.topics = d.topics /\ n.topicClock = d.topicClock
            /\ n.consent = d.consent /\ n.consentClock = d.consentClock
            /\ n.optOutClock =
                 [d.optOutClock EXCEPT ![t] = Larger(@, e.clock)]
            /\ n.optOut =
                 IF applies
                 THEN IF e.do.flag THEN d.optOut \cup {t} ELSE d.optOut \ {t}
                 ELSE d.optOut
<1> DEFINE s == Stamp(d, e)
           t == e.do.on
           applies == \/ e.clock > s.optOutClock[t]
                      \/ /\ e.clock = s.optOutClock[t]
                         /\ t \notin s.optOut /\ e.do.flag
           optOut == IF applies
                     THEN IF e.do.flag THEN s.optOut \cup {t} ELSE s.optOut \ {t}
                     ELSE s.optOut
           clocks == [s.optOutClock EXCEPT ![t] = Larger(@, e.clock)]
<1>1. s \in Documents
      /\ s.topics = d.topics /\ s.topicClock = d.topicClock
      /\ s.consent = d.consent /\ s.consentClock = d.consentClock
      /\ s.optOut = d.optOut /\ s.optOutClock = d.optOutClock
      /\ s.lastClock = Larger(d.lastClock, e.clock)
  BY StampType
<1> HIDE DEF s
<1>2. t \in Topics /\ e.clock \in Int
  BY DEF EventOK, WellFormed
<1>3. clocks \in [Topics -> Int]
  BY <1>1, <1>2 DEF Documents, Larger
<1>4. optOut \in SUBSET Topics
  BY <1>1, <1>2 DEF Documents
<1>5. ApplyEvent(d, e) = [s EXCEPT !.optOut = optOut, !.optOutClock = clocks]
  BY <1>1 DEF ApplyEvent, SetOptOut, s, Documents
<1>6. /\ clocks = [d.optOutClock EXCEPT ![t] = Larger(@, e.clock)]
      /\ optOut = IF \/ e.clock > d.optOutClock[t]
                     \/ /\ e.clock = d.optOutClock[t]
                        /\ t \notin d.optOut /\ e.do.flag
                  THEN IF e.do.flag THEN d.optOut \cup {t} ELSE d.optOut \ {t}
                  ELSE d.optOut
  BY <1>1
<1> HIDE DEF optOut, clocks, applies
<1> QED BY <1>1, <1>2, <1>3, <1>4, <1>5, <1>6 DEF Documents

\* The other operations touch no register.
LEMMA NoEffect ==
  ASSUME NEW d \in Documents, NEW e, EventOK(e),
         e.do.op \in {"set_profile", "recommend"}
  PROVE  LET n == ApplyEvent(d, e)
         IN /\ n \in Documents
            /\ n.lastClock = Larger(d.lastClock, e.clock)
            /\ n.topics = d.topics /\ n.topicClock = d.topicClock
            /\ n.consent = d.consent /\ n.consentClock = d.consentClock
            /\ n.optOut = d.optOut /\ n.optOutClock = d.optOutClock
<1> DEFINE s == Stamp(d, e)
<1>1. s \in Documents
      /\ s.topics = d.topics /\ s.topicClock = d.topicClock
      /\ s.consent = d.consent /\ s.consentClock = d.consentClock
      /\ s.optOut = d.optOut /\ s.optOutClock = d.optOutClock
      /\ s.lastClock = Larger(d.lastClock, e.clock)
  BY StampType
<1> HIDE DEF s
<1>2. \/ ApplyEvent(d, e) = s
      \/ ApplyEvent(d, e) = [s EXCEPT !.name = e.do.name, !.nameClock = e.clock]
  BY DEF ApplyEvent, SetProfile, s
<1>3. e.do.name \in Names /\ e.clock \in Int
  BY DEF EventOK
<1> QED BY <1>1, <1>2, <1>3 DEF Documents

-----------------------------------------------------------------------------
(* A document stays true to its history *)

\* A register takes the larger of two clocks.
LEMMA ClockStep ==
  ASSUME NEW events, \A x \in events : x.clock \in Nat,
         NEW clock \in Int, IsClock(clock, events),
         NEW e, e.clock \in Nat
  PROVE  IsClock(Larger(clock, e.clock), events \cup {e})
<1>1. CASE clock >= e.clock
  <2>1. events # {}
    BY <1>1 DEF IsClock
  <2>2. Larger(clock, e.clock) = clock
    BY <1>1 DEF Larger
  <2> QED BY <1>1, <2>1, <2>2 DEF IsClock
<1>2. CASE clock < e.clock
  <2>1. Larger(clock, e.clock) = e.clock
    BY <1>2 DEF Larger
  <2> QED BY <1>2, <2>1 DEF IsClock
<1> QED BY <1>1, <1>2

\* An answer is heard from an event at the clock of the register or later,
\* and forgotten with an event at a later clock only.
LEMMA AnswerStep ==
  ASSUME NEW events, \A x \in events : x.clock \in Nat,
         NEW clock \in Int, IsClock(clock, events),
         NEW e, e.clock \in Nat, NEW flag
  PROVE  Answered(events \cup {e}, Larger(clock, e.clock), flag) <=>
           \/ e.clock >= clock /\ e.do.flag = flag
           \/ e.clock <= clock /\ Answered(events, clock, flag)
<1>1. CASE clock >= e.clock
  <2>1. Larger(clock, e.clock) = clock
    BY <1>1 DEF Larger
  <2> QED BY <1>1, <2>1 DEF Answered
<1>2. CASE clock < e.clock
  <2>1. Larger(clock, e.clock) = e.clock
    BY <1>2 DEF Larger
  <2>2. \A x \in events : x.clock # e.clock
    BY <1>2 DEF IsClock
  <2> QED BY <1>2, <2>1, <2>2 DEF Answered
<1> QED BY <1>1, <1>2

LEMMA ConsentStep ==
  ASSUME NEW d, NEW log, Says(d, log), NEW e,
         \A x \in log \cup {e} : EventOK(x), \A x \in log : Before(x, e),
         NEW n, n = ApplyEvent(d, e), NEW after, after = log \cup {e}
  PROVE  ConsentSaid(n, after)
<1>1. d \in Documents /\ EventOK(e) /\ \A x \in log : EventOK(x)
  BY DEF Says
<1>2. e.do.op \in Ops /\ e.clock \in Nat
  BY <1>1 DEF EventOK, WellFormed
<1> SUFFICES ASSUME NEW f \in Fields
             PROVE  /\ IsClock(n.consentClock[f],
                               On(after, {"set_consent"}, f))
                    /\ ~n.consent[f] <=>
                         Answered(On(after, {"set_consent"}, f),
                                n.consentClock[f], FALSE)
  BY DEF ConsentSaid
<1> DEFINE events == On(log, {"set_consent"}, f)
           clock == d.consentClock[f]
<1>3. /\ IsClock(clock, events)
      /\ ~d.consent[f] <=> Answered(events, clock, FALSE)
      /\ clock \in Int
  BY <1>1 DEF Says, ConsentSaid, Documents
<1>4. /\ events \subseteq log
      /\ \A x \in events : x.clock \in Nat
  BY <1>1 DEF On, EventOK
<1>6. CASE ~(e.do.op = "set_consent" /\ e.do.on = f)
  <2>1. On(after, {"set_consent"}, f) = events
    BY <1>6 DEF On
  <2>2. n.consentClock[f] = clock /\ n.consent[f] = d.consent[f]
    <3>1. CASE e.do.op = "set_consent"
      <4>1. e.do.on # f
        BY <1>6, <3>1
      <4>2. /\ n.consentClock =
                 [d.consentClock EXCEPT ![e.do.on] = Larger(@, e.clock)]
            /\ n.consent =
                 [d.consent EXCEPT ![e.do.on] =
                    IF \/ e.clock > d.consentClock[e.do.on]
                       \/ /\ e.clock = d.consentClock[e.do.on]
                          /\ d.consent[e.do.on] /\ ~e.do.flag
                    THEN e.do.flag ELSE @]
        BY <1>1, <3>1, ConsentEffect
      <4> QED BY <1>1, <4>1, <4>2 DEF Documents
    <3>2. CASE e.do.op \in {"set_topic", "remove_topic"}
      BY <1>1, <3>2, TopicEffect
    <3>3. CASE e.do.op = "set_opt_out"
      BY <1>1, <3>3, OptOutEffect
    <3>4. CASE e.do.op \in {"set_profile", "recommend"}
      BY <1>1, <3>4, NoEffect
    <3> QED BY <1>2, <3>1, <3>2, <3>3, <3>4 DEF Ops
  <2> QED BY <1>3, <2>1, <2>2
<1>7. CASE e.do.op = "set_consent" /\ e.do.on = f
  <2>1. On(after, {"set_consent"}, f) = events \cup {e}
    BY <1>7 DEF On
  <2>2. /\ n.consentClock = [d.consentClock EXCEPT ![f] = Larger(@, e.clock)]
        /\ n.consent =
             [d.consent EXCEPT ![f] =
                IF \/ e.clock > d.consentClock[f]
                   \/ /\ e.clock = d.consentClock[f]
                      /\ d.consent[f] /\ ~e.do.flag
                THEN e.do.flag ELSE @]
    BY <1>1, <1>7, ConsentEffect
  <2>3. n.consentClock[f] = Larger(clock, e.clock)
    BY <1>1, <2>2 DEF Documents
  <2>4. n.consent[f] = IF \/ e.clock > clock
                          \/ e.clock = clock /\ d.consent[f] /\ ~e.do.flag
                       THEN e.do.flag ELSE d.consent[f]
    BY <1>1, <2>2 DEF Documents
  <2>6. IsClock(Larger(clock, e.clock), events \cup {e})
    BY <1>2, <1>3, <1>4, ClockStep
  <2>7. Answered(events \cup {e}, Larger(clock, e.clock), FALSE) <=>
          \/ e.clock >= clock /\ ~e.do.flag
          \/ e.clock <= clock /\ ~d.consent[f]
    BY <1>1, <1>2, <1>3, <1>4, AnswerStep DEF EventOK
  <2>8. d.consent[f] \in BOOLEAN /\ e.do.flag \in BOOLEAN
    BY <1>1 DEF Documents, EventOK
  <2>9. ~n.consent[f] <=> \/ e.clock >= clock /\ ~e.do.flag
                          \/ e.clock <= clock /\ ~d.consent[f]
    <3> HIDE DEF clock
    <3> QED BY <1>2, <1>3, <2>4, <2>8
  <2> QED BY <2>1, <2>3, <2>6, <2>7, <2>9
<1> QED BY <1>6, <1>7

LEMMA OptOutStep ==
  ASSUME NEW d, NEW log, Says(d, log), NEW e,
         \A x \in log \cup {e} : EventOK(x), \A x \in log : Before(x, e),
         NEW n, n = ApplyEvent(d, e), NEW after, after = log \cup {e}
  PROVE  OptOutSaid(n, after)
<1>1. d \in Documents /\ EventOK(e) /\ \A x \in log : EventOK(x)
  BY DEF Says
<1>2. e.do.op \in Ops /\ e.clock \in Nat
  BY <1>1 DEF EventOK, WellFormed
<1> SUFFICES ASSUME NEW t \in Topics
             PROVE  /\ IsClock(n.optOutClock[t],
                               On(after, {"set_opt_out"}, t))
                    /\ t \in n.optOut <=>
                         Answered(On(after, {"set_opt_out"}, t),
                                n.optOutClock[t], TRUE)
  BY DEF OptOutSaid
<1> DEFINE events == On(log, {"set_opt_out"}, t)
           clock == d.optOutClock[t]
           out == t \in d.optOut
<1>3. /\ IsClock(clock, events)
      /\ out <=> Answered(events, clock, TRUE)
      /\ clock \in Int
  BY <1>1 DEF Says, OptOutSaid, Documents
<1>4. /\ events \subseteq log
      /\ \A x \in events : x.clock \in Nat
  BY <1>1 DEF On, EventOK
<1>6. CASE ~(e.do.op = "set_opt_out" /\ e.do.on = t)
  <2>1. On(after, {"set_opt_out"}, t) = events
    BY <1>6 DEF On
  <2>2. n.optOutClock[t] = clock /\ (t \in n.optOut <=> out)
    <3>1. CASE e.do.op = "set_opt_out"
      <4>1. e.do.on # t
        BY <1>6, <3>1
      <4>2. n.optOutClock =
              [d.optOutClock EXCEPT ![e.do.on] = Larger(@, e.clock)]
        BY <1>1, <3>1, OptOutEffect
      <4>3. n.optOut \in {d.optOut, d.optOut \cup {e.do.on},
                             d.optOut \ {e.do.on}}
        BY <1>1, <3>1, OptOutEffect
      <4> QED BY <1>1, <4>1, <4>2, <4>3 DEF Documents
    <3>2. CASE e.do.op \in {"set_topic", "remove_topic"}
      BY <1>1, <3>2, TopicEffect
    <3>3. CASE e.do.op = "set_consent"
      BY <1>1, <3>3, ConsentEffect
    <3>4. CASE e.do.op \in {"set_profile", "recommend"}
      BY <1>1, <3>4, NoEffect
    <3> QED BY <1>2, <3>1, <3>2, <3>3, <3>4 DEF Ops
  <2> QED BY <1>3, <2>1, <2>2
<1>7. CASE e.do.op = "set_opt_out" /\ e.do.on = t
  <2>1. On(after, {"set_opt_out"}, t) = events \cup {e}
    BY <1>7 DEF On
  <2>2. /\ n.optOutClock = [d.optOutClock EXCEPT ![t] = Larger(@, e.clock)]
        /\ n.optOut =
             IF \/ e.clock > clock
                \/ e.clock = clock /\ ~out /\ e.do.flag
             THEN IF e.do.flag THEN d.optOut \cup {t} ELSE d.optOut \ {t}
             ELSE d.optOut
    BY <1>1, <1>7, OptOutEffect
  <2>3. n.optOutClock[t] = Larger(clock, e.clock)
    BY <1>1, <2>2 DEF Documents
  <2>4. e.do.flag \in BOOLEAN
    BY <1>1 DEF EventOK
  <2>6. IsClock(Larger(clock, e.clock), events \cup {e})
    BY <1>2, <1>3, <1>4, ClockStep
  <2>7. Answered(events \cup {e}, Larger(clock, e.clock), TRUE) <=>
          \/ e.clock >= clock /\ e.do.flag
          \/ e.clock <= clock /\ out
    BY <1>1, <1>2, <1>3, <1>4, AnswerStep DEF EventOK
  <2>8. t \in n.optOut <=> \/ e.clock >= clock /\ e.do.flag
                           \/ e.clock <= clock /\ out
    <3> HIDE DEF clock
    <3> QED BY <1>2, <1>3, <2>2, <2>4
  <2> QED BY <2>1, <2>3, <2>6, <2>7, <2>8
<1> QED BY <1>6, <1>7

\* The order of the loop is what makes the last preference the one stored.
LEMMA TopicStep ==
  ASSUME NEW d, NEW log, Says(d, log), NEW e,
         \A x \in log \cup {e} : EventOK(x), \A x \in log : Before(x, e),
         NEW n, n = ApplyEvent(d, e), NEW after, after = log \cup {e}
  PROVE  TopicSaid(n, after)
<1>1. d \in Documents /\ EventOK(e) /\ \A x \in log : EventOK(x)
  BY DEF Says
<1>2. e.do.op \in Ops /\ e.clock \in Nat
  BY <1>1 DEF EventOK, WellFormed
<1> SUFFICES ASSUME NEW t \in Topics
             PROVE  /\ IsClock(n.topicClock[t],
                               On(after, {"set_topic", "remove_topic"}, t))
                    /\ SetsAt(after, t, n.topicClock[t]) = {} =>
                         n.topics[t] = Absent
                    /\ \A g \in SetsAt(after, t, n.topicClock[t]) :
                         (\A f \in SetsAt(after, t, n.topicClock[t]) \ {g} :
                            Before(f, g)) => n.topics[t] = PreferenceOf(g)
  BY DEF TopicSaid
<1> DEFINE events == On(log, {"set_topic", "remove_topic"}, t)
           clock == d.topicClock[t]
           sets == SetsAt(log, t, clock)
<1>3. /\ IsClock(clock, events)
      /\ sets = {} => d.topics[t] = Absent
      /\ \A g \in sets : (\A f \in sets \ {g} : Before(f, g)) =>
           d.topics[t] = PreferenceOf(g)
      /\ clock \in Int
  BY <1>1 DEF Says, TopicSaid, Documents
<1>4. /\ events \subseteq log
      /\ \A x \in events : x.clock \in Nat
  BY <1>1 DEF On, EventOK
<1>5. CASE ~(e.do.op \in {"set_topic", "remove_topic"} /\ e.do.on = t)
  <2>1. On(after, {"set_topic", "remove_topic"}, t) = events
    BY <1>5 DEF On
  <2>2. n.topicClock[t] = clock /\ n.topics[t] = d.topics[t]
    <3>1. CASE e.do.op \in {"set_topic", "remove_topic"}
      <4>1. e.do.on # t
        BY <1>5, <3>1
      <4>2. n.topicClock =
              [d.topicClock EXCEPT ![e.do.on] = Larger(@, e.clock)]
        BY <1>1, <3>1, TopicEffect
      <4>3. n.topics[t] = d.topics[t]
        <5>1. CASE e.do.op = "set_topic"
          <6>1. n.topics = [d.topics EXCEPT ![e.do.on] =
                  IF e.clock >= d.topicClock[e.do.on]
                  THEN PreferenceOf(e) ELSE @]
            BY <1>1, <5>1, TopicEffect
          <6> QED BY <1>1, <4>1, <6>1 DEF Documents
        <5>2. CASE e.do.op = "remove_topic"
          <6>1. n.topics = [d.topics EXCEPT ![e.do.on] =
                  IF e.clock > d.topicClock[e.do.on] THEN Absent ELSE @]
            BY <1>1, <5>2, TopicEffect
          <6> QED BY <1>1, <4>1, <6>1 DEF Documents
        <5> QED BY <3>1, <5>1, <5>2
      <4> QED BY <1>1, <4>1, <4>2, <4>3 DEF Documents
    <3>2. CASE e.do.op = "set_consent"
      BY <1>1, <3>2, ConsentEffect
    <3>3. CASE e.do.op = "set_opt_out"
      BY <1>1, <3>3, OptOutEffect
    <3>4. CASE e.do.op \in {"set_profile", "recommend"}
      BY <1>1, <3>4, NoEffect
    <3> QED BY <1>2, <3>1, <3>2, <3>3, <3>4 DEF Ops
  <2>3. SetsAt(after, t, n.topicClock[t]) = sets
    BY <2>1, <2>2 DEF SetsAt
  <2> QED BY <1>3, <2>1, <2>2, <2>3
<1>6. CASE e.do.op \in {"set_topic", "remove_topic"} /\ e.do.on = t
  <2>1. On(after, {"set_topic", "remove_topic"}, t) = events \cup {e}
    BY <1>6 DEF On
  <2>2. \A x \in events : Before(x, e) /\ x.clock <= e.clock
    <3>1. \A x \in events : Before(x, e)
      BY <1>4
    <3> QED BY <1>2, <1>4, <3>1 DEF Before
  <2>3. clock <= e.clock
    BY <1>2, <1>3, <1>4, <2>2 DEF IsClock
  <2>4. n.topicClock[t] = e.clock
    <3>1. n.topicClock = [d.topicClock EXCEPT ![t] = Larger(@, e.clock)]
      BY <1>1, <1>6, TopicEffect
    <3>2. Larger(clock, e.clock) = e.clock
      BY <1>2, <1>3, <2>3 DEF Larger
    <3> QED BY <1>1, <3>1, <3>2 DEF Documents
  <2>5. IsClock(e.clock, events \cup {e})
    <3>1. IsClock(Larger(clock, e.clock), events \cup {e})
      BY <1>2, <1>3, <1>4, ClockStep
    <3>2. Larger(clock, e.clock) = e.clock
      BY <1>2, <1>3, <2>3 DEF Larger
    <3> QED BY <3>1, <3>2
  <2> DEFINE newSets == {x \in events \cup {e} :
                           x.clock = e.clock /\ x.do.op = "set_topic"}
  <2>6. SetsAt(after, t, n.topicClock[t]) = newSets
    BY <2>1, <2>4 DEF SetsAt
  <2>7. CASE e.do.op = "set_topic"
    <3>1. e \in newSets
      BY <2>7
    <3>2. n.topics[t] = PreferenceOf(e)
      <4>1. n.topics = [d.topics EXCEPT ![t] =
              IF e.clock >= clock THEN PreferenceOf(e) ELSE @]
        BY <1>1, <1>6, <2>7, TopicEffect
      <4>2. e.clock >= clock
        BY <1>2, <1>3, <2>3
      <4> QED BY <1>1, <4>1, <4>2 DEF Documents
    <3>3. \A g \in newSets : (\A f \in newSets \ {g} : Before(f, g)) => g = e
      <4> SUFFICES ASSUME NEW g \in newSets, g # e, Before(e, g)
                   PROVE  FALSE
        BY <3>1
      <4>1. g \in events /\ Before(g, e)
        BY <2>2
      <4>2. /\ g.clock \in Int /\ g.time \in Int /\ g.id \in Int
            /\ e.clock \in Int /\ e.time \in Int /\ e.id \in Int
        BY <1>1, <1>4, <4>1 DEF EventOK
      <4> QED BY <4>1, <4>2 DEF Before
    <3> HIDE DEF newSets
    <3> QED BY <2>1, <2>4, <2>5, <2>6, <3>1, <3>2, <3>3
  <2>8. CASE e.do.op = "remove_topic"
    <3>1. n.topics = [d.topics EXCEPT ![t] =
            IF e.clock > clock THEN Absent ELSE @]
      BY <1>1, <1>6, <2>8, TopicEffect
    <3>2. CASE e.clock > clock
      <4>1. n.topics[t] = Absent
        BY <1>1, <3>1, <3>2 DEF Documents
      <4>2. newSets = {}
        <5>1. \A x \in events : x.clock # e.clock
          BY <1>2, <1>3, <1>4, <3>2 DEF IsClock
        <5> QED BY <2>8, <5>1
      <4> QED BY <2>1, <2>4, <2>5, <2>6, <4>1, <4>2
    <3>3. CASE e.clock = clock
      <4>1. n.topics[t] = d.topics[t]
        BY <1>1, <3>1, <3>3 DEF Documents
      <4>2. newSets = sets
        BY <2>8, <3>3 DEF SetsAt
      <4> QED BY <1>3, <2>1, <2>4, <2>5, <2>6, <4>1, <4>2
    <3>4. e.clock > clock \/ e.clock = clock
      <4> HIDE DEF clock
      <4> QED BY <1>2, <1>3, <2>3
    <3> QED BY <3>2, <3>3, <3>4
  <2> QED BY <1>6, <2>7, <2>8
<1> QED BY <1>5, <1>6

LEMMA DatedStep ==
  ASSUME NEW d, NEW log, Says(d, log), NEW e,
         \A x \in log \cup {e} : EventOK(x),
         NEW n, n = ApplyEvent(d, e), NEW after, after = log \cup {e}
  PROVE  n \in Documents /\ Dated(n, after)
<1>1. d \in Documents /\ EventOK(e) /\ \A x \in log : x.clock \in Nat
  BY DEF Says, EventOK
<1>2. e.do.op \in Ops /\ e.clock \in Nat /\ d.lastClock \in Nat
  BY <1>1 DEF EventOK, WellFormed, Says, Dated
<1>3. n \in Documents /\ n.lastClock = Larger(d.lastClock, e.clock)
  <2>1. CASE e.do.op \in {"set_topic", "remove_topic"}
    BY <1>1, <2>1, TopicEffect
  <2>2. CASE e.do.op = "set_consent"
    BY <1>1, <2>2, ConsentEffect
  <2>3. CASE e.do.op = "set_opt_out"
    BY <1>1, <2>3, OptOutEffect
  <2>4. CASE e.do.op \in {"set_profile", "recommend"}
    BY <1>1, <2>4, NoEffect
  <2> QED BY <1>2, <2>1, <2>2, <2>3, <2>4 DEF Ops
<1>4. n.lastClock \in Nat /\ d.lastClock <= n.lastClock /\ e.clock <= n.lastClock
  BY <1>2, <1>3 DEF Larger
<1>5. \A x \in after : x.clock <= n.lastClock
  BY <1>1, <1>2, <1>4 DEF Says, Dated
<1>6. ASSUME NEW c \in -1..d.lastClock PROVE Larger(c, e.clock) \in -1..n.lastClock
  BY <1>2, <1>4, <1>6 DEF Larger
<1>7. ASSUME NEW f \in Fields PROVE n.consentClock[f] \in -1..n.lastClock
  <2>1. \/ n.consentClock[f] = d.consentClock[f]
        \/ n.consentClock[f] = Larger(d.consentClock[f], e.clock)
    <3>1. CASE e.do.op = "set_consent"
      <4>1. n.consentClock = [d.consentClock EXCEPT ![e.do.on] = Larger(@, e.clock)]
        BY <1>1, <3>1, ConsentEffect
      <4> QED BY <1>1, <4>1 DEF Documents
    <3>2. CASE e.do.op \in {"set_topic", "remove_topic"}
      BY <1>1, <3>2, TopicEffect
    <3>3. CASE e.do.op = "set_opt_out"
      BY <1>1, <3>3, OptOutEffect
    <3>4. CASE e.do.op \in {"set_profile", "recommend"}
      BY <1>1, <3>4, NoEffect
    <3> QED BY <1>2, <3>1, <3>2, <3>3, <3>4 DEF Ops
  <2>2. d.consentClock[f] \in -1..d.lastClock
    BY DEF Says, Dated
  <2> QED BY <1>2, <1>4, <1>6, <2>1, <2>2
<1>8. ASSUME NEW t \in Topics PROVE n.topicClock[t] \in -1..n.lastClock
  <2>1. \/ n.topicClock[t] = d.topicClock[t]
        \/ n.topicClock[t] = Larger(d.topicClock[t], e.clock)
    <3>1. CASE e.do.op \in {"set_topic", "remove_topic"}
      <4>1. n.topicClock = [d.topicClock EXCEPT ![e.do.on] = Larger(@, e.clock)]
        BY <1>1, <3>1, TopicEffect
      <4> QED BY <1>1, <4>1 DEF Documents
    <3>2. CASE e.do.op = "set_consent"
      BY <1>1, <3>2, ConsentEffect
    <3>3. CASE e.do.op = "set_opt_out"
      BY <1>1, <3>3, OptOutEffect
    <3>4. CASE e.do.op \in {"set_profile", "recommend"}
      BY <1>1, <3>4, NoEffect
    <3> QED BY <1>2, <3>1, <3>2, <3>3, <3>4 DEF Ops
  <2>2. d.topicClock[t] \in -1..d.lastClock
    BY DEF Says, Dated
  <2> QED BY <1>2, <1>4, <1>6, <2>1, <2>2
<1>9. ASSUME NEW t \in Topics PROVE n.optOutClock[t] \in -1..n.lastClock
  <2>1. \/ n.optOutClock[t] = d.optOutClock[t]
        \/ n.optOutClock[t] = Larger(d.optOutClock[t], e.clock)
    <3>1. CASE e.do.op = "set_opt_out"
      <4>1. n.optOutClock = [d.optOutClock EXCEPT ![e.do.on] = Larger(@, e.clock)]
        BY <1>1, <3>1, OptOutEffect
      <4> QED BY <1>1, <4>1 DEF Documents
    <3>2. CASE e.do.op \in {"set_topic", "remove_topic"}
      BY <1>1, <3>2, TopicEffect
    <3>3. CASE e.do.op = "set_consent"
      BY <1>1, <3>3, ConsentEffect
    <3>4. CASE e.do.op \in {"set_profile", "recommend"}
      BY <1>1, <3>4, NoEffect
    <3> QED BY <1>2, <3>1, <3>2, <3>3, <3>4 DEF Ops
  <2>2. d.optOutClock[t] \in -1..d.lastClock
    BY DEF Says, Dated
  <2> QED BY <1>2, <1>4, <1>6, <2>1, <2>2
<1> QED BY <1>3, <1>4, <1>5, <1>7, <1>8, <1>9 DEF Dated

\* An event that sorts after all the others, applied last, keeps a document
\* true to its history.
LEMMA SaysStep ==
  ASSUME NEW d, NEW log, Says(d, log), NEW e,
         \A x \in log \cup {e} : EventOK(x), \A x \in log : Before(x, e)
  PROVE  Says(ApplyEvent(d, e), log \cup {e})
BY ConsentStep, OptOutStep, TopicStep, DatedStep DEF Says

LEMMA NewDocumentSays ==
  ASSUME NEW name \in Names, NEW time \in Nat
  PROVE  Says(NewDocument(name, time), {})
<1> DEFINE d == NewDocument(name, time)
<1>1. d \in Documents
  BY DEF NewDocument, Documents
<1>2. /\ d.lastClock = 0
      /\ \A f \in Fields : d.consent[f] /\ d.consentClock[f] = -1
      /\ \A t \in Topics : d.optOutClock[t] = -1 /\ d.topicClock[t] = -1
      /\ \A t \in Topics : d.topics[t] = Absent
      /\ d.optOut = {}
  BY DEF NewDocument
<1> HIDE DEF d
<1>3. ConsentSaid(d, {}) /\ OptOutSaid(d, {}) /\ TopicSaid(d, {})
  BY <1>2 DEF ConsentSaid, OptOutSaid, TopicSaid, On, IsClock, Answered, SetsAt
<1>4. Dated(d, {})
  BY <1>2 DEF Dated
<1> QED BY <1>1, <1>3, <1>4 DEF Says, d

-----------------------------------------------------------------------------
(* What such a document says *)

\* The events at the clock of a register are the newest.
LEMMA NewestAtClock ==
  ASSUME NEW events, \A x \in events : x.clock \in Nat,
         NEW clock \in Int, IsClock(clock, events)
  PROVE  Newest(events) = {x \in events : x.clock = clock}
BY DEF IsClock, Newest

LEMMA ConsentMeaning ==
  ASSUME NEW d, NEW log, Says(d, log), \A x \in log : EventOK(x),
         NEW f \in Fields
  PROVE  d.consent[f] <=> ConsentMeans(log, f)
<1> DEFINE events == On(log, {"set_consent"}, f)
           clock == d.consentClock[f]
<1>1. /\ \A x \in events : x.clock \in Nat
      /\ clock \in Int /\ IsClock(clock, events)
      /\ ~d.consent[f] <=> Answered(events, clock, FALSE)
      /\ d.consent[f] \in BOOLEAN
  BY DEF Says, ConsentSaid, Documents, On, EventOK
<1>2. Newest(events) = {x \in events : x.clock = clock}
  BY <1>1, NewestAtClock
<1>3. Answered(events, clock, FALSE) <=> \E x \in Newest(events) : ~x.do.flag
  BY <1>2 DEF Answered, On, EventOK
<1> QED BY <1>1, <1>3 DEF ConsentMeans

LEMMA OptOutMeaning ==
  ASSUME NEW d, NEW log, Says(d, log), \A x \in log : EventOK(x),
         NEW t \in Topics
  PROVE  t \in d.optOut <=> OptOutMeans(log, t)
<1> DEFINE events == On(log, {"set_opt_out"}, t)
           clock == d.optOutClock[t]
<1>1. /\ \A x \in events : x.clock \in Nat
      /\ clock \in Int /\ IsClock(clock, events)
      /\ t \in d.optOut <=> Answered(events, clock, TRUE)
  BY DEF Says, OptOutSaid, Documents, On, EventOK
<1>2. Newest(events) = {x \in events : x.clock = clock}
  BY <1>1, NewestAtClock
<1>3. Answered(events, clock, TRUE) <=> \E x \in Newest(events) : x.do.flag
  BY <1>2 DEF Answered, On, EventOK
<1> QED BY <1>1, <1>3 DEF OptOutMeans

LEMMA TopicMeaning ==
  ASSUME NEW d, NEW log, Says(d, log), \A x \in log : EventOK(x),
         NEW t \in Topics
  PROVE  LET sets == Preferences(log, t) IN
         /\ sets = {} => d.topics[t] = Absent
         /\ \A e \in sets : (\A f \in sets \ {e} : Before(f, e)) =>
              d.topics[t] = PreferenceOf(e)
<1> DEFINE events == On(log, {"set_topic", "remove_topic"}, t)
           clock == d.topicClock[t]
<1>1. /\ \A x \in events : x.clock \in Nat
      /\ clock \in Int /\ IsClock(clock, events)
  BY DEF Says, TopicSaid, Documents, On, EventOK
<1>2. Newest(events) = {x \in events : x.clock = clock}
  BY <1>1, NewestAtClock
<1>3. Preferences(log, t) = SetsAt(log, t, clock)
  BY <1>2 DEF Preferences, SetsAt
<1> QED BY <1>3 DEF Says, TopicSaid

-----------------------------------------------------------------------------
(* What a replay makes of a history *)

LEMMA ApplyType ==
  ASSUME NEW d \in Documents, NEW e, EventOK(e)
  PROVE  ApplyEvent(d, e) \in Documents
<1>1. e.do.op \in Ops
  BY DEF EventOK, WellFormed
<1> QED BY <1>1, TopicEffect, ConsentEffect, OptOutEffect, NoEffect DEF Ops

LEMMA ReplayType ==
  ASSUME NEW d \in Documents, NEW log, Sortable(log)
  PROVE  Replay(d, log) \in Documents
<1> DEFINE Good == {T \in SUBSET log : Replay(d, T) \in Documents}
<1>1. ASSUME NEW T \in SUBSET log, \A U \in SUBSET T : U # T => U \in Good
      PROVE  T \in Good
  <2>1. Sortable(T)
    BY SortableSubset
  <2>2. CASE T = {}
    BY <2>1, <2>2, ReplayUnfolds
  <2>3. CASE T # {}
    <3> DEFINE e == Latest(T)
    <3>1. e \in T /\ EventOK(e)
      BY <2>1, <2>3, LatestIsLast DEF Sortable
    <3>2. Replay(d, T \ {e}) \in Documents
      BY <1>1, <3>1
    <3>3. Replay(d, T) = ApplyEvent(Replay(d, T \ {e}), e)
      BY <2>1, <2>3, ReplayUnfolds
    <3> QED BY <3>1, <3>2, <3>3, ApplyType
  <2> QED BY <2>2, <2>3
<1>2. \A T \in SUBSET log : T \in Good
  <2> HIDE DEF Good
  <2> QED BY <1>1, SubsetInduction DEF Sortable
<1> QED BY <1>2

\* The document a history is replayed to says what the history means.
LEMMA ReplaySays ==
  ASSUME NEW name \in Names, NEW time \in Nat, NEW log, Sortable(log)
  PROVE  Says(Replay(NewDocument(name, time), log), log)
<1> DEFINE d == NewDocument(name, time)
           Good == {T \in SUBSET log : Says(Replay(d, T), T)}
<1>1. ASSUME NEW T \in SUBSET log, \A U \in SUBSET T : U # T => U \in Good
      PROVE  T \in Good
  <2>1. Sortable(T)
    BY SortableSubset
  <2>2. CASE T = {}
    BY <2>1, <2>2, ReplayUnfolds, NewDocumentSays
  <2>3. CASE T # {}
    <3> DEFINE e == Latest(T)
    <3>1. e \in T /\ \A f \in T \ {e} : Before(f, e)
      BY <2>1, <2>3, LatestIsLast
    <3>2. Says(Replay(d, T \ {e}), T \ {e})
      BY <1>1, <3>1
    <3>3. Replay(d, T) = ApplyEvent(Replay(d, T \ {e}), e)
      BY <2>1, <2>3, ReplayUnfolds
    <3>4. \A x \in (T \ {e}) \cup {e} : EventOK(x)
      BY <2>1, <3>1 DEF Sortable
    <3>5. Says(ApplyEvent(Replay(d, T \ {e}), e), (T \ {e}) \cup {e})
      <4> HIDE DEF e, d
      <4> QED BY <3>1, <3>2, <3>4, SaysStep
    <3>6. (T \ {e}) \cup {e} = T
      BY <3>1
    <3> QED BY <3>3, <3>5, <3>6
  <2> QED BY <2>2, <2>3
<1>2. \A T \in SUBSET log : T \in Good
  <2> HIDE DEF Good
  <2> QED BY <1>1, SubsetInduction DEF Sortable
<1> QED BY <1>2

LEMMA LatestOfLater ==
  ASSUME NEW A, NEW B, Sortable(A \cup B), B # {},
         \A a \in A, b \in B : Before(a, b)
  PROVE  Latest(A \cup B) = Latest(B) /\ Latest(B) \in B
         /\ Latest(B) \notin A
<1>1. Sortable(B)
  BY SortableSubset
<1>2. Latest(B) \in B /\ \A f \in B \ {Latest(B)} : Before(f, Latest(B))
  BY <1>1, LatestIsLast
<1> DEFINE l == Latest(A \cup B)
<1>3. l \in A \cup B /\ \A f \in (A \cup B) \ {l} : Before(f, l)
  BY LatestIsLast
<1>4. l \notin A
  <2> SUFFICES ASSUME l \in A PROVE FALSE
    OBVIOUS
  <2>1. Before(l, Latest(B)) /\ (Latest(B) # l => Before(Latest(B), l))
    BY <1>2, <1>3
  <2>2. ~(Before(l, Latest(B)) /\ Before(Latest(B), l))
    BY <1>2, <1>3, BeforeOrders
  <2>3. l = Latest(B) => FALSE
    <3>1. \A x \in A \cup B : ~(Before(x, x) /\ Before(x, x))
      BY BeforeOrders
    <3> QED BY <1>2, <2>1, <3>1
  <2> QED BY <2>1, <2>2, <2>3
<1>5. l = Latest(B)
  <2>1. l # Latest(B) => Before(l, Latest(B)) /\ Before(Latest(B), l)
    BY <1>2, <1>3, <1>4
  <2> QED BY <1>2, <1>3, <2>1, BeforeOrders
<1> QED BY <1>2, <1>4, <1>5

\* Replaying a history in two parts, the earlier first, is replaying it.
LEMMA ReplayAppends ==
  ASSUME NEW d, NEW A, NEW B, Sortable(A \cup B),
         \A a \in A, b \in B : Before(a, b)
  PROVE  Replay(Replay(d, A), B) = Replay(d, A \cup B)
<1> DEFINE Good == {T \in SUBSET B :
                      Replay(Replay(d, A), T) = Replay(d, A \cup T)}
<1>1. ASSUME NEW T \in SUBSET B, \A U \in SUBSET T : U # T => U \in Good
      PROVE  T \in Good
  <2>1. Sortable(T) /\ Sortable(A \cup T) /\ Sortable({})
    <3>1. T \in SUBSET (A \cup B) /\ A \cup T \in SUBSET (A \cup B)
          /\ {} \in SUBSET (A \cup B)
      OBVIOUS
    <3> QED BY <3>1, SortableSubset
  <2>2. CASE T = {}
    <3>1. A \cup T = A
      BY <2>2
    <3> QED BY <2>1, <2>2, <3>1, ReplayUnfolds
  <2>3. CASE T # {}
    <3> DEFINE e == Latest(T)
    <3>1. e \in T /\ e \notin A /\ Latest(A \cup T) = e
      BY <2>1, <2>3, LatestOfLater
    <3>2. Replay(Replay(d, A), T \ {e}) = Replay(d, A \cup (T \ {e}))
      BY <1>1, <3>1
    <3>3. (A \cup T) \ {e} = A \cup (T \ {e})
      BY <3>1
    <3>4. Replay(Replay(d, A), T) = ApplyEvent(Replay(Replay(d, A), T \ {e}), e)
      BY <2>1, <2>3, ReplayUnfolds
    <3>5. Replay(d, A \cup T) = ApplyEvent(Replay(d, (A \cup T) \ {e}), e)
      BY <2>1, <2>3, <3>1, ReplayUnfolds
    <3> QED BY <3>2, <3>3, <3>4, <3>5
  <2> QED BY <2>2, <2>3
<1>2. \A T \in SUBSET B : T \in Good
  <2>1. IsFiniteSet(B)
    BY FS_Subset DEF Sortable
  <2> HIDE DEF Good
  <2> QED BY <1>1, <2>1, SubsetInduction
<1> QED BY <1>2

LEMMA ReplayOne ==
  ASSUME NEW d, NEW e, EventOK(e)
  PROVE  Sortable({e}) /\ Replay(d, {e}) = ApplyEvent(d, e)
<1>1. Sortable({e})
  BY FS_Singleton DEF Sortable
<1>2. Latest({e}) = e /\ {e} \ {e} = {}
  BY <1>1, LatestIsLast
<1>3. Replay(d, {}) = d
  BY <1>1, ReplayUnfolds
<1> QED BY <1>1, <1>2, <1>3, ReplayUnfolds

\* What an event leaves in the name and the dates.
LEMMA NameEffect ==
  ASSUME NEW d \in Documents, NEW e, EventOK(e)
  PROVE  LET n == ApplyEvent(d, e)
             named == e.do.op = "set_profile" /\ e.clock >= d.nameClock
         IN /\ n.createdAt = d.createdAt
            /\ n.updatedAt = Larger(d.updatedAt, e.time)
            /\ n.lastClock = Larger(d.lastClock, e.clock)
            /\ n.name = IF named THEN e.do.name ELSE d.name
            /\ n.nameClock = IF named THEN e.clock ELSE d.nameClock
<1> DEFINE s == Stamp(d, e)
<1>1. /\ s \in Documents /\ s.name = d.name /\ s.nameClock = d.nameClock
      /\ s.createdAt = d.createdAt
      /\ s.updatedAt = Larger(d.updatedAt, e.time)
      /\ s.lastClock = Larger(d.lastClock, e.clock)
  BY StampType DEF Stamp, Documents
<1>2. e.do.op \in Ops
  BY DEF EventOK, WellFormed
<1> HIDE DEF s
<1>3. CASE e.do.op = "set_topic"
  <2>1. ApplyEvent(d, e) = SetTopic(s, e)
    BY <1>3 DEF ApplyEvent, s
  <2>2. \E x, y : SetTopic(s, e) = [s EXCEPT !.topics = x, !.topicClock = y]
    BY <1>1 DEF SetTopic, Documents
  <2> QED BY <1>1, <1>3, <2>1, <2>2 DEF Documents
<1>4. CASE e.do.op = "remove_topic"
  <2>1. ApplyEvent(d, e) = RemoveTopic(s, e)
    BY <1>4 DEF ApplyEvent, s
  <2>2. \/ RemoveTopic(s, e) = s
        \/ \E x, y : RemoveTopic(s, e) = [s EXCEPT !.topics = x, !.topicClock = y]
    BY <1>1 DEF RemoveTopic, Documents
  <2> QED BY <1>1, <1>4, <2>1, <2>2 DEF Documents
<1>5. CASE e.do.op = "set_consent"
  <2>1. ApplyEvent(d, e) = SetConsent(s, e)
    BY <1>5 DEF ApplyEvent, s
  <2>2. \E x, y : SetConsent(s, e) = [s EXCEPT !.consent = x, !.consentClock = y]
    BY <1>1 DEF SetConsent, Documents
  <2> QED BY <1>1, <1>5, <2>1, <2>2 DEF Documents
<1>6. CASE e.do.op = "set_opt_out"
  <2>1. ApplyEvent(d, e) = SetOptOut(s, e)
    BY <1>6 DEF ApplyEvent, s
  <2>2. \E x, y : SetOptOut(s, e) = [s EXCEPT !.optOut = x, !.optOutClock = y]
    BY <1>1 DEF SetOptOut, Documents
  <2> QED BY <1>1, <1>6, <2>1, <2>2 DEF Documents
<1>7. CASE e.do.op = "set_profile"
  <2>1. ApplyEvent(d, e) = SetProfile(s, e)
    BY <1>7 DEF ApplyEvent, s
  <2> QED BY <1>1, <1>7, <2>1 DEF SetProfile, Documents
<1>8. CASE e.do.op = "recommend"
  <2>1. ApplyEvent(d, e) = s
    BY <1>8 DEF ApplyEvent, s
  <2> QED BY <1>1, <1>8, <2>1
<1> QED BY <1>2, <1>3, <1>4, <1>5, <1>6, <1>7, <1>8 DEF Ops

SameSettings(a, b) ==
  /\ a.topics = b.topics /\ a.topicClock = b.topicClock
  /\ a.consent = b.consent /\ a.consentClock = b.consentClock
  /\ a.optOut = b.optOut /\ a.optOutClock = b.optOutClock

\* The settings an event leaves come from the settings it finds.
LEMMA SettingsEffect ==
  ASSUME NEW a \in Documents, NEW b \in Documents, SameSettings(a, b),
         NEW e, EventOK(e)
  PROVE  SameSettings(ApplyEvent(a, e), ApplyEvent(b, e))
<1>1. e.do.op \in Ops
  BY DEF EventOK, WellFormed
<1> DEFINE on == e.do.on
           Advance(clocks) == [clocks EXCEPT ![on] = Larger(@, e.clock)]
<1>2. CASE e.do.op \in {"set_topic", "remove_topic"}
  <2> DEFINE Set(topics, clocks) ==
               [topics EXCEPT ![on] =
                  IF e.clock >= clocks[on] THEN PreferenceOf(e) ELSE @]
             Remove(topics, clocks) ==
               [topics EXCEPT ![on] = IF e.clock > clocks[on] THEN Absent ELSE @]
  <2>1. ASSUME NEW x \in Documents
        PROVE  LET n == ApplyEvent(x, e) IN
               /\ n.topicClock = Advance(x.topicClock)
               /\ e.do.op = "set_topic" => n.topics = Set(x.topics, x.topicClock)
               /\ e.do.op = "remove_topic" =>
                    n.topics = Remove(x.topics, x.topicClock)
               /\ n.consent = x.consent /\ n.consentClock = x.consentClock
               /\ n.optOut = x.optOut /\ n.optOutClock = x.optOutClock
    BY <1>2, TopicEffect
  <2> HIDE DEF Set, Remove, Advance
  <2> QED BY <1>2, <2>1 DEF SameSettings
<1>3. CASE e.do.op = "set_consent"
  <2> DEFINE Set(consent, clocks) ==
               [consent EXCEPT ![on] =
                  IF \/ e.clock > clocks[on]
                     \/ e.clock = clocks[on] /\ consent[on] /\ ~e.do.flag
                  THEN e.do.flag ELSE @]
  <2>1. ASSUME NEW x \in Documents
        PROVE  LET n == ApplyEvent(x, e) IN
               /\ n.consentClock = Advance(x.consentClock)
               /\ n.consent = Set(x.consent, x.consentClock)
               /\ n.topics = x.topics /\ n.topicClock = x.topicClock
               /\ n.optOut = x.optOut /\ n.optOutClock = x.optOutClock
    BY <1>3, ConsentEffect
  <2> HIDE DEF Set, Advance
  <2> QED BY <2>1 DEF SameSettings
<1>4. CASE e.do.op = "set_opt_out"
  <2> DEFINE Set(optOut, clocks) ==
               IF \/ e.clock > clocks[on]
                  \/ e.clock = clocks[on] /\ on \notin optOut /\ e.do.flag
               THEN IF e.do.flag THEN optOut \cup {on} ELSE optOut \ {on}
               ELSE optOut
  <2>1. ASSUME NEW x \in Documents
        PROVE  LET n == ApplyEvent(x, e) IN
               /\ n.optOutClock = Advance(x.optOutClock)
               /\ n.optOut = Set(x.optOut, x.optOutClock)
               /\ n.topics = x.topics /\ n.topicClock = x.topicClock
               /\ n.consent = x.consent /\ n.consentClock = x.consentClock
    BY <1>4, OptOutEffect
  <2> HIDE DEF Set, Advance
  <2> QED BY <2>1 DEF SameSettings
<1>5. CASE e.do.op \in {"set_profile", "recommend"}
  BY <1>5, NoEffect DEF SameSettings
<1> QED BY <1>1, <1>2, <1>3, <1>4, <1>5 DEF Ops

LEMMA SameDocument ==
  ASSUME NEW a \in Documents, NEW b \in Documents, SameSettings(a, b),
         a.name = b.name, a.nameClock = b.nameClock,
         a.lastClock = b.lastClock,
         a.createdAt = b.createdAt, a.updatedAt = b.updatedAt
  PROVE  a = b
BY DEF SameSettings, Documents

LEMMA LargerCommutes ==
  ASSUME NEW x \in Int, NEW y \in Int, NEW z \in Int
  PROVE  Larger(Larger(x, y), z) = Larger(Larger(x, z), y)
BY DEF Larger

\* A registration signed late, at clock 0, commutes with any later event.
LEMMA RegistrationCommutes ==
  ASSUME NEW d \in Documents, NEW e, EventOK(e), e.clock > 0,
         NEW r, EventOK(r), r.clock = 0, r.do.op = "set_profile"
  PROVE  ApplyEvent(ApplyEvent(d, e), r) = ApplyEvent(ApplyEvent(d, r), e)
<1> DEFINE de == ApplyEvent(d, e)
           dr == ApplyEvent(d, r)
           a == ApplyEvent(de, r)
           b == ApplyEvent(dr, e)
<1>1. /\ e.clock \in Nat /\ e.time \in Nat /\ r.time \in Nat
      /\ d.lastClock \in Int /\ d.updatedAt \in Int /\ d.nameClock \in Int
  BY DEF EventOK, Documents
<1>2. de \in Documents /\ dr \in Documents
  BY ApplyType
<1> HIDE DEF de, dr
<1>3. a \in Documents /\ b \in Documents
  BY <1>2, ApplyType
<1>4. SameSettings(a, b)
  <2>1. SameSettings(a, de)
    BY <1>2, NoEffect DEF SameSettings
  <2>2. SameSettings(dr, d)
    BY NoEffect DEF SameSettings, dr
  <2>3. SameSettings(b, de)
    BY <1>2, <2>2, SettingsEffect DEF de
  <2> QED BY <2>1, <2>3 DEF SameSettings
<1>5. /\ a.lastClock = Larger(Larger(d.lastClock, e.clock), 0)
      /\ b.lastClock = Larger(Larger(d.lastClock, 0), e.clock)
      /\ a.updatedAt = Larger(Larger(d.updatedAt, e.time), r.time)
      /\ b.updatedAt = Larger(Larger(d.updatedAt, r.time), e.time)
      /\ a.createdAt = d.createdAt /\ b.createdAt = d.createdAt
  BY <1>2, NameEffect DEF de, dr
<1>6. /\ a.lastClock = b.lastClock
      /\ a.createdAt = b.createdAt /\ a.updatedAt = b.updatedAt
  BY <1>1, <1>5, LargerCommutes
<1> DEFINE named == e.do.op = "set_profile" /\ e.clock >= d.nameClock
<1>7. /\ de.name = IF named THEN e.do.name ELSE d.name
      /\ de.nameClock = IF named THEN e.clock ELSE d.nameClock
      /\ dr.name = IF 0 >= d.nameClock THEN r.do.name ELSE d.name
      /\ dr.nameClock = IF 0 >= d.nameClock THEN 0 ELSE d.nameClock
  BY NameEffect DEF de, dr
<1>8. /\ a.name = IF 0 >= de.nameClock THEN r.do.name ELSE de.name
      /\ a.nameClock = IF 0 >= de.nameClock THEN 0 ELSE de.nameClock
      /\ b.name = IF e.do.op = "set_profile" /\ e.clock >= dr.nameClock
                  THEN e.do.name ELSE dr.name
      /\ b.nameClock = IF e.do.op = "set_profile" /\ e.clock >= dr.nameClock
                       THEN e.clock ELSE dr.nameClock
  BY <1>2, NameEffect
<1> HIDE DEF a, b
<1>9. a.name = b.name /\ a.nameClock = b.nameClock
  BY <1>1, <1>7, <1>8
<1> QED BY <1>3, <1>4, <1>6, <1>9, SameDocument DEF a, b, de, dr

LEMMA RegistrationOvertakes ==
  ASSUME NEW d \in Documents, NEW log, Sortable(log),
         \A e \in log : e.clock > 0,
         NEW r, EventOK(r), r.clock = 0, r.do.op = "set_profile"
  PROVE  ApplyEvent(Replay(d, log), r) = Replay(ApplyEvent(d, r), log)
<1> DEFINE Good == {T \in SUBSET log :
                      ApplyEvent(Replay(d, T), r) = Replay(ApplyEvent(d, r), T)}
<1>1. ASSUME NEW T \in SUBSET log, \A U \in SUBSET T : U # T => U \in Good
      PROVE  T \in Good
  <2>1. Sortable(T)
    BY SortableSubset
  <2>2. CASE T = {}
    BY <2>1, <2>2, ReplayUnfolds
  <2>3. CASE T # {}
    <3> DEFINE e == Latest(T)
               before == Replay(d, T \ {e})
    <3>1. e \in T /\ EventOK(e) /\ e.clock > 0
      BY <2>1, <2>3, LatestIsLast DEF Sortable
    <3>2. ApplyEvent(before, r) = Replay(ApplyEvent(d, r), T \ {e})
      BY <1>1, <3>1
    <3>3. Replay(d, T) = ApplyEvent(before, e)
      BY <2>1, <2>3, ReplayUnfolds
    <3>4. Replay(ApplyEvent(d, r), T) =
            ApplyEvent(Replay(ApplyEvent(d, r), T \ {e}), e)
      BY <2>1, <2>3, ReplayUnfolds
    <3>5. before \in Documents
      <4>1. Sortable(T \ {e})
        BY <2>1, SortableSubset
      <4> QED BY <4>1, ReplayType
    <3> HIDE DEF before, e
    <3>6. ApplyEvent(ApplyEvent(before, e), r) = ApplyEvent(ApplyEvent(before, r), e)
      BY <3>1, <3>5, RegistrationCommutes
    <3> QED BY <3>2, <3>3, <3>4, <3>6
  <2> QED BY <2>2, <2>3
<1>2. \A T \in SUBSET log : T \in Good
  <2> HIDE DEF Good
  <2> QED BY <1>1, SubsetInduction DEF Sortable
<1> QED BY <1>2

\* A history registered late says what it says when it is registered first.
LEMMA RegisteredLate ==
  ASSUME NEW d \in Documents, NEW log, NEW r, Sortable(log \cup {r}),
         \A e \in log : e.clock > 0, r.clock = 0, r.do.op = "set_profile"
  PROVE  Replay(d, log \cup {r}) = ApplyEvent(Replay(d, log), r)
<1>1. Sortable({r} \cup log) /\ Sortable(log) /\ EventOK(r)
      /\ \A a \in {r}, b \in log : Before(a, b)
  <2>1. log \cup {r} = {r} \cup log
    OBVIOUS
  <2>2. \A b \in log : b.clock \in Nat /\ b.clock > 0
    BY DEF Sortable, EventOK
  <2> QED BY <2>1, <2>2, SortableSubset DEF Before, Sortable
<1>2. Replay(Replay(d, {r}), log) = Replay(d, {r} \cup log)
  BY <1>1, ReplayAppends
<1>3. Replay(d, {r}) = ApplyEvent(d, r)
  BY <1>1, ReplayOne
<1>4. ApplyEvent(Replay(d, log), r) = Replay(ApplyEvent(d, r), log)
  BY <1>1, RegistrationOvertakes
<1>5. log \cup {r} = {r} \cup log
  OBVIOUS
<1> QED BY <1>2, <1>3, <1>4, <1>5

\* No two events of an accepted history share an id.
LEMMA NoConflict ==
  ASSUME NEW log, NEW events, IsFiniteSet(log \cup events),
         \A e \in log \cup events : EventOK(e)
  PROVE  Conflict(log, events) <=> ~Sortable(log \cup events)
<1> DEFINE U == log \cup events
           ids == {e.id : e \in U}
           f == [e \in U |-> e.id]
<1>1. f \in Surjection(U, ids)
  BY DEF Surjection
<1>2. /\ Cardinality(ids) <= Cardinality(U)
      /\ Cardinality(ids) = Cardinality(U) <=> f \in Injection(U, ids)
      /\ IsFiniteSet(ids)
  <2> HIDE DEF U, ids, f
  <2> QED BY <1>1, FS_Surjection DEF U
<1>3. f \in Injection(U, ids) <=> \A x, y \in U : x.id = y.id => x = y
  BY DEF Injection, IsInjective
<1>4. Cardinality(ids) \in Nat /\ Cardinality(U) \in Nat
  BY <1>2, FS_CardinalityType
<1>5. Conflict(log, events) <=> Cardinality(ids) < Cardinality(U)
  BY DEF Conflict
<1> HIDE DEF ids, f
<1> QED BY <1>2, <1>3, <1>4, <1>5 DEF Sortable

LEMMA RegisteredOnce ==
  ASSUME NEW log, Registered(log)
  PROVE  /\ Registration(log) \in log /\ Registration(log).clock = 0
         /\ Registration(log).do.op = "set_profile"
         /\ \A e \in log : e.clock = 0 => e = Registration(log)
<1>1. PICK r \in log : Registrations(log) = {r} /\ r.do.op = "set_profile"
  BY DEF Registered
<1>2. r.clock = 0 /\ \A e \in log : e.clock = 0 => e = r
  BY <1>1 DEF Registrations
<1> QED BY <1>1, <1>2 DEF Registration

LEMMA RebuildSays ==
  ASSUME NEW log, Sortable(log), Registered(log)
  PROVE  Says(Rebuild(log), log)
<1>1. Registration(log).do.name \in Names /\ Registration(log).time \in Nat
  BY RegisteredOnce DEF Sortable, EventOK
<1> QED BY <1>1, ReplaySays DEF Rebuild, Base

-----------------------------------------------------------------------------
(* Documents that differ in their dates only *)

\* The dates an event leaves depend on the dates it finds, the rest does not.
Later(a, b) ==
  /\ a \in Documents /\ b \in Documents /\ SameSettings(a, b)
  /\ a.name = b.name /\ a.nameClock = b.nameClock
  /\ a.lastClock = b.lastClock
  /\ a.updatedAt >= b.updatedAt

LEMMA LaterItself ==
  ASSUME NEW d \in Documents
  PROVE  Later(d, d)
<1>1. d.updatedAt \in Int
  BY DEF Documents
<1> QED BY <1>1 DEF Later, SameSettings

LEMMA LaterThanLater ==
  ASSUME NEW a, NEW b, NEW c, Later(a, b), Later(b, c)
  PROVE  Later(a, c)
<1>1. a.updatedAt \in Int /\ b.updatedAt \in Int /\ c.updatedAt \in Int
  BY DEF Later, Documents
<1> QED BY <1>1 DEF Later, SameSettings

LEMMA LaterEffect ==
  ASSUME NEW a, NEW b, Later(a, b), NEW e, EventOK(e)
  PROVE  Later(ApplyEvent(a, e), ApplyEvent(b, e))
<1> DEFINE x == ApplyEvent(a, e)
           y == ApplyEvent(b, e)
<1>1. a \in Documents /\ b \in Documents
  BY DEF Later
<1>2. x \in Documents /\ y \in Documents /\ SameSettings(x, y)
  BY <1>1, ApplyType, SettingsEffect DEF Later
<1> DEFINE Named(d) == e.do.op = "set_profile" /\ e.clock >= d.nameClock
<1>3. ASSUME NEW d \in Documents
      PROVE  LET n == ApplyEvent(d, e) IN
             /\ n.updatedAt = Larger(d.updatedAt, e.time)
             /\ n.lastClock = Larger(d.lastClock, e.clock)
             /\ n.name = IF Named(d) THEN e.do.name ELSE d.name
             /\ n.nameClock = IF Named(d) THEN e.clock ELSE d.nameClock
  BY NameEffect
<1>4. /\ x.name = y.name /\ x.nameClock = y.nameClock
      /\ x.lastClock = y.lastClock
  <2> HIDE DEF x, y
  <2>1. Named(a) <=> Named(b)
    BY DEF Later
  <2> HIDE DEF Named
  <2> QED BY <1>1, <1>3, <2>1 DEF Later, x, y
<1>5. x.updatedAt >= y.updatedAt
  <2>1. /\ a.updatedAt \in Int /\ b.updatedAt \in Int /\ e.time \in Int
        /\ a.updatedAt >= b.updatedAt
    BY <1>1 DEF Documents, EventOK, Later
  <2>2. /\ x.updatedAt = Larger(a.updatedAt, e.time)
        /\ y.updatedAt = Larger(b.updatedAt, e.time)
    BY <1>1, <1>3
  <2> HIDE DEF x, y
  <2> QED BY <2>1, <2>2 DEF Larger
<1> HIDE DEF x, y
<1>6. Later(x, y)
  BY <1>2, <1>4, <1>5 DEF Later
<1> QED BY <1>6 DEF x, y

LEMMA LaterReplay ==
  ASSUME NEW a, NEW b, Later(a, b), NEW log, Sortable(log)
  PROVE  Later(Replay(a, log), Replay(b, log))
<1> DEFINE Good == {T \in SUBSET log : Later(Replay(a, T), Replay(b, T))}
<1>1. ASSUME NEW T \in SUBSET log, \A U \in SUBSET T : U # T => U \in Good
      PROVE  T \in Good
  <2>1. Sortable(T)
    BY SortableSubset
  <2>2. CASE T = {}
    BY <2>1, <2>2, ReplayUnfolds
  <2>3. CASE T # {}
    <3> DEFINE e == Latest(T)
    <3>1. e \in T /\ EventOK(e)
      BY <2>1, <2>3, LatestIsLast DEF Sortable
    <3>2. Later(Replay(a, T \ {e}), Replay(b, T \ {e}))
      BY <1>1, <3>1
    <3>3. /\ Replay(a, T) = ApplyEvent(Replay(a, T \ {e}), e)
          /\ Replay(b, T) = ApplyEvent(Replay(b, T \ {e}), e)
      BY <2>1, <2>3, ReplayUnfolds
    <3> QED BY <3>1, <3>2, <3>3, LaterEffect
  <2> QED BY <2>2, <2>3
<1>2. \A T \in SUBSET log : T \in Good
  <2> HIDE DEF Good
  <2> QED BY <1>1, SubsetInduction DEF Sortable
<1> QED BY <1>2

\* No event moves the date of creation, only set_profile the name.
LEMMA ReplayKeeps ==
  ASSUME NEW d \in Documents, NEW log, Sortable(log)
  PROVE  /\ Replay(d, log).createdAt = d.createdAt
         /\ (\A e \in log : e.do.op # "set_profile") =>
              Replay(d, log).name = d.name
<1> DEFINE Kept(T) ==
             /\ Replay(d, T).createdAt = d.createdAt
             /\ (\A e \in T : e.do.op # "set_profile") =>
                  Replay(d, T).name = d.name
           Good == {T \in SUBSET log : Kept(T)}
<1>1. ASSUME NEW T \in SUBSET log, \A U \in SUBSET T : U # T => U \in Good
      PROVE  T \in Good
  <2>1. Sortable(T)
    BY SortableSubset
  <2>2. CASE T = {}
    BY <2>1, <2>2, ReplayUnfolds
  <2>3. CASE T # {}
    <3> DEFINE e == Latest(T)
    <3>1. e \in T /\ EventOK(e)
      BY <2>1, <2>3, LatestIsLast DEF Sortable
    <3>2. Kept(T \ {e}) /\ Replay(d, T \ {e}) \in Documents
      BY <1>1, <2>1, <3>1, SortableSubset, ReplayType
    <3>3. Replay(d, T) = ApplyEvent(Replay(d, T \ {e}), e)
      BY <2>1, <2>3, ReplayUnfolds
    <3>4. LET n == ApplyEvent(Replay(d, T \ {e}), e) IN
          /\ n.createdAt = Replay(d, T \ {e}).createdAt
          /\ e.do.op # "set_profile" => n.name = Replay(d, T \ {e}).name
      BY <3>1, <3>2, NameEffect
    <3>5. Kept(T)
      BY <3>1, <3>2, <3>3, <3>4
    <3> QED BY <3>5
  <2> QED BY <2>2, <2>3
<1>2. \A T \in SUBSET log : T \in Good
  <2> HIDE DEF Good
  <2> QED BY <1>1, SubsetInduction DEF Sortable
<1> QED BY <1>2

\* What a history means shows in neither date.
LEMMA LaterSays ==
  ASSUME NEW a, NEW b, Later(a, b), NEW log, Says(b, log)
  PROVE  Says(a, log)
<1>1. a \in Documents
  BY DEF Later
<1>2. ConsentSaid(a, log)
  BY DEF Later, SameSettings, Says, ConsentSaid
<1>3. OptOutSaid(a, log)
  BY DEF Later, SameSettings, Says, OptOutSaid
<1>4. TopicSaid(a, log)
  BY DEF Later, SameSettings, Says, TopicSaid
<1>5. Dated(a, log)
  BY DEF Later, SameSettings, Says, Dated
<1> QED BY <1>1, <1>2, <1>3, <1>4, <1>5 DEF Says

\* Documents that agree on all but the dates are one document but for these.
LEMMA LaterInDates ==
  ASSUME NEW a, NEW b, Later(a, b)
  PROVE  a = [b EXCEPT !.createdAt = a.createdAt, !.updatedAt = a.updatedAt]
<1> DEFINE c == [b EXCEPT !.createdAt = a.createdAt, !.updatedAt = a.updatedAt]
<1>1. a \in Documents /\ b \in Documents
  BY DEF Later
<1>2. a.createdAt \in Int /\ a.updatedAt \in Int
  BY <1>1 DEF Documents
<1>3. c \in Documents /\ SameSettings(c, b) /\ c.name = b.name
      /\ c.nameClock = b.nameClock /\ c.lastClock = b.lastClock
      /\ c.createdAt = a.createdAt /\ c.updatedAt = a.updatedAt
  BY <1>1, <1>2 DEF Documents, SameSettings
<1> HIDE DEF c
<1>4. a = c
  <2>1. SameSettings(a, c)
    BY <1>3 DEF Later, SameSettings
  <2> QED BY <1>1, <1>3, <2>1, SameDocument DEF Later
<1> QED BY <1>4 DEF c
=============================================================================
