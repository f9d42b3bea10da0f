--------------------------- MODULE ProfileHistory ---------------------------
(***************************************************************************)
(* The signed history of a profile and the document it is replayed to      *)
(* (models.py: ORFProfile, SignedEvent).  A history is a set of events;    *)
(* rebuild_from_verified_history applies them in the order of              *)
(* (clock, timestamp, event_id), each by the tie rule of its operation.    *)
(* Signatures are ideal: every event below was signed with the profile's   *)
(* key, so verify_signature never fails.  Timestamps and event ids are     *)
(* numbers that stand for strings in their lexicographic order.            *)
(***************************************************************************)
EXTENDS Integers, FiniteSets, Folds

CONSTANTS Topics,    \* names of topics
          Names,     \* display names
          Absent     \* no preference stored for a topic

Visibilities == {"public", "selective", "private"}

\* The fields of ConsentSettings, all TRUE in a new profile.
Fields == {"share_public_topics", "ad_personalization", "hosted_sync"}

Ops == {"set_topic", "remove_topic", "set_consent", "set_opt_out",
        "set_profile", "recommend"}

\* One record type for every operation: a change says what an operation does
\* to which subject, an event adds when and in which place of the history.
Change(op, on, flag, weight, visibility, name) ==
  [op |-> op, on |-> on, flag |-> flag, weight |-> weight,
   visibility |-> visibility, name |-> name]

Sign(change, id, clock, time) ==
  [id |-> id, clock |-> clock, time |-> time, do |-> change]

\* What validate requires of the payload of an operation.
WellFormed(change) ==
  /\ change.op \in Ops
  /\ change.op \in {"set_topic", "remove_topic", "set_opt_out"} =>
       change.on \in Topics
  /\ change.op = "set_consent" => change.on \in Fields
  /\ change.op = "set_topic" => change.visibility \in Visibilities

\* An event as validate lets it into a history.
EventOK(e) ==
  /\ e.id \in Nat /\ e.clock \in Nat /\ e.time \in Nat
  /\ e.do.flag \in BOOLEAN /\ e.do.weight \in Nat /\ e.do.name \in Names
  /\ WellFormed(e.do)

-----------------------------------------------------------------------------
(* The document *)

\* ORFProfile before its first event: default consent, no clocks.
NewDocument(name, time) ==
  [topics       |-> [t \in Topics |-> Absent],
   optOut       |-> {},
   consent      |-> [f \in Fields |-> TRUE],
   name         |-> name,
   topicClock   |-> [t \in Topics |-> -1],
   consentClock |-> [f \in Fields |-> -1],
   optOutClock  |-> [t \in Topics |-> -1],
   nameClock    |-> -1,
   lastClock    |-> 0,
   createdAt    |-> time,
   updatedAt    |-> time]

NextClock(doc) == doc.lastClock + 1

Larger(a, b) == IF a >= b THEN a ELSE b

\* A preference is written at the clock of the last one or later, so of two
\* at one clock the one that sorts last stays.
SetTopic(doc, e) ==
  LET t == e.do.on IN
  [doc EXCEPT
    !.topics[t] = IF e.clock >= doc.topicClock[t]
                  THEN [weight |-> e.do.weight,
                        visibility |-> e.do.visibility, at |-> e.time]
                  ELSE @,
    !.topicClock[t] = Larger(@, e.clock)]

\* Mutant of RemoveTopic: a removal wins at equal clocks if it sorts last.
RemoveTopicTied(doc, e) ==
  LET t == e.do.on IN
  IF e.clock >= doc.topicClock[t]
  THEN [doc EXCEPT !.topics[t] = Absent, !.topicClock[t] = e.clock]
  ELSE doc

\* A removal needs a later clock: at equal clocks the preference stays.
RemoveTopic(doc, e) ==
  LET t == e.do.on IN
  IF e.clock > doc.topicClock[t]
  THEN [doc EXCEPT !.topics[t] = Absent, !.topicClock[t] = e.clock]
  ELSE doc

\* Mutant of SetConsent: at equal clocks the one that sorts last wins.
SetConsentLastWins(doc, e) ==
  LET f == e.do.on
      applies == e.clock >= doc.consentClock[f]
  IN [doc EXCEPT
       !.consent[f] = IF applies THEN e.do.flag ELSE @,
       !.consentClock[f] = Larger(@, e.clock)]

\* At equal clocks consent can only be withdrawn.
SetConsent(doc, e) ==
  LET f == e.do.on
      applies == \/ e.clock > doc.consentClock[f]
                 \/ /\ e.clock = doc.consentClock[f]
                    /\ doc.consent[f] /\ ~e.do.flag
  IN [doc EXCEPT
       !.consent[f] = IF applies THEN e.do.flag ELSE @,
       !.consentClock[f] = Larger(@, e.clock)]

\* Mutant of SetOptOut: at equal clocks the one that sorts first wins.
SetOptOutFirstWins(doc, e) ==
  LET t == e.do.on
      applies == e.clock > doc.optOutClock[t]
  IN [doc EXCEPT
       !.optOut = IF applies
                  THEN IF e.do.flag THEN @ \cup {t} ELSE @ \ {t}
                  ELSE @,
       !.optOutClock[t] = Larger(@, e.clock)]

\* At equal clocks a topic can only be opted out of.
SetOptOut(doc, e) ==
  LET t == e.do.on
      applies == \/ e.clock > doc.optOutClock[t]
                 \/ /\ e.clock = doc.optOutClock[t]
                    /\ t \notin doc.optOut /\ e.do.flag
  IN [doc EXCEPT
       !.optOut = IF applies
                  THEN IF e.do.flag THEN @ \cup {t} ELSE @ \ {t}
                  ELSE @,
       !.optOutClock[t] = Larger(@, e.clock)]

SetProfile(doc, e) ==
  IF e.clock >= doc.nameClock
  THEN [doc EXCEPT !.name = e.do.name, !.nameClock = e.clock]
  ELSE doc

\* Mutant of Stamp: the clock of the event applied last.
StampLatest(doc, e) ==
  [doc EXCEPT !.lastClock = e.clock, !.updatedAt = Larger(@, e.time)]

\* The clock and date of a document that receives an event.
Stamp(doc, e) ==
  [doc EXCEPT !.lastClock = Larger(@, e.clock),
              !.updatedAt = Larger(@, e.time)]

\* apply_event: the clock and date, then the operation.
ApplyEvent(doc, e) ==
  LET seen == Stamp(doc, e)
  IN CASE e.do.op = "set_topic"    -> SetTopic(seen, e)
       [] e.do.op = "remove_topic" -> RemoveTopic(seen, e)
       [] e.do.op = "set_consent"  -> SetConsent(seen, e)
       [] e.do.op = "set_opt_out"  -> SetOptOut(seen, e)
       [] e.do.op = "set_profile"  -> SetProfile(seen, e)
       [] OTHER -> seen

-----------------------------------------------------------------------------
(* Replay *)

\* The key the events are sorted by.
Before(e, f) ==
  \/ e.clock < f.clock
  \/ e.clock = f.clock /\ e.time < f.time
  \/ e.clock = f.clock /\ e.time = f.time /\ e.id < f.id

\* The last one in that order.
Latest(log) == CHOOSE e \in log : \A f \in log \ {e} : Before(f, e)

Registrations(log) == {e \in log : e.clock = 0}

\* The history holds exactly one clock-0 event and it sets the profile.
Registered(log) ==
  \E r \in log : Registrations(log) = {r} /\ r.do.op = "set_profile"

Registration(log) == CHOOSE r \in log : r.clock = 0

\* The empty document rebuild_from_verified_history starts from.
Base(log) ==
  NewDocument(Registration(log).do.name, Registration(log).time)

\* Events applied to a document in their order.
Replay(doc, events) ==
  LET Apply(e, d) == ApplyEvent(d, e)
      Itself(e) == e
  IN MapThenFoldSet(Apply, doc, Itself, Latest, events)

\* The document of a registered history.
Rebuild(log) == Replay(Base(log), log)

\* Two events with one id that say different things: the second is refused.
Conflict(log, events) ==
  LET union == log \cup events
  IN Cardinality({e.id : e \in union}) < Cardinality(union)

-----------------------------------------------------------------------------
(* What a history means *)

On(log, ops, subject) == {e \in log : e.do.op \in ops /\ e.do.on = subject}

\* The events that no other of the same set comes after, by clock alone.
Newest(log) == {e \in log : \A f \in log : f.clock <= e.clock}

\* Consent is given unless one of the newest choices withdraws it.
ConsentMeans(log, f) ==
  \A e \in Newest(On(log, {"set_consent"}, f)) : e.do.flag

\* A topic is opted out of if one of the newest choices says so.
OptOutMeans(log, t) ==
  \E e \in Newest(On(log, {"set_opt_out"}, t)) : e.do.flag

Preferences(log, t) ==
  {e \in Newest(On(log, {"set_topic", "remove_topic"}, t)) :
     e.do.op = "set_topic"}
=============================================================================
