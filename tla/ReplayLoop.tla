----------------------------- MODULE ReplayLoop -----------------------------
(***************************************************************************)
(* The loop of ORFProfile.rebuild_from_verified_history (models.py), one   *)
(* event a step, for any history.  What is left to show of the document at *)
(* every step is that it says what a history means without any order: for  *)
(* each setting, the latest event on it, and among events of one clock the *)
(* one its tie rule prefers.  A prefix of a history is a history itself,   *)
(* so the intermediate documents are documents of some profile too.        *)
(***************************************************************************)
EXTENDS ProfileHistory

CONSTANT Histories    \* the verified histories to replay

ASSUME ReplayConstants ==
  \A h \in Histories : Registered(h) /\ \A e \in h : EventOK(e)

VARIABLES pending,    \* events of the history not yet applied
          applied,    \* events applied
          doc         \* the document so far

replayVars == <<pending, applied, doc>>

ReplayInit ==
  /\ pending \in Histories
  /\ applied = {}
  /\ doc = Base(pending)

\* The loop takes the events in sorted order.
ApplyNext ==
  \E e \in pending :
    /\ \A f \in pending \ {e} : Before(e, f)
    /\ pending' = pending \ {e}
    /\ applied' = applied \cup {e}
    /\ doc' = ApplyEvent(doc, e)

ReplaySpec == ReplayInit /\ [][ApplyNext]_replayVars

-----------------------------------------------------------------------------
(* Properties *)

\* A consent field, whatever the order of events at one clock, shows a
\* withdrawal if one of the newest events is one (should_apply of
\* SET_CONSENT in apply_event).
ConsentIsNewest ==
  \A f \in Fields : doc.consent[f] <=> ConsentMeans(applied, f)

\* So does an opt-out (should_apply of SET_OPT_OUT).
OptOutIsNewest ==
  \A t \in Topics : t \in doc.optOut <=> OptOutMeans(applied, t)

\* A preference is stored exactly when one of the newest events on its topic
\* sets it, and is that of the event that sorts last: a removal never takes
\* away a preference of its own clock (>= and > of SET_TOPIC, REMOVE_TOPIC).
TopicIsNewest ==
  \A t \in Topics :
    LET sets == Preferences(applied, t) IN
    /\ sets = {} => doc.topics[t] = Absent
    /\ \A e \in sets : (\A f \in sets \ {e} : Before(f, e)) =>
         doc.topics[t] = [weight |-> e.do.weight,
                          visibility |-> e.do.visibility, at |-> e.time]

SettingsAreNewest == ConsentIsNewest /\ OptOutIsNewest /\ TopicIsNewest
=============================================================================
