----------------------------- MODULE Relevance -----------------------------
(***************************************************************************)
(* From a signed history to what a site learns of it: the profile is       *)
(* replayed event by event (ReplayLoop) while a site's session reads its   *)
(* projection, ranks candidates and sends feedback.                        *)
(***************************************************************************)
EXTENDS ReplayLoop, Ranking

CONSTANTS Approved,     \* sets of scopes a session may have been approved for
          Requests,     \* sequences of candidates a site may ask to rank
          Reactions,    \* sequences of feedback a site may send at once
          MaxFeedbackEvents   \* of one grant

Reaction(id, type, candidate, topics) ==
  [id |-> id, type |-> type, candidate |-> candidate, topics |-> topics]

\* What from_dict lets through of a candidate.
CandidateOK(c) ==
  /\ c.id \in Nat /\ c.siteScore \in 0..Unit /\ c.freshness \in 0..Unit
  /\ IsFiniteSet(c.topics)

ReactionOK(e) == e.type \in {"click", "dismiss", "save"}

ASSUME RelevanceConstants ==
  /\ \A request \in Requests :
       /\ Len(request) \in Nat /\ DOMAIN request = 1..Len(request)
       /\ \A i \in DOMAIN request : CandidateOK(request[i])
       /\ RequestOK(request, Len(request))
  /\ \A batch \in Reactions :
       /\ Len(batch) \in Nat /\ DOMAIN batch = 1..Len(batch)
       /\ \A i \in DOMAIN batch : ReactionOK(batch[i])
  /\ \A approved \in Approved : \A s \in approved :
       s = [kind |-> s.kind, topic |-> s.topic]

VARIABLE feedback       \* ranking_feedback_events of the grant

relevanceVars == <<pending, applied, doc, feedback>>

RelevanceInit == ReplayInit /\ feedback = {}

Replaying == ApplyNext /\ UNCHANGED feedback

\* Mutant of Ingest: a known id is written again.
IngestReplacing(batch) ==
  LET last == {i \in DOMAIN batch :
                 \A j \in DOMAIN batch : batch[j].id = batch[i].id => j <= i}
      kept == {f \in feedback : \A i \in last : batch[i].id # f.id}
      rows == kept \cup {batch[i] : i \in last}
  IN /\ Cardinality(rows) <= MaxFeedbackEvents
     /\ feedback' = rows

\* INSERT OR IGNORE by event id: of an id that is stored, or comes twice in
\* one batch, the first row stays.  A batch over the budget leaves nothing.
Ingest(batch) ==
  LET new == {i \in DOMAIN batch :
                /\ \A f \in feedback : f.id # batch[i].id
                /\ \A j \in 1..(i - 1) : batch[j].id # batch[i].id}
      fresh == {batch[i] : i \in new}
  IN
  /\ fresh # {} => Cardinality(feedback \cup fresh) <= MaxFeedbackEvents
  /\ feedback' = feedback \cup fresh

SendFeedback ==
  /\ \E batch \in Reactions : Ingest(batch)
  /\ UNCHANGED replayVars

RelevanceNext == Replaying \/ SendFeedback

RelevanceSpec == RelevanceInit /\ [][RelevanceNext]_relevanceVars

-----------------------------------------------------------------------------
(* Properties *)

\* All that a session reads of a profile.
View(d, approved, request) ==
  [projection |-> ConsentedProjection(d, approved),
   ranked     |-> RankSession(d, approved, feedback, request, Len(request))]

\* A topic the session has no right to see: private, opted out of, public
\* while sharing is withdrawn or not granted, selective and not named.
Hidden(d, approved, t) ==
  \/ d.topics[t] = Absent
  \/ d.topics[t].visibility = "private"
  \/ t \in d.optOut
  \/ /\ d.topics[t].visibility = "public"
     /\ ~d.consent["share_public_topics"] \/ PublicTopics \notin approved
  \/ /\ d.topics[t].visibility = "selective"
     /\ TopicScope(t) \notin approved

\* An edit of a topic that is hidden from a session before and after it, a
\* preference set, changed or removed and an opt-out given or taken back,
\* changes one thing of all that the session reads: the projection's date,
\* which every event moves on.  So a site can learn that something was edited
\* and when, but not what: no other field, no place and no score of the
\* ranking tells (consented_projection feeding rank_grant_session, and the
\* normalisation in _topic_affinity; updated_at in apply_event).
HiddenEditsShowOnlyTheirDate ==
  [][\A e \in pending \ pending' : \A approved \in Approved :
       /\ e.do.op \in {"set_topic", "remove_topic", "set_opt_out"}
       /\ Hidden(doc, approved, e.do.on) /\ Hidden(doc', approved, e.do.on)
       => \A request \in Requests :
            View(doc', approved, request) =
            [View(doc, approved, request) EXCEPT
               !.projection.updated = Larger(@, e.time)]
    ]_replayVars

\* The order of the candidates in a request says nothing in its answer, ties
\* of the score included (sort key of GrantSessionRanker.rank).
RankIgnoresRequestOrder ==
  \A approved \in Approved : \A r1, r2 \in Requests :
    Len(r1) = Len(r2) /\ Range(r1) = Range(r2) =>
      RankSession(doc, approved, feedback, r1, Len(r1)) =
      RankSession(doc, approved, feedback, r2, Len(r2))

\* A batch that brings no new event id, such as a retry or one that reuses
\* ids for other reactions, leaves every later ranking as it was (event ids
\* are the primary key of ranking_feedback_events).
RetriesChangeNoRanking ==
  [][{e.id : e \in feedback'} = {e.id : e \in feedback} =>
       \A request \in Requests : \A approved \in Approved :
         RankSession(doc, approved, feedback', request, Len(request)) =
         RankSession(doc, approved, feedback, request, Len(request))
    ]_feedback
=============================================================================
