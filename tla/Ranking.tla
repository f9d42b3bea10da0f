------------------------------ MODULE Ranking ------------------------------
(***************************************************************************)
(* Reranking of a site's candidates for one grant session (ranking.py) and *)
(* rank_grant_session (store.py), which feeds it the session's projection  *)
(* and the feedback of its grant.                                          *)
(*                                                                         *)
(* Scores are whole numbers of parts in Unit instead of floats, rounded    *)
(* down.  Two functions are stood in for by others with the properties     *)
(* that matter here: a candidate carries its freshness, and tanh is        *)
(* Squash, which rises, is odd and stays within the unit.                  *)
(***************************************************************************)
EXTENDS Projection, SequencesExt

Unit == 1000

\* A candidate of a request; freshness is the decay of its published_at.
Candidate(id, siteScore, freshness, topics) ==
  [id |-> id, siteScore |-> siteScore, freshness |-> freshness,
   topics |-> topics]

\* GrantSessionRankRequest.from_dict
RequestOK(candidates, topN) ==
  /\ candidates # <<>>
  /\ \A i, j \in DOMAIN candidates :
       candidates[i].id = candidates[j].id => i = j
  /\ \A i \in DOMAIN candidates : candidates[i].siteScore \in 0..Unit
  /\ topN > 0

-----------------------------------------------------------------------------
(* Signals *)

SignalOf(type) ==
  CASE type = "click" -> 1 [] type = "dismiss" -> -2 [] type = "save" -> 2

SumOf(S, f(_)) == MapThenSumSet(f, S)

Clamp(x) == IF x < 0 THEN 0 ELSE IF x > Unit THEN Unit ELSE x

Squash(x) == IF x >= 0 THEN (Unit * x) \div (30 + x)
                       ELSE -((Unit * (-x)) \div (30 - x))

CandidateSignal(feedback, id) ==
  LET Signal(e) == SignalOf(e.type)
  IN SumOf({e \in feedback : e.candidate = id}, Signal)

TopicSignal(feedback, t) ==
  LET Signal(e) == SignalOf(e.type)
  IN SumOf({e \in feedback : t \in e.topics}, Signal)

\* GrantFeedbackSignals.score, doubled and shifted to lie around 0: the exact
\* candidate counts 0.7, the mean of the topics with any feedback 0.3.
FeedbackScore(feedback, candidate) ==
  LET heard == {t \in candidate.topics : \E e \in feedback : t \in e.topics}
      Signal(t) == TopicSignal(feedback, t)
      topicSignal == IF heard = {} THEN 0
                     ELSE (3 * SumOf(heard, Signal)) \div Cardinality(heard)
  IN IF feedback = {} THEN 0
     ELSE Squash(7 * CandidateSignal(feedback, candidate.id) + topicSignal)

\* _topic_affinity: the share of the granted weight on the candidate's topics.
TopicAffinity(weights, candidate) ==
  LET Weight(t) == weights[t]
      total == SumOf(DOMAIN weights, Weight)
  IN IF candidate.topics = {} \/ total <= 0 THEN Unit \div 2
     ELSE (Unit * SumOf(candidate.topics \cap DOMAIN weights, Weight))
            \div total

Score(weights, feedback, candidate) ==
  Clamp((7 * candidate.siteScore
         + 2 * TopicAffinity(weights, candidate)
         + candidate.freshness
         + 2 * FeedbackScore(feedback, candidate)) \div 10)

-----------------------------------------------------------------------------
(* Ranking *)

\* Mutant of RanksBefore: ties beyond the site's score keep their order.
RanksBeforeBySite(x, y) ==
  \/ x.score > y.score
  \/ x.score = y.score /\ x.siteScore > y.siteScore

\* The sort key (-score, -site_score, candidate_id); ids are numbers here.
RanksBefore(x, y) ==
  \/ x.score > y.score
  \/ x.score = y.score /\ x.siteScore > y.siteScore
  \/ x.score = y.score /\ x.siteScore = y.siteScore /\ x.id < y.id

\* GrantSessionRanker.rank: a stable sort, cut to the number asked for.
Rank(weights, feedback, candidates, topN) ==
  LET Scored(c) == [id |-> c.id, siteScore |-> c.siteScore,
                    score |-> Score(weights, feedback, c)]
      Insert(sorted, x) ==
        LET after == SelectInSeq(sorted, LAMBDA y : RanksBefore(x, y))
        IN IF after = 0 THEN Append(sorted, x)
                        ELSE InsertAt(sorted, after, x)
      ranked == FoldLeft(LAMBDA sorted, c : Insert(sorted, Scored(c)),
                         <<>>, candidates)
      n == IF topN < Len(ranked) THEN topN ELSE Len(ranked)
  IN SubSeq(ranked, 1, n)

\* Mutant of GrantedWeights: the whole profile takes part in the ranking.
GrantedWeightsAll(doc, approved) ==
  [t \in Stored(doc) |-> doc.topics[t].weight]

\* The weights rank_grant_session takes out of the session's projection.
GrantedWeights(doc, approved) ==
  LET shown == ConsentedProjection(doc, approved).topics
  IN [t \in {s.topic : s \in shown} |-> doc.topics[t].weight]

RankSession(doc, approved, feedback, candidates, topN) ==
  Rank(GrantedWeights(doc, approved), feedback, candidates, topN)
=============================================================================
