---------------------------- MODULE MCRelevance ----------------------------
(* Instances of Relevance for TLC. *)
EXTENDS Relevance

CONSTANTS t1, t2, me

Registered0 ==
  Sign(Change("set_profile", me, TRUE, 0, "public", me), 0, 0, 1)

\* What may happen to each topic and to the consent to share.
MCChanges ==
  {Change("set_topic", t1, TRUE, 2, "public", me),
   Change("set_topic", t1, TRUE, 1, "selective", me),
   Change("remove_topic", t1, TRUE, 0, "public", me),
   Change("set_opt_out", t1, TRUE, 0, "public", me),
   Change("set_opt_out", t1, FALSE, 0, "public", me),
   Change("set_topic", t2, TRUE, 1, "public", me),
   Change("set_consent", "share_public_topics", FALSE, 0, "public", me),
   Change("set_consent", "share_public_topics", TRUE, 0, "public", me)}

\* Every history of three changes in which the second is at the clock of the
\* first or of the third, ordered by id in the one case, by date in the other.
MCHistories ==
  {{Registered0, Sign(x, 3, 1, 2), Sign(y, 2, k, 2), Sign(z, 4, 2, 1)} :
     x, y, z \in MCChanges, k \in {1, 2}}

MCApproved == {{PublicTopics, ConsentSummary}, {TopicScope(t1)}}

MCFirst  == Candidate(1, 500, 500, {t1})
MCSecond == Candidate(2, 500, 500, {t2})
MCTied   == Candidate(3, 500, 500, {t2})

MCRequests ==
  {<<MCFirst, MCSecond, MCTied>>, <<MCTied, MCSecond, MCFirst>>}

\* Retries under known ids, and one id twice in a batch.
MCReactions ==
  {<<Reaction(1, "save", 2, {t2})>>,
   <<Reaction(1, "dismiss", 2, {t2}), Reaction(2, "click", 1, {t1})>>,
   <<Reaction(2, "click", 3, {t2}), Reaction(2, "save", 2, {t2}),
     Reaction(3, "dismiss", 1, {t1})>>}
=============================================================================
