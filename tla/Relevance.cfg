SPECIFICATION RelevanceSpec
CONSTANTS
  t1 = t1
  t2 = t2
  me = me
  Topics = {t1, t2}
  Names = {me}
  Absent = Absent
  Histories <- MCHistories
  Approved <- MCApproved
  Requests <- MCRequests
  Reactions <- MCReactions
  MaxFeedbackEvents = 2
INVARIANTS ConsentIsNewest OptOutIsNewest TopicIsNewest
  RankIgnoresRequestOrder
PROPERTIES HiddenEditsShowOnlyTheirDate RetriesChangeNoRanking
CHECK_DEADLOCK FALSE
