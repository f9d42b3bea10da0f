----------------------------- MODULE Projection -----------------------------
(***************************************************************************)
(* Scopes and the two projections of a profile (models.py).  A scope is a  *)
(* record; a site may also send strings that are no scope of this version, *)
(* here any record of another kind.                                        *)
(***************************************************************************)
EXTENDS ProfileHistory

Scope(name)   == [kind |-> name, topic |-> Absent]
TopicScope(t) == [kind |-> "topics.selective", topic |-> t]

ProfileRead    == Scope("profile.read")
PublicTopics   == Scope("topics.public")
ConsentSummary == Scope("consent.summary")

\* parse_scope: the fixed scopes and topics.selective:<topic>.
Known(scope) ==
  \/ scope \in {ProfileRead, PublicTopics, ConsentSummary}
  \/ scope.kind = "topics.selective" /\ scope.topic \in Topics

\* normalize_scope_set with ignore_unknown: the scopes kept and set aside.
Normalized(scopes) == {s \in scopes : Known(s)}
Unknown(scopes)    == scopes \ Normalized(scopes)

SelectiveTopics(scopes) ==
  {s.topic : s \in {x \in Normalized(scopes) : x.kind = "topics.selective"}}

\* normalize_request_scope_sets: unknown required scopes are an error,
\* unknown optional ones are dropped, a scope asked twice is required.
RequestScopes(required, optional) ==
  [accepted  |-> Unknown(required) = {},
   required  |-> Normalized(required),
   optional  |-> Normalized(optional) \ Normalized(required),
   requested |-> Normalized(required) \cup Normalized(optional)]

Stored(doc) == {t \in Topics : doc.topics[t] # Absent}

\* TopicPreference.to_dict: name, weight, visibility and date.
Shown(doc, t) == [topic |-> t, preference |-> doc.topics[t]]

\* public_projection, for anyone who asks.
PublicProjection(doc) ==
  LET topics == {t \in Stored(doc) : /\ doc.topics[t].visibility = "public"
                                     /\ t \notin doc.optOut}
  IN [name    |-> doc.name,
      topics  |-> IF doc.consent["share_public_topics"]
                  THEN {Shown(doc, t) : t \in topics} ELSE {},
      shares  |-> doc.consent["share_public_topics"],
      ads     |-> doc.consent["ad_personalization"],
      updated |-> doc.updatedAt]

\* The tests of consented_projection on one stored topic.
Disclosed(doc, scopes, t) ==
  /\ t \notin doc.optOut
  /\ \/ /\ doc.topics[t].visibility = "public"
        /\ doc.consent["share_public_topics"]
        /\ PublicTopics \in scopes
     \/ /\ doc.topics[t].visibility = "selective"
        /\ t \in SelectiveTopics(scopes)

\* consented_projection, for a session with these approved scopes.  The date
\* is that of the newest event on anything, shown or not.
ConsentedProjection(doc, approved) ==
  LET scopes == Normalized(approved) IN
  [granted |-> scopes,
   ignored |-> Unknown(approved),
   topics  |-> {Shown(doc, t) : t \in {x \in Stored(doc) :
                                          Disclosed(doc, scopes, x)}},
   updated |-> doc.updatedAt,
   name    |-> IF ProfileRead \in scopes THEN doc.name ELSE Absent,
   shares  |-> IF ConsentSummary \in scopes
               THEN doc.consent["share_public_topics"] ELSE Absent,
   ads     |-> IF ConsentSummary \in scopes
               THEN doc.consent["ad_personalization"] ELSE Absent]
=============================================================================
