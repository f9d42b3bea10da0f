------------------------------ MODULE ConsentStore ------------------------------
(***************************************************************************)
(* The consent tables of SQLiteStore (store.py): profiles, access          *)
(* requests, grants, challenges, sessions and feedback.  Every operator of *)
(* this module that has primed variables is ONE SQLite transaction: what   *)
(* it reads and writes, nobody sees half of.  ConsentService runs the      *)
(* handlers, which string several of these transactions together.          *)
(*                                                                         *)
(* What a request asks for never changes after it is inserted, so it is    *)
(* the constant Ask and the table holds the status only.  grants.request_id*)
(* is UNIQUE, so the grants table is a function of the request; a grant's  *)
(* id is the request with the actor that approved it, because a request    *)
(* deleted in the middle of a reuse can see a second insertion.            *)
(***************************************************************************)
EXTENDS Naturals, FiniteSets

CONSTANTS
  Profile, Site, Purpose, Scope,   \* who is asked, who asks, what for, what of
  Request, Challenge, Session, Event,  \* identifiers, never issued twice
  Ask,             \* Ask[r]: what request r asks for
  Allowed,         \* Allowed[s]: the scopes site s is registered for
  ChallengeTTL, GrantTTL, SessionTTL,  \* CHALLENGE_TTL_SECONDS and the defaults
  MaxFeedback,     \* max_grant_feedback_events
  None, Gone       \* SQL NULL, a row never inserted, a parameter not given;
                   \* a row deleted

Deadline == Nat \cup {None}

Asked == [profile: Profile, site: Site, purpose: Purpose,
          requested: SUBSET Scope, required: SUBSET Scope, expires: Deadline]

ASSUME AskAssumption == Ask \in [Request -> Asked]
ASSUME AllowedAssumption == Allowed \in [Site -> SUBSET Scope]
ASSUME TTLAssumption == {ChallengeTTL, GrantTTL, SessionTTL, MaxFeedback} \subseteq Nat
ASSUME NoneAssumption == None \notin Nat
VARIABLES
  now,         \* the wall clock every expiry is compared with
  registered,  \* profiles
  request,     \* access_requests: the status in request_json, which all reads use
  grant,       \* grants
  challenge,   \* challenges
  session,     \* grant_sessions
  feedback,    \* ranking_feedback_events: the grant each event id is stored under
  decided      \* auxiliary: what owners signed and the store carried out, and when

tables == <<registered, request, grant, challenge, session, feedback>>
storeVars == <<now, tables, decided>>

----------------------------------------------------------------------------
(* Rows *)

Known == {"pending", "approved", "denied", "expired"}
Status == Known \cup {"none", "gone"}   \* not inserted yet; deleted

GrantId == Request \X {"owner", "reuse"}

\* What a challenge's owner signature says: its type, with the digest of the
\* action, its target and its parameters, and the row's own bindings.
Binding ==
  [action: {"approve"}, request: Request, scopes: SUBSET Scope, until: Deadline]
    \cup [action: {"deny"}, request: Request]
    \cup [action: {"revoke", "exchange"}, grant: GrantId]
    \cup [action: {"delete", "sync-read", "profile"}, profile: Profile]

GrantRow == [by: {"owner", "reuse"}, scopes: SUBSET Scope, issued: Nat,
             expires: Nat, revoked: BOOLEAN]
ChallengeRow == [profile: Profile, binding: Binding, created: Nat, used: BOOLEAN]
SessionRow == [grant: GrantId, scopes: SUBSET Scope, expires: Nat, proof: Challenge]
Decision == [signed: Binding, at: Nat]

\* NULL and a deleted row are told from each other and from every row and id.
ASSUME SentinelAssumption ==
  /\ None # Gone
  /\ \A x \in {None, Gone} : /\ x \notin GrantId /\ x \notin GrantRow
                            /\ x \notin ChallengeRow /\ x \notin SessionRow
ASSUME EventAssumption == IsFiniteSet(Event)

StoreTypeOK ==
  /\ now \in Nat
  /\ registered \subseteq Profile
  /\ request \in [Request -> Status]
  /\ grant \in [Request -> GrantRow \cup {None}]
  /\ challenge \in [Challenge -> ChallengeRow \cup {None, Gone}]
  /\ session \in [Session -> SessionRow \cup {None, Gone}]
  /\ feedback \in [Event -> GrantId \cup {None}]
  /\ decided \subseteq Decision

StoreInit ==
  /\ now = 0
  /\ registered = {}
  /\ request = [r \in Request |-> "none"]
  /\ grant = [r \in Request |-> None]
  /\ challenge = [c \in Challenge |-> None]
  /\ session = [s \in Session |-> None]
  /\ feedback = [e \in Event |-> None]
  /\ decided = {}
----------------------------------------------------------------------------
(* What a read sees *)

Expired(t) == t # None /\ t <= now

RequestRow(r) == request[r] \in Known
Row(x) == x \notin {None, Gone}

\* get_access_request rewrites a row like this one before it returns it.
Lapsed(r) == request[r] = "pending" /\ Expired(Ask[r].expires)

\* Outside an owner's transaction it reads the clock after the row: this one may
\* have lapsed by then.
MayLapse(r) == request[r] = "pending" /\ Ask[r].expires # None

\* get_access_grant, and the grant's half of get_grant_session.
GrantLive(r) == /\ grant[r] # None
                /\ ~grant[r].revoked
                /\ ~Expired(grant[r].expires)

\* get_grant_session: the session's row joins its grant's row.
JoinsGrant(x) == /\ grant[x.grant[1]] # None
                 /\ grant[x.grant[1]].by = x.grant[2]

\* Mutant: the grant is joined but its revocation and expiry are not looked at.
SessionAcceptedUnchecked(s) == /\ Row(session[s])
                               /\ JoinsGrant(session[s])
                               /\ ~Expired(session[s].expires)

SessionAccepted(s) == /\ Row(session[s])
                      /\ JoinsGrant(session[s])
                      /\ GrantLive(session[s].grant[1])
                      /\ ~Expired(session[s].expires)

SameAsk(q, r) == /\ Ask[q].profile = Ask[r].profile
                 /\ Ask[q].site = Ask[r].site
                 /\ Ask[q].purpose = Ask[r].purpose

\* Mutant: any live grant of the profile at the site, whatever it was given for.
ReusableAnyPurpose(q, r) == /\ GrantLive(q)
                            /\ request[q] = "approved"
                            /\ Ask[q].profile = Ask[r].profile
                            /\ Ask[q].site = Ask[r].site
                            /\ Ask[r].requested \subseteq grant[q].scopes

\* Mutant: any live grant for the purpose, whatever its scopes.
ReusableAnyScope(q, r) == GrantLive(q) /\ request[q] = "approved" /\ SameAsk(q, r)

\* _active_grant_for_request: any of the newest grants that would cover r.
Reusable(q, r) == /\ GrantLive(q)
                  /\ request[q] = "approved"
                  /\ SameAsk(q, r)
                  /\ Ask[r].requested \subseteq grant[q].scopes

NewestReusable(r) ==
  {q \in Request : /\ Reusable(q, r)
                   /\ \A o \in Request : Reusable(o, r) => grant[o].issued <= grant[q].issued}

\* Mutant: a used challenge is accepted again.
ProofAcceptedAgain(c, p, b) ==
  /\ p \in registered
  /\ Row(challenge[c])
  /\ challenge[c].profile = p
  /\ now <= challenge[c].created + ChallengeTTL
  /\ challenge[c].binding = b

\* Mutant: the type is compared without the digest of target and parameters.
ProofAcceptedByType(c, p, b) ==
  /\ p \in registered
  /\ Row(challenge[c])
  /\ challenge[c].profile = p
  /\ ~challenge[c].used
  /\ now <= challenge[c].created + ChallengeTTL
  /\ challenge[c].binding.action = b.action

\* _verify_challenge_response up to the signature, which only the profile's
\* owner can make and which covers every field of the row.
ProofAccepted(c, p, b) ==
  /\ p \in registered
  /\ Row(challenge[c])
  /\ challenge[c].profile = p
  /\ ~challenge[c].used
  /\ now <= challenge[c].created + ChallengeTTL
  /\ challenge[c].binding = b

\* Mutant: the status of the request is not checked.
ApprovableAgain(r, S) == /\ S # {}
                         /\ S \subseteq Ask[r].requested
                         /\ Ask[r].required \subseteq S
                         /\ S \subseteq Allowed[Ask[r].site]

\* approve_access_request's checks on a request that is still pending.
Approvable(r, S) == /\ request[r] = "pending"
                    /\ ~Lapsed(r)
                    /\ S # {}
                    /\ S \subseteq Ask[r].requested
                    /\ Ask[r].required \subseteq S
                    /\ S \subseteq Allowed[Ask[r].site]

----------------------------------------------------------------------------
(* Transactions of the multi-step handlers *)

Register(p) ==
  /\ p \notin registered
  /\ registered' = registered \cup {p}
  /\ UNCHANGED <<now, request, grant, challenge, session, feedback, decided>>

InsertRequestRow(r) ==
  /\ request' = [request EXCEPT ![r] = "pending"]
  /\ UNCHANGED <<now, registered, grant, challenge, session, feedback, decided>>

\* An UPDATE of a row that is gone changes nothing.
SetStatus(r, st) == request' = [request EXCEPT ![r] = IF RequestRow(r) THEN st ELSE @]

\* get_access_request's UPDATE: it does not look at the status again.
ExpireRow(r) ==
  /\ SetStatus(r, "expired")
  /\ UNCHANGED <<now, registered, grant, challenge, session, feedback, decided>>

NewGrant(by, S, t) ==
  [by |-> by, scopes |-> S, issued |-> now, expires |-> t, revoked |-> FALSE]

\* approve_access_request's write when create_access_request calls it: in a
\* transaction of its own, after the status was read in another one.
ReuseGrant(r, t) ==
  /\ grant[r] = None
  /\ SetStatus(r, "approved")
  /\ grant' = [grant EXCEPT ![r] = NewGrant("reuse", Ask[r].requested, t)]
  /\ UNCHANGED <<now, registered, challenge, session, feedback, decided>>

\* create_access_request's last transaction writes request_json and grant_json
\* back as they were when approve_access_request returned them.
TagReuse(r, row) ==
  /\ SetStatus(r, "approved")
  /\ grant' = [grant EXCEPT ![r] = IF @ # None /\ @.by = "reuse" THEN row ELSE @]
  /\ UNCHANGED <<now, registered, challenge, session, feedback, decided>>

InsertChallengeRow(c, p, b) ==
  /\ challenge[c] = None
  /\ challenge' = [challenge EXCEPT ![c] =
       [profile |-> p, binding |-> b, created |-> now, used |-> FALSE]]
  /\ UNCHANGED <<now, registered, request, grant, session, feedback, decided>>

Spend(c) == challenge' = [challenge EXCEPT ![c] = [@ EXCEPT !.used = TRUE]]

\* verify_challenge_response in a transaction of its own.
VerifyProof(c, p, b) ==
  /\ ProofAccepted(c, p, b)
  /\ Spend(c)
  /\ UNCHANGED <<now, registered, request, grant, session, feedback, decided>>

InsertSessionRow(s, row) ==
  /\ session[s] = None
  /\ session' = [session EXCEPT ![s] = row]
  /\ UNCHANGED <<now, registered, request, grant, challenge, feedback, decided>>

StoredFor(g) == {e \in Event : feedback[e] = g}

\* Mutant: the budget is counted per batch.
InsertFeedbackPerBatch(g, E) ==
  LET new == {e \in E : feedback[e] = None} IN
  /\ Cardinality(new) <= MaxFeedback
  /\ feedback' = [e \in Event |-> IF e \in new THEN g ELSE feedback[e]]
  /\ UNCHANGED <<now, registered, request, grant, challenge, session, decided>>

\* ingest_grant_session_feedback: known ids are ignored, whatever grant they
\* are stored under, and a batch over the budget is rolled back as a whole.
InsertFeedback(g, E) ==
  LET new == {e \in E : feedback[e] = None} IN
  /\ Cardinality(StoredFor(g)) + Cardinality(new) <= MaxFeedback
  /\ feedback' = [e \in Event |-> IF e \in new THEN g ELSE feedback[e]]
  /\ UNCHANGED <<now, registered, request, grant, challenge, session, decided>>

----------------------------------------------------------------------------
(* perform_owner_action: target, proof, consumption and mutation in ONE       *)
(* BEGIN IMMEDIATE transaction; any failure rolls all of it back.             *)

Decide(c) == decided' = decided \cup {[signed |-> challenge[c].binding, at |-> now]}

OwnerApproves(c, r, S, t) ==
  /\ RequestRow(r)
  /\ ProofAccepted(c, Ask[r].profile,
                   [action |-> "approve", request |-> r, scopes |-> S, until |-> t])
  /\ Approvable(r, S)
  /\ grant[r] = None
  /\ Spend(c) /\ Decide(c)
  /\ SetStatus(r, "approved")
  /\ grant' = [grant EXCEPT ![r] =
       NewGrant("owner", S, IF t = None THEN now + GrantTTL ELSE t)]
  /\ UNCHANGED <<now, registered, session, feedback>>

OwnerDenies(c, r) ==
  /\ RequestRow(r)
  /\ ProofAccepted(c, Ask[r].profile, [action |-> "deny", request |-> r])
  /\ request[r] = "pending" /\ ~Lapsed(r)
  /\ Spend(c) /\ Decide(c)
  /\ SetStatus(r, "denied")
  /\ UNCHANGED <<now, registered, grant, session, feedback>>

\* Mutant: a revocation clears the expiry.
OwnerRevokesForever(c, g) ==
  LET r == g[1] IN
  /\ grant[r] # None /\ grant[r].by = g[2]
  /\ ProofAccepted(c, Ask[r].profile, [action |-> "revoke", grant |-> g])
  /\ ~grant[r].revoked
  /\ Spend(c) /\ Decide(c)
  /\ grant' = [grant EXCEPT ![r] = [@ EXCEPT !.revoked = TRUE, !.expires = None]]
  /\ UNCHANGED <<now, registered, request, session, feedback>>

OwnerRevokes(c, g) ==
  LET r == g[1] IN
  /\ grant[r] # None /\ grant[r].by = g[2]
  /\ ProofAccepted(c, Ask[r].profile, [action |-> "revoke", grant |-> g])
  /\ ~grant[r].revoked
  /\ Spend(c) /\ Decide(c)
  /\ grant' = [grant EXCEPT ![r] = [@ EXCEPT !.revoked = TRUE, !.expires = now]]
  /\ UNCHANGED <<now, registered, request, session, feedback>>

\* sync-read returns events and writes no table but the audit log.
OwnerReads(c, p) ==
  /\ ProofAccepted(c, p, [action |-> "sync-read", profile |-> p])
  /\ Spend(c) /\ Decide(c)
  /\ UNCHANGED <<now, registered, request, grant, session, feedback>>

ProfileOf(g) == Ask[g[1]].profile

\* Mutant: the grants are left behind.
OwnerDeletesButGrants(c, p) ==
  /\ ProofAccepted(c, p, [action |-> "delete", profile |-> p])
  /\ Decide(c)
  /\ registered' = registered \ {p}
  /\ request' = [r \in Request |->
       IF RequestRow(r) /\ Ask[r].profile = p THEN "gone" ELSE request[r]]
  /\ challenge' = [d \in Challenge |->
       IF Row(challenge[d]) /\ challenge[d].profile = p THEN Gone ELSE challenge[d]]
  /\ session' = [s \in Session |->
       IF Row(session[s]) /\ ProfileOf(session[s].grant) = p THEN Gone ELSE session[s]]
  /\ feedback' = [e \in Event |->
       IF feedback[e] # None /\ ProfileOf(feedback[e]) = p THEN None ELSE feedback[e]]
  /\ UNCHANGED <<now, grant>>

\* Every row of the profile goes, the deletion challenge's own included.
OwnerDeletes(c, p) ==
  /\ ProofAccepted(c, p, [action |-> "delete", profile |-> p])
  /\ Decide(c)
  /\ registered' = registered \ {p}
  /\ request' = [r \in Request |->
       IF RequestRow(r) /\ Ask[r].profile = p THEN "gone" ELSE request[r]]
  /\ grant' = [r \in Request |-> IF Ask[r].profile = p THEN None ELSE grant[r]]
  /\ challenge' = [d \in Challenge |->
       IF Row(challenge[d]) /\ challenge[d].profile = p THEN Gone ELSE challenge[d]]
  /\ session' = [s \in Session |->
       IF Row(session[s]) /\ ProfileOf(session[s].grant) = p THEN Gone ELSE session[s]]
  /\ feedback' = [e \in Event |->
       IF feedback[e] # None /\ ProfileOf(feedback[e]) = p THEN None ELSE feedback[e]]
  /\ UNCHANGED now
=============================================================================
