----------------------------- MODULE ConsentService -----------------------------
(***************************************************************************)
(* The consent handlers of the HTTP service.  FastAPI runs each call of a  *)
(* plain `def` handler on a thread of its pool, and every `with            *)
(* self._connect()` inside it is a transaction of its own: between two of  *)
(* them any other handler may run.  A worker is one such thread; job[w]    *)
(* says which transaction comes next and what the thread remembers from    *)
(* the ones before.  perform_owner_action is a single transaction and      *)
(* needs no worker.                                                        *)
(***************************************************************************)
EXTENDS ConsentStore

CONSTANTS
  Worker,        \* threads
  Serves,        \* bound: Serves[w], the handlers thread w may pick up
  Signed,        \* bound: the owner actions somebody asks a challenge for
  GrantUntil,    \* bound: the grant_expires_at owners sign (None: the default)
  SessionUntil,  \* bound: the session_expires_at sites ask for (None: the default)
  MaxTime        \* bound: the clock stops here

Handler == {"create", "poll", "owner", "profile", "begin", "exchange", "use"}

ASSUME ServesAssumption == Serves \in [Worker -> SUBSET Handler]
ASSUME SignedAssumption == Signed \subseteq {"approve", "deny", "revoke", "delete", "sync-read"}
ASSUME UntilAssumption == GrantUntil \subseteq Deadline /\ SessionUntil \subseteq Deadline
ASSUME MaxTimeAssumption == MaxTime \in Nat

VARIABLE job

vars == <<storeVars, job>>

----------------------------------------------------------------------------
(* What a thread holds between two transactions *)

Idle == [at |-> "idle"]

Job ==
  [at: {"idle"}]
    \cup [at: {"insert-request", "find-grant", "expire", "begin-read", "begin-grant"},
          request: Request]
    \cup [at: {"reread-request", "reuse-grant"}, request: Request, expires: Nat]
    \cup [at: {"tag-reuse"}, request: Request, row: GrantRow]
    \cup [at: {"check-profile", "insert-challenge"}, profile: Profile, binding: Binding]
    \cup [at: {"exchange-read", "exchange-grant"}, request: Request, proof: Challenge]
    \cup [at: {"exchange-verify", "insert-session"}, grant: GrantId,
          scopes: SUBSET Scope, proof: Challenge]
    \cup [at: {"recheck-session"}, session: Session]
    \cup [at: {"read-profile", "insert-feedback"}, row: SessionRow]

TypeOK == StoreTypeOK /\ job \in [Worker -> Job]

Init == StoreInit /\ job = [w \in Worker |-> Idle]

Goto(w, j) == job' = [job EXCEPT ![w] = j]
Done(w) == Goto(w, Idle)
At(w, step) == job[w].at = step

PicksUp(w, handler) == At(w, "idle") /\ handler \in Serves[w]

----------------------------------------------------------------------------
(* POST /profiles/{p}/site-access-requests: create_access_request *)

CreateRequest(w, r) ==
  /\ PicksUp(w, "create")
  /\ request[r] = "none"
  /\ \A v \in Worker : At(v, "insert-request") => job[v].request # r
  /\ Ask[r].profile \in registered
  /\ Ask[r].requested # {}
  /\ Ask[r].required \subseteq Ask[r].requested
  /\ Ask[r].requested \subseteq Allowed[Ask[r].site]
  /\ Goto(w, [at |-> "insert-request", request |-> r])
  /\ UNCHANGED storeVars

InsertRequest(w) ==
  /\ At(w, "insert-request")
  /\ InsertRequestRow(job[w].request)
  /\ Goto(w, [at |-> "find-grant", request |-> job[w].request])

\* Mutant: a reuse starts the default lifetime again.
FindGrantRenewed(w) ==
  LET r == job[w].request IN
  /\ At(w, "find-grant")
  /\ \/ /\ NewestReusable(r) = {}
        /\ Done(w)
     \/ /\ NewestReusable(r) # {}
        /\ Goto(w, [at |-> "reread-request", request |-> r, expires |-> now + GrantTTL])
  /\ UNCHANGED storeVars

FindGrant(w) ==
  LET r == job[w].request IN
  /\ At(w, "find-grant")
  /\ \/ /\ NewestReusable(r) = {}
        /\ Done(w)
     \/ \E q \in NewestReusable(r) :
          Goto(w, [at |-> "reread-request", request |-> r, expires |-> grant[q].expires])
  /\ UNCHANGED storeVars

\* approve_access_request's own get_access_request.
RereadRequest(w) ==
  LET r == job[w].request IN
  /\ At(w, "reread-request")
  /\ \/ /\ MayLapse(r)
        /\ Goto(w, [at |-> "expire", request |-> r])
     \/ /\ request[r] = "pending" /\ ~Lapsed(r)
        /\ Goto(w, [at |-> "reuse-grant", request |-> r, expires |-> job[w].expires])
     \/ /\ request[r] # "pending"
        /\ Done(w)
  /\ UNCHANGED storeVars

ApproveReuse(w) ==
  LET r == job[w].request IN
  /\ At(w, "reuse-grant")
  /\ ReuseGrant(r, job[w].expires)
  /\ Goto(w, [at |-> "tag-reuse", request |-> r,
              row |-> NewGrant("reuse", Ask[r].requested, job[w].expires)])

TagReusedGrant(w) ==
  /\ At(w, "tag-reuse")
  /\ TagReuse(job[w].request, job[w].row)
  /\ Done(w)

----------------------------------------------------------------------------
(* GET /site-access-requests/{r}, and the trust page's list: a row that was   *)
(* read as pending and found lapsed is written back as expired later, and     *)
(* nobody looks at its status again.                                          *)

PollRequest(w, r) ==
  /\ PicksUp(w, "poll")
  /\ MayLapse(r)
  /\ Goto(w, [at |-> "expire", request |-> r])
  /\ UNCHANGED storeVars

ExpireRequest(w) ==
  /\ At(w, "expire")
  /\ Expired(Ask[job[w].request].expires)
  /\ ExpireRow(job[w].request)
  /\ Done(w)

----------------------------------------------------------------------------
(* POST /profiles/{p}/owner-action-challenges and /profiles/{p}/challenges *)

\* _owner_target_profile: the row the action is about, and whose it is.
TargetExists(b) ==
  CASE b.action \in {"approve", "deny"} -> RequestRow(b.request)
    [] b.action = "revoke" -> grant[b.grant[1]] # None /\ grant[b.grant[1]].by = b.grant[2]
    [] OTHER -> b.profile \in registered

TargetProfile(b) ==
  CASE b.action \in {"approve", "deny"} -> Ask[b.request].profile
    [] b.action = "revoke" -> ProfileOf(b.grant)
    [] OTHER -> b.profile

OwnerBinding ==
  [action: {"approve"}, request: Request, scopes: SUBSET Scope, until: GrantUntil]
    \cup [action: {"deny"}, request: Request]
    \cup [action: {"revoke"}, grant: GrantId]
    \cup [action: {"delete", "sync-read"}, profile: Profile]

OwnerChallenge(w, b) ==
  /\ PicksUp(w, "owner")
  /\ b.action \in Signed
  /\ TargetExists(b)
  /\ Goto(w, [at |-> "check-profile", profile |-> TargetProfile(b), binding |-> b])
  /\ UNCHANGED storeVars

ProfileChallenge(w, p) ==
  /\ PicksUp(w, "profile")
  /\ Goto(w, [at |-> "check-profile", profile |-> p,
              binding |-> [action |-> "profile", profile |-> p]])
  /\ UNCHANGED storeVars

\* create_challenge looks the profile up in one transaction and inserts in the next.
CheckProfile(w) ==
  /\ At(w, "check-profile")
  /\ IF job[w].profile \in registered
       THEN Goto(w, [at |-> "insert-challenge", profile |-> job[w].profile,
                     binding |-> job[w].binding])
       ELSE Done(w)
  /\ UNCHANGED storeVars

InsertChallenge(w, c) ==
  /\ At(w, "insert-challenge")
  /\ InsertChallengeRow(c, job[w].profile, job[w].binding)
  /\ Done(w)

----------------------------------------------------------------------------
(* POST /site-access-requests/{r}/exchange: the route reads the request for   *)
(* the site that asks, then begin_grant_exchange reads it again.              *)

BeginExchange(w, r) ==
  /\ PicksUp(w, "begin")
  /\ RequestRow(r)
  /\ \/ /\ MayLapse(r)
        /\ Goto(w, [at |-> "expire", request |-> r])
     \/ /\ ~Lapsed(r)
        /\ Goto(w, [at |-> "begin-read", request |-> r])
  /\ UNCHANGED storeVars

BeginRead(w) ==
  LET r == job[w].request IN
  /\ At(w, "begin-read")
  /\ \/ /\ MayLapse(r)
        /\ Goto(w, [at |-> "expire", request |-> r])
     \/ /\ request[r] = "approved"
        /\ Goto(w, [at |-> "begin-grant", request |-> r])
     \/ /\ ~Lapsed(r) /\ request[r] # "approved"
        /\ Done(w)
  /\ UNCHANGED storeVars

BeginGrant(w) ==
  LET r == job[w].request IN
  /\ At(w, "begin-grant")
  /\ IF GrantLive(r)
       THEN Goto(w, [at |-> "check-profile", profile |-> Ask[r].profile,
                     binding |-> [action |-> "exchange", grant |-> <<r, grant[r].by>>]])
       ELSE Done(w)
  /\ UNCHANGED storeVars

----------------------------------------------------------------------------
(* POST /site-access-requests/{r}/verify: exchange_grant_session reads the    *)
(* request and the grant, spends the proof, then inserts the session: four    *)
(* transactions after the route's own read.                                   *)

Exchange(w, r, c) ==
  /\ PicksUp(w, "exchange")
  /\ RequestRow(r)
  /\ Row(challenge[c])
  /\ \/ /\ MayLapse(r)
        /\ Goto(w, [at |-> "expire", request |-> r])
     \/ /\ ~Lapsed(r)
        /\ Goto(w, [at |-> "exchange-read", request |-> r, proof |-> c])
  /\ UNCHANGED storeVars

ExchangeRead(w) ==
  LET r == job[w].request IN
  /\ At(w, "exchange-read")
  /\ \/ /\ MayLapse(r)
        /\ Goto(w, [at |-> "expire", request |-> r])
     \/ /\ request[r] = "approved"
        /\ Goto(w, [at |-> "exchange-grant", request |-> r, proof |-> job[w].proof])
     \/ /\ ~Lapsed(r) /\ request[r] # "approved"
        /\ Done(w)
  /\ UNCHANGED storeVars

\* Mutant: the session gets what was asked for, not what was approved.
ExchangeGrantAsked(w) ==
  LET r == job[w].request IN
  /\ At(w, "exchange-grant")
  /\ IF GrantLive(r)
       THEN Goto(w, [at |-> "exchange-verify", grant |-> <<r, grant[r].by>>,
                     scopes |-> Ask[r].requested, proof |-> job[w].proof])
       ELSE Done(w)
  /\ UNCHANGED storeVars

ExchangeGrant(w) ==
  LET r == job[w].request IN
  /\ At(w, "exchange-grant")
  /\ IF GrantLive(r)
       THEN Goto(w, [at |-> "exchange-verify", grant |-> <<r, grant[r].by>>,
                     scopes |-> grant[r].scopes, proof |-> job[w].proof])
       ELSE Done(w)
  /\ UNCHANGED storeVars

ExchangeVerify(w) ==
  LET g == job[w].grant IN
  /\ At(w, "exchange-verify")
  /\ VerifyProof(job[w].proof, ProfileOf(g), [action |-> "exchange", grant |-> g])
  /\ Goto(w, [at |-> "insert-session", grant |-> g,
              scopes |-> job[w].scopes, proof |-> job[w].proof])

InsertSession(w, s, t) ==
  /\ At(w, "insert-session")
  /\ InsertSessionRow(s, [grant |-> job[w].grant, scopes |-> job[w].scopes,
                          expires |-> IF t = None THEN now + SessionTTL ELSE t,
                          proof |-> job[w].proof])
  /\ Done(w)

----------------------------------------------------------------------------
(* The session routes: each begins with get_grant_session for the site that   *)
(* asks.  get_consented_projection checks the session once more; ranking and  *)
(* feedback go on with the session row they hold.                             *)

ReadProjection(w, s) ==
  /\ PicksUp(w, "use")
  /\ SessionAccepted(s)
  /\ Goto(w, [at |-> "recheck-session", session |-> s])
  /\ UNCHANGED storeVars

RecheckSession(w) ==
  LET s == job[w].session IN
  /\ At(w, "recheck-session")
  /\ IF SessionAccepted(s)
       THEN Goto(w, [at |-> "read-profile", row |-> session[s]])
       ELSE Done(w)
  /\ UNCHANGED storeVars

Rank(w, s) ==
  /\ PicksUp(w, "use")
  /\ SessionAccepted(s)
  /\ Goto(w, [at |-> "read-profile", row |-> session[s]])
  /\ UNCHANGED storeVars

\* The read of the profile and everything computed from it; a profile that is
\* gone answers 404.  The audit rows written after it are not modelled.
ReadProfile(w) ==
  /\ At(w, "read-profile")
  /\ Done(w)
  /\ UNCHANGED storeVars

SendFeedback(w, s) ==
  /\ PicksUp(w, "use")
  /\ SessionAccepted(s)
  /\ Goto(w, [at |-> "insert-feedback", row |-> session[s]])
  /\ UNCHANGED storeVars

IngestFeedback(w, E) ==
  /\ At(w, "insert-feedback")
  /\ InsertFeedback(job[w].row.grant, E)
  /\ Done(w)

----------------------------------------------------------------------------

\* A handler that raises, finds the database locked, or dies with the process
\* before its next transaction: what it committed stays.
Fail(w) ==
  /\ ~At(w, "idle")
  /\ Done(w)
  /\ UNCHANGED storeVars

Tick ==
  /\ now < MaxTime
  /\ now' = now + 1
  /\ UNCHANGED <<tables, decided, job>>

Create(w) == \/ \E r \in Request : CreateRequest(w, r)
             \/ InsertRequest(w) \/ FindGrant(w) \/ RereadRequest(w)
             \/ ApproveReuse(w) \/ TagReusedGrant(w)

Poll(w) == ExpireRequest(w) \/ \E r \in Request : PollRequest(w, r)

IssueChallenge(w) == \/ \E b \in OwnerBinding : OwnerChallenge(w, b)
                     \/ \E p \in Profile : ProfileChallenge(w, p)
                     \/ CheckProfile(w)
                     \/ \E c \in Challenge : InsertChallenge(w, c)

ExchangeSession(w) ==
  \/ \E r \in Request : BeginExchange(w, r)
  \/ BeginRead(w) \/ BeginGrant(w)
  \/ \E r \in Request, c \in Challenge : Exchange(w, r, c)
  \/ ExchangeRead(w) \/ ExchangeGrant(w) \/ ExchangeVerify(w)
  \/ \E s \in Session, t \in SessionUntil : InsertSession(w, s, t)

UseSession(w) ==
  \/ \E s \in Session : ReadProjection(w, s) \/ Rank(w, s) \/ SendFeedback(w, s)
  \/ RecheckSession(w) \/ ReadProfile(w)
  \/ \E E \in SUBSET Event : IngestFeedback(w, E)

OwnerAct ==
  \E c \in Challenge :
    \/ \E r \in Request : \/ OwnerDenies(c, r)
                          \/ \E S \in SUBSET Scope, t \in GrantUntil : OwnerApproves(c, r, S, t)
    \/ \E g \in GrantId : OwnerRevokes(c, g)
    \/ \E p \in Profile : OwnerReads(c, p) \/ OwnerDeletes(c, p)

\* The owner action, and the profile-login proofs of /challenge-response and
\* /demo/site/{p}/verify, are single transactions.
Atomic ==
  \/ OwnerAct
  \/ \E c \in Challenge, p \in Profile : VerifyProof(c, p, [action |-> "profile", profile |-> p])
  \/ \E p \in Profile : Register(p)

Next ==
  \/ \E w \in Worker : \/ Create(w) \/ Poll(w) \/ IssueChallenge(w)
                       \/ ExchangeSession(w) \/ UseSession(w) \/ Fail(w)
  \/ Atomic /\ UNCHANGED job
  \/ Tick

Spec == Init /\ [][Next]_vars

----------------------------------------------------------------------------
(* What the owners have consented to *)

\* When an approval carried out at time d.at runs out: grant_expires_at or the default.
ExpiryOf(d) == IF d.signed.until = None THEN d.at + GrantTTL ELSE d.signed.until

\* Some approval among the decisions D, of the same profile, site and purpose, allows
\* the scopes S until t or later.
CoveredBy(D, r, S, t) ==
  \E d \in D : /\ d.signed.action = "approve"
               /\ SameAsk(d.signed.request, r)
               /\ S \subseteq d.signed.scopes
               /\ t <= ExpiryOf(d)

Covered(r, S, t) == CoveredBy(decided, r, S, t)

Denied(r) == \E d \in decided : d.signed = [action |-> "deny", request |-> r]
Revoked(g) == \E d \in decided : d.signed = [action |-> "revoke", grant |-> g]

\* A session has passed get_grant_session for the last time before it is used.
Admitted(w) == ~(job[w].at \in {"read-profile", "insert-feedback"})
                 /\ job'[w].at \in {"read-profile", "insert-feedback"}

----------------------------------------------------------------------------
(* Invariants *)

\* Every grant that has not been revoked, stored-grant reuse included, gives no
\* more scopes and lasts no longer than some approval the profile's owner signed
\* for the same site and purpose (approve_access_request, create_access_request).
GrantCovered ==
  \A r \in Request :
    grant[r] # None /\ ~grant[r].revoked => Covered(r, grant[r].scopes, grant[r].expires)

\* What a stored-grant reuse remembers between its transactions is covered by such an
\* approval as well, whatever became of the grant it was found in: the part of
\* GrantCovered's induction that is in the threads (create_access_request).
ReuseCovered ==
  \A w \in Worker :
    /\ job[w].at \in {"reread-request", "reuse-grant"} =>
         Covered(job[w].request, Ask[job[w].request].requested, job[w].expires)
    /\ At(w, "tag-reuse") =>
         Covered(job[w].request, job[w].row.scopes, job[w].row.expires)

\* A grant-exchange proof mints at most one session, of the grant it was signed
\* for, however often and however concurrently it is sent (exchange_grant_session).
ProofMintsOneSession ==
  \A s, t \in Session :
    Row(session[s]) =>
      /\ Row(session[t]) /\ session[t].proof = session[s].proof => s = t
      /\ Row(challenge[session[s].proof]) =>
           challenge[session[s].proof].binding = [action |-> "exchange", grant |-> session[s].grant]

\* Deletion ends access: a session that get_grant_session would accept is of a profile
\* that is registered, even when an exchange or a stored-grant reuse that was in flight
\* inserted its row after perform_owner_action deleted the profile.
NoAccessAcrossDeletion ==
  \A s \in Session : SessionAccepted(s) => ProfileOf(session[s].grant) \in registered

\* The feedback stored under one grant stays within max_grant_feedback_events.
FeedbackWithinBudget ==
  \A g \in GrantId : Cardinality(StoredFor(g)) <= MaxFeedback

----------------------------------------------------------------------------
(* Action properties *)

\* The step uses up the unused proof c of an approval of request r.
SpendsApproval(c, r) ==
  /\ Row(challenge[c]) /\ Row(challenge'[c])
  /\ ~challenge[c].used /\ challenge'[c].used
  /\ challenge[c].binding.action = "approve" /\ challenge[c].binding.request = r

\* The grant the step leaves for r is the one that c was signed for: by the profile
\* that was asked, not too long ago, and for these scopes until this time.
GrantsAsSigned(c, r) ==
  /\ challenge[c].profile = Ask[r].profile
  /\ now <= challenge[c].created + ChallengeTTL
  /\ grant'[r].scopes = challenge[c].binding.scopes
  /\ grant'[r].expires = ExpiryOf([signed |-> challenge[c].binding, at |-> now])

\* A grant of the owner's appears exactly when an approval proof is spent, one proof
\* for one grant: a live, unused proof of the profile asked, which names this request,
\* the grant's scopes and its expiry.  No other step uses up such a proof, and
\* one that is rejected is not spent (perform_owner_action).
ApprovalSpendsItsProof ==
  [][\A r \in Request :
       LET born == grant[r] = None /\ grant'[r] # None /\ grant'[r].by = "owner"
       IN  /\ born => \E c \in Challenge : SpendsApproval(c, r)
           /\ \A c \in Challenge : SpendsApproval(c, r) =>
                /\ born /\ GrantsAsSigned(c, r)
                /\ \A d \in Challenge : SpendsApproval(d, r) => d = c]_vars

\* A decided request is decided for good, but for the two writes that do not look
\* at the status again: the lapse of a request past its deadline, and a reuse under
\* way, which gives nothing the owner had not already approved.
DecisionStands ==
  [][\A r \in Request :
       request[r] \in Known \ {"pending"} /\ request'[r] # request[r] =>
         \/ request'[r] = "gone"
         \/ request'[r] = "expired" /\ Expired(Ask[r].expires)
         \/ /\ request'[r] = "approved"
            /\ \E w \in Worker : job[w].at \in {"reuse-grant", "tag-reuse"} /\ job[w].request = r
            /\ grant'[r] # None => Covered(r, grant'[r].scopes, grant'[r].expires)]_vars

\* Once the owner has revoked a grant they approved themselves, no session of it is
\* ever admitted again, whatever was exchanged or in flight before (get_grant_session).
RevocationBlocksUse ==
  [][\A w \in Worker :
       Admitted(w) /\ job'[w].row.grant[2] = "owner" => ~Revoked(job'[w].row.grant)]_vars

\* A session is only admitted for scopes an owner approved for that site and
\* purpose, in an approval that has not run out.
UseWithinConsent ==
  [][\A w \in Worker :
       Admitted(w) => Covered(job'[w].row.grant[1], job'[w].row.scopes, now + 1)]_vars

----------------------------------------------------------------------------
(* What the documentation says and the handlers do not keep *)

\* "Revoked or expired grants are checked when loading a session, so old sessions
\* cannot keep reading" (docs/architecture.md): a grant its owner revoked is never
\* live again.
RevokedNeverLive == \A r \in Request : GrantLive(r) => ~Revoked(<<r, grant[r].by>>)

\* "denied or expired requests cannot move into exchange" (docs/pilot-integration.md).
DeniedNeverExchanged == \A r \in Request : Denied(r) => ~(request[r] = "approved" /\ GrantLive(r))

\* "sites must create a new access request and get fresh approval to regain access"
\* after a revocation (docs/pilot-integration.md): a stored grant that is found for
\* reuse goes back to an approval whose own grant the owner has not revoked.
ReuseRestsOnLiveApproval ==
  [][\A w \in Worker :
       At(w, "find-grant") /\ job'[w].at = "reread-request" =>
         \E d \in decided : /\ d.signed.action = "approve"
                            /\ SameAsk(d.signed.request, job[w].request)
                            /\ Ask[job[w].request].requested \subseteq d.signed.scopes
                            /\ ~Revoked(<<d.signed.request, "owner">>)]_vars
=============================================================================
