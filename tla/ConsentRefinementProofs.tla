------------------------ MODULE ConsentRefinementProofs ------------------------
(***************************************************************************)
(* ConsentService implements Consent, for any number of profiles, sites,   *)
(* requests, threads and challenges.                                       *)
(***************************************************************************)
EXTENDS ConsentRefinement, ConsentServiceProofs

USE AskAssumption, AllowedAssumption, TTLAssumption, NoneAssumption,
    ServesAssumption, SignedAssumption, UntilAssumption, MaxTimeAssumption

----------------------------------------------------------------------------
(* Grants end when they may *)

ExpiryInv ==
  /\ now <= MaxTime
  /\ \A r \in Request : grant[r] # None => grant[r].expires \in Expiries
  /\ \A w \in Worker :
       /\ job[w].at \in {"reread-request", "reuse-grant"} => job[w].expires \in Expiries
       /\ At(w, "tag-reuse") => job[w].row.expires \in Expiries

LEMMA InitExpiryInv == Init => ExpiryInv
  BY DEF Init, StoreInit, ExpiryInv, At, Idle

\* A step that inserts no grant and moves no thread into a reuse.
LEMMA QuietExpiry ==
  ASSUME TypeOK, ExpiryInv, now' <= MaxTime,
         \A r \in Request : grant'[r] = grant[r] \/ grant'[r] = None \/ grant'[r].expires = now,
         \A w \in Worker : job'[w] = job[w] \/ job'[w].at \notin ReuseSteps
  PROVE  ExpiryInv'
<1>1. now \in Expiries
  BY DEF ExpiryInv, Expiries, TypeOK, StoreTypeOK
<1> QED BY <1>1 DEF ExpiryInv, ReuseSteps, At

LEMMA NextExpiryInv ==
  ASSUME TypeOK, ExpiryInv, [Next]_vars
  PROVE  ExpiryInv'
<1>0. /\ now \in Nat /\ now <= MaxTime /\ job \in [Worker -> Job]
      /\ grant \in [Request -> GrantRow \cup {None}]
  BY DEF TypeOK, StoreTypeOK, ExpiryInv
<1> USE DEF storeVars, tables
<1>1. ASSUME NEW w \in Worker, Create(w) PROVE ExpiryInv'
  <2> USE DEF Goto, Done, Idle
  <2>1. ASSUME (\E r \in Request : CreateRequest(w, r)) \/ InsertRequest(w) \/ TagReusedGrant(w)
                 \/ FindGrant(w) \/ RereadRequest(w) \/ ApproveReuse(w)
        PROVE  now' = now /\ \A v \in Worker : v # w => job'[v] = job[v]
    BY <1>0, <2>1 DEF CreateRequest, InsertRequest, InsertRequestRow, TagReusedGrant, TagReuse,
       FindGrant, RereadRequest, ApproveReuse, ReuseGrant
  <2>2. ASSUME NEW r \in Request, CreateRequest(w, r) PROVE ExpiryInv'
    BY <1>0, <2>1, <2>2, QuietExpiry DEF CreateRequest, ReuseSteps
  <2>3. ASSUME InsertRequest(w) PROVE ExpiryInv'
    BY <1>0, <2>1, <2>3, QuietExpiry DEF InsertRequest, InsertRequestRow, ReuseSteps
  <2>4. ASSUME FindGrant(w) PROVE ExpiryInv'
    <3>1. CASE job'[w].at \notin ReuseSteps
      BY <1>0, <2>1, <2>4, <3>1, QuietExpiry DEF FindGrant
    <3>2. ASSUME NEW q \in NewestReusable(job[w].request),
                 job'[w] = [at |-> "reread-request", request |-> job[w].request,
                            expires |-> grant[q].expires]
          PROVE  ExpiryInv'
      <4>1. grant[q].expires \in Expiries
        BY DEF NewestReusable, Reusable, GrantLive, ExpiryInv
      <4> QED BY <1>0, <2>1, <2>4, <3>2, <4>1 DEF FindGrant, ExpiryInv, At
    <3> QED BY <1>0, <2>4, <3>1, <3>2 DEF FindGrant, ReuseSteps
  <2>5. ASSUME RereadRequest(w) PROVE ExpiryInv'
    <3>1. job'[w].at \in ReuseSteps =>
            job'[w].at = "reuse-grant" /\ job'[w].expires \in Expiries
      BY <1>0, <2>5 DEF RereadRequest, ExpiryInv, ReuseSteps, At
    <3> QED BY <1>0, <2>1, <2>5, <3>1 DEF RereadRequest, ExpiryInv, ReuseSteps, At
  <2>6. ASSUME ApproveReuse(w) PROVE ExpiryInv'
    <3> DEFINE row == NewGrant("reuse", Ask[job[w].request].requested, job[w].expires)
    <3>1. row.expires \in Expiries
      BY <2>6 DEF ApproveReuse, ExpiryInv, NewGrant, At
    <3>2. \A r \in Request : grant'[r] = grant[r] \/ grant'[r] = row
      BY <1>0, <2>6 DEF ApproveReuse, ReuseGrant
    <3>3. job'[w] = [at |-> "tag-reuse", request |-> job[w].request, row |-> row]
      BY <1>0, <2>6 DEF ApproveReuse
    <3> HIDE DEF row
    <3> QED BY <1>0, <2>1, <2>6, <3>1, <3>2, <3>3 DEF ExpiryInv, At
  <2>7. ASSUME TagReusedGrant(w) PROVE ExpiryInv'
    <3>1. job[w].row.expires \in Expiries /\ job'[w].at = "idle"
      BY <1>0, <2>7 DEF TagReusedGrant, ExpiryInv
    <3>2. \A r \in Request : grant'[r] = grant[r] \/ grant'[r] = job[w].row
      BY <1>0, <2>7 DEF TagReusedGrant, TagReuse
    <3> QED BY <1>0, <2>1, <2>7, <3>1, <3>2 DEF ExpiryInv, At
  <2> QED BY <1>1, <2>2, <2>3, <2>4, <2>5, <2>6, <2>7 DEF Create
<1>2. ASSUME NEW w \in Worker,
             Poll(w) \/ IssueChallenge(w) \/ ExchangeSession(w) \/ UseSession(w) \/ Fail(w)
      PROVE  ExpiryInv'
  BY <1>0, <1>2, OtherHandlersStep, QuietExpiry DEF OtherStep, Chain, Early, ReuseSteps
<1>3. ASSUME OwnerAct, UNCHANGED job PROVE ExpiryInv'
  <2>1. PICK c \in Challenge :
          \/ \E r \in Request : \/ OwnerDenies(c, r)
                                \/ \E S \in SUBSET Scope, t \in GrantUntil : OwnerApproves(c, r, S, t)
          \/ \E g \in GrantId : OwnerRevokes(c, g)
          \/ \E p \in Profile : OwnerReads(c, p) \/ OwnerDeletes(c, p)
    BY <1>3 DEF OwnerAct
  <2>2. ASSUME NEW r \in Request, OwnerDenies(c, r) PROVE ExpiryInv'
    BY <1>0, <1>3, <2>2, QuietExpiry DEF OwnerDenies
  <2>3. ASSUME NEW r \in Request, NEW S \in SUBSET Scope, NEW t \in GrantUntil,
               OwnerApproves(c, r, S, t)
        PROVE  ExpiryInv'
    <3> DEFINE row == NewGrant("owner", S, IF t = None THEN now + GrantTTL ELSE t)
    <3>1. row.expires \in Expiries
      BY <1>0 DEF NewGrant, Expiries
    <3>2. now' = now /\ \A q \in Request : grant'[q] = grant[q] \/ grant'[q] = row
      BY <1>0, <2>3 DEF OwnerApproves
    <3> HIDE DEF row
    <3> QED BY <1>0, <1>3, <3>1, <3>2 DEF ExpiryInv, At
  <2>4. ASSUME NEW g \in GrantId, OwnerRevokes(c, g) PROVE ExpiryInv'
    <3>1. g[1] \in Request /\ grant[g[1]] \in GrantRow
      BY <1>0, <2>4 DEF OwnerRevokes, GrantId
    <3>2. [grant[g[1]] EXCEPT !.revoked = TRUE, !.expires = now].expires = now
      BY <3>1 DEF GrantRow
    <3>3. \A r \in Request : grant'[r] = grant[r] \/ grant'[r].expires = now
      BY <1>0, <2>4, <3>1, <3>2 DEF OwnerRevokes
    <3> QED BY <1>0, <1>3, <2>4, <3>3, QuietExpiry DEF OwnerRevokes
  <2>5. ASSUME NEW p \in Profile, OwnerReads(c, p) PROVE ExpiryInv'
    BY <1>0, <1>3, <2>5, QuietExpiry DEF OwnerReads
  <2>6. ASSUME NEW p \in Profile, OwnerDeletes(c, p) PROVE ExpiryInv'
    BY <1>0, <1>3, <2>6, QuietExpiry DEF OwnerDeletes
  <2> QED BY <2>1, <2>2, <2>3, <2>4, <2>5, <2>6
<1>4. ASSUME Atomic, ~OwnerAct, UNCHANGED job PROVE ExpiryInv'
  BY <1>0, <1>4, QuietExpiry DEF Atomic, VerifyProof, Register
<1>5. ASSUME Tick \/ UNCHANGED vars PROVE ExpiryInv'
  BY <1>0, <1>5, QuietExpiry DEF Tick, vars
<1> QED BY <1>1, <1>2, <1>3, <1>4, <1>5 DEF Next

----------------------------------------------------------------------------
(* What the promise sees of a step *)

Hidden == UNCHANGED <<now, Agreed, Held, Using>>

LEMMA AgreedStays ==
  ASSUME decided' = decided
  PROVE  Agreed' = Agreed
  BY DEF Agreed, Approvals, ExpiryOf

LEMMA HeldStays ==
  ASSUME \A r \in Request : grant'[r] = grant[r]
  PROVE  Held' = Held
  BY DEF Held

LEMMA UsingStays ==
  ASSUME \A w \in Worker : job'[w] = job[w] \/ (~InUse(w) /\ ~InUse(w)')
  PROVE  Using' = Using
  BY DEF Using, InUse

LEMMA HeldGets ==
  ASSUME NEW r \in Request, NEW row, row # None, ~row.revoked, grant'[r] = row,
         \A q \in Request : q # r => grant'[q] = grant[q]
  PROVE  Held' = [Held EXCEPT ![r] = Promise!Right(row.scopes, row.expires)]
  BY DEF Held, Promise!Right

LEMMA HeldLoses ==
  ASSUME NEW r \in Request, grant'[r] = None \/ grant'[r].revoked,
         \A q \in Request : q # r => grant'[q] = grant[q]
  PROVE  Held' = [Held EXCEPT ![r] = None]
  BY DEF Held

\* A right that an earlier approval covers may be inherited.
LEMMA CoveredInherits ==
  ASSUME TypeOK, NEW r \in Request, NEW S \in SUBSET Scope, NEW u \in Expiries,
         Covered(r, S, u), Promise!Gives(r, S, u), decided' = decided
  PROVE  Promise!Next
<1>1. PICK d \in decided : /\ d.signed.action = "approve"
                           /\ SameAsk(d.signed.request, r)
                           /\ S \subseteq d.signed.scopes
                           /\ u <= ExpiryOf(d)
  BY DEF Covered, CoveredBy
<1>2. d.signed.request \in Request
  BY <1>1 DEF TypeOK, StoreTypeOK, Decision, Binding
<1> DEFINE x == [deal |-> DealOf[d.signed.request], scopes |-> d.signed.scopes,
                 until |-> ExpiryOf(d)]
<1>3. x \in Agreed
  BY <1>1 DEF Agreed, Approvals
<1>4. x.deal = DealOf[r] /\ S \subseteq x.scopes /\ u <= x.until
  BY <1>1, <1>2 DEF DealOf, SameAsk
<1>5. \E y \in Agreed : y.deal = DealOf[r] /\ S \subseteq y.scopes /\ u <= y.until
  BY <1>3, <1>4
<1>6. Promise!Inherit(r, S, u)
  BY <1>5, AgreedStays DEF Promise!Inherit
<1> QED BY <1>6 DEF Promise!Next

LEMMA CreateRefines ==
  ASSUME TypeOK, NameInv, CoverInv, ExpiryInv, NEW w \in Worker, Create(w)
  PROVE  Promise!Next \/ Hidden
<1>0. /\ now \in Nat /\ job \in [Worker -> Job]
      /\ grant \in [Request -> GrantRow \cup {None}]
  BY DEF TypeOK, StoreTypeOK
<1> USE DEF storeVars, tables, Goto, Done, Idle, At
<1>1. ASSUME (\E r \in Request : CreateRequest(w, r)) \/ InsertRequest(w) \/ FindGrant(w)
               \/ RereadRequest(w)
      PROVE  Hidden
  <2>1. UNCHANGED <<now, grant, decided>>
    BY <1>1 DEF CreateRequest, InsertRequest, InsertRequestRow, FindGrant, RereadRequest
  <2>2. \A v \in Worker : job'[v] = job[v] \/ (~InUse(v) /\ ~InUse(v)')
    BY <1>0, <1>1 DEF CreateRequest, InsertRequest, FindGrant, RereadRequest, PicksUp, InUse
  <2> QED BY <2>1, <2>2, AgreedStays, HeldStays, UsingStays DEF Hidden
<1>2. ASSUME ApproveReuse(w) PROVE Promise!Next
  <2> DEFINE r == job[w].request
             row == NewGrant("reuse", Ask[r].requested, job[w].expires)
  <2>1. r \in Request /\ job[w].expires \in Expiries
    BY <1>0, <1>2 DEF ApproveReuse, Job, ExpiryInv
  <2>2. UNCHANGED <<now, decided>> /\ grant[r] = None /\ grant'[r] = row
          /\ \A q \in Request : q # r => grant'[q] = grant[q]
    BY <1>0, <1>2, <2>1 DEF ApproveReuse, ReuseGrant
  <2>3. Using' = Using
    <3>1. \A v \in Worker : job'[v] = job[v] \/ (~InUse(v) /\ ~InUse(v)')
      BY <1>0, <1>2 DEF ApproveReuse, InUse
    <3> QED BY <3>1, UsingStays
  <2>4. row # None /\ ~row.revoked /\ row.scopes = Ask[r].requested /\ row.expires = job[w].expires
    <3>1. row \in GrantRow
      BY <1>0, <1>2, <2>1, AskTyped DEF ApproveReuse, Job, NewGrant, GrantRow
    <3> QED BY <3>1, SentinelAssumption DEF NewGrant
  <2> HIDE DEF row
  <2>5. Held' = [Held EXCEPT ![r] = Promise!Right(Ask[r].requested, job[w].expires)]
    BY <2>1, <2>2, <2>4, HeldGets
  <2>6. Promise!Gives(r, Ask[r].requested, job[w].expires)
    BY <2>1, <2>2, <2>3, <2>5 DEF Promise!Gives, Held
  <2>7. Covered(r, Ask[r].requested, job[w].expires) /\ Ask[r].requested \in SUBSET Scope
    BY <1>2, <2>1, AskTyped DEF CoverInv, ReuseCovered, ApproveReuse
  <2> QED BY <2>1, <2>2, <2>6, <2>7, CoveredInherits
<1>3. ASSUME TagReusedGrant(w) PROVE Promise!Next \/ Hidden
  <2> DEFINE r == job[w].request
             row == job[w].row
  <2>1. /\ r \in Request /\ row \in GrantRow /\ row.expires \in Expiries
        /\ ~row.revoked /\ row.scopes = Ask[r].requested
    BY <1>0, <1>3 DEF TagReusedGrant, Job, ExpiryInv, NameInv, ChainInv, TagsReuse
  <2>2. UNCHANGED <<now, decided>> /\ \A q \in Request : q # r => grant'[q] = grant[q]
    BY <1>0, <1>3, <2>1 DEF TagReusedGrant, TagReuse
  <2>3. Using' = Using
    <3>1. \A v \in Worker : job'[v] = job[v] \/ (~InUse(v) /\ ~InUse(v)')
      BY <1>0, <1>3 DEF TagReusedGrant, InUse
    <3> QED BY <3>1, UsingStays
  <2>4. CASE grant'[r] = grant[r]
    BY <2>1, <2>2, <2>3, <2>4, AgreedStays, HeldStays DEF Hidden
  <2>5. CASE grant'[r] # grant[r]
    <3>1. grant[r] # None /\ grant[r].by = "reuse" /\ grant'[r] = row
      BY <1>0, <1>3, <2>1, <2>5 DEF TagReusedGrant, TagReuse
    <3>2. row # None
      BY <2>1, SentinelAssumption
    <3>3. Held' = [Held EXCEPT ![r] = Promise!Right(row.scopes, row.expires)]
      BY <2>1, <2>2, <3>1, <3>2, HeldGets
    <3>4. CASE grant[r].revoked
      <4>1. Promise!Gives(r, row.scopes, row.expires)
        BY <2>1, <2>2, <2>3, <3>1, <3>3, <3>4 DEF Promise!Gives, Held
      <4>2. Covered(r, row.scopes, row.expires) /\ row.scopes \in SUBSET Scope
        BY <1>3, <2>1 DEF CoverInv, ReuseCovered, TagReusedGrant, GrantRow
      <4> QED BY <2>1, <2>2, <4>1, <4>2, CoveredInherits
    <3>5. CASE ~grant[r].revoked
      <4>1. grant[r].expires = row.expires
        BY <1>3, <3>1, <3>5 DEF NameInv, RetagsSame, TagReusedGrant
      <4>2. grant[r].scopes = row.scopes
        BY <2>1, <3>1 DEF NameInv, GrantsClosed
      <4>3. Held[r] = Promise!Right(row.scopes, row.expires)
        BY <2>1, <3>1, <3>5, <4>1, <4>2 DEF Held, Promise!Right
      <4>4. Held' = Held
        BY <2>1, <3>3, <4>3 DEF Held
      <4> QED BY <2>2, <2>3, <4>4, AgreedStays DEF Hidden
    <3> QED BY <3>4, <3>5
  <2> QED BY <2>4, <2>5
<1> QED BY <1>1, <1>2, <1>3 DEF Create

\* A thread that uses a session only stops using it.
LEMMA UseEnds ==
  ASSUME TypeOK, NEW w \in Worker, InUse(w),
         Poll(w) \/ IssueChallenge(w) \/ ExchangeSession(w) \/ UseSession(w) \/ Fail(w)
  PROVE  job'[w] = Idle
<1>0. job \in [Worker -> Job]
  BY DEF TypeOK
<1> USE DEF At, PicksUp, Goto, Done, InUse
<1>1. CASE Poll(w) \/ Fail(w)
  BY <1>0, <1>1 DEF Poll, PollRequest, ExpireRequest, Fail
<1>2. CASE IssueChallenge(w)
  BY <1>2 DEF IssueChallenge, OwnerChallenge, ProfileChallenge, CheckProfile, InsertChallenge
<1>3. CASE ExchangeSession(w)
  BY <1>3 DEF ExchangeSession, BeginExchange, BeginRead, BeginGrant, Exchange, ExchangeRead,
     ExchangeGrant, ExchangeVerify, InsertSession
<1>4. CASE UseSession(w)
  BY <1>0, <1>4 DEF UseSession, ReadProjection, RecheckSession, Rank, ReadProfile, SendFeedback,
     IngestFeedback
<1> QED BY <1>1, <1>2, <1>3, <1>4

LEMMA OtherRefines ==
  ASSUME TypeOK, NameInv, NEW w \in Worker,
         Poll(w) \/ IssueChallenge(w) \/ ExchangeSession(w) \/ UseSession(w) \/ Fail(w)
  PROVE  Promise!Next \/ Hidden
<1>0. /\ now \in Nat /\ grant \in [Request -> GrantRow \cup {None}]
      /\ session \in [Session -> SessionRow \cup {None, Gone}]
  BY DEF TypeOK, StoreTypeOK
<1>1. /\ [Next]_vars /\ UNCHANGED <<now, grant, decided>>
      /\ \A v \in Worker : v # w => job'[v] = job[v]
  BY OtherHandlersStep DEF OtherStep, Next
<1>2. Agreed' = Agreed /\ Held' = Held
  BY <1>1, AgreedStays, HeldStays
<1>3. CASE InUse(w)
  <2>1. ~InUse(w)'
    BY <1>3, UseEnds DEF Idle, InUse
  <2>2. Using' = [Using EXCEPT ![w] = None]
    BY <1>1, <2>1 DEF Using, InUse
  <2>3. Promise!End(w)
    BY <1>1, <1>2, <2>2 DEF Promise!End
  <2> QED BY <2>3 DEF Promise!Next
<1>4. CASE ~InUse(w) /\ ~InUse(w)'
  BY <1>1, <1>2, <1>4, UsingStays DEF Hidden
<1>5. CASE ~InUse(w) /\ InUse(w)'
  <2>1. PICK s \in Session : SessionAccepted(s) /\ job'[w].row = session[s]
    BY <1>1, <1>5, AdmittedAccepted DEF Admitted, InUse
  <2> DEFINE r == session[s].grant[1]
             S == session[s].scopes
  <2>2. session[s] \in SessionRow
    BY <1>0, <2>1 DEF SessionAccepted, Row
  <2>3. r \in Request /\ S \in SUBSET Scope
    BY <2>2 DEF SessionRow, GrantId
  <2>4. grant[r] \in GrantRow /\ ~grant[r].revoked /\ ~Expired(grant[r].expires)
    BY <1>0, <2>1, <2>3 DEF SessionAccepted, GrantLive
  <2>5. S \subseteq grant[r].scopes
    BY <2>1 DEF NameInv, SessionsNamed, Named, SessionAccepted, JoinsGrant, Joins
  <2>6. /\ grant[r].expires \in Nat /\ now < grant[r].expires
        /\ [scopes |-> grant[r].scopes, until |-> grant[r].expires]
             \in [scopes: SUBSET Scope, until: Nat]
    BY <1>0, <2>4 DEF GrantRow, Expired
  <2>7. Held[r] = [scopes |-> grant[r].scopes, until |-> grant[r].expires]
    BY <2>3, <2>4, SentinelAssumption DEF Held
  <2>8. Using' = [Using EXCEPT ![w] = [request |-> r, scopes |-> S]]
    BY <1>1, <1>5, <2>1 DEF Using, InUse
  <2>9. Promise!Begin(w, r, S)
    BY <1>1, <1>2, <2>5, <2>6, <2>7, <2>8, RightAssumption DEF Promise!Begin
  <2> QED BY <2>3, <2>9 DEF Promise!Next
<1> QED BY <1>3, <1>4, <1>5

LEMMA OwnerActRefines ==
  ASSUME TypeOK, ExpiryInv, OwnerAct, UNCHANGED job
  PROVE  Promise!Next \/ Hidden
<1>0. /\ now \in Nat /\ now <= MaxTime /\ grant \in [Request -> GrantRow \cup {None}]
      /\ challenge \in [Challenge -> ChallengeRow \cup {None, Gone}]
  BY DEF TypeOK, StoreTypeOK, ExpiryInv
<1>1. PICK c \in Challenge :
        \/ \E r \in Request : \/ OwnerDenies(c, r)
                              \/ \E S \in SUBSET Scope, t \in GrantUntil : OwnerApproves(c, r, S, t)
        \/ \E g \in GrantId : OwnerRevokes(c, g)
        \/ \E p \in Profile : OwnerReads(c, p) \/ OwnerDeletes(c, p)
  BY DEF OwnerAct
<1>2. Using' = Using
  BY UsingStays
<1>3. ASSUME Decide(c), challenge[c].binding.action # "approve" PROVE Agreed' = Agreed
  <2>1. Approvals' = Approvals
    BY <1>3 DEF Approvals, Decide
  <2> QED BY <2>1 DEF Agreed, ExpiryOf
<1>4. ASSUME NEW r \in Request, OwnerDenies(c, r) PROVE Hidden
  BY <1>2, <1>3, <1>4, HeldStays DEF OwnerDenies, ProofAccepted, Hidden
<1>5. ASSUME NEW p \in Profile, OwnerReads(c, p) PROVE Hidden
  BY <1>2, <1>3, <1>5, HeldStays DEF OwnerReads, ProofAccepted, Hidden
<1>6. ASSUME NEW r \in Request, NEW S \in SUBSET Scope, NEW t \in GrantUntil,
             OwnerApproves(c, r, S, t)
      PROVE  Promise!Next
  <2> DEFINE u == IF t = None THEN now + GrantTTL ELSE t
             row == NewGrant("owner", S, u)
             d == [signed |-> challenge[c].binding, at |-> now]
  <2>1. u \in Expiries /\ u \in Nat
    BY <1>0 DEF Expiries, Deadline
  <2>2. challenge[c].binding = [action |-> "approve", request |-> r, scopes |-> S, until |-> t]
    BY <1>6 DEF OwnerApproves, ProofAccepted
  <2>3. decided' = decided \cup {d} /\ d.signed.action = "approve" /\ d.signed.request = r
          /\ d.signed.scopes = S /\ ExpiryOf(d) = u
    BY <1>6, <2>2 DEF OwnerApproves, Decide, ExpiryOf
  <2>4. Approvals' = Approvals \cup {d}
    BY <2>3 DEF Approvals
  <2> HIDE DEF d
  <2>5. Agreed' = Agreed \cup {Promise!Agreement(DealOf[r], S, u)}
    BY <2>3, <2>4 DEF Agreed, ExpiryOf, Promise!Agreement
  <2>6. row # None /\ ~row.revoked /\ row.scopes = S /\ row.expires = u
    <3>1. row \in GrantRow
      BY <1>0, <2>1 DEF NewGrant, GrantRow
    <3> QED BY <3>1, SentinelAssumption DEF NewGrant
  <2>7. now' = now /\ grant[r] = None /\ grant'[r] = row
          /\ \A q \in Request : q # r => grant'[q] = grant[q]
    BY <1>0, <1>6 DEF OwnerApproves
  <2> HIDE DEF row
  <2>8. Held' = [Held EXCEPT ![r] = Promise!Right(S, u)]
    BY <2>6, <2>7, HeldGets
  <2>9. Promise!Agree(r, S, u)
    BY <1>2, <2>5, <2>7, <2>8 DEF Promise!Agree, Promise!Gives, Held
  <2> QED BY <2>1, <2>9 DEF Promise!Next
<1>7. ASSUME NEW g \in GrantId, OwnerRevokes(c, g) PROVE Promise!Next
  <2> DEFINE r == g[1]
  <2>1. r \in Request /\ grant[r] \in GrantRow
    BY <1>0, <1>7 DEF OwnerRevokes, GrantId
  <2>2. grant'[r] = [grant[r] EXCEPT !.revoked = TRUE, !.expires = now]
          /\ \A q \in Request : q # r => grant'[q] = grant[q]
    BY <1>0, <1>7, <2>1 DEF OwnerRevokes
  <2>3. grant'[r].revoked
    BY <2>1, <2>2 DEF GrantRow
  <2>4. Agreed' = Agreed /\ now' = now
    BY <1>3, <1>7 DEF OwnerRevokes, ProofAccepted
  <2>5. Promise!Withdraw(r)
    BY <1>2, <2>1, <2>2, <2>3, <2>4, HeldLoses DEF Promise!Withdraw
  <2> QED BY <2>1, <2>5 DEF Promise!Next
<1>8. ASSUME NEW p \in Profile, OwnerDeletes(c, p) PROVE Promise!Next \/ Hidden
  <2>1. Agreed' = Agreed /\ now' = now
    BY <1>3, <1>8 DEF OwnerDeletes, ProofAccepted
  <2>2. \A q \in Request : grant'[q] = IF Ask[q].profile = p THEN None ELSE grant[q]
    BY <1>8 DEF OwnerDeletes
  <2>3. CASE \E r \in Request : Ask[r].profile = p
    <3>1. PICK r \in Request : Ask[r].profile = p
      BY <2>3
    <3>2. Held' = [q \in Request |-> IF DealOf[q].profile = DealOf[r].profile THEN None ELSE Held[q]]
      BY <2>2, <3>1 DEF Held, DealOf
    <3>3. Promise!Forget(DealOf[r].profile)
      BY <1>2, <2>1, <3>2 DEF Promise!Forget
    <3> QED BY <3>1, <3>3 DEF Promise!Next
  <2>4. CASE ~ \E r \in Request : Ask[r].profile = p
    BY <1>2, <2>1, <2>2, <2>4, HeldStays DEF Hidden
  <2> QED BY <2>3, <2>4
<1> QED BY <1>1, <1>4, <1>5, <1>6, <1>7, <1>8

LEMMA NextRefines ==
  ASSUME TypeOK, NameInv, CoverInv, ExpiryInv, [Next]_vars
  PROVE  [Promise!Next]_(Promise!consentVars)
<1>1. ASSUME Atomic, ~OwnerAct, UNCHANGED job PROVE Hidden
  <2>1. UNCHANGED <<now, grant, decided>>
    BY <1>1 DEF Atomic, VerifyProof, Register
  <2> QED BY <1>1, <2>1, AgreedStays, HeldStays, UsingStays DEF Hidden
<1>2. ASSUME Tick PROVE Promise!Next
  <2>1. UNCHANGED <<grant, decided, job>> /\ now' = now + 1
    BY <1>2 DEF Tick, tables
  <2>2. Agreed' = Agreed /\ Held' = Held /\ Using' = Using
    BY <2>1, AgreedStays, HeldStays, UsingStays
  <2> QED BY <2>1, <2>2 DEF Promise!Next, Promise!Pass
<1>3. ASSUME UNCHANGED vars PROVE Hidden
  BY <1>3, AgreedStays, HeldStays, UsingStays DEF vars, storeVars, tables, Hidden
<1>4. Promise!Next \/ Hidden
  BY <1>1, <1>2, <1>3, CreateRefines, OtherRefines, OwnerActRefines DEF Next
<1> QED BY <1>4 DEF Hidden, Promise!consentVars

LEMMA InitRefines == Init => Promise!Init
  BY DEF Init, StoreInit, Idle, Promise!Init, Agreed, Approvals, Held, Using, InUse

\* Whatever the handlers do, and wherever they are interrupted, is what an owner was
\* promised: rights come from what the owner signed, and nothing begins to be used by a
\* right that was withdrawn, has run out, or went with its profile.
THEOREM ServiceKeepsThePromise == Spec => KeepsThePromise
<1>1. Spec => [](TypeOK /\ NameInv /\ CoverInv /\ ExpiryInv)
  BY InitTypeOK, InitNameInv, InitCoverInv, InitExpiryInv,
     NextTypeOK, NextNameInv, NextCoverInv, NextExpiryInv, PTL DEF Spec
<1> QED BY <1>1, InitRefines, NextRefines, PTL DEF Spec, KeepsThePromise, Promise!Spec
=============================================================================
