-------------------------- MODULE ConsentServiceProofs --------------------------
(***************************************************************************)
(* Proofs about ConsentService, for any number of profiles, sites,         *)
(* requests, threads and challenges, in three parts: types and challenges; *)
(* sessions, what they are made from, what they give and what ends them;   *)
(* decisions, when they take effect and what can still change them.  The   *)
(* argument of the second is one invariant about requests, grants and      *)
(* everything that names a grant: a grant can be named only when no other  *)
(* grant can come in its place.                                            *)
(***************************************************************************)
EXTENDS ConsentService, FiniteSetTheorems, TLAPS

USE AskAssumption, AllowedAssumption, TTLAssumption, NoneAssumption,
    ServesAssumption, SignedAssumption, UntilAssumption, MaxTimeAssumption

----------------------------------------------------------------------------
(* Types *)

LEMMA InitTypeOK == Init => TypeOK
  BY DEF Init, StoreInit, TypeOK, StoreTypeOK, Status, Known, Idle, Job

LEMMA AskTyped ==
  ASSUME NEW r \in Request
  PROVE  /\ Ask[r].profile \in Profile
         /\ Ask[r].site \in Site
         /\ Ask[r].requested \subseteq Scope
         /\ Ask[r].required \subseteq Scope
         /\ Ask[r].expires \in Deadline
  BY DEF Asked

LEMMA CreateTypeOK ==
  ASSUME TypeOK, NEW w \in Worker, Create(w)
  PROVE  TypeOK'
<1> USE DEF At, PicksUp, Goto, Done, Idle
<1>1. ASSUME NEW r \in Request, CreateRequest(w, r) PROVE TypeOK'
  BY <1>1 DEF CreateRequest, storeVars, tables, TypeOK, StoreTypeOK, Job
<1>2. ASSUME InsertRequest(w) PROVE TypeOK'
  <2>1. job[w].request \in Request
    BY <1>2 DEF InsertRequest, TypeOK, Job
  <2>2. request' \in [Request -> Status]
    BY <1>2, <2>1 DEF InsertRequest, InsertRequestRow, TypeOK, StoreTypeOK, Status, Known
  <2>3. job' \in [Worker -> Job]
    BY <1>2, <2>1 DEF InsertRequest, TypeOK, Job
  <2> QED BY <1>2, <2>2, <2>3 DEF InsertRequest, InsertRequestRow, TypeOK, StoreTypeOK
<1>3. ASSUME FindGrant(w) PROVE TypeOK'
  <2>1. job[w].request \in Request
    BY <1>3 DEF FindGrant, TypeOK, Job
  <2>2. \A q \in NewestReusable(job[w].request) : grant[q].expires \in Nat
    BY DEF NewestReusable, Reusable, GrantLive, TypeOK, StoreTypeOK, GrantRow
  <2>3. \A q \in NewestReusable(job[w].request) :
          [at |-> "reread-request", request |-> job[w].request, expires |-> grant[q].expires]
            \in Job
    BY <2>1, <2>2 DEF Job
  <2>4. job' \in [Worker -> Job]
    <3>1. Idle \in Job  BY DEF Job
    <3> QED BY <1>3, <2>3, <3>1 DEF FindGrant, TypeOK
  <2> QED BY <1>3, <2>4 DEF FindGrant, storeVars, tables, TypeOK, StoreTypeOK
<1>4. ASSUME RereadRequest(w) PROVE TypeOK'
  <2>1. job[w].request \in Request /\ job[w].expires \in Nat
    BY <1>4 DEF RereadRequest, TypeOK, Job
  <2>2. job' \in [Worker -> Job]
    BY <1>4, <2>1 DEF RereadRequest, TypeOK, Job
  <2> QED BY <1>4, <2>2 DEF RereadRequest, storeVars, tables, TypeOK, StoreTypeOK
<1>5. ASSUME ApproveReuse(w) PROVE TypeOK'
  <2>1. job[w].request \in Request /\ job[w].expires \in Nat
    BY <1>5 DEF ApproveReuse, TypeOK, Job
  <2>2. NewGrant("reuse", Ask[job[w].request].requested, job[w].expires) \in GrantRow
    BY <2>1, AskTyped DEF NewGrant, GrantRow, TypeOK, StoreTypeOK
  <2>3. job' \in [Worker -> Job]
    BY <1>5, <2>1, <2>2 DEF ApproveReuse, TypeOK, Job
  <2>4. request' \in [Request -> Status] /\ grant' \in [Request -> GrantRow \cup {None}]
    BY <1>5, <2>1, <2>2 DEF ApproveReuse, ReuseGrant, SetStatus, TypeOK, StoreTypeOK, Status, Known
  <2> QED BY <1>5, <2>3, <2>4 DEF ApproveReuse, ReuseGrant, TypeOK, StoreTypeOK
<1>6. ASSUME TagReusedGrant(w) PROVE TypeOK'
  <2>1. job[w].request \in Request /\ job[w].row \in GrantRow
    BY <1>6 DEF TagReusedGrant, TypeOK, Job
  <2>2. request' \in [Request -> Status] /\ grant' \in [Request -> GrantRow \cup {None}]
    BY <1>6, <2>1 DEF TagReusedGrant, TagReuse, SetStatus, TypeOK, StoreTypeOK, Status, Known
  <2> QED BY <1>6, <2>2 DEF TagReusedGrant, TagReuse, TypeOK, StoreTypeOK, Job
<1> QED BY <1>1, <1>2, <1>3, <1>4, <1>5, <1>6 DEF Create

LEMMA PollTypeOK ==
  ASSUME TypeOK, NEW w \in Worker, Poll(w)
  PROVE  TypeOK'
<1> USE DEF At, PicksUp, Goto, Done, Idle
<1>1. ASSUME NEW r \in Request, PollRequest(w, r) PROVE TypeOK'
  BY <1>1 DEF PollRequest, storeVars, tables, TypeOK, StoreTypeOK, Job
<1>2. ASSUME ExpireRequest(w) PROVE TypeOK'
  <2>1. job[w].request \in Request
    BY <1>2 DEF ExpireRequest, TypeOK, Job
  <2>2. request' \in [Request -> Status]
    BY <1>2, <2>1 DEF ExpireRequest, ExpireRow, SetStatus, TypeOK, StoreTypeOK, Status, Known
  <2> QED BY <1>2, <2>2 DEF ExpireRequest, ExpireRow, TypeOK, StoreTypeOK, Job
<1> QED BY <1>1, <1>2 DEF Poll

LEMMA IssueChallengeTypeOK ==
  ASSUME TypeOK, NEW w \in Worker, IssueChallenge(w)
  PROVE  TypeOK'
<1> USE DEF At, PicksUp, Goto, Done, Idle
<1>1. ASSUME NEW b \in OwnerBinding, OwnerChallenge(w, b) PROVE TypeOK'
  <2>1. b \in Binding
    BY DEF OwnerBinding, Binding
  <2>2. TargetProfile(b) \in Profile
    BY <1>1, AskTyped DEF OwnerChallenge, OwnerBinding, TargetProfile, ProfileOf, GrantId
  <2>3. job' \in [Worker -> Job]
    BY <1>1, <2>1, <2>2 DEF OwnerChallenge, TypeOK, Job
  <2> QED BY <1>1, <2>3 DEF OwnerChallenge, storeVars, tables, TypeOK, StoreTypeOK
<1>2. ASSUME NEW p \in Profile, ProfileChallenge(w, p) PROVE TypeOK'
  <2>1. [action |-> "profile", profile |-> p] \in Binding
    BY DEF Binding
  <2>2. job' \in [Worker -> Job]
    BY <1>2, <2>1 DEF ProfileChallenge, TypeOK, Job
  <2> QED BY <1>2, <2>2 DEF ProfileChallenge, storeVars, tables, TypeOK, StoreTypeOK
<1>3. ASSUME CheckProfile(w) PROVE TypeOK'
  <2>1. job[w].profile \in Profile /\ job[w].binding \in Binding
    BY <1>3 DEF CheckProfile, TypeOK, Job
  <2>2. job' \in [Worker -> Job]
    BY <1>3, <2>1 DEF CheckProfile, TypeOK, Job
  <2> QED BY <1>3, <2>2 DEF CheckProfile, storeVars, tables, TypeOK, StoreTypeOK
<1>4. ASSUME NEW c \in Challenge, InsertChallenge(w, c) PROVE TypeOK'
  <2>1. job[w].profile \in Profile /\ job[w].binding \in Binding
    BY <1>4 DEF InsertChallenge, TypeOK, Job
  <2>2. challenge' \in [Challenge -> ChallengeRow \cup {None, Gone}]
    BY <1>4, <2>1 DEF InsertChallenge, InsertChallengeRow, ChallengeRow, TypeOK, StoreTypeOK
  <2> QED BY <1>4, <2>2 DEF InsertChallenge, InsertChallengeRow, TypeOK, StoreTypeOK, Job
<1> QED BY <1>1, <1>2, <1>3, <1>4 DEF IssueChallenge

\* Spending a proof keeps its row a row.
LEMMA SpendTyped ==
  ASSUME StoreTypeOK, NEW c \in Challenge, Row(challenge[c]), Spend(c)
  PROVE  challenge' \in [Challenge -> ChallengeRow \cup {None, Gone}]
<1>1. challenge[c] \in ChallengeRow
  BY DEF StoreTypeOK, Row
<1>2. [challenge[c] EXCEPT !.used = TRUE] \in ChallengeRow
  BY <1>1 DEF ChallengeRow
<1> QED BY <1>2 DEF Spend, StoreTypeOK

LEMMA ExchangeSessionTypeOK ==
  ASSUME TypeOK, NEW w \in Worker, ExchangeSession(w)
  PROVE  TypeOK'
<1> USE DEF At, PicksUp, Goto, Done, Idle
<1>1. ASSUME NEW r \in Request, BeginExchange(w, r) PROVE TypeOK'
  BY <1>1 DEF BeginExchange, storeVars, tables, TypeOK, StoreTypeOK, Job
<1>2. ASSUME BeginRead(w) PROVE TypeOK'
  BY <1>2 DEF BeginRead, storeVars, tables, TypeOK, StoreTypeOK, Job
<1>3. ASSUME BeginGrant(w) PROVE TypeOK'
  <2>1. job[w].request \in Request
    BY <1>3 DEF BeginGrant, TypeOK, Job
  <2>2. ASSUME GrantLive(job[w].request)
        PROVE  [action |-> "exchange", grant |-> <<job[w].request, grant[job[w].request].by>>]
                 \in Binding
    <3>1. <<job[w].request, grant[job[w].request].by>> \in GrantId
      BY <2>1, <2>2 DEF GrantLive, GrantId, TypeOK, StoreTypeOK, GrantRow
    <3> QED BY <3>1 DEF Binding
  <2>3. ASSUME GrantLive(job[w].request)
        PROVE  [at |-> "check-profile", profile |-> Ask[job[w].request].profile,
                binding |-> [action |-> "exchange",
                             grant |-> <<job[w].request, grant[job[w].request].by>>]] \in Job
    BY <2>1, <2>2, <2>3, AskTyped DEF Job
  <2>4. Idle \in Job
    BY DEF Job
  <2>5. job' \in [Worker -> Job]
    BY <1>3, <2>3, <2>4 DEF BeginGrant, TypeOK
  <2> QED BY <1>3, <2>5 DEF BeginGrant, storeVars, tables, TypeOK, StoreTypeOK
<1>4. ASSUME NEW r \in Request, NEW c \in Challenge, Exchange(w, r, c) PROVE TypeOK'
  BY <1>4 DEF Exchange, storeVars, tables, TypeOK, StoreTypeOK, Job
<1>5. ASSUME ExchangeRead(w) PROVE TypeOK'
  BY <1>5 DEF ExchangeRead, storeVars, tables, TypeOK, StoreTypeOK, Job
<1>6. ASSUME ExchangeGrant(w) PROVE TypeOK'
  <2>1. job[w].request \in Request /\ job[w].proof \in Challenge
    BY <1>6 DEF ExchangeGrant, TypeOK, Job
  <2>2. ASSUME GrantLive(job[w].request)
        PROVE  /\ <<job[w].request, grant[job[w].request].by>> \in GrantId
               /\ grant[job[w].request].scopes \subseteq Scope
    BY <2>1, <2>2 DEF GrantLive, GrantId, TypeOK, StoreTypeOK, GrantRow
  <2>3. job' \in [Worker -> Job]
    BY <1>6, <2>1, <2>2 DEF ExchangeGrant, TypeOK, Job
  <2> QED BY <1>6, <2>3 DEF ExchangeGrant, storeVars, tables, TypeOK, StoreTypeOK
<1>7. ASSUME ExchangeVerify(w) PROVE TypeOK'
  <2>1. /\ job[w].grant \in GrantId
        /\ job[w].scopes \subseteq Scope
        /\ job[w].proof \in Challenge
    BY <1>7 DEF ExchangeVerify, TypeOK, Job
  <2>2. challenge' \in [Challenge -> ChallengeRow \cup {None, Gone}]
    BY <1>7, <2>1, SpendTyped DEF ExchangeVerify, VerifyProof, ProofAccepted, TypeOK
  <2>3. job' \in [Worker -> Job]
    BY <1>7, <2>1 DEF ExchangeVerify, TypeOK, Job
  <2> QED BY <1>7, <2>2, <2>3 DEF ExchangeVerify, VerifyProof, TypeOK, StoreTypeOK
<1>8. ASSUME NEW s \in Session, NEW t \in SessionUntil, InsertSession(w, s, t) PROVE TypeOK'
  <2>1. /\ job[w].grant \in GrantId
        /\ job[w].scopes \subseteq Scope
        /\ job[w].proof \in Challenge
    BY <1>8 DEF InsertSession, TypeOK, Job
  <2>2. (IF t = None THEN now + SessionTTL ELSE t) \in Nat
    BY DEF Deadline, TypeOK, StoreTypeOK
  <2>3. session' \in [Session -> SessionRow \cup {None, Gone}]
    BY <1>8, <2>1, <2>2 DEF InsertSession, InsertSessionRow, SessionRow, TypeOK, StoreTypeOK
  <2> QED BY <1>8, <2>3 DEF InsertSession, InsertSessionRow, TypeOK, StoreTypeOK, Job
<1> QED BY <1>1, <1>2, <1>3, <1>4, <1>5, <1>6, <1>7, <1>8 DEF ExchangeSession

LEMMA UseSessionTypeOK ==
  ASSUME TypeOK, NEW w \in Worker, UseSession(w)
  PROVE  TypeOK'
<1> USE DEF At, PicksUp, Goto, Done, Idle
<1>1. \A s \in Session : SessionAccepted(s) => session[s] \in SessionRow
  BY DEF SessionAccepted, Row, TypeOK, StoreTypeOK
<1>2. ASSUME NEW s \in Session, ReadProjection(w, s) \/ Rank(w, s) \/ SendFeedback(w, s)
      PROVE  TypeOK'
  BY <1>1, <1>2 DEF ReadProjection, Rank, SendFeedback, storeVars, tables, TypeOK, StoreTypeOK, Job
<1>3. ASSUME RecheckSession(w) PROVE TypeOK'
  <2>1. job[w].session \in Session
    BY <1>3 DEF RecheckSession, TypeOK, Job
  <2>2. job' \in [Worker -> Job]
    BY <1>1, <1>3, <2>1 DEF RecheckSession, TypeOK, Job
  <2> QED BY <1>3, <2>2 DEF RecheckSession, storeVars, tables, TypeOK, StoreTypeOK
<1>4. ASSUME ReadProfile(w) PROVE TypeOK'
  BY <1>4 DEF ReadProfile, storeVars, tables, TypeOK, StoreTypeOK, Job
<1>5. ASSUME NEW E \in SUBSET Event, IngestFeedback(w, E) PROVE TypeOK'
  <2>1. job[w].row.grant \in GrantId
    BY <1>5 DEF IngestFeedback, TypeOK, Job, SessionRow
  <2>2. feedback' \in [Event -> GrantId \cup {None}]
    BY <1>5, <2>1 DEF IngestFeedback, InsertFeedback, TypeOK, StoreTypeOK
  <2> QED BY <1>5, <2>2 DEF IngestFeedback, InsertFeedback, TypeOK, StoreTypeOK, Job
<1> QED BY <1>2, <1>3, <1>4, <1>5 DEF UseSession

LEMMA OwnerActTypeOK ==
  ASSUME TypeOK, OwnerAct
  PROVE  StoreTypeOK'
<1>1. PICK c \in Challenge :
        \/ \E r \in Request : \/ OwnerDenies(c, r)
                              \/ \E S \in SUBSET Scope, t \in GrantUntil : OwnerApproves(c, r, S, t)
        \/ \E g \in GrantId : OwnerRevokes(c, g)
        \/ \E p \in Profile : OwnerReads(c, p) \/ OwnerDeletes(c, p)
  BY DEF OwnerAct
<1>2. ASSUME Row(challenge[c]), Decide(c) PROVE decided' \subseteq Decision
  <2>1. challenge[c] \in ChallengeRow
    BY <1>2 DEF Row, TypeOK, StoreTypeOK
  <2>2. [signed |-> challenge[c].binding, at |-> now] \in Decision
    BY <2>1 DEF ChallengeRow, Decision, TypeOK, StoreTypeOK
  <2> QED BY <1>2, <2>2 DEF Decide, TypeOK, StoreTypeOK
<1>3. ASSUME NEW r \in Request, OwnerDenies(c, r) PROVE StoreTypeOK'
  <2>1. challenge' \in [Challenge -> ChallengeRow \cup {None, Gone}]
    BY <1>3, SpendTyped DEF OwnerDenies, ProofAccepted, TypeOK
  <2>2. decided' \subseteq Decision
    BY <1>2, <1>3 DEF OwnerDenies, ProofAccepted
  <2>3. request' \in [Request -> Status]
    BY <1>3 DEF OwnerDenies, SetStatus, TypeOK, StoreTypeOK, Status, Known
  <2> QED BY <1>3, <2>1, <2>2, <2>3 DEF OwnerDenies, TypeOK, StoreTypeOK
<1>4. ASSUME NEW r \in Request, NEW S \in SUBSET Scope, NEW t \in GrantUntil,
             OwnerApproves(c, r, S, t)
      PROVE  StoreTypeOK'
  <2>1. challenge' \in [Challenge -> ChallengeRow \cup {None, Gone}]
    BY <1>4, SpendTyped DEF OwnerApproves, ProofAccepted, TypeOK
  <2>2. decided' \subseteq Decision
    BY <1>2, <1>4 DEF OwnerApproves, ProofAccepted
  <2>3. NewGrant("owner", S, IF t = None THEN now + GrantTTL ELSE t) \in GrantRow
    BY DEF NewGrant, GrantRow, Deadline, TypeOK, StoreTypeOK
  <2>4. request' \in [Request -> Status] /\ grant' \in [Request -> GrantRow \cup {None}]
    BY <1>4, <2>3 DEF OwnerApproves, SetStatus, TypeOK, StoreTypeOK, Status, Known
  <2> QED BY <1>4, <2>1, <2>2, <2>4 DEF OwnerApproves, TypeOK, StoreTypeOK
<1>5. ASSUME NEW g \in GrantId, OwnerRevokes(c, g) PROVE StoreTypeOK'
  <2>1. challenge' \in [Challenge -> ChallengeRow \cup {None, Gone}]
    BY <1>5, SpendTyped DEF OwnerRevokes, ProofAccepted, TypeOK
  <2>2. decided' \subseteq Decision
    BY <1>2, <1>5 DEF OwnerRevokes, ProofAccepted
  <2>3. g[1] \in Request /\ grant[g[1]] \in GrantRow
    BY <1>5 DEF OwnerRevokes, GrantId, TypeOK, StoreTypeOK
  <2>4. [grant[g[1]] EXCEPT !.revoked = TRUE, !.expires = now] \in GrantRow
    BY <2>3 DEF GrantRow, TypeOK, StoreTypeOK
  <2>5. grant' \in [Request -> GrantRow \cup {None}]
    BY <1>5, <2>3, <2>4 DEF OwnerRevokes, TypeOK, StoreTypeOK
  <2> QED BY <1>5, <2>1, <2>2, <2>5 DEF OwnerRevokes, TypeOK, StoreTypeOK
<1>6. ASSUME NEW p \in Profile, OwnerReads(c, p) PROVE StoreTypeOK'
  <2>1. challenge' \in [Challenge -> ChallengeRow \cup {None, Gone}]
    BY <1>6, SpendTyped DEF OwnerReads, ProofAccepted, TypeOK
  <2>2. decided' \subseteq Decision
    BY <1>2, <1>6 DEF OwnerReads, ProofAccepted
  <2> QED BY <1>6, <2>1, <2>2 DEF OwnerReads, TypeOK, StoreTypeOK
<1>7. ASSUME NEW p \in Profile, OwnerDeletes(c, p) PROVE StoreTypeOK'
  <2>1. decided' \subseteq Decision
    BY <1>2, <1>7 DEF OwnerDeletes, ProofAccepted
  <2>2. request' \in [Request -> Status]
    BY <1>7 DEF OwnerDeletes, TypeOK, StoreTypeOK, Status
  <2> QED BY <1>7, <2>1, <2>2 DEF OwnerDeletes, TypeOK, StoreTypeOK
<1> QED BY <1>1, <1>3, <1>4, <1>5, <1>6, <1>7

LEMMA NextTypeOK == TypeOK /\ [Next]_vars => TypeOK'
<1> SUFFICES ASSUME TypeOK, [Next]_vars PROVE TypeOK'
  OBVIOUS
<1>1. ASSUME NEW w \in Worker, Fail(w) PROVE TypeOK'
  BY <1>1 DEF Fail, Done, Goto, Idle, storeVars, tables, TypeOK, StoreTypeOK, Job
<1>2. ASSUME Atomic, UNCHANGED job PROVE TypeOK'
  <2>1. ASSUME NEW c \in Challenge, NEW p \in Profile,
               VerifyProof(c, p, [action |-> "profile", profile |-> p])
        PROVE  StoreTypeOK'
    <3>1. challenge' \in [Challenge -> ChallengeRow \cup {None, Gone}]
      BY <2>1, SpendTyped DEF VerifyProof, ProofAccepted, TypeOK
    <3> QED BY <2>1, <3>1 DEF VerifyProof, TypeOK, StoreTypeOK
  <2>2. ASSUME NEW p \in Profile, Register(p) PROVE StoreTypeOK'
    BY <2>2 DEF Register, TypeOK, StoreTypeOK
  <2>3. StoreTypeOK'
    BY <1>2, <2>1, <2>2, OwnerActTypeOK DEF Atomic
  <2> QED BY <1>2, <2>3 DEF TypeOK
<1>3. ASSUME Tick PROVE TypeOK'
  BY <1>3 DEF Tick, tables, TypeOK, StoreTypeOK
<1>4. ASSUME UNCHANGED vars PROVE TypeOK'
  BY <1>4 DEF vars, storeVars, tables, TypeOK, StoreTypeOK
<1> QED
  BY <1>1, <1>2, <1>3, <1>4, CreateTypeOK, PollTypeOK, IssueChallengeTypeOK,
     ExchangeSessionTypeOK, UseSessionTypeOK DEF Next

\* Every table and every thread's memory keeps its type, for any instance.
THEOREM TypeCorrect == Spec => []TypeOK
  BY InitTypeOK, NextTypeOK, PTL DEF Spec

----------------------------------------------------------------------------
(* Grants are covered.  GrantCovered alone is not inductive: a reuse copies   *)
(* the expiry of a grant it read two transactions ago, and writes back a      *)
(* grant it wrote one transaction ago, so what the threads remember has to be *)
(* covered too.                                                               *)

CoverInv == TypeOK /\ GrantCovered /\ ReuseCovered

LEMMA InitCoverInv == Init => CoverInv
  BY InitTypeOK DEF Init, StoreInit, CoverInv, GrantCovered, ReuseCovered, At, Idle

\* Decisions are never taken back, so what is covered stays covered.
LEMMA DecisionsStay ==
  ASSUME [Next]_vars
  PROVE  decided \subseteq decided'
<1>1. ASSUME Atomic PROVE decided \subseteq decided'
  <2>1. CASE OwnerAct
    <3>1. PICK c \in Challenge :
            \/ \E r \in Request : \/ OwnerDenies(c, r)
                                  \/ \E S \in SUBSET Scope, t \in GrantUntil :
                                       OwnerApproves(c, r, S, t)
            \/ \E g \in GrantId : OwnerRevokes(c, g)
            \/ \E p \in Profile : OwnerReads(c, p) \/ OwnerDeletes(c, p)
      BY <2>1 DEF OwnerAct
    <3>2. Decide(c)
      BY <3>1 DEF OwnerApproves, OwnerDenies, OwnerRevokes, OwnerReads, OwnerDeletes
    <3> QED BY <3>2 DEF Decide
  <2>2. CASE ~OwnerAct
    BY <1>1, <2>2 DEF Atomic, VerifyProof, Register
  <2> QED BY <2>1, <2>2
<1>2. ASSUME NEW w \in Worker,
             Create(w) \/ Poll(w) \/ IssueChallenge(w) \/ ExchangeSession(w) \/ UseSession(w) \/ Fail(w)
      PROVE  decided' = decided
  <2>1. CASE Create(w)
    BY <2>1 DEF storeVars, Create, CreateRequest, InsertRequest, InsertRequestRow, FindGrant,
       RereadRequest, ApproveReuse, ReuseGrant, TagReusedGrant, TagReuse
  <2>2. CASE Poll(w) \/ Fail(w)
    BY <2>2 DEF storeVars, Fail, Poll, PollRequest, ExpireRequest, ExpireRow
  <2>3. CASE IssueChallenge(w)
    BY <2>3 DEF storeVars, IssueChallenge, OwnerChallenge, ProfileChallenge, CheckProfile,
       InsertChallenge, InsertChallengeRow
  <2>4. CASE ExchangeSession(w)
    <3>1. ASSUME \E r \in Request : BeginExchange(w, r) \/ \E c \in Challenge : Exchange(w, r, c)
          PROVE  decided' = decided
      BY <3>1 DEF storeVars, BeginExchange, Exchange
    <3>2. ASSUME BeginRead(w) \/ BeginGrant(w) PROVE decided' = decided
      BY <3>2 DEF storeVars, BeginRead, BeginGrant
    <3>3. ASSUME ExchangeRead(w) \/ ExchangeGrant(w) PROVE decided' = decided
      BY <3>3 DEF storeVars, ExchangeRead, ExchangeGrant
    <3>4. ASSUME ExchangeVerify(w) \/ \E s \in Session, t \in SessionUntil : InsertSession(w, s, t)
          PROVE  decided' = decided
      BY <3>4 DEF ExchangeVerify, VerifyProof, InsertSession, InsertSessionRow
    <3> QED BY <2>4, <3>1, <3>2, <3>3, <3>4 DEF ExchangeSession
  <2>5. CASE UseSession(w)
    BY <2>5 DEF storeVars, UseSession, ReadProjection, RecheckSession, Rank, ReadProfile,
       SendFeedback, IngestFeedback, InsertFeedback
  <2> QED BY <1>2, <2>1, <2>2, <2>3, <2>4, <2>5
<1> QED BY <1>1, <1>2 DEF Next, Tick, vars, storeVars

LEMMA CoveredStays ==
  ASSUME [Next]_vars
  PROVE  \A r, S, t : CoveredBy(decided, r, S, t) => CoveredBy(decided', r, S, t)
  BY DecisionsStay DEF CoveredBy

\* A stored grant that may be reused covers the request it is reused for.
LEMMA ReusableCovers ==
  ASSUME TypeOK, GrantCovered, NEW q \in Request, NEW r \in Request, Reusable(q, r)
  PROVE  Covered(r, Ask[r].requested, grant[q].expires)
<1>1. Covered(q, grant[q].scopes, grant[q].expires)
  BY DEF Reusable, GrantLive, GrantCovered
<1>2. PICK d \in decided : /\ d.signed.action = "approve"
                           /\ SameAsk(d.signed.request, q)
                           /\ grant[q].scopes \subseteq d.signed.scopes
                           /\ grant[q].expires <= ExpiryOf(d)
  BY <1>1 DEF Covered, CoveredBy
<1>3. SameAsk(d.signed.request, r) /\ Ask[r].requested \subseteq d.signed.scopes
  BY <1>2 DEF Reusable, SameAsk
<1> QED BY <1>2, <1>3 DEF Covered, CoveredBy

\* GrantCovered' and ReuseCovered', each for one row or thread.
GrantRowCovered(D, r, g) == g # None /\ ~g.revoked => CoveredBy(D, r, g.scopes, g.expires)
ThreadCovered(D, j) ==
  /\ j.at \in {"reread-request", "reuse-grant"} =>
       CoveredBy(D, j.request, Ask[j.request].requested, j.expires)
  /\ j.at = "tag-reuse" => CoveredBy(D, j.request, j.row.scopes, j.row.expires)

LEMMA CoverParts ==
  /\ GrantCovered <=> \A r \in Request : GrantRowCovered(decided, r, grant[r])
  /\ ReuseCovered <=> \A w \in Worker : ThreadCovered(decided, job[w])
  /\ GrantCovered' <=> \A r \in Request : GrantRowCovered(decided', r, grant'[r])
  /\ ReuseCovered' <=> \A w \in Worker : ThreadCovered(decided', job'[w])
  BY DEF GrantCovered, ReuseCovered, GrantRowCovered, ThreadCovered, Covered, At

\* A row and a thread that a step does not touch stay covered.
LEMMA UndisturbedCovered ==
  ASSUME CoverInv, [Next]_vars
  PROVE  /\ \A r \in Request : grant'[r] = grant[r] => GrantRowCovered(decided', r, grant'[r])
         /\ \A w \in Worker : job'[w] = job[w] => ThreadCovered(decided', job'[w])
<1>1. \A r \in Request : GrantRowCovered(decided, r, grant[r])
  BY CoverParts DEF CoverInv
<1>2. \A w \in Worker : ThreadCovered(decided, job[w])
  BY CoverParts DEF CoverInv
<1>3. \A r \in Request : GrantRowCovered(decided', r, grant[r])
  BY <1>1, CoveredStays DEF GrantRowCovered
<1>4. \A w \in Worker : ThreadCovered(decided', job[w])
  BY <1>2, CoveredStays DEF ThreadCovered
<1> QED BY <1>3, <1>4

ReuseSteps == {"reread-request", "reuse-grant", "tag-reuse"}

\* A step that at most takes grants away or revokes them, and does not move a thread
\* into a reuse.
LEMMA QuietStep ==
  ASSUME CoverInv, [Next]_vars,
         \A r \in Request : grant'[r] = grant[r] \/ grant'[r] = None \/ grant'[r].revoked,
         \A w \in Worker : job'[w] = job[w] \/ job'[w].at \notin ReuseSteps
  PROVE  CoverInv'
<1>1. \A r \in Request : GrantRowCovered(decided', r, grant'[r])
  BY UndisturbedCovered DEF GrantRowCovered
<1>2. \A w \in Worker : ThreadCovered(decided', job'[w])
  BY UndisturbedCovered DEF ThreadCovered, ReuseSteps
<1> QED BY <1>1, <1>2, CoverParts, NextTypeOK DEF CoverInv

LEMMA CreateCovered ==
  ASSUME CoverInv, NEW w \in Worker, Create(w)
  PROVE  CoverInv'
<1> USE DEF At, PicksUp, Goto, Done, Idle
<1>0. TypeOK /\ [Next]_vars /\ \A v \in Worker : v # w => job'[v] = job[v]
  BY DEF CoverInv, Next, Create, CreateRequest, InsertRequest, FindGrant, RereadRequest,
     ApproveReuse, TagReusedGrant, TypeOK
<1>1. ASSUME NEW r \in Request, CreateRequest(w, r) PROVE CoverInv'
  BY <1>0, <1>1, QuietStep DEF CreateRequest, storeVars, tables, ReuseSteps, TypeOK
<1>2. ASSUME InsertRequest(w) PROVE CoverInv'
  BY <1>0, <1>2, QuietStep DEF InsertRequest, InsertRequestRow, ReuseSteps, TypeOK
<1>3. ASSUME FindGrant(w) PROVE CoverInv'
  <2>1. CASE job' = [job EXCEPT ![w] = Idle]
    BY <1>0, <1>3, <2>1, QuietStep DEF FindGrant, storeVars, tables, ReuseSteps, TypeOK
  <2>2. ASSUME NEW q \in NewestReusable(job[w].request),
               Goto(w, [at |-> "reread-request", request |-> job[w].request,
                        expires |-> grant[q].expires])
        PROVE  CoverInv'
    <3>1. job[w].request \in Request /\ decided' = decided /\ grant' = grant
      BY <1>0, <1>3 DEF FindGrant, TypeOK, Job, storeVars, tables
    <3>2. Covered(job[w].request, Ask[job[w].request].requested, grant[q].expires)
      BY <3>1, ReusableCovers DEF CoverInv, NewestReusable
    <3>3. ThreadCovered(decided', job'[w])
      BY <1>0, <2>2, <3>1, <3>2 DEF ThreadCovered, Covered, TypeOK
    <3>4. \A v \in Worker : ThreadCovered(decided', job'[v])
      BY <1>0, <3>3, UndisturbedCovered
    <3>5. \A r \in Request : GrantRowCovered(decided', r, grant'[r])
      BY <1>0, <3>1, UndisturbedCovered
    <3> QED BY <1>0, <3>4, <3>5, CoverParts, NextTypeOK DEF CoverInv
  <2> QED BY <1>3, <2>1, <2>2 DEF FindGrant
<1>4. ASSUME RereadRequest(w) PROVE CoverInv'
  <2>1. grant' = grant
    BY <1>4 DEF RereadRequest, storeVars, tables
  <2>2. ThreadCovered(decided, job[w]) /\ decided' = decided
    BY <1>4, CoverParts DEF CoverInv, RereadRequest, storeVars
  <2>3. ThreadCovered(decided', job'[w])
    BY <1>0, <1>4, <2>2 DEF RereadRequest, ThreadCovered, TypeOK
  <2>4. \A v \in Worker : ThreadCovered(decided', job'[v])
    BY <1>0, <2>3, UndisturbedCovered
  <2>5. \A r \in Request : GrantRowCovered(decided', r, grant'[r])
    BY <1>0, <2>1, UndisturbedCovered
  <2> QED BY <1>0, <2>4, <2>5, CoverParts, NextTypeOK DEF CoverInv
<1>5. ASSUME ApproveReuse(w) PROVE CoverInv'
  <2> DEFINE r == job[w].request
             new == NewGrant("reuse", Ask[r].requested, job[w].expires)
  <2>1. r \in Request
    BY <1>0, <1>5 DEF ApproveReuse, TypeOK, Job
  <2>2. ThreadCovered(decided, job[w]) /\ decided' = decided
    BY <1>5, CoverParts DEF CoverInv, ApproveReuse, ReuseGrant
  <2>3. CoveredBy(decided', r, new.scopes, new.expires)
    BY <1>5, <2>2 DEF ApproveReuse, ThreadCovered, NewGrant
  <2>4. grant'[r] = new /\ \A q \in Request : q # r => grant'[q] = grant[q]
    BY <1>0, <1>5, <2>1 DEF ApproveReuse, ReuseGrant, TypeOK, StoreTypeOK
  <2>5. \A q \in Request : GrantRowCovered(decided', q, grant'[q])
    BY <1>0, <2>3, <2>4, UndisturbedCovered DEF GrantRowCovered
  <2>6. ThreadCovered(decided', job'[w])
    BY <1>0, <1>5, <2>3 DEF ApproveReuse, ThreadCovered, TypeOK
  <2>7. \A v \in Worker : ThreadCovered(decided', job'[v])
    BY <1>0, <2>6, UndisturbedCovered
  <2> QED BY <1>0, <2>5, <2>7, CoverParts, NextTypeOK DEF CoverInv
<1>6. ASSUME TagReusedGrant(w) PROVE CoverInv'
  <2> DEFINE r == job[w].request
  <2>1. ThreadCovered(decided, job[w]) /\ decided' = decided
    BY <1>6, CoverParts DEF CoverInv, TagReusedGrant, TagReuse
  <2>2. CoveredBy(decided', r, job[w].row.scopes, job[w].row.expires)
    BY <1>6, <2>1 DEF TagReusedGrant, ThreadCovered
  <2>3. \A q \in Request : grant'[q] = grant[q] \/ (q = r /\ grant'[q] = job[w].row)
    BY <1>0, <1>6 DEF TagReusedGrant, TagReuse, TypeOK, StoreTypeOK
  <2>4. \A q \in Request : GrantRowCovered(decided', q, grant'[q])
    BY <1>0, <2>2, <2>3, UndisturbedCovered DEF GrantRowCovered
  <2>5. \A v \in Worker : ThreadCovered(decided', job'[v])
    BY <1>0, <1>6, UndisturbedCovered DEF TagReusedGrant, ThreadCovered, TypeOK
  <2> QED BY <1>0, <2>4, <2>5, CoverParts, NextTypeOK DEF CoverInv
<1> QED BY <1>1, <1>2, <1>3, <1>4, <1>5, <1>6 DEF Create

\* The other handlers neither write grants nor reuse them.
LEMMA OtherHandlersCovered ==
  ASSUME CoverInv, NEW w \in Worker,
         Poll(w) \/ IssueChallenge(w) \/ ExchangeSession(w) \/ UseSession(w) \/ Fail(w)
  PROVE  CoverInv'
<1> USE DEF Goto, Done, Idle
<1>1. [Next]_vars
  BY DEF Next
<1>2. grant' = grant
  BY DEF storeVars, tables, Fail, Poll, PollRequest, ExpireRequest, ExpireRow,
     IssueChallenge, OwnerChallenge, ProfileChallenge, CheckProfile, InsertChallenge,
     InsertChallengeRow,
     ExchangeSession, BeginExchange, BeginRead, BeginGrant, Exchange, ExchangeRead,
     ExchangeGrant, ExchangeVerify, VerifyProof, InsertSession, InsertSessionRow,
     UseSession, ReadProjection, RecheckSession, Rank, ReadProfile, SendFeedback,
     IngestFeedback, InsertFeedback
<1>3. job \in [Worker -> Job]
  BY DEF CoverInv, TypeOK
<1>4. CASE Poll(w) \/ Fail(w)
  <2>1. \A v \in Worker : job'[v] = job[v] \/ job'[v].at \notin ReuseSteps
    BY <1>3, <1>4 DEF ReuseSteps, Fail, Poll, PollRequest, ExpireRequest
  <2> QED BY <1>1, <1>2, <2>1, QuietStep
<1>5. CASE IssueChallenge(w)
  <2>1. \A v \in Worker : job'[v] = job[v] \/ job'[v].at \notin ReuseSteps
    BY <1>3, <1>5 DEF ReuseSteps, IssueChallenge, OwnerChallenge, ProfileChallenge,
       CheckProfile, InsertChallenge
  <2> QED BY <1>1, <1>2, <2>1, QuietStep
<1>6. CASE ExchangeSession(w)
  <2> DEFINE Leaves == \A v \in Worker : job'[v] = job[v] \/ job'[v].at \notin ReuseSteps
  <2>1. ASSUME NEW r \in Request, BeginExchange(w, r) PROVE Leaves
    BY <1>3, <2>1 DEF ReuseSteps, BeginExchange
  <2>2. ASSUME NEW r \in Request, NEW c \in Challenge, Exchange(w, r, c) PROVE Leaves
    BY <1>3, <2>2 DEF ReuseSteps, Exchange
  <2>3. ASSUME NEW s \in Session, NEW t \in SessionUntil, InsertSession(w, s, t) PROVE Leaves
    BY <1>3, <2>3 DEF ReuseSteps, InsertSession
  <2>4. ASSUME BeginRead(w) \/ BeginGrant(w) PROVE Leaves
    BY <1>3, <2>4 DEF ReuseSteps, BeginRead, BeginGrant
  <2>5. ASSUME ExchangeRead(w) \/ ExchangeGrant(w) \/ ExchangeVerify(w) PROVE Leaves
    BY <1>3, <2>5 DEF ReuseSteps, ExchangeRead, ExchangeGrant, ExchangeVerify
  <2>6. Leaves
    BY <1>6, <2>1, <2>2, <2>3, <2>4, <2>5 DEF ExchangeSession
  <2> QED BY <1>1, <1>2, <2>6, QuietStep
<1>7. CASE UseSession(w)
  <2>1. \A v \in Worker : job'[v] = job[v] \/ job'[v].at \notin ReuseSteps
    BY <1>3, <1>7 DEF ReuseSteps, UseSession, ReadProjection, RecheckSession, Rank,
       ReadProfile, SendFeedback, IngestFeedback
  <2> QED BY <1>1, <1>2, <2>1, QuietStep
<1> QED BY <1>4, <1>5, <1>6, <1>7

LEMMA OwnerActCovered ==
  ASSUME CoverInv, OwnerAct, UNCHANGED job
  PROVE  CoverInv'
<1>0. TypeOK /\ [Next]_vars
  BY DEF CoverInv, Next, Atomic
<1>1. PICK c \in Challenge :
        \/ \E r \in Request : \/ OwnerDenies(c, r)
                              \/ \E S \in SUBSET Scope, t \in GrantUntil : OwnerApproves(c, r, S, t)
        \/ \E g \in GrantId : OwnerRevokes(c, g)
        \/ \E p \in Profile : OwnerReads(c, p) \/ OwnerDeletes(c, p)
  BY DEF OwnerAct
<1>2. ASSUME NEW r \in Request, NEW S \in SUBSET Scope, NEW t \in GrantUntil,
             OwnerApproves(c, r, S, t)
      PROVE  CoverInv'
  <2> DEFINE signed == [action |-> "approve", request |-> r, scopes |-> S, until |-> t]
             d == [signed |-> signed, at |-> now]
             new == NewGrant("owner", S, IF t = None THEN now + GrantTTL ELSE t)
  <2>1. d \in decided'
    BY <1>2 DEF OwnerApproves, ProofAccepted, Decide
  <2>2. new.expires \in Nat /\ new.expires = ExpiryOf(d)
    BY <1>0 DEF NewGrant, ExpiryOf, Deadline, TypeOK, StoreTypeOK
  <2>3. CoveredBy(decided', r, new.scopes, new.expires)
    BY <2>1, <2>2 DEF CoveredBy, SameAsk, NewGrant
  <2>4. grant'[r] = new /\ \A q \in Request : q # r => grant'[q] = grant[q]
    BY <1>0, <1>2 DEF OwnerApproves, TypeOK, StoreTypeOK
  <2>5. \A q \in Request : GrantRowCovered(decided', q, grant'[q])
    BY <1>0, <2>3, <2>4, UndisturbedCovered DEF GrantRowCovered
  <2>6. \A v \in Worker : ThreadCovered(decided', job'[v])
    BY <1>0, UndisturbedCovered
  <2> QED BY <1>0, <2>5, <2>6, CoverParts, NextTypeOK DEF CoverInv
<1>3. ASSUME NEW r \in Request, OwnerDenies(c, r) PROVE CoverInv'
  BY <1>0, <1>3, QuietStep DEF OwnerDenies
<1>4. ASSUME NEW g \in GrantId, OwnerRevokes(c, g) PROVE CoverInv'
  <2>1. g[1] \in Request /\ grant[g[1]] \in GrantRow
    BY <1>0, <1>4 DEF OwnerRevokes, GrantId, TypeOK, StoreTypeOK
  <2>2. [grant[g[1]] EXCEPT !.revoked = TRUE, !.expires = now].revoked
    BY <2>1 DEF GrantRow
  <2>3. \A r \in Request : grant'[r] = grant[r] \/ grant'[r].revoked
    BY <1>0, <1>4, <2>1, <2>2 DEF OwnerRevokes, TypeOK, StoreTypeOK
  <2> QED BY <1>0, <2>3, QuietStep
<1>5. ASSUME NEW p \in Profile, OwnerReads(c, p) PROVE CoverInv'
  BY <1>0, <1>5, QuietStep DEF OwnerReads
<1>6. ASSUME NEW p \in Profile, OwnerDeletes(c, p) PROVE CoverInv'
  BY <1>0, <1>6, QuietStep DEF OwnerDeletes
<1> QED BY <1>1, <1>2, <1>3, <1>4, <1>5, <1>6

LEMMA NextCoverInv == CoverInv /\ [Next]_vars => CoverInv'
<1> SUFFICES ASSUME CoverInv, [Next]_vars PROVE CoverInv'
  OBVIOUS
<1>1. ASSUME NEW c \in Challenge, NEW p \in Profile,
             VerifyProof(c, p, [action |-> "profile", profile |-> p]), UNCHANGED job
      PROVE  CoverInv'
  BY <1>1, QuietStep DEF VerifyProof
<1>2. ASSUME NEW p \in Profile, Register(p), UNCHANGED job PROVE CoverInv'
  BY <1>2, QuietStep DEF Register
<1>3. ASSUME Tick PROVE CoverInv'
  BY <1>3, QuietStep DEF Tick, tables
<1>4. ASSUME UNCHANGED vars PROVE CoverInv'
  BY <1>4, QuietStep DEF vars, storeVars, tables
<1> QED
  BY <1>1, <1>2, <1>3, <1>4, CreateCovered, OtherHandlersCovered, OwnerActCovered
     DEF Next, Atomic

\* However many threads reuse stored grants, and whatever the owner revokes, denies or
\* deletes meanwhile, every grant that is not revoked gives no more, and lasts no
\* longer, than an approval the owner signed for the same site and purpose.
THEOREM GrantsAreCovered == Spec => []GrantCovered
<1>1. CoverInv => GrantCovered
  BY DEF CoverInv
<1> QED BY <1>1, InitCoverInv, NextCoverInv, PTL DEF Spec

\* The threads' half of the induction: what a reuse carries from one transaction to the
\* next is covered by such an approval.
THEOREM ReusesAreCovered == Spec => []ReuseCovered
<1>1. CoverInv => ReuseCovered
  BY DEF CoverInv
<1> QED BY <1>1, InitCoverInv, NextCoverInv, PTL DEF Spec

----------------------------------------------------------------------------
(* The threads of create_access_request *)

Early == {"insert-request", "find-grant", "reread-request", "reuse-grant"}
Chain == Early \cup {"tag-reuse"}

\* A status nobody can approve from by an owner action.
Settled == {"approved", "denied", "expired", "gone"}

OneCreator ==
  \A v, w \in Worker :
    job[v].at \in Chain /\ job[w].at \in Chain /\ job[v].request = job[w].request => v = w

InsertsNew == \A w \in Worker : At(w, "insert-request") => request[job[w].request] = "none"

CreatesKnown ==
  \A w \in Worker :
    job[w].at \in Chain \ {"insert-request"} => request[job[w].request] # "none"

TagsReuse ==
  \A w \in Worker : At(w, "tag-reuse") =>
    /\ job[w].row.by = "reuse" /\ ~job[w].row.revoked
    /\ job[w].row.scopes = Ask[job[w].request].requested
    /\ request[job[w].request] \in Settled

ChainInv ==
  TypeOK /\ OneCreator /\ InsertsNew /\ CreatesKnown /\ TagsReuse

\* A step by another handler, as far as creation is concerned.
OtherStep(w) ==
  /\ UNCHANGED <<now, registered, grant, decided>>
  /\ \A v \in Worker : v # w => job'[v] = job[v]
  /\ job'[w].at \notin Chain
  /\ \/ UNCHANGED request
     \/ /\ At(w, "expire") /\ SetStatus(job[w].request, "expired")
        /\ Expired(Ask[job[w].request].expires)

LEMMA OtherHandlersStep ==
  ASSUME TypeOK, NEW w \in Worker,
         Poll(w) \/ IssueChallenge(w) \/ ExchangeSession(w) \/ UseSession(w) \/ Fail(w)
  PROVE  OtherStep(w)
<1> USE DEF At, PicksUp, Goto, Done, Idle, storeVars, tables, Chain, Early, OtherStep
<1>0. job \in [Worker -> Job]
  BY DEF TypeOK
<1>1. CASE Poll(w) \/ Fail(w)
  BY <1>0, <1>1 DEF Poll, PollRequest, ExpireRequest, ExpireRow, Fail
<1>2. CASE IssueChallenge(w)
  <2>1. ASSUME NEW b \in OwnerBinding, OwnerChallenge(w, b) PROVE OtherStep(w)
    BY <1>0, <2>1 DEF OwnerChallenge
  <2>2. ASSUME NEW p \in Profile, ProfileChallenge(w, p) PROVE OtherStep(w)
    BY <1>0, <2>2 DEF ProfileChallenge
  <2>3. ASSUME CheckProfile(w) PROVE OtherStep(w)
    BY <1>0, <2>3 DEF CheckProfile
  <2>4. ASSUME NEW c \in Challenge, InsertChallenge(w, c) PROVE OtherStep(w)
    BY <1>0, <2>4 DEF InsertChallenge, InsertChallengeRow
  <2> QED BY <1>2, <2>1, <2>2, <2>3, <2>4 DEF IssueChallenge
<1>3. CASE ExchangeSession(w)
  <2>1. ASSUME NEW r \in Request, BeginExchange(w, r) PROVE OtherStep(w)
    BY <1>0, <2>1 DEF BeginExchange
  <2>2. ASSUME BeginRead(w) PROVE OtherStep(w)
    BY <1>0, <2>2 DEF BeginRead
  <2>3. ASSUME BeginGrant(w) PROVE OtherStep(w)
    BY <1>0, <2>3 DEF BeginGrant
  <2>4. ASSUME NEW r \in Request, NEW c \in Challenge, Exchange(w, r, c) PROVE OtherStep(w)
    BY <1>0, <2>4 DEF Exchange
  <2>5. ASSUME ExchangeRead(w) PROVE OtherStep(w)
    BY <1>0, <2>5 DEF ExchangeRead
  <2>6. ASSUME ExchangeGrant(w) PROVE OtherStep(w)
    BY <1>0, <2>6 DEF ExchangeGrant
  <2>7. ASSUME ExchangeVerify(w) PROVE OtherStep(w)
    BY <1>0, <2>7 DEF ExchangeVerify, VerifyProof
  <2>8. ASSUME NEW s \in Session, NEW t \in SessionUntil, InsertSession(w, s, t)
        PROVE  OtherStep(w)
    BY <1>0, <2>8 DEF InsertSession, InsertSessionRow
  <2> QED BY <1>3, <2>1, <2>2, <2>3, <2>4, <2>5, <2>6, <2>7, <2>8 DEF ExchangeSession
<1>4. CASE UseSession(w)
  <2>1. ASSUME NEW s \in Session, ReadProjection(w, s) \/ Rank(w, s) \/ SendFeedback(w, s)
        PROVE  OtherStep(w)
    BY <1>0, <2>1 DEF ReadProjection, Rank, SendFeedback
  <2>2. ASSUME RecheckSession(w) PROVE OtherStep(w)
    BY <1>0, <2>2 DEF RecheckSession
  <2>3. ASSUME ReadProfile(w) PROVE OtherStep(w)
    BY <1>0, <2>3 DEF ReadProfile
  <2>4. ASSUME NEW E \in SUBSET Event, IngestFeedback(w, E) PROVE OtherStep(w)
    BY <1>0, <2>4 DEF IngestFeedback, InsertFeedback
  <2> QED BY <1>4, <2>1, <2>2, <2>3, <2>4 DEF UseSession
<1> QED BY <1>1, <1>2, <1>3, <1>4

----------------------------------------------------------------------------
(* What one step does to requests, grants and the threads that create them *)

RequestStep ==
  \A r \in Request :
    \/ request'[r] = request[r]
    \/ /\ request[r] = "none"
       /\ \E w \in Worker : /\ At(w, "insert-request") /\ job[w].request = r
                            /\ job'[w].at = "find-grant"
    \/ request[r] # "none" /\ request'[r] \in Settled

\* Thread w starts to create a request that has not been inserted and that no other
\* thread is about to insert.
Starts(w) ==
  /\ job'[w].at = "insert-request"
  /\ request[job'[w].request] = "none" /\ request' = request
  /\ \A v \in Worker : At(v, "insert-request") => job[v].request # job'[w].request
  /\ \A v \in Worker : v # w => job'[v] = job[v]

\* Thread w goes on with the request it creates, up to the reuse of a grant.
GoesOn(w) ==
  /\ job[w].at \in Early /\ job'[w].at \in Early \ {"insert-request"}
  /\ job'[w].request = job[w].request
  /\ request'[job[w].request] # "none"

\* Thread w inserts the grant it reuses.
Reuses(w) ==
  LET r == job[w].request
      row == job'[w].row
  IN  /\ At(w, "reuse-grant") /\ job'[w].at = "tag-reuse" /\ job'[w].request = r
      /\ request'[r] \in Settled
      /\ grant[r] = None /\ grant'[r] = row
      /\ row = NewGrant("reuse", Ask[r].requested, job[w].expires)

ChainStep ==
  \A w \in Worker :
    job'[w].at \in Chain => job'[w] = job[w] \/ Starts(w) \/ GoesOn(w) \/ Reuses(w)

\* What a step may make of the grant of request r.
OwnerGrants(r) ==
  /\ grant[r] = None /\ request[r] = "pending" /\ request'[r] \in Settled
  /\ grant'[r] # None /\ grant'[r].by = "owner"

Retags(r) ==
  /\ grant[r] # None /\ grant[r].by = "reuse"
  /\ \E w \in Worker : At(w, "tag-reuse") /\ job[w].request = r /\ grant'[r] = job[w].row

Withdraws(r) ==
  /\ grant[r] # None
  /\ grant'[r] = [grant[r] EXCEPT !.revoked = TRUE, !.expires = now]

GrantStep ==
  \A r \in Request :
    \/ grant'[r] = grant[r] \/ grant'[r] = None
    \/ OwnerGrants(r) \/ Retags(r) \/ Withdraws(r)
    \/ \E w \in Worker : Reuses(w) /\ job[w].request = r

StoreStep == RequestStep /\ ChainStep /\ GrantStep

LEMMA QuietStoreStep ==
  ASSUME TypeOK, UNCHANGED grant, UNCHANGED job,
         \A r \in Request : request'[r] = request[r] \/ (request[r] # "none" /\ request'[r] \in Settled)
  PROVE  StoreStep
  BY DEF StoreStep, RequestStep, ChainStep, GrantStep

LEMMA OtherStoreStep ==
  ASSUME TypeOK, NEW w \in Worker, OtherStep(w)
  PROVE  StoreStep
<1>1. RequestStep
  BY DEF OtherStep, RequestStep, SetStatus, RequestRow, Known, Settled, TypeOK, StoreTypeOK
<1>2. ChainStep
  BY DEF OtherStep, ChainStep
<1> QED BY <1>1, <1>2 DEF StoreStep, OtherStep, GrantStep

LEMMA CreateStoreStep ==
  ASSUME ChainInv, NEW w \in Worker, Create(w)
  PROVE  StoreStep
<1> USE DEF At, Goto, Done, Idle, Early, Chain
<1>0. TypeOK /\ job \in [Worker -> Job] /\ now \in Nat
  BY DEF ChainInv, TypeOK, StoreTypeOK
<1>1. ASSUME NEW r \in Request, CreateRequest(w, r) PROVE StoreStep
  <2>1. /\ UNCHANGED <<now, request, grant>>
        /\ job'[w] = [at |-> "insert-request", request |-> r]
        /\ \A v \in Worker : v # w => job'[v] = job[v]
    BY <1>0, <1>1 DEF CreateRequest, storeVars, tables
  <2>2. Starts(w)
    BY <1>1, <2>1 DEF CreateRequest, Starts
  <2> QED BY <1>0, <2>1, <2>2 DEF StoreStep, RequestStep, ChainStep, GrantStep
<1>2. ASSUME InsertRequest(w) PROVE StoreStep
  <2> DEFINE r == job[w].request
  <2>1. /\ r \in Request /\ request[r] = "none" /\ request'[r] = "pending"
        /\ \A q \in Request : q # r => request'[q] = request[q]
    BY <1>0, <1>2 DEF ChainInv, InsertsNew, InsertRequest, InsertRequestRow, Job, TypeOK,
       StoreTypeOK
  <2>2. /\ UNCHANGED <<now, grant>>
        /\ job'[w] = [at |-> "find-grant", request |-> r]
        /\ \A v \in Worker : v # w => job'[v] = job[v]
    BY <1>0, <1>2 DEF InsertRequest, InsertRequestRow
  <2>3. GoesOn(w)
    BY <1>2, <2>1, <2>2 DEF GoesOn, InsertRequest
  <2>4. RequestStep
    BY <1>2, <2>1, <2>2 DEF RequestStep, InsertRequest
  <2> QED BY <1>0, <2>2, <2>3, <2>4 DEF StoreStep, ChainStep, GrantStep
<1>3. ASSUME FindGrant(w) \/ RereadRequest(w) PROVE StoreStep
  <2>1. UNCHANGED <<now, request, grant>> /\ \A v \in Worker : v # w => job'[v] = job[v]
    BY <1>0, <1>3 DEF FindGrant, RereadRequest, storeVars, tables
  <2>2. request[job[w].request] # "none"
    BY <1>3 DEF ChainInv, CreatesKnown, FindGrant, RereadRequest
  <2>3. job'[w].at \in Chain => GoesOn(w)
    BY <1>0, <1>3, <2>1, <2>2 DEF GoesOn, FindGrant, RereadRequest
  <2> QED BY <1>0, <2>1, <2>3 DEF StoreStep, RequestStep, ChainStep, GrantStep
<1>4. ASSUME ApproveReuse(w) PROVE StoreStep
  <2> DEFINE r == job[w].request
  <2>1. r \in Request /\ request[r] # "none"
    BY <1>0, <1>4 DEF ApproveReuse, Job, ChainInv, CreatesKnown
  <2>2. /\ request'[r] \in Settled
        /\ \A q \in Request : q # r => request'[q] = request[q] /\ grant'[q] = grant[q]
    BY <1>0, <1>4, <2>1 DEF ApproveReuse, ReuseGrant, SetStatus, RequestRow, Known, Settled,
       TypeOK, StoreTypeOK, Status
  <2>3. /\ UNCHANGED now
        /\ job'[w] = [at |-> "tag-reuse", request |-> r,
                      row |-> NewGrant("reuse", Ask[r].requested, job[w].expires)]
        /\ \A v \in Worker : v # w => job'[v] = job[v]
    BY <1>0, <1>4 DEF ApproveReuse, ReuseGrant
  <2>4. grant[r] = None /\ grant'[r] = job'[w].row
    BY <1>0, <1>4, <2>1, <2>3 DEF ApproveReuse, ReuseGrant, TypeOK, StoreTypeOK
  <2>5. Reuses(w)
    BY <1>4, <2>2, <2>3, <2>4 DEF Reuses, ApproveReuse
  <2> QED
    BY <1>0, <2>1, <2>2, <2>3, <2>5 DEF StoreStep, RequestStep, ChainStep, GrantStep
<1>5. ASSUME TagReusedGrant(w) PROVE StoreStep
  <2> DEFINE r == job[w].request
  <2>1. r \in Request /\ request[r] # "none"
    BY <1>0, <1>5 DEF TagReusedGrant, Job, ChainInv, CreatesKnown
  <2>2. /\ \A q \in Request : request'[q] = request[q]
                                \/ (request[q] # "none" /\ request'[q] \in Settled)
        /\ \A q \in Request : q # r => grant'[q] = grant[q]
        /\ grant'[r] = grant[r] \/ (grant[r] # None /\ grant[r].by = "reuse" /\ grant'[r] = job[w].row)
    BY <1>0, <1>5, <2>1 DEF TagReusedGrant, TagReuse, SetStatus, Settled, TypeOK, StoreTypeOK
  <2>3. /\ UNCHANGED now
        /\ job'[w].at = "idle"
        /\ \A v \in Worker : v # w => job'[v] = job[v]
    BY <1>0, <1>5 DEF TagReusedGrant, TagReuse
  <2>4. GrantStep
    BY <1>5, <2>1, <2>2 DEF GrantStep, Retags, TagReusedGrant
  <2> QED BY <1>0, <2>2, <2>3, <2>4 DEF StoreStep, RequestStep, ChainStep
<1> QED BY <1>1, <1>2, <1>3, <1>4, <1>5 DEF Create

LEMMA OwnerActStoreStep ==
  ASSUME TypeOK, OwnerAct, UNCHANGED job
  PROVE  StoreStep
<1>0. now \in Nat /\ request \in [Request -> Status] /\ grant \in [Request -> GrantRow \cup {None}]
  BY DEF TypeOK, StoreTypeOK
<1>1. PICK c \in Challenge :
        \/ \E r \in Request : \/ OwnerDenies(c, r)
                              \/ \E S \in SUBSET Scope, t \in GrantUntil : OwnerApproves(c, r, S, t)
        \/ \E g \in GrantId : OwnerRevokes(c, g)
        \/ \E p \in Profile : OwnerReads(c, p) \/ OwnerDeletes(c, p)
  BY DEF OwnerAct
<1>2. ASSUME NEW r \in Request, OwnerDenies(c, r) PROVE StoreStep
  <2>1. UNCHANGED <<now, grant>> /\ \A q \in Request :
          request'[q] = request[q] \/ (request[q] # "none" /\ request'[q] \in Settled)
    BY <1>0, <1>2 DEF OwnerDenies, SetStatus, Settled
  <2> QED BY <1>0, <2>1, QuietStoreStep
<1>3. ASSUME NEW r \in Request, NEW S \in SUBSET Scope, NEW t \in GrantUntil,
             OwnerApproves(c, r, S, t)
      PROVE  StoreStep
  <2> DEFINE new == NewGrant("owner", S, IF t = None THEN now + GrantTTL ELSE t)
  <2>1. /\ request[r] = "pending" /\ request'[r] = "approved" /\ UNCHANGED now
        /\ \A q \in Request : q # r => request'[q] = request[q] /\ grant'[q] = grant[q]
    BY <1>0, <1>3 DEF OwnerApproves, Approvable, SetStatus
  <2>2. grant[r] = None /\ grant'[r] = new
    BY <1>0, <1>3 DEF OwnerApproves
  <2>3. new # None /\ new.by = "owner"
    <3>1. new \in GrantRow
      BY <1>0 DEF NewGrant, GrantRow, Deadline
    <3> QED BY <3>1, SentinelAssumption DEF NewGrant
  <2>4. OwnerGrants(r)
    BY <2>1, <2>2, <2>3 DEF OwnerGrants, Settled
  <2> QED
    BY <1>0, <2>1, <2>4 DEF StoreStep, RequestStep, ChainStep, GrantStep, Settled
<1>4. ASSUME NEW g \in GrantId, OwnerRevokes(c, g) PROVE StoreStep
  <2>1. /\ g[1] \in Request /\ UNCHANGED <<now, request>> /\ Withdraws(g[1])
        /\ \A q \in Request : q # g[1] => grant'[q] = grant[q]
    BY <1>0, <1>4 DEF OwnerRevokes, GrantId, Withdraws
  <2> QED BY <1>0, <2>1 DEF StoreStep, RequestStep, ChainStep, GrantStep
<1>5. ASSUME NEW p \in Profile, OwnerReads(c, p) PROVE StoreStep
  BY <1>0, <1>5, QuietStoreStep DEF OwnerReads
<1>6. ASSUME NEW p \in Profile, OwnerDeletes(c, p) PROVE StoreStep
  <2>1. /\ UNCHANGED now
        /\ \A q \in Request : grant'[q] = grant[q] \/ grant'[q] = None
        /\ \A q \in Request : request'[q] = request[q]
                                \/ (request[q] # "none" /\ request'[q] \in Settled)
    BY <1>0, <1>6 DEF OwnerDeletes, RequestRow, Known, Settled
  <2> QED BY <1>0, <2>1 DEF StoreStep, RequestStep, ChainStep, GrantStep
<1> QED BY <1>1, <1>2, <1>3, <1>4, <1>5, <1>6

LEMMA NextStoreStep == ChainInv /\ [Next]_vars => StoreStep
<1> SUFFICES ASSUME ChainInv, [Next]_vars PROVE StoreStep
  OBVIOUS
<1>0. TypeOK /\ now \in Nat
  BY DEF ChainInv, TypeOK, StoreTypeOK
<1>1. ASSUME NEW c \in Challenge, NEW p \in Profile,
             VerifyProof(c, p, [action |-> "profile", profile |-> p]), UNCHANGED job
      PROVE  StoreStep
  BY <1>0, <1>1, QuietStoreStep DEF VerifyProof
<1>2. ASSUME NEW p \in Profile, Register(p), UNCHANGED job PROVE StoreStep
  BY <1>0, <1>2, QuietStoreStep DEF Register
<1>3. ASSUME Tick PROVE StoreStep
  BY <1>0, <1>3, QuietStoreStep DEF Tick, tables
<1>4. ASSUME UNCHANGED vars PROVE StoreStep
  BY <1>0, <1>4, QuietStoreStep DEF vars, storeVars, tables
<1> QED
  BY <1>0, <1>1, <1>2, <1>3, <1>4, CreateStoreStep, OtherHandlersStep, OtherStoreStep,
     OwnerActStoreStep DEF Next, Atomic

LEMMA InitChainInv == Init => ChainInv
  BY InitTypeOK DEF Init, Idle, ChainInv, OneCreator, InsertsNew, CreatesKnown, TagsReuse,
     Chain, Early, At

LEMMA NextChainInv == ChainInv /\ [Next]_vars => ChainInv'
<1> SUFFICES ASSUME ChainInv, [Next]_vars PROVE ChainInv'
  OBVIOUS
<1>0. TypeOK' /\ RequestStep /\ ChainStep /\ job \in [Worker -> Job]
  BY NextTypeOK, NextStoreStep DEF ChainInv, StoreStep, TypeOK
<1>1. OneCreator'
  <2> SUFFICES ASSUME NEW v \in Worker, NEW w \in Worker, v # w,
                      job'[v].at \in Chain, job'[w].at \in Chain,
                      job'[v].request = job'[w].request
               PROVE  FALSE
    BY DEF OneCreator
  <2>1. ASSUME NEW x \in Worker, NEW y \in Worker, x # y, Starts(x),
               job'[y].at \in Chain, job'[x].request = job'[y].request
        PROVE  FALSE
    BY <2>1 DEF Starts, ChainInv, CreatesKnown, At
  <2>2. ASSUME NEW x \in Worker, job'[x].at \in Chain, ~Starts(x)
        PROVE  job[x].at \in Chain /\ job'[x].request = job[x].request
    BY <1>0, <2>2 DEF ChainStep, GoesOn, Reuses, Chain, Early, At
  <2>3. ~Starts(v) /\ ~Starts(w)
    BY <2>1
  <2>4. job[v].request = job[w].request
    BY <2>2, <2>3
  <2>5. OneCreator
    BY DEF ChainInv
  <2> QED BY <2>2, <2>3, <2>4, <2>5 DEF OneCreator
<1>2. InsertsNew'
  <2> SUFFICES ASSUME NEW w \in Worker, job'[w].at = "insert-request"
               PROVE  request'[job'[w].request] = "none"
    BY DEF InsertsNew, At
  <2>1. job'[w] = job[w] \/ Starts(w)
    BY <1>0 DEF ChainStep, Chain, Early, GoesOn, Reuses
  <2>2. CASE Starts(w)
    BY <2>2 DEF Starts
  <2>3. CASE job'[w] = job[w]
    <3>1. At(w, "insert-request") /\ job[w].request \in Request
      BY <1>0, <2>3 DEF At, Job
    <3>2. request[job[w].request] = "none"
      BY <3>1 DEF ChainInv, InsertsNew
    <3>3. ASSUME NEW v \in Worker, At(v, "insert-request"), job[v].request = job[w].request
          PROVE  v = w
      BY <3>1, <3>3 DEF ChainInv, OneCreator, At, Chain, Early
    <3> QED BY <1>0, <2>3, <3>1, <3>2, <3>3 DEF RequestStep, At
  <2> QED BY <2>1, <2>2, <2>3
<1>3. \A r \in Request : /\ request[r] # "none" => request'[r] # "none"
                         /\ request[r] \in Settled => request'[r] \in Settled
  BY <1>0 DEF RequestStep, Settled
<1>4. CreatesKnown'
  <2> SUFFICES ASSUME NEW w \in Worker, job'[w].at \in Chain \ {"insert-request"}
               PROVE  request'[job'[w].request] # "none"
    BY DEF CreatesKnown
  <2>1. job'[w] = job[w] \/ GoesOn(w) \/ Reuses(w)
    BY <1>0 DEF ChainStep, Starts
  <2>2. CASE job'[w] = job[w]
    <3>1. job[w].request \in Request
      BY <1>0, <2>2 DEF Job, Chain, Early
    <3> QED BY <1>3, <2>2, <3>1 DEF ChainInv, CreatesKnown
  <2> QED BY <2>1, <2>2 DEF GoesOn, Reuses, Settled
<1>5. TagsReuse'
  <2> SUFFICES ASSUME NEW w \in Worker, job'[w].at = "tag-reuse"
               PROVE  /\ job'[w].row.by = "reuse" /\ ~job'[w].row.revoked
                      /\ job'[w].row.scopes = Ask[job'[w].request].requested
                      /\ request'[job'[w].request] \in Settled
    BY DEF TagsReuse, At
  <2>1. job'[w] = job[w] \/ Reuses(w)
    BY <1>0 DEF ChainStep, Starts, GoesOn, Chain, Early
  <2>2. CASE job'[w] = job[w]
    <3>1. At(w, "tag-reuse") /\ job[w].request \in Request
      BY <1>0, <2>2 DEF Job, At
    <3> QED BY <1>3, <2>2, <3>1 DEF ChainInv, TagsReuse
  <2>3. CASE Reuses(w)
    BY <2>3 DEF Reuses, NewGrant
  <2> QED BY <2>1, <2>2, <2>3
<1> QED BY <1>0, <1>1, <1>2, <1>4, <1>5 DEF ChainInv

----------------------------------------------------------------------------
(* What one step does to challenges, sessions and the exchanges under way *)

Carrying == {"exchange-verify", "insert-session"}

\* Thread w reads the live grant that its exchange will be about.
Picks(w) ==
  /\ job'[w].at = "exchange-verify" /\ UNCHANGED <<grant, request>>
  /\ \E r \in Request : /\ GrantLive(r)
                        /\ job'[w].grant = <<r, grant[r].by>>
                        /\ job'[w].scopes = grant[r].scopes

Spends(c) == /\ Row(challenge[c]) /\ ~challenge[c].used
             /\ challenge'[c] = [challenge[c] EXCEPT !.used = TRUE]

\* Thread w spends the proof of its exchange.
Proves(w) ==
  LET g == job[w].grant
      c == job[w].proof
  IN  /\ At(w, "exchange-verify")
      /\ job'[w] = [at |-> "insert-session", grant |-> g, scopes |-> job[w].scopes, proof |-> c]
      /\ ProfileOf(g) \in registered /\ UNCHANGED registered
      /\ Spends(c) /\ challenge[c].binding = [action |-> "exchange", grant |-> g]
      /\ \A v \in Worker : v # w => job'[v] = job[v]
      /\ UNCHANGED session

CarryStep ==
  \A w \in Worker : job'[w].at \in Carrying => job'[w] = job[w] \/ Picks(w) \/ Proves(w)

\* Thread w inserts session s.
Mints(w, s) ==
  /\ At(w, "insert-session") /\ job'[w].at = "idle"
  /\ session'[s].grant = job[w].grant /\ session'[s].scopes = job[w].scopes
  /\ session'[s].proof = job[w].proof
  /\ \A t \in Session : t # s => session'[t] = session[t]

SessionStep ==
  \A s \in Session :
    session'[s] = session[s] \/ session'[s] = Gone \/ \E w \in Worker : Mints(w, s)

ChallengeStep ==
  \A c \in Challenge :
    challenge'[c] = challenge[c] \/ challenge[c] = None \/ challenge'[c] = Gone \/ Spends(c)

RegisteredStep ==
  \A p \in registered \ registered' :
    \A r \in Request : Ask[r].profile = p => grant'[r] = None

Joins(g) == grant[g[1]] # None /\ grant[g[1]].by = g[2]

DecidedStep ==
  \A d \in decided' \ decided : d.signed.action = "revoke" =>
    LET g == d.signed.grant IN Joins(g) /\ grant'[g[1]] = [grant[g[1]] EXCEPT !.revoked = TRUE, !.expires = now]

UseStep == CarryStep /\ SessionStep /\ ChallengeStep /\ RegisteredStep /\ DecidedStep

LEMMA QuietUseStep ==
  ASSUME UNCHANGED <<registered, session, decided>>, ChallengeStep,
         \A w \in Worker : job'[w] = job[w] \/ job'[w].at \notin Carrying
  PROVE  UseStep
  BY DEF UseStep, CarryStep, SessionStep, RegisteredStep, DecidedStep

LEMMA CreateUseStep ==
  ASSUME TypeOK, NEW w \in Worker, Create(w) \/ Poll(w) \/ Fail(w)
  PROVE  UseStep
<1> USE DEF At, PicksUp, Goto, Done, Idle, storeVars, tables, Carrying
<1>0. job \in [Worker -> Job]
  BY DEF TypeOK
<1>1. CASE Poll(w) \/ Fail(w)
  BY <1>0, <1>1, QuietUseStep DEF Poll, PollRequest, ExpireRequest, ExpireRow, Fail, ChallengeStep
<1>2. ASSUME NEW r \in Request, CreateRequest(w, r) PROVE UseStep
  BY <1>0, <1>2, QuietUseStep DEF CreateRequest, ChallengeStep
<1>3. CASE InsertRequest(w)
  BY <1>0, <1>3, QuietUseStep DEF InsertRequest, InsertRequestRow, ChallengeStep
<1>4. CASE FindGrant(w)
  BY <1>0, <1>4, QuietUseStep DEF FindGrant, ChallengeStep
<1>5. CASE RereadRequest(w)
  BY <1>0, <1>5, QuietUseStep DEF RereadRequest, ChallengeStep
<1>6. CASE ApproveReuse(w)
  BY <1>0, <1>6, QuietUseStep DEF ApproveReuse, ReuseGrant, ChallengeStep
<1>7. CASE TagReusedGrant(w)
  BY <1>0, <1>7, QuietUseStep DEF TagReusedGrant, TagReuse, ChallengeStep
<1> QED BY <1>1, <1>2, <1>3, <1>4, <1>5, <1>6, <1>7 DEF Create

LEMMA IssueUseStep ==
  ASSUME TypeOK, NEW w \in Worker, IssueChallenge(w)
  PROVE  UseStep
<1> USE DEF At, PicksUp, Goto, Done, Idle, storeVars, tables, Carrying
<1>0. job \in [Worker -> Job] /\ challenge \in [Challenge -> ChallengeRow \cup {None, Gone}]
  BY DEF TypeOK, StoreTypeOK
<1>1. ASSUME NEW b \in OwnerBinding, OwnerChallenge(w, b) PROVE UseStep
  BY <1>0, <1>1, QuietUseStep DEF OwnerChallenge, ChallengeStep
<1>2. ASSUME NEW p \in Profile, ProfileChallenge(w, p) PROVE UseStep
  BY <1>0, <1>2, QuietUseStep DEF ProfileChallenge, ChallengeStep
<1>3. CASE CheckProfile(w)
  BY <1>0, <1>3, QuietUseStep DEF CheckProfile, ChallengeStep
<1>4. ASSUME NEW c \in Challenge, InsertChallenge(w, c) PROVE UseStep
  <2>1. ChallengeStep
    BY <1>0, <1>4 DEF InsertChallenge, InsertChallengeRow, ChallengeStep
  <2> QED BY <1>0, <1>4, <2>1, QuietUseStep DEF InsertChallenge, InsertChallengeRow
<1> QED BY <1>1, <1>2, <1>3, <1>4 DEF IssueChallenge

LEMMA UseSessionUseStep ==
  ASSUME TypeOK, NEW w \in Worker, UseSession(w)
  PROVE  UseStep
<1> USE DEF At, PicksUp, Goto, Done, Idle, storeVars, tables, Carrying
<1>0. job \in [Worker -> Job]
  BY DEF TypeOK
<1>1. ASSUME NEW s \in Session, ReadProjection(w, s) \/ Rank(w, s) \/ SendFeedback(w, s)
      PROVE  UseStep
  BY <1>0, <1>1, QuietUseStep DEF ReadProjection, Rank, SendFeedback, ChallengeStep
<1>2. CASE RecheckSession(w)
  BY <1>0, <1>2, QuietUseStep DEF RecheckSession, ChallengeStep
<1>3. CASE ReadProfile(w)
  BY <1>0, <1>3, QuietUseStep DEF ReadProfile, ChallengeStep
<1>4. ASSUME NEW E \in SUBSET Event, IngestFeedback(w, E) PROVE UseStep
  BY <1>0, <1>4, QuietUseStep DEF IngestFeedback, InsertFeedback, ChallengeStep
<1> QED BY <1>1, <1>2, <1>3, <1>4 DEF UseSession

LEMMA ExchangeUseStep ==
  ASSUME TypeOK, NEW w \in Worker, ExchangeSession(w)
  PROVE  UseStep
<1> USE DEF At, PicksUp, Goto, Done, Idle, storeVars, tables, Carrying
<1>0. job \in [Worker -> Job] /\ challenge \in [Challenge -> ChallengeRow \cup {None, Gone}]
  BY DEF TypeOK, StoreTypeOK
<1>1. ASSUME NEW r \in Request, BeginExchange(w, r) PROVE UseStep
  BY <1>0, <1>1, QuietUseStep DEF BeginExchange, ChallengeStep
<1>2. CASE BeginRead(w)
  BY <1>0, <1>2, QuietUseStep DEF BeginRead, ChallengeStep
<1>3. CASE BeginGrant(w)
  BY <1>0, <1>3, QuietUseStep DEF BeginGrant, ChallengeStep
<1>4. ASSUME NEW r \in Request, NEW c \in Challenge, Exchange(w, r, c) PROVE UseStep
  BY <1>0, <1>4, QuietUseStep DEF Exchange, ChallengeStep
<1>5. CASE ExchangeRead(w)
  BY <1>0, <1>5, QuietUseStep DEF ExchangeRead, ChallengeStep
<1>6. CASE ExchangeGrant(w)
  <2> DEFINE r == job[w].request
  <2>1. r \in Request /\ \A v \in Worker : v # w => job'[v] = job[v]
    BY <1>0, <1>6 DEF ExchangeGrant, Job
  <2>2. job'[w].at \in Carrying => Picks(w)
    BY <1>0, <1>6, <2>1 DEF ExchangeGrant, Picks
  <2> QED
    BY <1>6, <2>1, <2>2 DEF ExchangeGrant, UseStep, CarryStep, SessionStep, ChallengeStep,
       RegisteredStep, DecidedStep
<1>7. CASE ExchangeVerify(w)
  <2> DEFINE c == job[w].proof
  <2>1. c \in Challenge /\ \A v \in Worker : v # w => job'[v] = job[v]
    BY <1>0, <1>7 DEF ExchangeVerify, Job
  <2>2. Spends(c) /\ \A d \in Challenge : d # c => challenge'[d] = challenge[d]
    BY <1>0, <1>7, <2>1 DEF ExchangeVerify, VerifyProof, ProofAccepted, Spend, Spends
  <2>3. Proves(w)
    BY <1>0, <1>7, <2>1, <2>2 DEF ExchangeVerify, VerifyProof, ProofAccepted, Proves
  <2>4. ChallengeStep
    BY <2>2 DEF ChallengeStep
  <2> QED
    BY <1>7, <2>1, <2>3, <2>4 DEF ExchangeVerify, VerifyProof, UseStep, CarryStep, SessionStep,
       RegisteredStep, DecidedStep
<1>8. ASSUME NEW s \in Session, NEW t \in SessionUntil, InsertSession(w, s, t) PROVE UseStep
  <2>1. job'[w].at = "idle" /\ \A v \in Worker : v # w => job'[v] = job[v]
    BY <1>0, <1>8 DEF InsertSession
  <2>2. Mints(w, s)
    BY <1>8, <2>1 DEF InsertSession, InsertSessionRow, Mints, TypeOK, StoreTypeOK
  <2>3. SessionStep
    BY <2>2 DEF SessionStep, Mints
  <2> QED
    BY <1>8, <2>1, <2>3 DEF InsertSession, InsertSessionRow, UseStep, CarryStep, ChallengeStep,
       RegisteredStep, DecidedStep
<1> QED BY <1>1, <1>2, <1>3, <1>4, <1>5, <1>6, <1>7, <1>8 DEF ExchangeSession

LEMMA OwnerActUseStep ==
  ASSUME TypeOK, OwnerAct, UNCHANGED job
  PROVE  UseStep
<1>0. challenge \in [Challenge -> ChallengeRow \cup {None, Gone}]
  BY DEF TypeOK, StoreTypeOK
<1>1. PICK c \in Challenge :
        \/ \E r \in Request : \/ OwnerDenies(c, r)
                              \/ \E S \in SUBSET Scope, t \in GrantUntil : OwnerApproves(c, r, S, t)
        \/ \E g \in GrantId : OwnerRevokes(c, g)
        \/ \E p \in Profile : OwnerReads(c, p) \/ OwnerDeletes(c, p)
  BY DEF OwnerAct
<1>2. CarryStep
  BY DEF CarryStep
<1>3. ASSUME Row(challenge[c]), ~challenge[c].used, Spend(c) PROVE ChallengeStep
  BY <1>0, <1>3 DEF Spend, Spends, ChallengeStep
<1>4. ASSUME Decide(c), challenge[c].binding.action # "revoke" PROVE DecidedStep
  BY <1>4 DEF Decide, DecidedStep
<1>5. ASSUME NEW r \in Request, OwnerDenies(c, r) PROVE UseStep
  BY <1>2, <1>3, <1>4, <1>5 DEF OwnerDenies, ProofAccepted, UseStep, SessionStep, RegisteredStep
<1>6. ASSUME NEW r \in Request, NEW S \in SUBSET Scope, NEW t \in GrantUntil,
             OwnerApproves(c, r, S, t)
      PROVE  UseStep
  BY <1>2, <1>3, <1>4, <1>6 DEF OwnerApproves, ProofAccepted, UseStep, SessionStep, RegisteredStep
<1>7. ASSUME NEW g \in GrantId, OwnerRevokes(c, g) PROVE UseStep
  <2>1. g[1] \in Request /\ Joins(g)
        /\ grant'[g[1]] = [grant[g[1]] EXCEPT !.revoked = TRUE, !.expires = now]
    BY <1>7 DEF OwnerRevokes, GrantId, Joins, TypeOK, StoreTypeOK
  <2>2. challenge[c].binding = [action |-> "revoke", grant |-> g] /\ Decide(c)
    BY <1>7 DEF OwnerRevokes, ProofAccepted
  <2>3. \A d \in decided' \ decided : d.signed.grant = g
    BY <2>2 DEF Decide
  <2>4. DecidedStep
    BY <2>1, <2>3 DEF DecidedStep, Joins
  <2> QED
    BY <1>2, <1>3, <1>7, <2>4 DEF OwnerRevokes, ProofAccepted, UseStep, SessionStep, RegisteredStep
<1>8. ASSUME NEW p \in Profile, OwnerReads(c, p) PROVE UseStep
  BY <1>2, <1>3, <1>4, <1>8 DEF OwnerReads, ProofAccepted, UseStep, SessionStep, RegisteredStep
<1>9. ASSUME NEW p \in Profile, OwnerDeletes(c, p) PROVE UseStep
  <2>1. ChallengeStep /\ SessionStep
    BY <1>0, <1>9 DEF OwnerDeletes, ChallengeStep, SessionStep, TypeOK, StoreTypeOK
  <2>2. RegisteredStep
    BY <1>9 DEF OwnerDeletes, RegisteredStep
  <2>3. DecidedStep
    BY <1>4, <1>9 DEF OwnerDeletes, ProofAccepted
  <2> QED BY <1>2, <2>1, <2>2, <2>3 DEF UseStep
<1> QED BY <1>1, <1>5, <1>6, <1>7, <1>8, <1>9

LEMMA NextUseStep == TypeOK /\ [Next]_vars => UseStep
<1> SUFFICES ASSUME TypeOK, [Next]_vars PROVE UseStep
  OBVIOUS
<1>1. ASSUME NEW c \in Challenge, NEW p \in Profile,
             VerifyProof(c, p, [action |-> "profile", profile |-> p]), UNCHANGED job
      PROVE  UseStep
  <2>1. ChallengeStep
    BY <1>1 DEF VerifyProof, ProofAccepted, Spend, Spends, ChallengeStep, TypeOK, StoreTypeOK
  <2> QED BY <1>1, <2>1, QuietUseStep DEF VerifyProof
<1>2. ASSUME NEW p \in Profile, Register(p), UNCHANGED job PROVE UseStep
  BY <1>2 DEF Register, UseStep, CarryStep, SessionStep, ChallengeStep, RegisteredStep, DecidedStep
<1>3. ASSUME Tick PROVE UseStep
  BY <1>3, QuietUseStep DEF Tick, tables, ChallengeStep
<1>4. ASSUME UNCHANGED vars PROVE UseStep
  BY <1>4, QuietUseStep DEF vars, storeVars, tables, ChallengeStep
<1> QED
  BY <1>1, <1>2, <1>3, <1>4, CreateUseStep, IssueUseStep, UseSessionUseStep, ExchangeUseStep,
     OwnerActUseStep DEF Next, Atomic

----------------------------------------------------------------------------
(* What names a grant.  A grant's id names one row for good: an owner grant is *)
(* only inserted for a pending request, and a reuse grant only by the thread   *)
(* that created the request, and neither comes back.                           *)

\* No grant will be inserted any more under the id g.
Closed(g) ==
  /\ request[g[1]] # "none"
  /\ g[2] = "owner" => request[g[1]] \in Settled
  /\ g[2] = "reuse" => \A w \in Worker : job[w].at \in Early => job[w].request # g[1]

GrantsClosed ==
  \A r \in Request : grant[r] # None =>
    /\ Closed(<<r, grant[r].by>>)
    /\ grant[r].by = "reuse" => grant[r].scopes = Ask[r].requested

\* A session or an exchange for the scopes S of the grant g.
Named(g, S) == Closed(g) /\ (Joins(g) => S \subseteq grant[g[1]].scopes)

\* While the grant is there, its profile is.
Rooted(g) == Joins(g) => ProfileOf(g) \in registered

ExchangesNamed ==
  \A w \in Worker :
    /\ job[w].at \in Carrying => Named(job[w].grant, job[w].scopes)
    /\ At(w, "insert-session") => Rooted(job[w].grant)

SessionsNamed ==
  \A s \in Session : Row(session[s]) =>
    Named(session[s].grant, session[s].scopes) /\ Rooted(session[s].grant)

\* What the owner revoked stays revoked while it is there.
RevokedStays ==
  \A r \in Request : Revoked(<<r, "owner">>) =>
    Closed(<<r, "owner">>) /\ (Joins(<<r, "owner">>) => grant[r].revoked)

\* What a reuse is about to write back is what it inserted, revocation aside.
RetagsSame ==
  \A w \in Worker : At(w, "tag-reuse") =>
    LET g == grant[job[w].request]
    IN  g # None => g.by = "reuse" /\ (~g.revoked => g.expires = job[w].row.expires)

NameInv ==
  ChainInv /\ GrantsClosed /\ ExchangesNamed /\ SessionsNamed /\ RevokedStays /\ RetagsSame

LEMMA InitNameInv == Init => NameInv
<1> SUFFICES ASSUME Init PROVE NameInv
  OBVIOUS
<1>1. ChainInv
  BY InitChainInv
<1>2. GrantsClosed
  BY DEF Init, StoreInit, GrantsClosed
<1>3. ExchangesNamed /\ RetagsSame
  BY DEF Init, ExchangesNamed, RetagsSame, Carrying, At, Idle
<1>4. SessionsNamed
  BY DEF Init, StoreInit, SessionsNamed, Row
<1>5. RevokedStays
  BY DEF Init, StoreInit, RevokedStays, Revoked
<1> QED BY <1>1, <1>2, <1>3, <1>4, <1>5 DEF NameInv

LEMMA ClosedStays ==
  ASSUME ChainInv, [Next]_vars, NEW g \in GrantId, Closed(g)
  PROVE  Closed(g)'
<1>1. RequestStep /\ ChainStep /\ g[1] \in Request
  BY NextStoreStep DEF StoreStep, GrantId
<1>2. request'[g[1]] # "none" /\ (g[2] = "owner" => request'[g[1]] \in Settled)
  BY <1>1 DEF RequestStep, Closed, Settled
<1>3. ASSUME g[2] = "reuse", NEW w \in Worker, job'[w].at \in Early, job'[w].request = g[1]
      PROVE  FALSE
  <2>1. job'[w] = job[w] \/ Starts(w) \/ GoesOn(w)
    BY <1>1, <1>3 DEF ChainStep, Chain, Early, Reuses
  <2> QED BY <1>3, <2>1 DEF Closed, Starts, GoesOn
<1> QED BY <1>2, <1>3 DEF Closed

\* A grant that an id names after a step is the one it named before.
LEMMA JoinsStays ==
  ASSUME NameInv, [Next]_vars, NEW g \in GrantId, Closed(g), Joins(g)'
  PROVE  /\ Joins(g) /\ grant'[g[1]].scopes = grant[g[1]].scopes
         /\ g[2] = "owner" /\ grant[g[1]].revoked => grant'[g[1]].revoked
<1> DEFINE r == g[1]
<1>1. GrantStep /\ r \in Request /\ g[2] \in {"owner", "reuse"} /\ grant'[r] # None /\ grant'[r].by = g[2]
  BY NextStoreStep DEF NameInv, StoreStep, GrantId, Joins
<1>2. CASE grant'[r] = grant[r]
  BY <1>1, <1>2 DEF Joins
<1>3. CASE OwnerGrants(r)
  BY <1>1, <1>3 DEF OwnerGrants, Closed, Settled
<1>4. CASE Retags(r)
  <2>1. PICK w \in Worker : At(w, "tag-reuse") /\ job[w].request = r /\ grant'[r] = job[w].row
    BY <1>4 DEF Retags
  <2>2. job[w].row.by = "reuse" /\ job[w].row.scopes = Ask[r].requested
    BY <2>1 DEF NameInv, ChainInv, TagsReuse
  <2>3. grant[r] # None /\ grant[r].by = "reuse" /\ grant[r].scopes = Ask[r].requested
    BY <1>1, <1>4 DEF Retags, NameInv, GrantsClosed
  <2> QED BY <1>1, <2>1, <2>2, <2>3 DEF Joins
<1>5. CASE Withdraws(r)
  <2>1. grant[r] \in GrantRow
    BY <1>1, <1>5 DEF Withdraws, NameInv, ChainInv, TypeOK, StoreTypeOK
  <2> QED BY <1>1, <1>5, <2>1 DEF Withdraws, GrantRow, Joins
<1>6. ASSUME NEW w \in Worker, Reuses(w), job[w].request = r PROVE FALSE
  BY <1>1, <1>6 DEF Reuses, NewGrant, Closed, Early, At
<1> QED BY <1>1, <1>2, <1>3, <1>4, <1>5, <1>6 DEF GrantStep

LEMMA NamedStays ==
  ASSUME NameInv, [Next]_vars, NEW g \in GrantId, NEW S, Named(g, S)
  PROVE  Named(g, S)'
<1>1. Closed(g)'
  BY ClosedStays DEF Named, NameInv
<1>2. Joins(g)' => S \subseteq grant'[g[1]].scopes
  BY JoinsStays DEF Named
<1> QED BY <1>1, <1>2 DEF Named

LEMMA RootedStays ==
  ASSUME NameInv, [Next]_vars, NEW g \in GrantId, Closed(g), Rooted(g)
  PROVE  Rooted(g)'
<1>1. RegisteredStep /\ g[1] \in Request
  BY NextUseStep DEF NameInv, ChainInv, UseStep, GrantId
<1>2. ASSUME Joins(g)' PROVE ProfileOf(g) \in registered'
  <2>1. ProfileOf(g) \in registered
    BY <1>2, JoinsStays DEF Rooted
  <2> QED BY <1>1, <1>2, <2>1 DEF RegisteredStep, ProfileOf, Joins
<1> QED BY <1>2 DEF Rooted, ProfileOf

LEMMA NextNameInv == NameInv /\ [Next]_vars => NameInv'
<1> SUFFICES ASSUME NameInv, [Next]_vars PROVE NameInv'
  OBVIOUS
<1>0. /\ ChainInv /\ ChainInv' /\ TypeOK /\ TypeOK'
      /\ ChainStep /\ GrantStep /\ CarryStep /\ SessionStep /\ DecidedStep
  BY NextChainInv, NextStoreStep, NextUseStep DEF NameInv, ChainInv, StoreStep, UseStep
<1>1. GrantsClosed'
  <2> SUFFICES ASSUME NEW r \in Request, NEW b \in {"owner", "reuse"},
                      grant'[r] # None, grant'[r].by = b
               PROVE  /\ Closed(<<r, b>>)'
                      /\ b = "reuse" => grant'[r].scopes = Ask[r].requested
    BY <1>0 DEF GrantsClosed, TypeOK, StoreTypeOK, GrantRow
  <2> DEFINE g == <<r, b>>
  <2>1. g \in GrantId /\ g[1] = r /\ g[2] = b
    BY DEF GrantId
  <2>2. Joins(g)'
    BY <2>1 DEF Joins
  <2>3. CASE grant[r] # None /\ grant[r].by = b
    <3>1. Closed(g) /\ (b = "reuse" => grant[r].scopes = Ask[r].requested)
      BY <2>3 DEF NameInv, GrantsClosed
    <3> QED BY <1>0, <2>1, <2>2, <3>1, ClosedStays, JoinsStays
  <2>4. CASE OwnerGrants(r)
    BY <2>1, <2>4 DEF OwnerGrants, Closed, Settled
  <2>5. ASSUME NEW w \in Worker, Reuses(w), job[w].request = r
        PROVE  Closed(g)' /\ grant'[r].scopes = Ask[r].requested
    <3>1. /\ job'[w].at = "tag-reuse" /\ job'[w].request = r /\ request'[r] \in Settled
          /\ grant'[r].by = "reuse" /\ grant'[r].scopes = Ask[r].requested
      BY <2>5 DEF Reuses, NewGrant
    <3>2. ASSUME NEW v \in Worker, job'[v].at \in Early, job'[v].request = r PROVE FALSE
      BY <1>0, <3>1, <3>2 DEF ChainInv, OneCreator, Chain, Early
    <3> QED BY <3>1, <3>2 DEF Closed, Settled
  <2>6. ASSUME grant'[r] = grant[r] \/ Retags(r) \/ Withdraws(r)
        PROVE  grant[r] # None /\ grant[r].by = grant'[r].by
    <3>1. CASE grant'[r] = grant[r]
      BY <3>1
    <3>2. CASE Retags(r)
      BY <3>2, <1>0 DEF Retags, ChainInv, TagsReuse
    <3>3. CASE Withdraws(r)
      <4>1. grant[r] \in GrantRow
        BY <1>0, <3>3 DEF Withdraws, TypeOK, StoreTypeOK
      <4> QED BY <3>3, <4>1 DEF Withdraws, GrantRow
    <3> QED BY <2>6, <3>1, <3>2, <3>3
  <2> QED BY <1>0, <2>3, <2>4, <2>5, <2>6 DEF GrantStep
<1>2. ExchangesNamed'
  <2> SUFFICES ASSUME NEW w \in Worker, job'[w].at \in Carrying
               PROVE  /\ Named(job[w].grant, job[w].scopes)'
                      /\ job'[w].at = "insert-session" => Rooted(job[w].grant)'
    BY DEF ExchangesNamed, Carrying, At
  <2>1. CASE job'[w] = job[w]
    <3>1. job[w].grant \in GrantId
      BY <1>0, <2>1 DEF TypeOK, Job, Carrying
    <3>2. Named(job[w].grant, job[w].scopes)
      BY <2>1 DEF NameInv, ExchangesNamed
    <3>3. Named(job[w].grant, job[w].scopes)'
      BY <2>1, <3>1, <3>2, NamedStays
    <3>4. ASSUME job'[w].at = "insert-session" PROVE Rooted(job[w].grant)'
      BY <2>1, <3>1, <3>2, <3>4, RootedStays DEF NameInv, ExchangesNamed, Named, At
    <3> QED BY <3>3, <3>4
  <2>2. CASE Picks(w)
    <3>1. PICK r \in Request : /\ GrantLive(r)
                               /\ job'[w].grant = <<r, grant[r].by>>
                               /\ job'[w].scopes = grant[r].scopes
      BY <2>2 DEF Picks
    <3>2. PICK g \in GrantId, S \in SUBSET Scope :
            g = <<r, grant[r].by>> /\ S = grant[r].scopes
      BY <1>0, <3>1 DEF GrantLive, GrantId, GrantRow, TypeOK, StoreTypeOK
    <3>3. Closed(g) /\ (Joins(g) => S \subseteq grant[g[1]].scopes)
      BY <3>1, <3>2 DEF GrantLive, NameInv, GrantsClosed
    <3>4. Named(g, S)'
      BY <3>3, NamedStays DEF Named
    <3> QED BY <2>2, <3>1, <3>2, <3>4 DEF Picks, Named, Closed, Joins
  <2>3. CASE Proves(w)
    <3> DEFINE g == job[w].grant
    <3>1. /\ g \in GrantId /\ Named(g, job[w].scopes)
          /\ job'[w].grant = g /\ job'[w].scopes = job[w].scopes
      BY <1>0, <2>3 DEF Proves, TypeOK, Job, At, NameInv, ExchangesNamed, Carrying
    <3>2. Closed(g)' /\ (Joins(g)' => job[w].scopes \subseteq grant'[g[1]].scopes)
      BY <1>0, <3>1, ClosedStays, JoinsStays DEF Named
    <3>3. ProfileOf(g) \in registered'
      BY <2>3 DEF Proves
    <3> QED BY <3>1, <3>2, <3>3 DEF Named, Rooted, ProfileOf, Closed, Joins
  <2> QED BY <1>0, <2>1, <2>2, <2>3 DEF CarryStep
<1>3. SessionsNamed'
  <2> SUFFICES ASSUME NEW s \in Session, Row(session'[s])
               PROVE  Named(session[s].grant, session[s].scopes)' /\ Rooted(session[s].grant)'
    BY DEF SessionsNamed, Row
  <2>1. ASSUME NEW g \in GrantId, NEW S, Named(g, S), Rooted(g),
               session'[s].grant = g, session'[s].scopes = S
        PROVE  Named(session[s].grant, session[s].scopes)' /\ Rooted(session[s].grant)'
    <3>1. Closed(g)' /\ (Joins(g)' => S \subseteq grant'[g[1]].scopes)
      BY <1>0, <2>1, ClosedStays, JoinsStays DEF Named
    <3>2. Joins(g)' => ProfileOf(g) \in registered'
      BY <1>0, <2>1, RootedStays DEF Named, Rooted, ProfileOf
    <3> QED BY <2>1, <3>1, <3>2 DEF Named, Rooted, ProfileOf, Closed, Joins
  <2>2. CASE session'[s] = session[s]
    <3>1. session[s].grant \in GrantId
      BY <1>0, <2>2 DEF Row, TypeOK, StoreTypeOK, SessionRow
    <3>2. Named(session[s].grant, session[s].scopes) /\ Rooted(session[s].grant)
      BY <2>2 DEF NameInv, SessionsNamed
    <3> QED BY <2>1, <2>2, <3>1, <3>2
  <2>3. ASSUME NEW w \in Worker, Mints(w, s)
        PROVE  Named(session[s].grant, session[s].scopes)' /\ Rooted(session[s].grant)'
    <3>1. job[w].grant \in GrantId
      BY <1>0, <2>3 DEF Mints, At, TypeOK, Job
    <3>2. Named(job[w].grant, job[w].scopes) /\ Rooted(job[w].grant)
      BY <2>3 DEF Mints, At, NameInv, ExchangesNamed, Carrying
    <3> QED BY <2>1, <2>3, <3>1, <3>2 DEF Mints
  <2> QED BY <1>0, <2>2, <2>3 DEF SessionStep, Row
<1>4. RevokedStays'
  <2> SUFFICES ASSUME NEW r \in Request, Revoked(<<r, "owner">>)'
               PROVE  Closed(<<r, "owner">>)' /\ (Joins(<<r, "owner">>)' => grant'[r].revoked)
    BY DEF RevokedStays
  <2> DEFINE g == <<r, "owner">>
  <2>0. g \in GrantId /\ g[1] = r /\ g[2] = "owner"
    BY DEF GrantId
  <2>1. CASE Revoked(g)
    <3>1. Closed(g) /\ (Joins(g) => grant[r].revoked)
      BY <2>1 DEF NameInv, RevokedStays
    <3> QED BY <1>0, <2>0, <3>1, ClosedStays, JoinsStays
  <2>2. CASE ~Revoked(g)
    <3>1. PICK d \in decided' \ decided : d.signed = [action |-> "revoke", grant |-> g]
      BY <2>2 DEF Revoked
    <3>2. Joins(g) /\ grant'[r] = [grant[r] EXCEPT !.revoked = TRUE, !.expires = now]
      <4>1. d.signed.action = "revoke" /\ d.signed.grant = g
        BY <3>1
      <4>2. /\ Joins(d.signed.grant)
            /\ grant'[d.signed.grant[1]] =
                 [grant[d.signed.grant[1]] EXCEPT !.revoked = TRUE, !.expires = now]
        BY <1>0, <3>1, <4>1 DEF DecidedStep
      <4> QED BY <2>0, <4>1, <4>2
    <3>3. Closed(g)
      BY <2>0, <3>2 DEF Joins, NameInv, GrantsClosed
    <3>4. grant[r] \in GrantRow
      BY <1>0, <2>0, <3>2 DEF Joins, TypeOK, StoreTypeOK
    <3>5. grant'[r].revoked
      BY <3>2, <3>4 DEF GrantRow
    <3> QED BY <1>0, <2>0, <3>3, <3>5, ClosedStays
  <2> QED BY <2>1, <2>2
<1>5. RetagsSame'
  <2> SUFFICES ASSUME NEW w \in Worker, job'[w].at = "tag-reuse",
                      grant'[job'[w].request] # None
               PROVE  LET g == grant'[job'[w].request]
                      IN  g.by = "reuse" /\ (~g.revoked => g.expires = job'[w].row.expires)
    BY DEF RetagsSame, At
  <2> DEFINE r == job'[w].request
  <2>0. r \in Request
    BY <1>0 DEF TypeOK, Job
  <2>1. job'[w] = job[w] \/ Reuses(w)
    BY <1>0 DEF ChainStep, Starts, GoesOn, Chain, Early
  <2>2. CASE Reuses(w)
    BY <2>2 DEF Reuses, NewGrant
  <2>3. CASE job'[w] = job[w]
    <3>1. /\ At(w, "tag-reuse") /\ job[w].request = r
          /\ job[w].row.by = "reuse" /\ request[r] \in Settled
      BY <1>0, <2>3 DEF At, ChainInv, TagsReuse
    <3>2. grant[r] # None => grant[r].by = "reuse" /\ (~grant[r].revoked => grant[r].expires = job[w].row.expires)
      BY <3>1 DEF NameInv, RetagsSame
    <3>3. ~OwnerGrants(r)
      BY <3>1 DEF OwnerGrants, Settled
    <3>4. ASSUME NEW v \in Worker, Reuses(v), job[v].request = r PROVE FALSE
      BY <1>0, <3>1, <3>4 DEF Reuses, ChainInv, OneCreator, Chain, Early, At
    <3>5. CASE Retags(r)
      <4>1. PICK v \in Worker : At(v, "tag-reuse") /\ job[v].request = r /\ grant'[r] = job[v].row
        BY <3>5 DEF Retags
      <4>2. v = w
        BY <1>0, <3>1, <4>1 DEF ChainInv, OneCreator, Chain, At
      <4> QED BY <2>3, <3>1, <4>1, <4>2
    <3>6. CASE Withdraws(r)
      <4>1. grant[r] \in GrantRow
        BY <1>0, <2>0, <3>6 DEF Withdraws, TypeOK, StoreTypeOK
      <4> QED BY <3>2, <3>6, <4>1 DEF Withdraws, GrantRow
    <3>7. CASE grant'[r] = grant[r]
      BY <2>3, <3>2, <3>7
    <3> QED BY <1>0, <2>0, <3>3, <3>4, <3>5, <3>6, <3>7 DEF GrantStep
  <2> QED BY <2>1, <2>2, <2>3
<1> QED BY <1>0, <1>1, <1>2, <1>3, <1>4, <1>5 DEF NameInv

----------------------------------------------------------------------------
(* What the sessions keep *)

\* A deletion ends the access of every session, whatever inserts rows after it: a session
\* that get_grant_session would accept is of a registered profile.
THEOREM DeletionEndsAccess == Spec => []NoAccessAcrossDeletion
<1>1. NameInv => NoAccessAcrossDeletion
  BY DEF NameInv, SessionsNamed, NoAccessAcrossDeletion, SessionAccepted, JoinsGrant, Rooted, Joins
<1> QED BY <1>1, InitNameInv, NextNameInv, PTL DEF Spec

\* Every admission is of a session that get_grant_session has just accepted.
LEMMA AdmittedAccepted ==
  ASSUME TypeOK, [Next]_vars, NEW w \in Worker, Admitted(w)
  PROVE  /\ \E s \in Session : SessionAccepted(s) /\ job'[w].row = session[s]
         /\ UNCHANGED storeVars
<1>0. job \in [Worker -> Job] /\ job'[w] # job[w]
  BY DEF TypeOK, Admitted
<1> USE DEF At, PicksUp, Goto, Done, Idle, Admitted
<1>1. ASSUME NEW v \in Worker, NEW s \in Session, ReadProjection(v, s) \/ Rank(v, s) \/ SendFeedback(v, s)
      PROVE  SessionAccepted(s) /\ job'[w].row = session[s] /\ UNCHANGED storeVars
  BY <1>0, <1>1 DEF ReadProjection, Rank, SendFeedback
<1>2. ASSUME NEW v \in Worker, RecheckSession(v)
      PROVE  /\ \E s \in Session : SessionAccepted(s) /\ job'[w].row = session[s]
             /\ UNCHANGED storeVars
  <2>1. v = w /\ job[v].session \in Session
    BY <1>0, <1>2 DEF RecheckSession, Job
  <2>2. SessionAccepted(job[v].session) /\ job'[w].row = session[job[v].session]
    BY <1>0, <1>2, <2>1 DEF RecheckSession
  <2> QED BY <1>2, <2>1, <2>2 DEF RecheckSession
<1>3. ASSUME NEW v \in Worker, ReadProfile(v) \/ \E E \in SUBSET Event : IngestFeedback(v, E)
      PROVE  FALSE
  BY <1>0, <1>3 DEF ReadProfile, IngestFeedback
<1>4. ASSUME NEW v \in Worker, Create(v) \/ Poll(v) \/ Fail(v) PROVE FALSE
  <2>1. CASE Poll(v) \/ Fail(v)
    BY <1>0, <2>1 DEF Poll, PollRequest, ExpireRequest, Fail
  <2>2. CASE Create(v)
    BY <1>0, <2>2 DEF Create, CreateRequest, InsertRequest, FindGrant, RereadRequest, ApproveReuse,
       TagReusedGrant
  <2> QED BY <1>4, <2>1, <2>2
<1>5. ASSUME NEW v \in Worker, IssueChallenge(v) PROVE FALSE
  BY <1>0, <1>5 DEF IssueChallenge, OwnerChallenge, ProfileChallenge, CheckProfile, InsertChallenge
<1>6. ASSUME NEW v \in Worker, ExchangeSession(v) PROVE FALSE
  <2>1. ASSUME \E r \in Request : BeginExchange(v, r) \/ \E c \in Challenge : Exchange(v, r, c)
        PROVE  FALSE
    BY <1>0, <2>1 DEF BeginExchange, Exchange
  <2>2. ASSUME BeginRead(v) \/ BeginGrant(v) PROVE FALSE
    BY <1>0, <2>2 DEF BeginRead, BeginGrant
  <2>3. ASSUME ExchangeRead(v) \/ ExchangeGrant(v) PROVE FALSE
    BY <1>0, <2>3 DEF ExchangeRead, ExchangeGrant
  <2>4. ASSUME ExchangeVerify(v) PROVE FALSE
    BY <1>0, <2>4 DEF ExchangeVerify
  <2>5. ASSUME NEW s \in Session, NEW t \in SessionUntil, InsertSession(v, s, t) PROVE FALSE
    BY <1>0, <2>5 DEF InsertSession
  <2> QED BY <1>6, <2>1, <2>2, <2>3, <2>4, <2>5 DEF ExchangeSession
<1>7. ~UNCHANGED job
  BY <1>0
<1>8. PICK v \in Worker : UseSession(v)
  BY <1>4, <1>5, <1>6, <1>7 DEF Next, Tick, vars
<1> QED BY <1>1, <1>2, <1>3, <1>8 DEF UseSession

\* Once the owner has revoked the grant they approved, no session of it is admitted again,
\* whatever was exchanged, written back or in flight before.
THEOREM RevocationEndsUse == Spec => RevocationBlocksUse
<1>1. ASSUME NameInv, [Next]_vars
      PROVE  [\A w \in Worker :
                Admitted(w) /\ job'[w].row.grant[2] = "owner" => ~Revoked(job'[w].row.grant)]_vars
  <2> SUFFICES ASSUME NEW w \in Worker, Admitted(w), job'[w].row.grant[2] = "owner",
                      Revoked(job'[w].row.grant)
               PROVE  FALSE
    OBVIOUS
  <2>1. TypeOK
    BY <1>1 DEF NameInv, ChainInv
  <2>2. PICK s \in Session : SessionAccepted(s) /\ job'[w].row = session[s]
    BY <1>1, <2>1, AdmittedAccepted
  <2> DEFINE g == session[s].grant
  <2>3. g \in GrantId
    BY <2>1, <2>2 DEF SessionAccepted, Row, TypeOK, StoreTypeOK, SessionRow
  <2>4. PICK r \in Request : g = <<r, "owner">>
    BY <2>2, <2>3 DEF GrantId
  <2>5. Joins(<<r, "owner">>) /\ ~grant[r].revoked
    BY <2>2, <2>4 DEF SessionAccepted, JoinsGrant, GrantLive, Joins
  <2>6. Revoked(<<r, "owner">>)
    BY <2>2, <2>4
  <2> QED BY <1>1, <2>5, <2>6 DEF NameInv, RevokedStays
<1> QED BY <1>1, InitNameInv, NextNameInv, PTL DEF Spec, RevocationBlocksUse

\* A session is only admitted for scopes, a website, a purpose and a time that an approval
\* of the owner gives.
THEOREM UseIsConsented == Spec => UseWithinConsent
<1>1. ASSUME NameInv, CoverInv, [Next]_vars
      PROVE  [\A w \in Worker :
                Admitted(w) => Covered(job'[w].row.grant[1], job'[w].row.scopes, now + 1)]_vars
  <2> SUFFICES ASSUME NEW w \in Worker, Admitted(w)
               PROVE  Covered(job'[w].row.grant[1], job'[w].row.scopes, now + 1)
    OBVIOUS
  <2>1. TypeOK
    BY <1>1 DEF CoverInv
  <2>2. PICK s \in Session : SessionAccepted(s) /\ job'[w].row = session[s]
    BY <1>1, <2>1, AdmittedAccepted
  <2> DEFINE r == session[s].grant[1]
  <2>3. r \in Request /\ grant[r] # None /\ ~grant[r].revoked /\ ~Expired(grant[r].expires)
    BY <2>1, <2>2 DEF SessionAccepted, GrantLive, Row, TypeOK, StoreTypeOK, SessionRow, GrantId
  <2>4. session[s].scopes \subseteq grant[r].scopes
    BY <1>1, <2>2 DEF NameInv, SessionsNamed, Named, SessionAccepted, JoinsGrant, Joins
  <2>5. grant[r].expires \in Nat /\ now \in Nat
    BY <2>1, <2>3 DEF TypeOK, StoreTypeOK, GrantRow
  <2>6. now + 1 <= grant[r].expires
    BY <2>3, <2>5 DEF Expired
  <2>7. PICK d \in decided : /\ d.signed.action = "approve"
                             /\ SameAsk(d.signed.request, r)
                             /\ grant[r].scopes \subseteq d.signed.scopes
                             /\ grant[r].expires <= ExpiryOf(d)
    BY <1>1, <2>3 DEF CoverInv, GrantCovered, Covered, CoveredBy
  <2>8. ExpiryOf(d) \in Nat
    <3>1. d.at \in Nat
      BY <2>1 DEF TypeOK, StoreTypeOK, Decision
    <3>2. d.signed \in Binding
      BY <2>1 DEF TypeOK, StoreTypeOK, Decision
    <3>3. d.signed.until \in Deadline
      BY <2>7, <3>2 DEF Binding
    <3> QED BY <3>1, <3>3 DEF ExpiryOf, Deadline
  <2> QED BY <2>2, <2>4, <2>5, <2>6, <2>7, <2>8 DEF Covered, CoveredBy
<1> QED BY <1>1, InitNameInv, NextNameInv, InitCoverInv, NextCoverInv, PTL DEF Spec, UseWithinConsent

----------------------------------------------------------------------------
(* What a proof gives *)

\* The proof c was spent on an exchange of the grant g, unless it is deleted by now.
SpentOn(c, g) ==
  /\ challenge[c] # None
  /\ Row(challenge[c]) =>
       challenge[c].used /\ challenge[c].binding = [action |-> "exchange", grant |-> g]

Minting(w) == At(w, "insert-session")

ProofInv ==
  /\ TypeOK
  /\ \A s \in Session : Row(session[s]) => SpentOn(session[s].proof, session[s].grant)
  /\ \A w \in Worker : Minting(w) => SpentOn(job[w].proof, job[w].grant)
  /\ \A s, t \in Session :
       Row(session[s]) /\ Row(session[t]) /\ session[s].proof = session[t].proof => s = t
  /\ \A w \in Worker, s \in Session :
       Minting(w) /\ Row(session[s]) => job[w].proof # session[s].proof
  /\ \A v, w \in Worker : Minting(v) /\ Minting(w) /\ job[v].proof = job[w].proof => v = w

LEMMA SpentStays ==
  ASSUME ChallengeStep, NEW c \in Challenge, NEW g, SpentOn(c, g)
  PROVE  SpentOn(c, g)'
<1>1. challenge'[c] = challenge[c] \/ challenge'[c] = Gone
  BY DEF ChallengeStep, SpentOn, Spends
<1> QED BY <1>1, SentinelAssumption DEF SpentOn, Row

LEMMA NextProofInv == ProofInv /\ [Next]_vars => ProofInv'
<1> SUFFICES ASSUME ProofInv, [Next]_vars PROVE ProofInv'
  OBVIOUS
<1>0. TypeOK /\ TypeOK' /\ CarryStep /\ SessionStep /\ ChallengeStep
  BY NextTypeOK, NextUseStep DEF ProofInv, UseStep
<1>1. ASSUME NEW w \in Worker, Minting(w)'
      PROVE  (job'[w] = job[w] /\ Minting(w)) \/ Proves(w)
  BY <1>0, <1>1 DEF Minting, At, CarryStep, Carrying, Picks
<1>2. ASSUME NEW w \in Worker, Proves(w)
      PROVE  /\ SpentOn(job[w].proof, job[w].grant)'
             /\ job'[w].proof = job[w].proof /\ job[w].proof \in Challenge
             /\ \A g : ~SpentOn(job[w].proof, g)
             /\ \A v \in Worker : v # w => job'[v] = job[v]
             /\ UNCHANGED session
  <2> DEFINE c == job[w].proof
             g == job[w].grant
  <2>1. /\ c \in Challenge /\ g \in GrantId
        /\ job'[w].proof = c /\ job'[w].grant = g
    BY <1>0, <1>2 DEF Proves, At, TypeOK, Job
  <2>2. challenge[c] \in ChallengeRow
    BY <1>0, <1>2, <2>1 DEF Proves, Spends, Row, TypeOK, StoreTypeOK
  <2>3. /\ challenge'[c] \in ChallengeRow /\ challenge'[c].used
        /\ challenge'[c].binding = [action |-> "exchange", grant |-> g]
    BY <1>2, <2>2 DEF Proves, Spends, ChallengeRow
  <2>4. SpentOn(job[w].proof, job[w].grant)'
    BY <2>1, <2>3, SentinelAssumption DEF SpentOn
  <2>5. \A h : ~SpentOn(c, h)
    BY <1>2 DEF Proves, Spends, SpentOn
  <2> QED BY <1>2, <2>1, <2>4, <2>5 DEF Proves
<1>3. ASSUME NEW w \in Worker, NEW s \in Session, Mints(w, s), Row(session'[s])
      PROVE  /\ Minting(w) /\ ~Minting(w)'
             /\ session'[s].proof = job[w].proof /\ session'[s].grant = job[w].grant
             /\ \A t \in Session : t # s => session'[t] = session[t]
  BY <1>3 DEF Mints, Minting, At
<1>4. ASSUME NEW s \in Session, Row(session'[s])
      PROVE  session'[s] = session[s] \/ \E w \in Worker : Mints(w, s)
  BY <1>0, <1>4 DEF SessionStep, Row
<1>5. ASSUME NEW s \in Session, Row(session'[s])
      PROVE  SpentOn(session[s].proof, session[s].grant)'
  <2>1. CASE session'[s] = session[s]
    <3>1. SpentOn(session[s].proof, session[s].grant) /\ session[s].proof \in Challenge
      BY <1>0, <1>5, <2>1 DEF ProofInv, Row, TypeOK, StoreTypeOK, SessionRow
    <3> QED BY <1>0, <2>1, <3>1, SpentStays DEF SpentOn
  <2>2. ASSUME NEW w \in Worker, Mints(w, s) PROVE SpentOn(session[s].proof, session[s].grant)'
    <3>1. SpentOn(job[w].proof, job[w].grant) /\ job[w].proof \in Challenge
      BY <1>0, <1>3, <1>5, <2>2 DEF ProofInv, Minting, At, TypeOK, Job
    <3> QED BY <1>0, <1>3, <1>5, <2>2, <3>1, SpentStays DEF SpentOn
  <2> QED BY <1>4, <1>5, <2>1, <2>2
<1>6. ASSUME NEW w \in Worker, Minting(w)' PROVE SpentOn(job[w].proof, job[w].grant)'
  <2>1. CASE job'[w] = job[w] /\ Minting(w)
    <3>1. SpentOn(job[w].proof, job[w].grant) /\ job[w].proof \in Challenge
      BY <1>0, <2>1 DEF ProofInv, Minting, At, TypeOK, Job
    <3> QED BY <1>0, <2>1, <3>1, SpentStays DEF SpentOn
  <2> QED BY <1>1, <1>2, <1>6, <2>1
<1>7. ASSUME NEW w \in Worker, NEW s \in Session, Minting(w)', Row(session'[s])
      PROVE  job'[w].proof # session'[s].proof
  <2>1. CASE Proves(w)
    BY <1>2, <1>7, <2>1 DEF ProofInv
  <2>2. CASE job'[w] = job[w] /\ Minting(w) /\ session'[s] = session[s]
    BY <1>7, <2>2 DEF ProofInv
  <2>3. ASSUME job'[w] = job[w], Minting(w), NEW v \in Worker, Mints(v, s)
        PROVE  job'[w].proof # session'[s].proof
    BY <1>3, <1>7, <2>3 DEF ProofInv
  <2> QED BY <1>1, <1>4, <1>7, <2>1, <2>2, <2>3
<1>8. ASSUME NEW s \in Session, NEW t \in Session, Row(session'[s]), Row(session'[t]),
             session'[s].proof = session'[t].proof
      PROVE  s = t
  <2>1. ASSUME NEW x \in Session, NEW y \in Session, x # y, Row(session'[x]), Row(session'[y]),
               NEW w \in Worker, Mints(w, x)
        PROVE  session'[x].proof # session'[y].proof
    BY <1>3, <2>1 DEF ProofInv
  <2>2. CASE session'[s] = session[s] /\ session'[t] = session[t]
    BY <1>8, <2>2 DEF ProofInv
  <2> QED BY <1>4, <1>8, <2>1, <2>2
<1>9. ASSUME NEW v \in Worker, NEW w \in Worker, Minting(v)', Minting(w)',
             job'[v].proof = job'[w].proof
      PROVE  v = w
  <2>1. ASSUME NEW x \in Worker, NEW y \in Worker, x # y, Minting(x)', Minting(y)', Proves(x)
        PROVE  job'[x].proof # job'[y].proof
    <3>1. job'[y] = job[y] /\ Minting(y)
      BY <1>2, <2>1 DEF Minting, At
    <3> QED BY <1>2, <2>1, <3>1 DEF ProofInv
  <2>2. CASE job'[v] = job[v] /\ Minting(v) /\ job'[w] = job[w] /\ Minting(w)
    BY <1>9, <2>2 DEF ProofInv
  <2> QED BY <1>1, <1>9, <2>1, <2>2
<1> QED BY <1>0, <1>5, <1>6, <1>7, <1>8, <1>9 DEF ProofInv, Row

LEMMA InitProofInv == Init => ProofInv
  BY InitTypeOK DEF Init, StoreInit, ProofInv, Row, Minting, At, Idle

\* However often and however concurrently an exchange proof is sent, it gives one session,
\* of the grant it was signed for.
THEOREM OneSessionPerProof == Spec => []ProofMintsOneSession
<1>1. ProofInv => ProofMintsOneSession
  BY DEF ProofInv, ProofMintsOneSession, SpentOn
<1> QED BY <1>1, InitProofInv, NextProofInv, PTL DEF Spec

----------------------------------------------------------------------------
(* The feedback budget *)

FeedbackStep ==
  \/ \A e \in Event : feedback'[e] \in {feedback[e], None}
  \/ \E w \in Worker, E \in SUBSET Event : IngestFeedback(w, E)

LEMMA NextFeedbackStep == TypeOK /\ [Next]_vars => FeedbackStep
<1> SUFFICES ASSUME TypeOK, [Next]_vars PROVE FeedbackStep
  OBVIOUS
<1> USE DEF storeVars, tables
<1>0. (\A e \in Event : feedback'[e] \in {feedback[e], None}) => FeedbackStep
  BY DEF FeedbackStep
<1>1. ASSUME NEW w \in Worker, Create(w) \/ Poll(w) \/ Fail(w) PROVE FeedbackStep
  <2>1. CASE Poll(w) \/ Fail(w)
    BY <1>0, <2>1 DEF Poll, PollRequest, ExpireRequest, ExpireRow, Fail
  <2>2. CASE Create(w)
    BY <1>0, <2>2 DEF Create, CreateRequest, InsertRequest, InsertRequestRow, FindGrant,
       RereadRequest, ApproveReuse, ReuseGrant, TagReusedGrant, TagReuse
  <2> QED BY <1>1, <2>1, <2>2
<1>2. ASSUME NEW w \in Worker, IssueChallenge(w) PROVE FeedbackStep
  BY <1>0, <1>2 DEF IssueChallenge, OwnerChallenge, ProfileChallenge, CheckProfile,
     InsertChallenge, InsertChallengeRow
<1>3. ASSUME NEW w \in Worker, ExchangeSession(w) PROVE FeedbackStep
  <2>1. ASSUME \E r \in Request : BeginExchange(w, r) \/ \E c \in Challenge : Exchange(w, r, c)
        PROVE  FeedbackStep
    BY <1>0, <2>1 DEF BeginExchange, Exchange
  <2>2. ASSUME BeginRead(w) \/ BeginGrant(w) \/ ExchangeRead(w) \/ ExchangeGrant(w)
        PROVE  FeedbackStep
    BY <1>0, <2>2 DEF BeginRead, BeginGrant, ExchangeRead, ExchangeGrant
  <2>3. ASSUME ExchangeVerify(w) \/ \E s \in Session, t \in SessionUntil : InsertSession(w, s, t)
        PROVE  FeedbackStep
    BY <1>0, <2>3 DEF ExchangeVerify, VerifyProof, InsertSession, InsertSessionRow
  <2> QED BY <1>3, <2>1, <2>2, <2>3 DEF ExchangeSession
<1>4. ASSUME NEW w \in Worker, UseSession(w) PROVE FeedbackStep
  <2>1. ASSUME \/ \E s \in Session : ReadProjection(w, s) \/ Rank(w, s) \/ SendFeedback(w, s)
               \/ RecheckSession(w) \/ ReadProfile(w)
        PROVE  FeedbackStep
    BY <1>0, <2>1 DEF ReadProjection, Rank, SendFeedback, RecheckSession, ReadProfile
  <2> QED BY <1>4, <2>1 DEF UseSession, FeedbackStep
<1>5. ASSUME OwnerAct PROVE FeedbackStep
  <2>1. PICK c \in Challenge :
          \/ \E r \in Request : \/ OwnerDenies(c, r)
                                \/ \E S \in SUBSET Scope, t \in GrantUntil : OwnerApproves(c, r, S, t)
          \/ \E g \in GrantId : OwnerRevokes(c, g)
          \/ \E p \in Profile : OwnerReads(c, p) \/ OwnerDeletes(c, p)
    BY <1>5 DEF OwnerAct
  <2>2. CASE \E p \in Profile : OwnerDeletes(c, p)
    BY <1>0, <2>2 DEF OwnerDeletes
  <2>3. CASE ~ \E p \in Profile : OwnerDeletes(c, p)
    BY <1>0, <2>1, <2>3 DEF OwnerDenies, OwnerApproves, OwnerRevokes, OwnerReads
  <2> QED BY <2>2, <2>3
<1>6. ASSUME Atomic, ~OwnerAct PROVE FeedbackStep
  BY <1>0, <1>6 DEF Atomic, VerifyProof, Register
<1>7. ASSUME Tick \/ UNCHANGED vars PROVE FeedbackStep
  BY <1>0, <1>7 DEF Tick, vars
<1> QED BY <1>1, <1>2, <1>3, <1>4, <1>5, <1>6, <1>7 DEF Next

LEMMA NextFeedbackBudget ==
  ASSUME TypeOK, FeedbackWithinBudget, [Next]_vars
  PROVE  FeedbackWithinBudget'
<1> SUFFICES ASSUME NEW g \in GrantId PROVE Cardinality(StoredFor(g)') <= MaxFeedback
  BY DEF FeedbackWithinBudget
<1> USE EventAssumption, SentinelAssumption
<1>1. Cardinality(StoredFor(g)) <= MaxFeedback
  BY DEF FeedbackWithinBudget
<1>2. \A A \in SUBSET Event : IsFiniteSet(A) /\ Cardinality(A) \in Nat
  BY FS_Subset, FS_CardinalityType
<1>3. StoredFor(g) \in SUBSET Event /\ StoredFor(g)' \in SUBSET Event
  BY DEF StoredFor
<1>4. ASSUME StoredFor(g)' \subseteq StoredFor(g)
      PROVE  Cardinality(StoredFor(g)') <= MaxFeedback
  <2>1. Cardinality(StoredFor(g)') <= Cardinality(StoredFor(g))
    BY <1>2, <1>3, <1>4, FS_Subset
  <2> QED BY <1>1, <1>2, <1>3, <2>1
<1>5. ASSUME \A e \in Event : feedback'[e] \in {feedback[e], None}
      PROVE  Cardinality(StoredFor(g)') <= MaxFeedback
  BY <1>4, <1>5 DEF StoredFor
<1>6. ASSUME NEW w \in Worker, NEW E \in SUBSET Event, IngestFeedback(w, E)
      PROVE  Cardinality(StoredFor(g)') <= MaxFeedback
  <2> DEFINE h == job[w].row.grant
             new == {e \in E : feedback[e] = None}
  <2>1. /\ Cardinality(StoredFor(h)) + Cardinality(new) <= MaxFeedback
        /\ feedback' = [e \in Event |-> IF e \in new THEN h ELSE feedback[e]]
    BY <1>6 DEF IngestFeedback, InsertFeedback
  <2>2. CASE g = h
    <3>1. StoredFor(g)' = StoredFor(g) \cup new
      BY <2>1, <2>2 DEF StoredFor
    <3>2. new \in SUBSET Event /\ StoredFor(g) \cap new \in SUBSET Event
      BY <1>3
    <3>3. Cardinality(StoredFor(g) \cup new) =
            Cardinality(StoredFor(g)) + Cardinality(new) - Cardinality(StoredFor(g) \cap new)
      BY <1>2, <1>3, <3>2, FS_Union
    <3> QED BY <1>2, <1>3, <2>1, <2>2, <3>1, <3>2, <3>3
  <2>3. CASE g # h
    BY <1>4, <2>1, <2>3 DEF StoredFor
  <2> QED BY <2>2, <2>3
<1> QED BY <1>5, <1>6, NextFeedbackStep DEF FeedbackStep

\* Two sessions of one grant, or two threads of one session, cannot store more feedback
\* under it than its budget.
THEOREM BudgetHolds == Spec => []FeedbackWithinBudget
<1>1. Init => FeedbackWithinBudget
  <2> SUFFICES ASSUME Init, NEW g \in GrantId PROVE Cardinality(StoredFor(g)) <= MaxFeedback
    BY DEF FeedbackWithinBudget
  <2>1. StoredFor(g) = {}
    BY SentinelAssumption DEF Init, StoreInit, StoredFor
  <2> QED BY <2>1, FS_EmptySet
<1> QED BY <1>1, InitTypeOK, NextTypeOK, NextFeedbackBudget, PTL DEF Spec

----------------------------------------------------------------------------
(* Approvals *)

\* The proof of an approval is only spent where it inserts the owner's grant, and the
\* other way round.
Approves(c, r) ==
  /\ Spends(c) /\ challenge[c].binding.action = "approve" /\ challenge[c].binding.request = r
  /\ Row(challenge'[c]) /\ challenge'[c].used
  /\ grant[r] = None /\ grant'[r] # None /\ grant'[r].by = "owner"
  /\ GrantsAsSigned(c, r)

LEMMA ApprovalStep ==
  ASSUME TypeOK, [Next]_vars
  PROVE  /\ \A c \in Challenge :
              Spends(c) /\ challenge[c].binding.action = "approve" =>
                Approves(c, challenge[c].binding.request)
         /\ \A r \in Request :
              grant[r] = None /\ grant'[r] # None /\ grant'[r].by = "owner" =>
                \E c \in Challenge : Approves(c, r)
         /\ \A c, d \in Challenge :
              Spends(c) /\ challenge[c].binding.action = "approve" /\ Spends(d) => c = d
<1> DEFINE Once == \A c \in Challenge : Spends(c) => challenge[c].binding.action # "approve"
           Never == \A r \in Request : grant[r] = None /\ grant'[r] # None => grant'[r].by # "owner"
<1>0. /\ challenge \in [Challenge -> ChallengeRow \cup {None, Gone}]
      /\ grant \in [Request -> GrantRow \cup {None}] /\ job \in [Worker -> Job]
  BY DEF TypeOK, StoreTypeOK
<1>1. ASSUME NEW c \in Challenge, Spends(c)
      PROVE  /\ challenge[c] \in ChallengeRow /\ ~challenge[c].used
             /\ challenge'[c] \in ChallengeRow /\ challenge'[c].used
             /\ Row(challenge'[c]) /\ challenge'[c] # challenge[c]
  <2>1. challenge[c] \in ChallengeRow /\ ~challenge[c].used
    BY <1>0, <1>1 DEF Spends, Row
  <2>2. challenge'[c] \in ChallengeRow /\ challenge'[c].used
    BY <1>1, <2>1 DEF Spends, ChallengeRow
  <2> QED BY <2>1, <2>2, SentinelAssumption DEF Row
<1>2. ASSUME UNCHANGED challenge PROVE Once
  BY <1>1, <1>2
<1>3. ASSUME UNCHANGED grant PROVE Never
  BY <1>3
<1> USE DEF storeVars, tables
<1>4. ASSUME NEW w \in Worker, Create(w) PROVE Once /\ Never
  <2>1. UNCHANGED challenge
    BY <1>4 DEF Create, CreateRequest, InsertRequest, InsertRequestRow, FindGrant,
       RereadRequest, ApproveReuse, ReuseGrant, TagReusedGrant, TagReuse
  <2>2. ASSUME (\E r \in Request : CreateRequest(w, r)) \/ InsertRequest(w) PROVE Never
    BY <1>3, <2>2 DEF CreateRequest, InsertRequest, InsertRequestRow
  <2>3. ASSUME FindGrant(w) \/ RereadRequest(w) PROVE Never
    BY <1>3, <2>3 DEF FindGrant, RereadRequest
  <2>4. ASSUME ApproveReuse(w) PROVE Never
    BY <1>0, <2>4 DEF ApproveReuse, ReuseGrant, NewGrant
  <2>5. ASSUME TagReusedGrant(w) PROVE Never
    BY <1>0, <2>5 DEF TagReusedGrant, TagReuse
  <2> QED BY <1>2, <1>4, <2>1, <2>2, <2>3, <2>4, <2>5 DEF Create
<1>5. ASSUME NEW w \in Worker,
             Poll(w) \/ IssueChallenge(w) \/ ExchangeSession(w) \/ UseSession(w) \/ Fail(w)
      PROVE  Once /\ Never
  <2>1. UNCHANGED grant
    BY <1>5, OtherHandlersStep DEF OtherStep
  <2>2. ASSUME Poll(w) \/ Fail(w) PROVE Once
    BY <1>2, <2>2 DEF Poll, PollRequest, ExpireRequest, ExpireRow, Fail
  <2>3. ASSUME UseSession(w) PROVE Once
    BY <1>2, <2>3 DEF UseSession, ReadProjection, RecheckSession, Rank, ReadProfile,
       SendFeedback, IngestFeedback, InsertFeedback
  <2>4. ASSUME IssueChallenge(w) PROVE Once
    <3>1. ASSUME NEW c \in Challenge, InsertChallenge(w, c) PROVE Once
      <4>1. challenge[c] = None /\ \A d \in Challenge : d # c => challenge'[d] = challenge[d]
        BY <1>0, <3>1 DEF InsertChallenge, InsertChallengeRow
      <4> QED BY <1>1, <4>1, SentinelAssumption
    <3>2. ASSUME ~ \E c \in Challenge : InsertChallenge(w, c) PROVE Once
      BY <1>2, <2>4, <3>2 DEF IssueChallenge, OwnerChallenge, ProfileChallenge, CheckProfile
    <3> QED BY <3>1, <3>2
  <2>5. ASSUME ExchangeSession(w) PROVE Once
    <3>1. ASSUME ExchangeVerify(w) PROVE Once
      <4> DEFINE c == job[w].proof
      <4>1. challenge[c].binding.action = "exchange"
        BY <3>1 DEF ExchangeVerify, VerifyProof, ProofAccepted
      <4>2. \A d \in Challenge : d # c => challenge'[d] = challenge[d]
        BY <1>0, <3>1 DEF ExchangeVerify, VerifyProof, Spend
      <4> QED BY <1>1, <4>1, <4>2
    <3>2. ASSUME \E r \in Request : BeginExchange(w, r) \/ \E c \in Challenge : Exchange(w, r, c)
          PROVE  Once
      BY <1>2, <3>2 DEF BeginExchange, Exchange
    <3>3. ASSUME BeginRead(w) \/ BeginGrant(w) \/ ExchangeRead(w) \/ ExchangeGrant(w) PROVE Once
      BY <1>2, <3>3 DEF BeginRead, BeginGrant, ExchangeRead, ExchangeGrant
    <3>4. ASSUME \E s \in Session, t \in SessionUntil : InsertSession(w, s, t) PROVE Once
      BY <1>2, <3>4 DEF InsertSession, InsertSessionRow
    <3> QED BY <2>5, <3>1, <3>2, <3>3, <3>4 DEF ExchangeSession
  <2> QED BY <1>3, <1>5, <2>1, <2>2, <2>3, <2>4, <2>5
<1>6. ASSUME NEW c \in Challenge, NEW b, b.action # "approve", NEW p \in Profile,
             ProofAccepted(c, p, b), Spend(c), UNCHANGED grant
      PROVE  Once /\ Never
  BY <1>0, <1>1, <1>3, <1>6 DEF ProofAccepted, Spend
<1>7. ASSUME NEW c \in Challenge, NEW r \in Request, NEW S \in SUBSET Scope, NEW t \in GrantUntil,
             OwnerApproves(c, r, S, t)
      PROVE  /\ Approves(c, r) /\ challenge[c].binding.request = r
             /\ \A d \in Challenge : Spends(d) => d = c
             /\ \A q \in Request : q # r => grant'[q] = grant[q]
  <2> DEFINE new == NewGrant("owner", S, IF t = None THEN now + GrantTTL ELSE t)
  <2>1. /\ challenge[c].binding = [action |-> "approve", request |-> r, scopes |-> S, until |-> t]
        /\ Spends(c)
        /\ \A d \in Challenge : d # c => challenge'[d] = challenge[d]
        /\ challenge[c].profile = Ask[r].profile
        /\ now <= challenge[c].created + ChallengeTTL
    BY <1>0, <1>7 DEF OwnerApproves, ProofAccepted, Spend, Spends
  <2>2. grant[r] = None /\ grant'[r] = new /\ \A q \in Request : q # r => grant'[q] = grant[q]
    BY <1>0, <1>7 DEF OwnerApproves
  <2>3. new \in GrantRow
    BY DEF NewGrant, GrantRow, Deadline, TypeOK, StoreTypeOK
  <2>4. new # None /\ new.by = "owner" /\ new.scopes = S
        /\ new.expires = IF t = None THEN now + GrantTTL ELSE t
    BY <2>3, SentinelAssumption DEF NewGrant
  <2>5. GrantsAsSigned(c, r)
    BY <2>1, <2>2, <2>4 DEF GrantsAsSigned, ExpiryOf
  <2> QED BY <1>1, <2>1, <2>2, <2>4, <2>5 DEF Approves
<1>8. ASSUME OwnerAct PROVE (Once /\ Never) \/ \E c \in Challenge, r \in Request :
             /\ Approves(c, r) /\ challenge[c].binding.request = r
             /\ \A d \in Challenge : Spends(d) => d = c
             /\ \A q \in Request : q # r => grant'[q] = grant[q]
  <2>1. PICK c \in Challenge :
          \/ \E r \in Request : \/ OwnerDenies(c, r)
                                \/ \E S \in SUBSET Scope, t \in GrantUntil : OwnerApproves(c, r, S, t)
          \/ \E g \in GrantId : OwnerRevokes(c, g)
          \/ \E p \in Profile : OwnerReads(c, p) \/ OwnerDeletes(c, p)
    BY <1>8 DEF OwnerAct
  <2>2. ASSUME NEW r \in Request, OwnerDenies(c, r) PROVE Once /\ Never
    BY <1>6, <2>2, AskTyped DEF OwnerDenies
  <2>3. ASSUME NEW g \in GrantId, OwnerRevokes(c, g) PROVE Once /\ Never
    <3>1. Once
      BY <1>0, <1>1, <2>3 DEF OwnerRevokes, ProofAccepted, Spend
    <3>2. Never
      BY <1>0, <2>3 DEF OwnerRevokes
    <3> QED BY <3>1, <3>2
  <2>4. ASSUME NEW p \in Profile, OwnerReads(c, p) PROVE Once /\ Never
    BY <1>6, <2>4 DEF OwnerReads
  <2>5. ASSUME NEW p \in Profile, OwnerDeletes(c, p) PROVE Once /\ Never
    <3>1. \A d \in Challenge : challenge'[d] \in {challenge[d], Gone}
      BY <1>0, <2>5 DEF OwnerDeletes
    <3>2. Once
      BY <1>1, <3>1, SentinelAssumption
    <3>3. Never
      BY <2>5 DEF OwnerDeletes
    <3> QED BY <3>2, <3>3
  <2> QED BY <1>7, <2>1, <2>2, <2>3, <2>4, <2>5
<1>9. ASSUME Atomic, ~OwnerAct PROVE Once /\ Never
  <2>1. ASSUME NEW c \in Challenge, NEW p \in Profile,
               VerifyProof(c, p, [action |-> "profile", profile |-> p])
        PROVE  Once /\ Never
    BY <1>6, <2>1 DEF VerifyProof
  <2>2. ASSUME NEW p \in Profile, Register(p) PROVE Once /\ Never
    BY <1>2, <1>3, <2>2 DEF Register
  <2> QED BY <1>9, <2>1, <2>2 DEF Atomic
<1>10. ASSUME Tick \/ UNCHANGED vars PROVE Once /\ Never
  BY <1>2, <1>3, <1>10 DEF Tick, vars
<1> HIDE DEF Once, Never
<1>11. (Once /\ Never) \/ \E c \in Challenge, r \in Request :
         /\ Approves(c, r) /\ challenge[c].binding.request = r
         /\ \A d \in Challenge : Spends(d) => d = c
         /\ \A q \in Request : q # r => grant'[q] = grant[q]
  BY <1>4, <1>5, <1>8, <1>9, <1>10 DEF Next
<1> QED BY <1>11 DEF Once, Never

\* An owner's grant appears in the very step that spends the one approval of its request,
\* scopes and expiry, and an approval is spent in no other step.
THEOREM ApprovalsAreSpent == Spec => ApprovalSpendsItsProof
<1> DEFINE Born(r) == grant[r] = None /\ grant'[r] # None /\ grant'[r].by = "owner"
           Whole(r) ==
             /\ Born(r) => \E c \in Challenge : SpendsApproval(c, r)
             /\ \A c \in Challenge : SpendsApproval(c, r) =>
                  /\ Born(r) /\ GrantsAsSigned(c, r)
                  /\ \A d \in Challenge : SpendsApproval(d, r) => d = c
<1>1. ASSUME TypeOK, [Next]_vars PROVE [\A r \in Request : Whole(r)]_vars
  <2> SUFFICES ASSUME NEW r \in Request PROVE Whole(r)
    OBVIOUS
  <2>1. ASSUME Born(r) PROVE \E c \in Challenge : SpendsApproval(c, r)
    <3>1. PICK c \in Challenge : Approves(c, r)
      BY <1>1, <2>1, ApprovalStep
    <3> QED BY <3>1 DEF Approves, Spends, SpendsApproval
  <2>2. ASSUME NEW c \in Challenge, SpendsApproval(c, r)
        PROVE  Spends(c) /\ Approves(c, r)
    <3>1. Spends(c)
      BY <1>1, <2>2, NextUseStep DEF UseStep, ChallengeStep, Row, SpendsApproval
    <3> QED BY <1>1, <2>2, <3>1, ApprovalStep DEF SpendsApproval
  <2>3. ASSUME NEW c \in Challenge, SpendsApproval(c, r)
        PROVE  /\ Born(r) /\ GrantsAsSigned(c, r)
               /\ \A d \in Challenge : SpendsApproval(d, r) => d = c
    <3>1. Born(r) /\ GrantsAsSigned(c, r)
      BY <2>2, <2>3 DEF Approves
    <3>2. ASSUME NEW d \in Challenge, SpendsApproval(d, r) PROVE d = c
      <4>1. Spends(c) /\ Spends(d) /\ challenge[c].binding.action = "approve"
        BY <2>2, <2>3, <3>2 DEF SpendsApproval
      <4> QED BY <1>1, <4>1, ApprovalStep
    <3> QED BY <3>1, <3>2
  <2> QED BY <2>1, <2>3
<1> QED BY <1>1, InitTypeOK, NextTypeOK, PTL DEF Spec, ApprovalSpendsItsProof

----------------------------------------------------------------------------
(* Decisions *)

\* What may change a decided request: its deletion, its lapse, or a reuse under way.
Overturned(r) ==
  \/ request'[r] = "gone"
  \/ request'[r] = "expired" /\ Expired(Ask[r].expires)
  \/ /\ request'[r] = "approved"
     /\ \E w \in Worker : job[w].at \in {"reuse-grant", "tag-reuse"} /\ job[w].request = r
     /\ grant'[r] # None => Covered(r, grant'[r].scopes, grant'[r].expires)

LEMMA OverturnStep ==
  ASSUME NameInv, CoverInv, [Next]_vars, NEW r \in Request,
         request[r] \in Known \ {"pending"}, request'[r] # request[r]
  PROVE  Overturned(r)
<1>0. /\ TypeOK /\ ChainInv /\ request \in [Request -> Status]
      /\ grant \in [Request -> GrantRow \cup {None}] /\ job \in [Worker -> Job]
  BY DEF CoverInv, NameInv, TypeOK, StoreTypeOK
<1> USE DEF storeVars, tables
<1>1. ASSUME NEW w \in Worker, Create(w) PROVE Overturned(r)
  <2>1. ASSUME (\E q \in Request : CreateRequest(w, q)) \/ FindGrant(w) \/ RereadRequest(w)
        PROVE  FALSE
    BY <2>1 DEF CreateRequest, FindGrant, RereadRequest
  <2>2. ASSUME InsertRequest(w) PROVE FALSE
    <3>1. job[w].request \in Request /\ request[job[w].request] = "none"
      BY <1>0, <2>2 DEF InsertRequest, At, Job, ChainInv, InsertsNew
    <3> QED BY <1>0, <2>2, <3>1 DEF InsertRequest, InsertRequestRow, Known
  <2>3. ASSUME ApproveReuse(w) PROVE Overturned(r)
    <3>1. At(w, "reuse-grant") /\ ReuseGrant(job[w].request, job[w].expires)
      BY <2>3 DEF ApproveReuse
    <3>2. job[w].request = r /\ request'[r] = "approved"
      BY <1>0, <3>1 DEF ReuseGrant, SetStatus
    <3>3. grant'[r] = NewGrant("reuse", Ask[r].requested, job[w].expires)
      BY <1>0, <3>1, <3>2 DEF ReuseGrant
    <3>4. Covered(r, Ask[r].requested, job[w].expires)
      BY <3>1, <3>2 DEF CoverInv, ReuseCovered, At
    <3> QED BY <3>1, <3>2, <3>3, <3>4 DEF Overturned, NewGrant, At
  <2>4. ASSUME TagReusedGrant(w) PROVE Overturned(r)
    <3>1. At(w, "tag-reuse") /\ TagReuse(job[w].request, job[w].row)
      BY <2>4 DEF TagReusedGrant
    <3>2. job[w].request = r /\ request'[r] = "approved"
      BY <1>0, <3>1 DEF TagReuse, SetStatus
    <3>3. ASSUME grant'[r] # None PROVE grant'[r] = job[w].row
      <4>1. grant[r] # None => grant[r].by = "reuse"
        BY <3>1, <3>2 DEF NameInv, RetagsSame
      <4> QED BY <1>0, <3>1, <3>2, <3>3, <4>1 DEF TagReuse
    <3>4. Covered(r, job[w].row.scopes, job[w].row.expires)
      BY <3>1, <3>2 DEF CoverInv, ReuseCovered
    <3> QED BY <3>1, <3>2, <3>3, <3>4 DEF Overturned, At
  <2> QED BY <1>1, <2>1, <2>2, <2>3, <2>4 DEF Create
<1>2. ASSUME NEW w \in Worker,
             Poll(w) \/ IssueChallenge(w) \/ ExchangeSession(w) \/ UseSession(w) \/ Fail(w)
      PROVE  Overturned(r)
  <2>1. /\ At(w, "expire") /\ SetStatus(job[w].request, "expired")
        /\ Expired(Ask[job[w].request].expires)
    BY <1>0, <1>2, OtherHandlersStep DEF OtherStep
  <2>2. job[w].request = r /\ request'[r] = "expired"
    BY <1>0, <2>1 DEF SetStatus
  <2> QED BY <1>0, <2>1, <2>2 DEF Overturned
<1>3. ASSUME OwnerAct PROVE Overturned(r)
  <2>1. PICK c \in Challenge :
          \/ \E q \in Request : \/ OwnerDenies(c, q)
                                \/ \E S \in SUBSET Scope, t \in GrantUntil : OwnerApproves(c, q, S, t)
          \/ \E g \in GrantId : OwnerRevokes(c, g)
          \/ \E p \in Profile : OwnerReads(c, p) \/ OwnerDeletes(c, p)
    BY <1>3 DEF OwnerAct
  <2>2. ASSUME NEW q \in Request, request[q] = "pending", NEW st, SetStatus(q, st) PROVE FALSE
    BY <1>0, <2>2 DEF SetStatus
  <2>3. ASSUME NEW q \in Request, OwnerDenies(c, q) PROVE FALSE
    BY <2>2, <2>3 DEF OwnerDenies
  <2>4. ASSUME NEW q \in Request, NEW S \in SUBSET Scope, NEW t \in GrantUntil,
               OwnerApproves(c, q, S, t)
        PROVE  FALSE
    BY <2>2, <2>4 DEF OwnerApproves, Approvable
  <2>5. ASSUME (\E g \in GrantId : OwnerRevokes(c, g)) \/ \E p \in Profile : OwnerReads(c, p)
        PROVE  FALSE
    BY <2>5 DEF OwnerRevokes, OwnerReads
  <2>6. ASSUME NEW p \in Profile, OwnerDeletes(c, p) PROVE Overturned(r)
    BY <2>6 DEF OwnerDeletes, Overturned
  <2> QED BY <2>1, <2>3, <2>4, <2>5, <2>6
<1>4. ASSUME Atomic, ~OwnerAct PROVE FALSE
  BY <1>4 DEF Atomic, VerifyProof, Register
<1>5. ASSUME Tick \/ UNCHANGED vars PROVE FALSE
  BY <1>5 DEF Tick, vars
<1> QED BY <1>1, <1>2, <1>3, <1>4, <1>5 DEF Next

\* A decided request changes only by deletion, by lapsing after its deadline, or by a reuse
\* under way, and then within what the owner approved.
THEOREM DecisionsAreKept == Spec => DecisionStands
<1>1. ASSUME NameInv, CoverInv, [Next]_vars
      PROVE  [\A r \in Request :
                request[r] \in Known \ {"pending"} /\ request'[r] # request[r] =>
                  \/ request'[r] = "gone"
                  \/ request'[r] = "expired" /\ Expired(Ask[r].expires)
                  \/ /\ request'[r] = "approved"
                     /\ \E w \in Worker : job[w].at \in {"reuse-grant", "tag-reuse"} /\ job[w].request = r
                     /\ grant'[r] # None => Covered(r, grant'[r].scopes, grant'[r].expires)]_vars
  BY <1>1, OverturnStep DEF Overturned
<1> QED
  BY <1>1, InitNameInv, NextNameInv, InitCoverInv, NextCoverInv, PTL DEF Spec, DecisionStands
=============================================================================
