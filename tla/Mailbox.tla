------------------------------ MODULE Mailbox ------------------------------
(***************************************************************************)
(* The Mac gateway: the mailbox of login requests (Gateway.swift:          *)
(* RequestMailbox), one file per request under one process-shared lock,    *)
(* and the app that decides them and keeps a key per website in the        *)
(* Keychain (ORFGatewayApp.swift).  The app works on the main actor, one   *)
(* user action at a time; the native host that answers the browser is      *)
(* another process.  Signatures are ideal: a proof names the key that      *)
(* signed it.                                                              *)
(***************************************************************************)
EXTENDS Integers, FiniteSets

CONSTANTS Origins,       \* websites
          Lifetime,      \* a request may expire this far ahead
          Retention,     \* and is kept this long after that
          MaxRecords,    \* files in the mailbox
          None           \* no key, proof or request

ASSUME MailboxConstants ==
  /\ Lifetime \in Nat \ {0} /\ Retention \in Nat /\ MaxRecords \in Nat \ {0}
  /\ None \notin Nat

VARIABLES now,
          records,    \* the request files
          keys,       \* the Keychain: a key for each origin
          lastKey,    \* keys made so far
          shown,      \* the requests the app's window shows
          doing       \* the app's user action in progress

mailboxVars == <<now, records, keys, lastKey, shown, doing>>

Idle == [act |-> "idle", origin |-> None, id |-> None, key |-> None]

MailboxInit ==
  /\ now = 0
  /\ records = {} /\ shown = {}
  /\ keys = [o \in Origins |-> None] /\ lastKey = 0
  /\ doing = Idle

-----------------------------------------------------------------------------
(* RequestMailbox *)

\* records(now:) removes the files of requests long over.
Kept(all) == {r \in all : now < r.expires + Retention}

\* Mutant of Awaiting: the requests the user has decided are shown too.
AwaitingAll(all) == {r \in all : now < r.expires}

Awaiting(all) == {r \in all : r.status = "pending" /\ now < r.expires}

Proof(r, key) ==
  [audience |-> r.origin, nonce |-> r.nonce, key |-> key,
   issued |-> now, expires |-> r.expires]

Request(id, origin, nonce, expires) ==
  [id |-> id, origin |-> origin, nonce |-> nonce, expires |-> expires,
   status |-> "pending", proof |-> None]

InTime(expires) == now < expires /\ expires <= now + Lifetime

\* Mutant of Room: a request over counts as long as it is kept.
RoomForOne(origin) == Cardinality(Kept(records)) < MaxRecords

\* Room for one more file, and no request of the website awaits the user.
Room(origin) ==
  /\ Cardinality(Kept(records)) < MaxRecords
  /\ \A r \in Awaiting(records) : r.origin # origin

\* begin: the answer to the browser, and the files it leaves.
Accepted(id, origin, nonce, expires) ==
  /\ InTime(expires)
  /\ \A r \in Kept(records) :
       r.id # id /\ ~(r.origin = origin /\ r.nonce = nonce)
  /\ Room(origin)

Begin(id, origin, nonce, expires) ==
  records' = IF Accepted(id, origin, nonce, expires)
             THEN Kept(records) \cup {Request(id, origin, nonce, expires)}
             ELSE IF InTime(expires) THEN Kept(records) ELSE records

\* status: what the browser is told of a request of its website.
Status(id, origin) ==
  LET mine == {r \in records : r.id = id /\ r.origin = origin}
      mine1 == CHOOSE r \in mine : TRUE
  IN IF mine = {} THEN [status |-> "error", proof |-> None]
     ELSE IF mine1.expires <= now
     THEN [status |-> "expired", proof |-> None]
     ELSE [status |-> mine1.status, proof |-> mine1.proof]

\* Mutant of Revoked: only what still awaits the user is revoked.
RevokedPending(all, origin) ==
  {IF r.origin = origin /\ r.status = "pending"
   THEN [r EXCEPT !.status = "revoked", !.proof = None] ELSE r : r \in all}

\* revoke: every request of a website.
Revoked(all, origin) ==
  {IF r.origin = origin
   THEN [r EXCEPT !.status = "revoked", !.proof = None] ELSE r : r \in all}

-----------------------------------------------------------------------------
(* The app *)

\* pending(now:) reads the mailbox again, at the timer and after an action.
Show(all) == records' = Kept(all) /\ shown' = Awaiting(Kept(all))

Refresh ==
  /\ doing = Idle
  /\ Show(records)
  /\ UNCHANGED <<now, keys, lastKey, doing>>

\* approve: the site's key first, made if there is none.
LoadKey(r) ==
  /\ doing = Idle /\ r \in shown
  /\ LET key == IF keys[r.origin] = None THEN lastKey + 1 ELSE keys[r.origin]
     IN /\ keys' = [keys EXCEPT ![r.origin] = key]
        /\ lastKey' = IF keys[r.origin] = None THEN lastKey + 1 ELSE lastKey
        /\ doing' = [act |-> "approve", origin |-> r.origin, id |-> r.id,
                     key |-> key]
  /\ UNCHANGED <<now, records, shown>>

\* Mutant of Decidable: a request decided before can be approved again.
DecidableAgain(r) == r.id = doing.id /\ now < r.expires

\* makeProof: pending and not over.
Decidable(r) ==
  /\ r.id = doing.id
  /\ r.status = "pending" /\ now < r.expires

\* Then the mailbox signs, or refuses a request that is over.
Approve ==
  /\ doing.act = "approve"
  /\ IF \E r \in records : Decidable(r)
     THEN Show({IF Decidable(r)
                THEN [r EXCEPT !.status = "approved",
                               !.proof = Proof(r, doing.key)]
                ELSE r : r \in records})
     ELSE UNCHANGED <<records, shown>>
  /\ doing' = Idle
  /\ UNCHANGED <<now, keys, lastKey>>

Deny(r) ==
  /\ doing = Idle /\ r \in shown
  /\ IF \E q \in records : q.id = r.id /\ q.status = "pending"
     THEN Show({IF q.id = r.id THEN [q EXCEPT !.status = "denied"] ELSE q :
                  q \in records})
     ELSE UNCHANGED <<records, shown>>
  /\ UNCHANGED <<now, keys, lastKey, doing>>

\* forget: the requests first, so that no proof outlives the key ...
Revoke(origin) ==
  /\ doing = Idle /\ keys[origin] # None
  /\ records' = Revoked(Kept(records), origin)
  /\ doing' = [Idle EXCEPT !.act = "forget", !.origin = origin]
  /\ UNCHANGED <<now, keys, lastKey, shown>>

\* ... then the key.
ForgetKey ==
  /\ doing.act = "forget"
  /\ keys' = [keys EXCEPT ![doing.origin] = None]
  /\ Show(records)
  /\ doing' = Idle
  /\ UNCHANGED <<now, lastKey>>

\* The Keychain fails, or the app dies and is started again: what was saved
\* is saved.
GiveUp ==
  /\ doing # Idle
  /\ doing' = Idle
  /\ UNCHANGED <<now, records, keys, lastKey, shown>>

\* Forgetting stops half way: revoke saves one file after the other.
RevokeSome(origin) ==
  /\ doing = Idle /\ keys[origin] # None
  /\ \E saved \in SUBSET Kept(records) :
       records' = (Kept(records) \ saved) \cup Revoked(saved, origin)
  /\ UNCHANGED <<now, keys, lastKey, shown, doing>>

AppStops == GiveUp \/ \E origin \in Origins : RevokeSome(origin)

AppWorks ==
  \/ Refresh \/ Approve \/ ForgetKey
  \/ \E r \in shown : LoadKey(r) \/ Deny(r)
  \/ \E origin \in Origins : Revoke(origin)

AppNext == AppWorks \/ AppStops

Tick ==
  /\ now' = now + 1
  /\ UNCHANGED <<records, keys, lastKey, shown, doing>>

\* Ids are random UUIDs, so one in use is not drawn again.
Fresh(id) == id # doing.id /\ \A r \in records \cup shown : r.id # id

\* Any website, browser or other caller of the native host.
HostNext ==
  \E id, nonce, expires \in Nat, origin \in Origins :
    /\ Fresh(id)
    /\ Begin(id, origin, nonce, expires)
    /\ UNCHANGED <<now, keys, lastKey, shown, doing>>

MailboxSpec ==
  MailboxInit /\ [][AppNext \/ Tick \/ HostNext]_mailboxVars

-----------------------------------------------------------------------------
(* Properties *)

Proofs == [audience : Origins, nonce : Nat, key : Nat, issued : Nat,
           expires : Nat]

Requests == [id : Nat, origin : Origins, nonce : Nat, expires : Nat,
             status : {"pending", "approved", "denied", "revoked"},
             proof : Proofs \cup {None}]

ASSUME NoneIsNoProof == None \notin Proofs

\* The shape of the mailbox, the Keychain and the app, which shows nothing
\* that was decided when it last looked (RequestMailbox, GatewayModel).
MailboxTypeOK ==
  /\ now \in Nat /\ lastKey \in Nat
  /\ records \subseteq Requests
  /\ shown \subseteq {r \in Requests : r.status = "pending"}
  /\ \A o \in Origins : keys[o] \in 1 .. lastKey \cup {None}
  /\ doing \in [act : {"idle", "approve", "forget"},
               origin : Origins \cup {None}, id : Nat \cup {None},
               key : Nat \cup {None}]

\* A proof waiting in the mailbox is signed with the key the Keychain has
\* for its website: no proof of a forgotten key is left to be delivered,
\* wherever forgetting stops (forget in ORFGatewayApp, revoke in Gateway).
ProofsAreOfTheKey ==
  \A r \in records : r.proof # None =>
    r.status = "approved" /\ r.proof.key = keys[r.origin]

\* No website has two requests before the user, and the mailbox is bounded,
\* whatever browsers send (begin in Gateway).
OneRequestAtATime ==
  /\ Cardinality(records) <= MaxRecords
  /\ \A r, q \in Awaiting(records) : r.origin = q.origin => r = q

\* What the user decided stands: a window that shows a request decided since,
\* as after a Keychain failure, changes nothing; only forgetting the website
\* takes an approval back (makeProof, deny, revoke in Gateway).
Stands(r, q) ==
  q.id = r.id /\ r.status # "pending" =>
    q = r \/ (q.status = "revoked" /\ q.proof = None)

DecisionsStand ==
  [][\A r \in records, q \in records' : Stands(r, q)]_mailboxVars
=============================================================================
