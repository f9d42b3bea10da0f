-------------------------- MODULE NativeLoginProofs --------------------------
(***************************************************************************)
(* Proofs about Mailbox and NativeLogin, for any websites, tabs, requests  *)
(* and times.  First the mailbox by itself: its shape, that every proof in *)
(* it is of a key still kept, and that decisions stand.  The invariant     *)
(* ties the app's action in progress, between its step in the Keychain and *)
(* its step in the mailbox, to both: the key it loaded is the website's,   *)
(* and a website being forgotten has no proof left.  For that an id has to *)
(* name one request, of one website, in the mailbox and in the window.     *)
(*                                                                         *)
(* Then a whole login.  The websites' part of the invariant says that a    *)
(* challenge waits in one session at most and not after it was answered;   *)
(* the pages' part, that whatever goes by the id of a page's request, in a *)
(* script, a message or the mailbox, is about the challenge the page       *)
(* holds, and that every proof on its way is one the user approved.  Every *)
(* step then is one the mailbox allows, which carries its theorems over.   *)
(***************************************************************************)
EXTENDS NativeLogin, FiniteSetTheorems, TLAPS

(* The mailbox *)

OneRecordPerId == \A r, q \in records : r.id = q.id => r = q

ShownIsOfItsWebsite ==
  \A r \in shown, q \in records : r.id = q.id => r.origin = q.origin

KeyLoaded ==
  doing.act = "approve" =>
    /\ doing.origin \in Origins /\ doing.key \in Nat
    /\ keys[doing.origin] = doing.key
    /\ \A q \in records : q.id = doing.id => q.origin = doing.origin

NothingLeft ==
  doing.act = "forget" =>
    /\ doing.origin \in Origins
    /\ \A r \in records : r.origin = doing.origin => r.proof = None

MailboxInv ==
  /\ MailboxTypeOK /\ keys \in [Origins -> Nat \cup {None}]
  /\ ProofsAreOfTheKey /\ OneRecordPerId /\ ShownIsOfItsWebsite
  /\ KeyLoaded /\ NothingLeft

\* An approved request has a proof, which is for its website and challenge.
Signed(r) ==
  /\ r.status = "approved" => r.proof # None
  /\ r.proof # None => r.proof.audience = r.origin /\ r.proof.nonce = r.nonce

\* Every record is what became of one that was there.
BecameOf(r, q) ==
  /\ q.id = r.id /\ q.origin = r.origin /\ q.nonce = r.nonce
  /\ q.status = "pending" => q = r
  /\ Signed(r) => Signed(q)

NoneIsNew == \A q \in records' : \E r \in records : BecameOf(r, q)

\* The invariant holds at the start.
LEMMA MailboxInitInv == MailboxInit => MailboxInv
  BY MailboxConstants
  DEF MailboxInit, MailboxInv, MailboxTypeOK, ProofsAreOfTheKey,
      OneRecordPerId, ShownIsOfItsWebsite, KeyLoaded, NothingLeft, Idle

\* Cleaning up and looking again keeps what holds of every record.
LEMMA KeptFacts ==
  ASSUME NEW all
  PROVE  /\ Kept(all) \subseteq all
         /\ Awaiting(Kept(all)) \subseteq
              {r \in Kept(all) : r.status = "pending"}
  BY DEF Kept, Awaiting

\* Reading the mailbox again keeps the invariant.
LEMMA RefreshInv == MailboxInv /\ Refresh => MailboxInv'
<1> SUFFICES ASSUME MailboxInv, Refresh PROVE MailboxInv'
  OBVIOUS
<1>1. /\ records' \subseteq records
      /\ shown' \subseteq {r \in records' : r.status = "pending"}
  BY KeptFacts DEF Refresh, Show
<1>2. UNCHANGED <<now, keys, lastKey, doing>>
  BY DEF Refresh
<1> QED
  BY <1>1, <1>2
  DEF MailboxInv, MailboxTypeOK, ProofsAreOfTheKey, OneRecordPerId,
      ShownIsOfItsWebsite, KeyLoaded, NothingLeft

\* Loading a website's key, or making one, keeps the invariant.
LEMMA LoadKeyInv ==
  ASSUME MailboxInv, NEW r \in shown, LoadKey(r)
  PROVE  MailboxInv'
<1> DEFINE old == keys[r.origin]
           key == IF old = None THEN lastKey + 1 ELSE old
<1>1. /\ r \in Requests /\ r.origin \in Origins /\ r.id \in Nat
      /\ lastKey \in Nat
  BY DEF MailboxInv, MailboxTypeOK, Requests
<1>2. /\ keys' = [keys EXCEPT ![r.origin] = key]
      /\ lastKey' = IF old = None THEN lastKey + 1 ELSE lastKey
      /\ doing' = [act |-> "approve", origin |-> r.origin, id |-> r.id,
                   key |-> key]
      /\ UNCHANGED <<now, records, shown>>
  BY DEF LoadKey
<1>3. old \in 1 .. lastKey \cup {None}
  BY <1>1 DEF MailboxInv, MailboxTypeOK
<1>4. key \in Nat /\ key \in 1 .. lastKey' /\ lastKey' \in Nat
      /\ lastKey <= lastKey'
  BY <1>1, <1>2, <1>3
<1>5. old # None => key = old
  OBVIOUS
<1> HIDE DEF key, old
<1>6. MailboxTypeOK' /\ keys' \in [Origins -> Nat \cup {None}]
  <2>1. \A o \in Origins : keys'[o] = IF o = r.origin THEN key ELSE keys[o]
    BY <1>1, <1>2 DEF MailboxInv
  <2>2. \A o \in Origins : keys[o] \in 1 .. lastKey \cup {None}
    BY DEF MailboxInv, MailboxTypeOK
  <2>3. \A o \in Origins : keys'[o] \in 1 .. lastKey' \cup {None}
    BY <1>1, <1>4, <2>1, <2>2
  <2>4. keys' \in [Origins -> Nat \cup {None}]
    BY <1>2, <1>4 DEF MailboxInv
  <2> QED
    BY <1>1, <1>2, <1>4, <2>3, <2>4 DEF MailboxInv, MailboxTypeOK
<1>7. ProofsAreOfTheKey'
  <2> SUFFICES ASSUME NEW q \in records', q.proof # None
               PROVE  q.status = "approved" /\ q.proof.key = keys'[q.origin]
    BY DEF ProofsAreOfTheKey
  <2>1. q \in records /\ q \in Requests
    BY <1>2 DEF MailboxInv, MailboxTypeOK
  <2>2. q.origin \in Origins /\ q.proof.key \in Nat
    BY <2>1 DEF Requests, Proofs
  <2>3. q.status = "approved" /\ q.proof.key = keys[q.origin]
    BY <2>1 DEF MailboxInv, ProofsAreOfTheKey
  <2>4. q.origin = r.origin => old # None
    BY <2>2, <2>3, MailboxConstants DEF old
  <2> QED
    BY <1>2, <1>5, <2>2, <2>3, <2>4 DEF MailboxInv, old
<1>8. KeyLoaded'
  <2>1. doing'.origin = r.origin /\ doing'.key = key /\ doing'.id = r.id
    BY <1>2
  <2>2. keys'[r.origin] = key
    BY <1>1, <1>2 DEF MailboxInv
  <2>3. \A q \in records' : q.id = r.id => q.origin = r.origin
    BY <1>2 DEF MailboxInv, ShownIsOfItsWebsite
  <2> QED
    BY <1>1, <1>4, <2>1, <2>2, <2>3 DEF KeyLoaded
<1> QED
  BY <1>2, <1>6, <1>7, <1>8
  DEF MailboxInv, OneRecordPerId, ShownIsOfItsWebsite, NothingLeft

\* A record changed by Approve, Deny or Revoke keeps its id and its website.
LEMMA ApproveInv ==
  ASSUME MailboxInv, Approve
  PROVE  /\ MailboxInv' /\ NoneIsNew
         /\ \A r \in records, q \in records' : Stands(r, q)
<1>0. /\ doing' = Idle /\ UNCHANGED <<now, keys, lastKey>>
      /\ doing.act = "approve" /\ Idle.act = "idle"
  BY DEF Approve, Idle
<1>a. Idle \in [act : {"idle", "approve", "forget"},
                origin : Origins \cup {None}, id : Nat \cup {None},
                key : Nat \cup {None}]
  BY DEF Idle
<1>1. CASE ~\E r \in records : Decidable(r)
  <2>1. UNCHANGED <<records, shown>>
    BY <1>1 DEF Approve
  <2>2. NoneIsNew /\ \A r, q \in records : Stands(r, q)
    BY <2>1 DEF NoneIsNew, BecameOf, Stands, MailboxInv, OneRecordPerId
  <2> QED
    BY <1>0, <1>a, <2>1, <2>2
    DEF MailboxInv, MailboxTypeOK, ProofsAreOfTheKey, OneRecordPerId,
        ShownIsOfItsWebsite, KeyLoaded, NothingLeft
<1>2. CASE \E r \in records : Decidable(r)
  <2> DEFINE signed(r) == [r EXCEPT !.status = "approved",
                                    !.proof = Proof(r, doing.key)]
             all == {IF Decidable(r) THEN signed(r) ELSE r : r \in records}
  <2>1. records' = Kept(all) /\ shown' = Awaiting(Kept(all))
    BY <1>2 DEF Approve, Show
  <2>2. /\ records' \subseteq all
        /\ shown' \subseteq {r \in records' : r.status = "pending"}
    BY <2>1, KeptFacts
  <2>3. ASSUME NEW r \in records, Decidable(r)
        PROVE  /\ signed(r) \in Requests
               /\ signed(r).id = r.id /\ signed(r).origin = r.origin
               /\ signed(r).status = "approved"
               /\ signed(r).proof.key = keys[r.origin]
               /\ signed(r).nonce = r.nonce /\ Signed(signed(r))
               /\ r.status = "pending"
    <3>1. /\ r \in Requests /\ r.id = doing.id /\ r.status = "pending"
          /\ now \in Nat
      BY <2>3 DEF MailboxInv, MailboxTypeOK, Decidable
    <3>2. r.origin = doing.origin /\ doing.key \in Nat
          /\ keys[doing.origin] = doing.key
      BY <1>0, <3>1 DEF MailboxInv, KeyLoaded
    <3>3. /\ Proof(r, doing.key) \in Proofs
          /\ Proof(r, doing.key).key = doing.key
          /\ Proof(r, doing.key).audience = r.origin
          /\ Proof(r, doing.key).nonce = r.nonce
      BY <3>1, <3>2 DEF Proof, Proofs, Requests
    <3> QED
      BY <3>1, <3>2, <3>3, NoneIsNoProof DEF Requests, Signed
  <2> HIDE DEF signed
  <2>4. \A q \in records' : \E r \in records :
          \/ ~Decidable(r) /\ q = r
          \/ Decidable(r) /\ q = signed(r)
    BY <2>2
  <2> HIDE DEF all
  <2>5. ASSUME NEW q \in records'
        PROVE  \E r \in records :
                 /\ q.id = r.id /\ q.origin = r.origin /\ q \in Requests
                 /\ r.status # "pending" => q = r
                 /\ q.proof # None =>
                      q.status = "approved" /\ q.proof.key = keys[q.origin]
                 /\ \A s \in records : s.id = r.id => s = r
                 /\ q = IF Decidable(r) THEN signed(r) ELSE r
    BY <2>3, <2>4
    DEF MailboxInv, MailboxTypeOK, ProofsAreOfTheKey, OneRecordPerId
  <2>6. records' \subseteq Requests /\ shown' \subseteq records'
        /\ \A r \in shown' : r.status = "pending"
    BY <2>2, <2>5
  <2>7. ProofsAreOfTheKey' /\ OneRecordPerId'
    BY <1>0, <2>5 DEF ProofsAreOfTheKey, OneRecordPerId
  <2>8. ShownIsOfItsWebsite'
    BY <2>6, <2>7 DEF ShownIsOfItsWebsite, OneRecordPerId
  <2>9. KeyLoaded' /\ NothingLeft'
    BY <1>0 DEF KeyLoaded, NothingLeft
  <2>10. MailboxTypeOK' /\ keys' \in [Origins -> Nat \cup {None}]
    BY <1>0, <1>a, <2>6 DEF MailboxInv, MailboxTypeOK
  <2>11. NoneIsNew /\ \A r \in records, q \in records' : Stands(r, q)
    BY <2>3, <2>5 DEF Stands, NoneIsNew, BecameOf, Signed
  <2> QED
    BY <2>7, <2>8, <2>9, <2>10, <2>11 DEF MailboxInv
<1> QED
  BY <1>1, <1>2

LEMMA DenyInv ==
  ASSUME MailboxInv, NEW d \in shown, Deny(d)
  PROVE  /\ MailboxInv' /\ NoneIsNew
         /\ \A r \in records, q \in records' : Stands(r, q)
<1>0. /\ UNCHANGED <<now, keys, lastKey, doing>>
      /\ doing.act = "idle"
  BY DEF Deny, Idle
<1>1. CASE ~\E q \in records : q.id = d.id /\ q.status = "pending"
  <2>1. UNCHANGED <<records, shown>>
    BY <1>1 DEF Deny
  <2>2. NoneIsNew /\ \A r, q \in records : Stands(r, q)
    BY <2>1 DEF NoneIsNew, BecameOf, Stands, MailboxInv, OneRecordPerId
  <2> QED
    BY <1>0, <2>1, <2>2
    DEF MailboxInv, MailboxTypeOK, ProofsAreOfTheKey, OneRecordPerId,
        ShownIsOfItsWebsite, KeyLoaded, NothingLeft
<1>2. CASE \E q \in records : q.id = d.id /\ q.status = "pending"
  <2> DEFINE denied(r) == [r EXCEPT !.status = "denied"]
             all == {IF r.id = d.id THEN denied(r) ELSE r : r \in records}
  <2>1. records' = Kept(all) /\ shown' = Awaiting(Kept(all))
    BY <1>2 DEF Deny, Show
  <2>2. /\ records' \subseteq all
        /\ shown' \subseteq {r \in records' : r.status = "pending"}
    BY <2>1, KeptFacts
  <2>3. ASSUME NEW r \in records, r.id = d.id
        PROVE  /\ denied(r) \in Requests
               /\ denied(r).id = r.id /\ denied(r).origin = r.origin
               /\ denied(r).proof = None /\ denied(r).status = "denied"
               /\ denied(r).nonce = r.nonce
               /\ r.status = "pending"
    <3>1. r \in Requests /\ r.status = "pending"
      BY <1>2, <2>3 DEF MailboxInv, MailboxTypeOK, OneRecordPerId
    <3>2. r.proof = None
      BY <3>1 DEF MailboxInv, ProofsAreOfTheKey
    <3> QED
      BY <3>1, <3>2 DEF Requests
  <2> HIDE DEF denied
  <2>4. \A q \in records' : \E r \in records :
          \/ r.id # d.id /\ q = r
          \/ r.id = d.id /\ q = denied(r)
    BY <2>2
  <2> HIDE DEF all
  <2>5. ASSUME NEW q \in records'
        PROVE  \E r \in records :
                 /\ q.id = r.id /\ q.origin = r.origin /\ q \in Requests
                 /\ r.status # "pending" => q = r
                 /\ q.proof # None =>
                      q.status = "approved" /\ q.proof.key = keys[q.origin]
                 /\ \A s \in records : s.id = r.id => s = r
                 /\ q = IF r.id = d.id THEN denied(r) ELSE r
    BY <2>3, <2>4
    DEF MailboxInv, MailboxTypeOK, ProofsAreOfTheKey, OneRecordPerId
  <2>6. records' \subseteq Requests /\ shown' \subseteq records'
        /\ \A r \in shown' : r.status = "pending"
    BY <2>2, <2>5
  <2>7. ProofsAreOfTheKey' /\ OneRecordPerId'
    BY <1>0, <2>5 DEF ProofsAreOfTheKey, OneRecordPerId
  <2>8. ShownIsOfItsWebsite'
    BY <2>6, <2>7 DEF ShownIsOfItsWebsite, OneRecordPerId
  <2>9. KeyLoaded' /\ NothingLeft'
    BY <1>0 DEF KeyLoaded, NothingLeft
  <2>10. MailboxTypeOK' /\ keys' \in [Origins -> Nat \cup {None}]
    BY <1>0, <2>6 DEF MailboxInv, MailboxTypeOK
  <2>11. NoneIsNew /\ \A r \in records, q \in records' : Stands(r, q)
    BY <2>3, <2>5 DEF Stands, NoneIsNew, BecameOf, Signed
  <2> QED
    BY <2>7, <2>8, <2>9, <2>10, <2>11 DEF MailboxInv
<1> QED
  BY <1>1, <1>2

LEMMA RevokeInv ==
  ASSUME MailboxInv, NEW o \in Origins, Revoke(o)
  PROVE  /\ MailboxInv' /\ NoneIsNew
         /\ \A r \in records, q \in records' : Stands(r, q)
<1> DEFINE revoked(r) == [r EXCEPT !.status = "revoked", !.proof = None]
<1>0. /\ UNCHANGED <<now, keys, lastKey, shown>>
      /\ doing' = [Idle EXCEPT !.act = "forget", !.origin = o]
      /\ records' = Revoked(Kept(records), o)
  BY DEF Revoke
<1>1. /\ doing'.act = "forget" /\ doing'.origin = o
      /\ doing' \in [act : {"idle", "approve", "forget"},
                     origin : Origins \cup {None}, id : Nat \cup {None},
                     key : Nat \cup {None}]
  BY <1>0 DEF Idle
<1>2. Kept(records) \subseteq records
  BY KeptFacts
<1>3. \A r \in records :
        /\ revoked(r) \in Requests
        /\ revoked(r).id = r.id /\ revoked(r).origin = r.origin
        /\ revoked(r).status = "revoked" /\ revoked(r).proof = None
        /\ revoked(r).nonce = r.nonce
  BY DEF MailboxInv, MailboxTypeOK, Requests
<1>4. \A q \in records' : \E r \in records :
        q = IF r.origin = o THEN revoked(r) ELSE r
  BY <1>0, <1>2 DEF Revoked
<1> HIDE DEF revoked
<1>5. ASSUME NEW q \in records'
      PROVE  \E r \in records :
               /\ q.id = r.id /\ q.origin = r.origin /\ q \in Requests
               /\ q = r \/ (q.status = "revoked" /\ q.proof = None)
               /\ q.origin = o => q.proof = None
               /\ q.proof # None =>
                    q.status = "approved" /\ q.proof.key = keys[q.origin]
               /\ \A s \in records : s.id = r.id => s = r
               /\ q = IF r.origin = o THEN revoked(r) ELSE r
  BY <1>3, <1>4
  DEF MailboxInv, MailboxTypeOK, ProofsAreOfTheKey, OneRecordPerId
<1>6. ProofsAreOfTheKey' /\ OneRecordPerId'
  BY <1>0, <1>5 DEF ProofsAreOfTheKey, OneRecordPerId
<1>7. ShownIsOfItsWebsite'
  BY <1>0, <1>5 DEF MailboxInv, ShownIsOfItsWebsite
<1>8. KeyLoaded' /\ NothingLeft'
  BY <1>1, <1>5 DEF KeyLoaded, NothingLeft
<1>9. MailboxTypeOK' /\ keys' \in [Origins -> Nat \cup {None}]
  BY <1>0, <1>1, <1>5 DEF MailboxInv, MailboxTypeOK
<1>10. NoneIsNew /\ \A r \in records, q \in records' : Stands(r, q)
  BY <1>3, <1>5 DEF Stands, NoneIsNew, BecameOf, Signed
<1> QED
  BY <1>6, <1>7, <1>8, <1>9, <1>10 DEF MailboxInv

\* Forgetting that stops half way leaves the other records as they were.
LEMMA RevokeSomeInv ==
  ASSUME MailboxInv, NEW o \in Origins, RevokeSome(o)
  PROVE  /\ MailboxInv' /\ NoneIsNew
         /\ \A r \in records, q \in records' : Stands(r, q)
<1> DEFINE revoked(r) == [r EXCEPT !.status = "revoked", !.proof = None]
<1>0. UNCHANGED <<now, keys, lastKey, shown, doing>> /\ doing.act = "idle"
  BY DEF RevokeSome, Idle
<1>1. PICK saved \in SUBSET Kept(records) :
        records' = (Kept(records) \ saved) \cup Revoked(saved, o)
  BY DEF RevokeSome
<1>2. Kept(records) \subseteq records
  BY KeptFacts
<1>3. \A r \in records :
        /\ revoked(r) \in Requests
        /\ revoked(r).id = r.id /\ revoked(r).origin = r.origin
        /\ revoked(r).status = "revoked" /\ revoked(r).proof = None
        /\ revoked(r).nonce = r.nonce
  BY DEF MailboxInv, MailboxTypeOK, Requests
<1>4. \A q \in records' : \E r \in records :
        q = IF r \in saved /\ r.origin = o THEN revoked(r) ELSE r
  BY <1>1, <1>2 DEF Revoked
<1> HIDE DEF revoked
<1>5. ASSUME NEW q \in records'
      PROVE  \E r \in records :
               /\ q.id = r.id /\ q.origin = r.origin /\ q \in Requests
               /\ q = r \/ (q.status = "revoked" /\ q.proof = None)
               /\ q.proof # None =>
                    q.status = "approved" /\ q.proof.key = keys[q.origin]
               /\ \A s \in records : s.id = r.id => s = r
               /\ q = IF r \in saved /\ r.origin = o
                      THEN revoked(r) ELSE r
  BY <1>3, <1>4
  DEF MailboxInv, MailboxTypeOK, ProofsAreOfTheKey, OneRecordPerId
<1>6. ProofsAreOfTheKey' /\ OneRecordPerId'
  BY <1>0, <1>5 DEF ProofsAreOfTheKey, OneRecordPerId
<1>7. ShownIsOfItsWebsite'
  BY <1>0, <1>5 DEF MailboxInv, ShownIsOfItsWebsite
<1>8. KeyLoaded' /\ NothingLeft'
  BY <1>0 DEF KeyLoaded, NothingLeft
<1>9. MailboxTypeOK' /\ keys' \in [Origins -> Nat \cup {None}]
  BY <1>0, <1>5 DEF MailboxInv, MailboxTypeOK
<1>10. NoneIsNew /\ \A r \in records, q \in records' : Stands(r, q)
  BY <1>3, <1>5 DEF Stands, NoneIsNew, BecameOf, Signed
<1> QED
  BY <1>6, <1>7, <1>8, <1>9, <1>10 DEF MailboxInv

\* Deleting the key of a website none of whose requests has a proof.
LEMMA ForgetKeyInv == ASSUME MailboxInv, ForgetKey PROVE MailboxInv'
<1>0. /\ doing.act = "forget" /\ doing.origin \in Origins
      /\ keys' = [keys EXCEPT ![doing.origin] = None]
      /\ doing' = Idle /\ UNCHANGED <<now, lastKey>>
      /\ \A r \in records : r.origin = doing.origin => r.proof = None
  BY DEF ForgetKey, MailboxInv, NothingLeft
<1>1. /\ records' \subseteq records
      /\ shown' \subseteq {r \in records' : r.status = "pending"}
  BY KeptFacts DEF ForgetKey, Show
<1>2. /\ Idle.act = "idle"
      /\ Idle \in [act : {"idle", "approve", "forget"},
                   origin : Origins \cup {None}, id : Nat \cup {None},
                   key : Nat \cup {None}]
  BY DEF Idle
<1>3. /\ \A o \in Origins :
           keys'[o] = IF o = doing.origin THEN None ELSE keys[o]
      /\ keys' \in [Origins -> Nat \cup {None}]
  BY <1>0 DEF MailboxInv
<1>4. MailboxTypeOK'
  BY <1>0, <1>1, <1>2, <1>3 DEF MailboxInv, MailboxTypeOK
<1>5. ProofsAreOfTheKey'
  BY <1>0, <1>1, <1>3
  DEF MailboxInv, MailboxTypeOK, Requests, ProofsAreOfTheKey
<1>6. OneRecordPerId' /\ ShownIsOfItsWebsite'
  BY <1>1 DEF MailboxInv, OneRecordPerId, ShownIsOfItsWebsite
<1>7. KeyLoaded' /\ NothingLeft'
  BY <1>0, <1>2 DEF KeyLoaded, NothingLeft
<1> QED
  BY <1>3, <1>4, <1>5, <1>6, <1>7 DEF MailboxInv

\* A request of the browser's, with an id of its own.
LEMMA HostInv == ASSUME MailboxInv, HostNext PROVE MailboxInv'
<1> PICK id \in Nat, nonce \in Nat, expires \in Nat, origin \in Origins :
      /\ Fresh(id)
      /\ Begin(id, origin, nonce, expires)
      /\ UNCHANGED <<now, keys, lastKey, shown, doing>>
  BY DEF HostNext
<1> DEFINE new == Request(id, origin, nonce, expires)
<1>1. records' \subseteq records \cup {new}
  BY KeptFacts DEF Begin
<1>2. /\ new \in Requests /\ new.id = id /\ new.origin = origin
      /\ new.proof = None
  BY DEF Request, Requests
<1>3. id # doing.id /\ \A r \in records \cup shown : r.id # id
  BY DEF Fresh
<1> HIDE DEF new
<1>4. MailboxTypeOK' /\ keys' \in [Origins -> Nat \cup {None}]
  BY <1>1, <1>2 DEF MailboxInv, MailboxTypeOK
<1>5. ProofsAreOfTheKey' /\ OneRecordPerId' /\ ShownIsOfItsWebsite'
  BY <1>1, <1>2, <1>3
  DEF MailboxInv, ProofsAreOfTheKey, OneRecordPerId, ShownIsOfItsWebsite
<1>6. KeyLoaded' /\ NothingLeft'
  BY <1>1, <1>2, <1>3 DEF MailboxInv, KeyLoaded, NothingLeft
<1> QED
  BY <1>4, <1>5, <1>6 DEF MailboxInv

\* Records that are the same, or fewer, stand.
LEMMA FewerStand ==
  MailboxInv /\ records' \subseteq records =>
    NoneIsNew /\ \A r \in records, q \in records' : Stands(r, q)
  BY DEF MailboxInv, OneRecordPerId, Stands, NoneIsNew, BecameOf

\* Every step keeps the invariant, and what was decided.
LEMMA MailboxStep ==
  ASSUME MailboxInv, [AppNext \/ Tick \/ HostNext]_mailboxVars
  PROVE  /\ MailboxInv' /\ (HostNext \/ NoneIsNew)
         /\ \A r \in records, q \in records' : Stands(r, q)
<1>1. CASE Refresh
  <2>1. records' \subseteq records
    BY <1>1, KeptFacts DEF Refresh, Show
  <2> QED
    BY <1>1, <2>1, RefreshInv, FewerStand
<1>2. CASE Approve
  BY <1>2, ApproveInv
<1>3. CASE ForgetKey
  <2>1. records' \subseteq records
    BY <1>3, KeptFacts DEF ForgetKey, Show
  <2> QED
    BY <1>3, <2>1, ForgetKeyInv, FewerStand
<1>4. CASE GiveUp
  <2>1. /\ UNCHANGED <<now, records, keys, lastKey, shown>>
        /\ doing' = Idle /\ Idle.act = "idle"
        /\ Idle \in [act : {"idle", "approve", "forget"},
                     origin : Origins \cup {None}, id : Nat \cup {None},
                     key : Nat \cup {None}]
    BY <1>4 DEF GiveUp, Idle
  <2>2. MailboxInv'
    BY <2>1
    DEF MailboxInv, MailboxTypeOK, ProofsAreOfTheKey, OneRecordPerId,
        ShownIsOfItsWebsite, KeyLoaded, NothingLeft
  <2> QED
    BY <2>1, <2>2, FewerStand
<1>5. ASSUME NEW r \in shown, LoadKey(r)
      PROVE  /\ MailboxInv' /\ NoneIsNew
             /\ \A x \in records, q \in records' : Stands(x, q)
  <2>1. records' = records
    BY <1>5 DEF LoadKey
  <2> QED
    BY <1>5, <2>1, LoadKeyInv, FewerStand
<1>6. ASSUME NEW r \in shown, Deny(r)
      PROVE  /\ MailboxInv' /\ NoneIsNew
             /\ \A x \in records, q \in records' : Stands(x, q)
  BY <1>6, DenyInv
<1>7. ASSUME NEW o \in Origins, Revoke(o) \/ RevokeSome(o)
      PROVE  /\ MailboxInv' /\ NoneIsNew
             /\ \A r \in records, q \in records' : Stands(r, q)
  BY <1>7, RevokeInv, RevokeSomeInv
<1>8. CASE Tick
  <2>1. UNCHANGED <<records, keys, lastKey, shown, doing>> /\ now' \in Nat
    BY <1>8 DEF Tick, MailboxInv, MailboxTypeOK
  <2>2. MailboxInv'
    BY <2>1
    DEF MailboxInv, MailboxTypeOK, ProofsAreOfTheKey, OneRecordPerId,
        ShownIsOfItsWebsite, KeyLoaded, NothingLeft
  <2> QED
    BY <2>1, <2>2, FewerStand
<1>9. CASE HostNext
  <2>1. PICK id, nonce, expires \in Nat, origin \in Origins :
          /\ Fresh(id)
          /\ Begin(id, origin, nonce, expires)
    BY <1>9 DEF HostNext
  <2>2. \A r \in records, q \in records' : q.id = r.id => q \in records
    BY <2>1, KeptFacts DEF Begin, Fresh, Request
  <2>3. \A r \in records, q \in records' : Stands(r, q)
    BY <2>2 DEF MailboxInv, OneRecordPerId, Stands
  <2> QED
    BY <1>9, <2>3, HostInv
<1>10. CASE UNCHANGED mailboxVars
  <2>1. UNCHANGED <<now, records, keys, lastKey, shown, doing>>
    BY <1>10 DEF mailboxVars
  <2>2. MailboxInv'
    BY <2>1
    DEF MailboxInv, MailboxTypeOK, ProofsAreOfTheKey, OneRecordPerId,
        ShownIsOfItsWebsite, KeyLoaded, NothingLeft
  <2> QED
    BY <2>1, <2>2, FewerStand
<1> QED
  BY <1>1, <1>2, <1>3, <1>4, <1>5, <1>6, <1>7, <1>8, <1>9, <1>10
  DEF AppNext, AppWorks, AppStops

-----------------------------------------------------------------------------

\* The files and the requests before the user, which only begin adds to.
Bounded == IsFiniteSet(records) /\ OneRequestAtATime

\* What became of the records that were there is bounded like them.
LEMMA NoneNewBounded ==
  ASSUME MailboxInv, MailboxInv', Bounded, NoneIsNew, now <= now'
  PROVE  Bounded'
<1> DEFINE from == [q \in records' |->
                      CHOOSE r \in records : BecameOf(r, q)]
<1>1. \A q \in records' : from[q] \in records /\ BecameOf(from[q], q)
  BY DEF NoneIsNew
<1>2. from \in Injection(records', records)
  <2>1. from \in [records' -> records]
    BY <1>1
  <2>2. \A q, p \in records' : from[q] = from[p] => q = p
    BY <1>1 DEF BecameOf, MailboxInv, OneRecordPerId
  <2> QED
    BY <2>1, <2>2 DEF Injection, IsInjective
<1> HIDE DEF from
<1>3. IsFiniteSet(records') /\ Cardinality(records') <= Cardinality(records)
  BY <1>2, FS_Injection DEF Bounded
<1>4. Cardinality(records') <= MaxRecords
  <2>1. /\ Cardinality(records) <= MaxRecords /\ MaxRecords \in Nat
        /\ Cardinality(records) \in Nat /\ Cardinality(records') \in Nat
    BY <1>3, FS_CardinalityType, MailboxConstants
    DEF Bounded, OneRequestAtATime
  <2> QED
    BY <1>3, <2>1
<1>5. \A q \in Awaiting(records)' : q \in Awaiting(records)
  <2> SUFFICES ASSUME NEW q \in records', q.status = "pending",
                      now' < q.expires
               PROVE  q \in Awaiting(records)
    BY DEF Awaiting
  <2>1. q \in records
    BY <1>1 DEF BecameOf
  <2>2. q.expires \in Nat /\ now \in Nat /\ now' \in Nat
    BY <2>1 DEF MailboxInv, MailboxTypeOK, Requests
  <2> QED
    BY <2>1, <2>2 DEF Awaiting
<1> QED
  BY <1>3, <1>4, <1>5 DEF Bounded, OneRequestAtATime

LEMMA HostBounded ==
  ASSUME MailboxInv, Bounded, HostNext
  PROVE  Bounded'
<1> PICK id \in Nat, nonce \in Nat, expires \in Nat, origin \in Origins :
      /\ Begin(id, origin, nonce, expires)
      /\ UNCHANGED <<now, keys, lastKey, shown, doing>>
  BY DEF HostNext
<1> DEFINE new == Request(id, origin, nonce, expires)
           kept == Kept(records)
<1>1. /\ kept \subseteq records /\ IsFiniteSet(kept)
      /\ Cardinality(kept) <= Cardinality(records)
      /\ Cardinality(kept) \in Nat /\ Cardinality(records) \in Nat
      /\ Cardinality(records) <= MaxRecords /\ MaxRecords \in Nat
  <2>1. kept \subseteq records
    BY KeptFacts
  <2> QED
    BY <2>1, FS_Subset, FS_CardinalityType, MailboxConstants
    DEF Bounded, OneRequestAtATime
<1>2. CASE records' \subseteq records
  <2>1. NoneIsNew
    BY <1>2 DEF NoneIsNew, BecameOf
  <2>2. now <= now'
    BY DEF MailboxInv, MailboxTypeOK
  <2> QED
    BY <2>1, <2>2, HostInv, NoneNewBounded
<1>3. CASE records' = kept \cup {new} /\ Room(origin)
  <2>1. IsFiniteSet(records') /\ Cardinality(records') <= Cardinality(kept) + 1
    BY <1>1, <1>3, FS_AddElement
  <2>2. Cardinality(kept) < MaxRecords
    BY <1>3 DEF Room
  <2>3. Cardinality(records') <= MaxRecords
    BY <1>1, <2>1, <2>2, FS_CardinalityType
  <2>4. ASSUME NEW r \in Awaiting(records)', NEW q \in Awaiting(records)',
               r.origin = q.origin
        PROVE  r = q
    <3>1. new.origin = origin
      BY DEF Request
    <3> HIDE DEF new
    <3>2. /\ r \in Awaiting(records) \/ r = new
          /\ q \in Awaiting(records) \/ q = new
      BY <1>1, <1>3 DEF Awaiting
    <3>3. \A x \in Awaiting(records) : x.origin # origin
      BY <1>3 DEF Room
    <3> QED
      BY <2>4, <3>1, <3>2, <3>3 DEF Bounded, OneRequestAtATime
  <2> QED
    BY <2>1, <2>3, <2>4 DEF Bounded, OneRequestAtATime
<1> QED
  BY <1>1, <1>2, <1>3 DEF Begin, Accepted

LEMMA MailboxInvariance == MailboxSpec => []MailboxInv
<1>1. MailboxInv /\ [AppNext \/ Tick \/ HostNext]_mailboxVars => MailboxInv'
  BY MailboxStep
<1> QED
  BY <1>1, MailboxInitInv, PTL DEF MailboxSpec

-----------------------------------------------------------------------------

\* The mailbox, the Keychain and the app keep their shape: what the window
\* shows was undecided when it looked (RequestMailbox, GatewayModel).
THEOREM MailboxTyped == MailboxSpec => []MailboxTypeOK
<1>1. MailboxInv => MailboxTypeOK
  BY DEF MailboxInv
<1> QED
  BY <1>1, MailboxInvariance, PTL

\* For any websites and requests, no proof in the mailbox outlives the key
\* that signed it, nor is it of another website's key (approve and forget in
\* ORFGatewayApp, revoke in Gateway).
THEOREM NoProofOutlivesItsKey == MailboxSpec => []ProofsAreOfTheKey
<1>1. MailboxInv => ProofsAreOfTheKey
  BY DEF MailboxInv
<1> QED
  BY <1>1, MailboxInvariance, PTL

\* For any websites, requests and mailbox size: the mailbox is never over
\* its bound, and no website has two requests before the user (begin in
\* Gateway).
THEOREM MailboxBounded == MailboxSpec => []OneRequestAtATime
<1>1. MailboxInit => Bounded
  <2>1. MailboxInit => records = {} /\ Awaiting(records) = {}
    BY DEF MailboxInit, Awaiting
  <2> QED
    BY <2>1, FS_EmptySet, MailboxConstants DEF Bounded, OneRequestAtATime
<1>2. ASSUME MailboxInv, Bounded, [AppNext \/ Tick \/ HostNext]_mailboxVars
      PROVE  Bounded'
  <2>1. now \in Nat /\ (now' = now \/ now' = now + 1)
    BY <1>2
    DEF MailboxInv, MailboxTypeOK, AppNext, AppWorks, Refresh, Approve,
        ForgetKey, AppStops, GiveUp, LoadKey, Deny, Revoke, RevokeSome, Tick, HostNext, mailboxVars
  <2>2. now <= now'
    BY <2>1
  <2>3. MailboxInv' /\ (HostNext \/ NoneIsNew)
    BY <1>2, MailboxStep
  <2> QED
    BY <1>2, <2>2, <2>3, HostBounded, NoneNewBounded
<1>3. Bounded => OneRequestAtATime
  BY DEF Bounded
<1> QED
  BY <1>1, <1>2, <1>3, MailboxInvariance, PTL DEF MailboxSpec

\* For any websites and requests, a decision stands until the website is
\* forgotten (makeProof, deny and revoke in Gateway).
THEOREM NoDecisionUndone == MailboxSpec => DecisionsStand
<1>1. MailboxInv /\ [AppNext \/ Tick \/ HostNext]_mailboxVars =>
        [\A r \in records, q \in records' : Stands(r, q)]_mailboxVars
  BY MailboxStep
<1> QED
  BY <1>1, MailboxInvariance, PTL DEF MailboxSpec, DecisionsStand

-----------------------------------------------------------------------------
(* The websites: tokens, challenges and the logins they answer *)

Sessions ==
  [token : Nat, origin : Origins, expires : Nat,
   challenge : [nonce : Nat, expires : Nat] \cup {None}]

Login == [site : Origins, key : Nat, nonce : Nat]

\* A session is known by its token, and by the challenge it waits to have
\* answered; none waits for one that was.
SiteInv ==
  /\ used \in [loads : Nat, nonces : Nat, ids : Nat, faults : Nat]
  /\ sessions \subseteq Sessions /\ logins \in Seq(Login)
  /\ \A s \in sessions : s.token <= used.loads
  /\ \A s, q \in sessions : s.token = q.token => s = q
  /\ \A s \in sessions : s.challenge # None =>
       s.challenge.nonce <= used.nonces
  /\ \A s, q \in sessions :
       s.challenge # None /\ q.challenge # None
         /\ s.challenge.nonce = q.challenge.nonce => s = q
  /\ \A i \in 1 .. Len(logins) : logins[i].nonce <= used.nonces
  /\ \A i \in 1 .. Len(logins) : \A s \in sessions :
       s.challenge # None => s.challenge.nonce # logins[i].nonce
  /\ OneLoginPerApproval

\* What the user approved, as a website sees it.
Approved(proof) ==
  [site |-> proof.audience, nonce |-> proof.nonce, key |-> proof.key]
    \in approvals

\* A proof that can be sent, or was.
GoodPost(p) == p.site \in Origins /\ p.proof \in Proofs /\ Approved(p.proof)

\* Verifying a good proof keeps what the websites know of logins.
LEMMA VerifyKeepsSites ==
  ASSUME SiteInv, NEW p, GoodPost(p), Verify(p),
         used'.nonces = used.nonces, used'.loads = used.loads,
         used' \in [loads : Nat, nonces : Nat, ids : Nat, faults : Nat]
  PROVE  SiteInv'
<1> DEFINE good == {s \in Session(p.site, p.token, p.csrf) :
                      s.challenge # None /\ Verifies(p.proof, s)}
<1>1. /\ sessions' = (sessions \ good) \cup
                       {[s EXCEPT !.challenge = None] : s \in good}
      /\ logins' = IF good = {} THEN logins
                   ELSE LET s == CHOOSE s \in good : TRUE
                        IN Append(logins, [site |-> p.site,
                                           key |-> p.proof.key,
                                           nonce |-> s.challenge.nonce])
      /\ approvals' = approvals
  BY DEF Verify
<1>2. /\ good \subseteq sessions
      /\ \A s, q \in good : s = q
      /\ \A s \in good : /\ s.challenge # None /\ s.origin = p.site
                         /\ Verifies(p.proof, s)
  BY DEF SiteInv, Session, Live
<1> HIDE DEF good
<1>3. CASE good = {}
  <2>1. sessions' = sessions /\ logins' = logins
    BY <1>1, <1>3
  <2> QED BY <1>1, <2>1 DEF SiteInv, OneLoginPerApproval
<1>4. ASSUME NEW s \in good
      PROVE  SiteInv'
  <2> DEFINE spent == [s EXCEPT !.challenge = None]
             login == [site |-> p.site, key |-> p.proof.key,
                       nonce |-> s.challenge.nonce]
  <2>1. good = {s} /\ (CHOOSE q \in good : TRUE) = s
    BY <1>2, <1>4
  <2>2. /\ sessions' = (sessions \ {s}) \cup {spent}
        /\ logins' = Append(logins, login)
    BY <1>1, <2>1
  <2>3. /\ spent \in Sessions /\ spent.token = s.token
        /\ spent.challenge = None
    BY <1>2, <1>4 DEF SiteInv, Sessions
  <2>4. /\ login \in Login /\ login \in approvals
        /\ login.nonce = s.challenge.nonce /\ login.nonce <= used.nonces
        /\ s \in sessions /\ s.challenge # None
    <3>1. /\ s \in Sessions /\ s.challenge # None
          /\ s.challenge.nonce \in Nat /\ s.challenge.nonce <= used.nonces
      BY <1>2, <1>4 DEF SiteInv, Sessions
    <3>2. /\ p.proof.audience = p.site /\ p.proof.nonce = s.challenge.nonce
      BY <1>2, <1>4 DEF Verifies
    <3>3. p.proof.key \in Nat /\ p.site \in Origins
      BY DEF GoodPost, Proofs
    <3> QED BY <1>2, <1>4, <3>1, <3>2, <3>3 DEF Login, GoodPost, Approved
  <2> HIDE DEF spent, login
  <2>5. /\ logins' \in Seq(Login) /\ Len(logins') = Len(logins) + 1
        /\ Len(logins) \in Nat
        /\ logins'[Len(logins) + 1] = login
        /\ \A i \in 1 .. Len(logins) : logins'[i] = logins[i]
    BY <2>2, <2>4 DEF SiteInv
  <2>6. \A i \in 1 .. Len(logins') :
          i \in 1 .. Len(logins) \/ (i = Len(logins) + 1 /\ logins'[i] = login)
    BY <2>5
  <2>7. /\ sessions' \subseteq Sessions
        /\ \A q \in sessions' : q.token <= used'.loads
        /\ \A q, r \in sessions' : q.token = r.token => q = r
    BY <2>2, <2>3, <2>4 DEF SiteInv
  <2>8. \A q \in sessions' : q.challenge # None => q \in sessions /\ q # s
    BY <2>2, <2>3
  <2>9. /\ \A q \in sessions' : q.challenge # None =>
             q.challenge.nonce <= used'.nonces
        /\ \A q, r \in sessions' :
             q.challenge # None /\ r.challenge # None
               /\ q.challenge.nonce = r.challenge.nonce => q = r
    BY <2>8 DEF SiteInv
  <2>10. \A i \in 1 .. Len(logins') : logins'[i].nonce <= used'.nonces
    BY <2>4, <2>5, <2>6 DEF SiteInv
  <2>11. \A i \in 1 .. Len(logins') : \A q \in sessions' :
           q.challenge # None => q.challenge.nonce # logins'[i].nonce
    <3> SUFFICES ASSUME NEW i \in 1 .. Len(logins'), NEW q \in sessions',
                        q.challenge # None
                 PROVE  q.challenge.nonce # logins'[i].nonce
      OBVIOUS
    <3>1. q \in sessions /\ q # s
      BY <2>8
    <3>2. CASE i \in 1 .. Len(logins)
      BY <2>5, <3>1, <3>2 DEF SiteInv
    <3>3. CASE logins'[i] = login
      BY <2>4, <3>1, <3>3 DEF SiteInv
    <3> QED BY <2>6, <3>2, <3>3
  <2>12. \A i \in 1 .. Len(logins') : logins'[i] \in approvals'
    BY <1>1, <2>4, <2>5, <2>6 DEF SiteInv, OneLoginPerApproval
  <2>13. ASSUME NEW i \in 1 .. Len(logins'), NEW j \in 1 .. Len(logins'),
                logins'[i].nonce = logins'[j].nonce
         PROVE  i = j
    <3>1. \A k \in 1 .. Len(logins) : logins[k].nonce # login.nonce
      BY <2>4 DEF SiteInv
    <3>2. CASE i \in 1 .. Len(logins) /\ j \in 1 .. Len(logins)
      BY <2>5, <2>13, <3>2 DEF SiteInv, OneLoginPerApproval
    <3>3. CASE i \in 1 .. Len(logins) /\ j = Len(logins) + 1
      BY <2>5, <2>13, <3>1, <3>3
    <3>4. CASE j \in 1 .. Len(logins) /\ i = Len(logins) + 1
      BY <2>5, <2>13, <3>1, <3>4
    <3> QED BY <2>6, <3>2, <3>3, <3>4
  <2> QED
    BY <2>5, <2>7, <2>9, <2>10, <2>11, <2>12, <2>13
    DEF SiteInv, OneLoginPerApproval
<1> QED BY <1>3, <1>4

\* A page load adds a session with a token of its own.
LEMMA LoadKeepsSites ==
  ASSUME SiteInv, now \in Nat, NEW t \in Tabs, NEW site \in Origins,
         Load(t, site)
  PROVE  SiteInv'
<1> DEFINE fresh == [token |-> used.loads + 1, origin |-> site,
                     expires |-> now + SessionAge, challenge |-> None]
           fault == IF tabs[t] = NoPage THEN 0 ELSE 1
<1>1. /\ sessions' \subseteq sessions \cup {fresh}
      /\ used' = [used EXCEPT !.loads = used.loads + 1,
                   !.faults = @ + fault]
      /\ UNCHANGED <<logins, approvals>>
  BY DEF Load, Live
<1>2. /\ fresh \in Sessions /\ fresh.token = used.loads + 1
      /\ fresh.challenge = None
  BY NativeConstants DEF Sessions, SiteInv
<1>a. fault \in Nat
  OBVIOUS
<1> HIDE DEF fresh, fault
<1>3. /\ used' \in [loads : Nat, nonces : Nat, ids : Nat, faults : Nat]
      /\ used'.loads = used.loads + 1 /\ used'.nonces = used.nonces
      /\ used.loads \in Nat /\ used.nonces \in Nat
  <2>1. used \in [loads : Nat, nonces : Nat, ids : Nat, faults : Nat]
    BY DEF SiteInv
  <2>2. used' = [used EXCEPT !.loads = used.loads + 1, !.faults = @ + fault]
    BY <1>1
  <2>3. /\ used.loads + 1 \in Nat /\ used.faults + fault \in Nat
        /\ used.loads \in Nat /\ used.nonces \in Nat
    BY <1>a, <2>1
  <2>4. used' = [used EXCEPT !.loads = used.loads + 1,
                             !.faults = used.faults + fault]
    BY <2>2
  <2> HIDE DEF fault
  <2> QED BY <2>1, <2>3, <2>4
<1>4. /\ \A s \in sessions' : s.token <= used'.loads
      /\ \A s, q \in sessions' : s.token = q.token => s = q
      /\ sessions' \subseteq Sessions
  <2>1. \A s \in sessions : s.token \in Nat /\ s.token <= used.loads
    BY DEF SiteInv, Sessions
  <2>2. \A s \in sessions' : s \in sessions \/ s = fresh
    BY <1>1
  <2>3. \A s \in sessions : s.token # fresh.token
    BY <1>2, <1>3, <2>1
  <2>4. \A s, q \in sessions : s.token = q.token => s = q
    BY DEF SiteInv
  <2>5. sessions \subseteq Sessions
    BY DEF SiteInv
  <2> QED BY <1>2, <1>3, <2>1, <2>2, <2>3, <2>4, <2>5
<1> QED BY <1>1, <1>2, <1>3, <1>4 DEF SiteInv, OneLoginPerApproval

\* A challenge is new, and for one session.
LEMMA PrepareKeepsSites ==
  ASSUME SiteInv, now \in Nat, NEW t \in Tabs, Prepare(t)
  PROVE  SiteInv'
<1> DEFINE page == tabs[t]
           mine == Session(page.origin, cookie[page.origin], page.doc)
           challenge == [nonce |-> used.nonces + 1,
                         expires |-> now + ChallengeAge]
           asked(s) == [s EXCEPT !.challenge = challenge]
<1>0. UNCHANGED <<logins, approvals>>
  BY DEF Prepare
<1>1. CASE mine = {}
  <2>1. UNCHANGED <<sessions, used>>
    BY <1>1 DEF Prepare
  <2> QED BY <1>0, <2>1 DEF SiteInv, OneLoginPerApproval
<1>2. CASE mine # {}
  <2>1. /\ sessions' = (sessions \ mine) \cup {asked(s) : s \in mine}
        /\ used' = [used EXCEPT !.nonces = used.nonces + 1]
    BY <1>2 DEF Prepare
  <2>2. /\ mine \subseteq sessions /\ \A s, q \in mine : s = q
    BY DEF SiteInv, Session, Live
  <2> HIDE DEF mine
  <2>3. /\ used' \in [loads : Nat, nonces : Nat, ids : Nat, faults : Nat]
        /\ used'.nonces = used.nonces + 1 /\ used'.loads = used.loads
        /\ used.nonces \in Nat
    BY <2>1 DEF SiteInv
  <2>4. /\ challenge \in [nonce : Nat, expires : Nat]
        /\ challenge.nonce = used.nonces + 1
    BY <2>3, NativeConstants
  <2> HIDE DEF challenge
  <2>5. \A s \in Sessions : /\ asked(s) \in Sessions
                            /\ asked(s).token = s.token
                            /\ asked(s).challenge = challenge
    BY <2>4 DEF Sessions
  <2> HIDE DEF asked
  <2>6. PICK s \in mine : mine = {s}
    BY <1>2, <2>2
  <2>7. /\ s \in sessions /\ s \in Sessions
        /\ sessions' = (sessions \ {s}) \cup {asked(s)}
    BY <2>1, <2>2, <2>6 DEF SiteInv
  <2>8. /\ sessions' \subseteq Sessions
        /\ \A q \in sessions' : q.token <= used'.loads
        /\ \A q, r \in sessions' : q.token = r.token => q = r
    <3>1. /\ asked(s) \in Sessions /\ asked(s).token = s.token
          /\ s.token <= used.loads
      BY <2>5, <2>7 DEF SiteInv
    <3>2. \A q \in sessions' : q \in sessions \/ q = asked(s)
      BY <2>7
    <3>3. sessions' \subseteq Sessions
      BY <3>1, <3>2 DEF SiteInv
    <3>4. \A q \in sessions' : q.token <= used'.loads
      BY <2>3, <3>1, <3>2 DEF SiteInv
    <3>5. \A q \in sessions' : q = asked(s) \/ (q \in sessions /\ q # s)
      BY <2>7
    <3>6. \A q, r \in sessions : q.token = r.token => q = r
      BY DEF SiteInv
    <3> QED BY <2>7, <3>1, <3>3, <3>4, <3>5, <3>6
  <2>9. /\ \A q \in sessions : q.challenge # None =>
             q.challenge.nonce \in Nat /\ q.challenge.nonce <= used.nonces
        /\ \A i \in 1 .. Len(logins) :
             logins[i].nonce \in Nat /\ logins[i].nonce <= used.nonces
    <3>1. ASSUME NEW q \in sessions, q.challenge # None
          PROVE  q.challenge.nonce \in Nat /\ q.challenge.nonce <= used.nonces
      <4>1. q \in Sessions /\ q.challenge.nonce <= used.nonces
        BY <3>1 DEF SiteInv
      <4>2. q.challenge \in [nonce : Nat, expires : Nat]
        BY <3>1, <4>1 DEF Sessions
      <4> QED BY <4>1, <4>2
    <3>2. ASSUME NEW i \in 1 .. Len(logins)
          PROVE  logins[i].nonce \in Nat /\ logins[i].nonce <= used.nonces
      <4>1. logins[i] \in Login /\ logins[i].nonce <= used.nonces
        BY DEF SiteInv
      <4> QED BY <4>1 DEF Login
    <3> QED BY <3>1, <3>2
  <2>10. \A q \in sessions' : q = asked(s) \/ (q \in sessions /\ q # s)
    BY <2>7
  <2>11. /\ \A q \in sessions' : q.challenge # None =>
              q.challenge.nonce <= used'.nonces
         /\ \A q, r \in sessions' :
              q.challenge # None /\ r.challenge # None
                /\ q.challenge.nonce = r.challenge.nonce => q = r
         /\ \A i \in 1 .. Len(logins) : \A q \in sessions' :
              q.challenge # None => q.challenge.nonce # logins[i].nonce
    <3>1. asked(s).challenge.nonce = used.nonces + 1
      BY <2>4, <2>5, <2>7
    <3>2. /\ \A q \in sessions' : q.challenge # None =>
               q.challenge.nonce <= used'.nonces
          /\ \A i \in 1 .. Len(logins) : \A q \in sessions' :
               q.challenge # None => q.challenge.nonce # logins[i].nonce
      <4>1. \A n \in Nat : n <= used.nonces =>
              n <= used'.nonces /\ n # used.nonces + 1
        BY <2>3
      <4>2. used.nonces + 1 <= used'.nonces
        BY <2>3
      <4>3. \A i \in 1 .. Len(logins) : \A q \in sessions :
              q.challenge # None => q.challenge.nonce # logins[i].nonce
        BY DEF SiteInv
      <4> QED BY <2>9, <2>10, <3>1, <4>1, <4>2, <4>3
    <3>3. \A q, r \in sessions' :
              q.challenge # None /\ r.challenge # None
                /\ q.challenge.nonce = r.challenge.nonce => q = r
      BY <2>3, <2>9, <2>10, <3>1 DEF SiteInv
    <3> QED BY <3>2, <3>3
  <2>12. \A i \in 1 .. Len(logins) : logins[i].nonce <= used'.nonces
    BY <2>3, <2>9
  <2> QED
    BY <1>0, <2>3, <2>8, <2>11, <2>12 DEF SiteInv, OneLoginPerApproval
<1> QED BY <1>1, <1>2

\* Anything else leaves the websites as they are.
LEMMA OthersKeepSites ==
  ASSUME SiteInv, UNCHANGED <<sessions, logins>>,
         used' \in [loads : Nat, nonces : Nat, ids : Nat, faults : Nat],
         used'.loads = used.loads, used'.nonces = used.nonces,
         approvals \subseteq approvals'
  PROVE  SiteInv'
BY DEF SiteInv, OneLoginPerApproval

-----------------------------------------------------------------------------
(* The page, its content script, and the messages on their way *)

Phases == {"loaded", "ready", "stuck", "clicked", "waiting", "proof"}

Scripts ==
  [state : {"asking", "sleeping"}, id : Nat, nonce : Nat, expires : Nat]
    \cup {NoAsk}

Pages ==
  [doc : Nat \ {0}, origin : Origins, phase : Phases, id : Nat, nonce : Nat,
   expires : Nat, proof : Proofs \cup {None}, script : Scripts]

Answers ==
  {"none", "pending", "error", "approved", "denied", "revoked", "expired"}

Messages ==
  [tab : Tabs, doc : Nat \ {0}, origin : Origins, op : {"begin", "status"},
   id : Nat, nonce : Nat, expires : Nat, stage : {"sent", "handled"},
   answer : Answers, proof : Proofs \cup {None}]

Shapes ==
  /\ tabs \in [Tabs -> Pages \cup {NoPage}]
  /\ flight \subseteq Messages
  /\ used \in [loads : Nat, nonces : Nat, ids : Nat, faults : Nat]

\* A page that has a proof is about to post it, and it is a good one.
ProofInHand ==
  \A t \in Tabs :
    /\ tabs[t].proof # None <=> tabs[t].phase = "proof"
    /\ tabs[t].proof # None => Approved(tabs[t].proof)

\* Documents are numbered as they are loaded.
DocsDrawn ==
  /\ \A t \in Tabs : tabs[t].doc <= used.loads
  /\ \A m \in flight : m.doc <= used.loads

\* The content script waits for the answer to the one message it sent.
Answerable ==
  \A m \in flight : tabs[m.tab].doc = m.doc =>
    /\ tabs[m.tab].script # NoAsk /\ tabs[m.tab].script.state = "asking"
    /\ tabs[m.tab].script.id = m.id /\ tabs[m.tab].script.nonce = m.nonce

OneQuestion ==
  \A m, n \in flight : m.tab = n.tab /\ m.doc = n.doc => m = n

\* Request ids are numbered as they are drawn, wherever they got to.
AtGateway(id) == id = doing.id \/ \E r \in records \cup shown : r.id = id

IdsDrawn ==
  /\ \A t \in Tabs : tabs[t].id <= used.ids /\ tabs[t].script.id <= used.ids
  /\ \A m \in flight : m.id <= used.ids
  /\ \A id \in Nat : AtGateway(id) => id <= used.ids

OwnIds ==
  \A t, u \in Tabs : t # u /\ tabs[t].id # 0 => tabs[t].id # tabs[u].id

\* Nobody knows the id of a request that was not sent on yet.
Unasked ==
  \A t \in Tabs : tabs[t].phase = "clicked" =>
    /\ \A u \in Tabs : tabs[u].script.id # tabs[t].id
    /\ \A m \in flight : m.id # tabs[t].id
    /\ ~AtGateway(tabs[t].id)

\* A request is begun once.
BeginsOnce ==
  \A m \in flight : m.op = "begin" /\ m.stage = "sent" =>
    /\ ~AtGateway(m.id)
    /\ \A n \in flight : n.op = "begin" /\ n.id = m.id => n = m

\* What goes by the id of the page's request is about the page's challenge.
SameChallenge ==
  \A t \in Tabs : tabs[t].phase \in {"clicked", "waiting"} =>
    /\ tabs[t].id # 0
    /\ \A u \in Tabs : tabs[u].script.id = tabs[t].id =>
         tabs[u].script.nonce = tabs[t].nonce
    /\ \A m \in flight : m.id = tabs[t].id =>
         /\ m.nonce = tabs[t].nonce
         /\ m.proof # None => m.proof.nonce = tabs[t].nonce
    /\ \A r \in records : r.id = tabs[t].id => r.nonce = tabs[t].nonce

\* An approval comes with a proof, of the website asked for.
AnswersSigned ==
  \A m \in flight :
    /\ m.answer = "approved" => m.proof # None
    /\ m.proof # None => m.proof.audience = m.origin /\ Approved(m.proof)

RecordsSigned ==
  \A r \in records : Signed(r) /\ (r.proof # None => Approved(r.proof))

PostsGood == \A p \in posts : GoodPost(p)

PageInv ==
  /\ Shapes /\ ProofInHand /\ DocsDrawn /\ Answerable /\ OneQuestion
  /\ IdsDrawn /\ OwnIds /\ Unasked /\ BeginsOnce /\ SameChallenge
  /\ AnswersSigned /\ RecordsSigned /\ PostsGood /\ PageHearsItsOwnAnswer

NativeInv == MailboxInv /\ SiteInv /\ PageInv

\* What a page may turn into while no message is sent: its script takes an
\* answer or goes on waiting, and a page that waits goes on with the request
\* it waits for.
Turn(t) ==
  LET old == tabs[t]
      new == tabs'[t]
  IN /\ new \in Pages \cup {NoPage} /\ new.doc <= used'.loads
     /\ \/ new.doc = old.doc /\ new.script = old.script
        \/ \A m \in flight' : m.tab = t => m.doc # new.doc
     /\ \/ new.script.id = 0
        \/ new.script.id = old.script.id /\ new.script.nonce = old.script.nonce
     /\ \/ new.id \in {0, old.id}
        \/ /\ new.id = used.ids + 1 /\ used'.ids = used.ids + 1
           /\ \A u \in Tabs : u # t => tabs'[u] = tabs[u]
     /\ new.phase = "clicked" =>
          \/ new.id = used.ids + 1
          \/ old.phase = "clicked" /\ new.id = old.id /\ new.nonce = old.nonce
     /\ new.phase = "waiting" =>
          old.phase = "waiting" /\ new.id = old.id /\ new.nonce = old.nonce
     /\ new.proof # None <=> new.phase = "proof"
     /\ new.proof # None =>
          /\ Approved(new.proof) /\ new.proof.audience = new.origin
          /\ new.proof.nonce = new.nonce

LEMMA NoPageFacts ==
  /\ NoPage.doc = 0 /\ NoPage.id = 0 /\ NoPage.proof = None
  /\ NoPage.script = NoAsk /\ NoAsk.id = 0 /\ NoPage.phase = "blank"
  /\ NoAsk.state = "idle"
BY DEF NoPage, NoAsk

LEMMA ShapeFacts ==
  ASSUME Shapes
  PROVE  /\ \A t \in Tabs :
              /\ tabs[t] \in Pages \cup {NoPage}
              /\ tabs[t].doc \in Nat /\ tabs[t].id \in Nat
              /\ tabs[t].script.id \in Nat
              /\ tabs[t].phase # "blank" => tabs[t] \in Pages
         /\ \A m \in flight : /\ m.id \in Nat /\ m.doc \in Nat \ {0}
                              /\ m.tab \in Tabs
         /\ used.ids \in Nat /\ used.loads \in Nat
<1>1. ASSUME NEW t \in Tabs
      PROVE  /\ tabs[t] \in Pages \cup {NoPage}
             /\ tabs[t].doc \in Nat /\ tabs[t].id \in Nat
             /\ tabs[t].script.id \in Nat
             /\ tabs[t].phase # "blank" => tabs[t] \in Pages
  <2>1. tabs[t] \in Pages \cup {NoPage}
    BY DEF Shapes
  <2>2. CASE tabs[t] = NoPage
    BY <2>1, <2>2, NoPageFacts
  <2>3. CASE tabs[t] \in Pages
    <3>1. tabs[t].script \in Scripts
      BY <2>3 DEF Pages
    <3>2. tabs[t].script.id \in Nat
      BY <3>1, NoPageFacts DEF Scripts
    <3> QED BY <2>1, <2>3, <3>2 DEF Pages
  <2> QED BY <2>1, <2>2, <2>3
<1> QED BY <1>1 DEF Shapes, Messages

LEMMA Unchanged ==
  ASSUME PageInv, NEW t \in Tabs, tabs'[t] = tabs[t], flight' \subseteq flight,
         used.loads <= used'.loads, used'.loads \in Nat
  PROVE  Turn(t)
<1>1. tabs[t].doc \in Nat /\ used.loads \in Nat /\ tabs[t].doc <= used.loads
      /\ tabs[t] \in Pages \cup {NoPage}
  BY ShapeFacts DEF PageInv, DocsDrawn
<1> QED BY <1>1 DEF Turn, PageInv, ProofInHand, PageHearsItsOwnAnswer

\* Steps of pages and scripts that send nothing keep the invariant.
LEMMA TurnsKeepPages ==
  ASSUME PageInv, \A t \in Tabs : Turn(t), tabs' = [t \in Tabs |-> tabs'[t]],
         flight' \subseteq flight,
         UNCHANGED <<records, shown, doing, approvals>>,
         used' \in [loads : Nat, nonces : Nat, ids : Nat, faults : Nat],
         used.loads <= used'.loads, used.ids <= used'.ids,
         PostsGood'
  PROVE  PageInv'
<1>0. /\ \A t \in Tabs :
           /\ tabs[t].doc \in Nat /\ tabs[t].id \in Nat
           /\ tabs[t].script.id \in Nat
           /\ tabs[t].id <= used.ids /\ tabs[t].script.id <= used.ids
      /\ \A m \in flight : /\ m.id \in Nat /\ m.doc \in Nat \ {0}
                           /\ m.id <= used.ids /\ m.doc <= used.loads
                           /\ m.tab \in Tabs
      /\ used.ids \in Nat /\ used.loads \in Nat
      /\ used'.ids \in Nat /\ used'.loads \in Nat
      /\ \A id \in Nat : AtGateway(id) => id <= used.ids
  BY ShapeFacts DEF PageInv, IdsDrawn, DocsDrawn
<1>a. \A id : AtGateway(id)' <=> AtGateway(id)
  BY DEF AtGateway
<1>1. Shapes'
  <2>1. \A t \in Tabs : tabs'[t] \in Pages \cup {NoPage}
    BY DEF Turn
  <2>2. tabs' \in [Tabs -> Pages \cup {NoPage}]
    BY <2>1
  <2> QED BY <2>2 DEF PageInv, Shapes
<1>2. ProofInHand' /\ PageHearsItsOwnAnswer'
  BY DEF Turn, ProofInHand, PageHearsItsOwnAnswer, Approved
<1>3. DocsDrawn'
  BY <1>0 DEF Turn, DocsDrawn
<1>4. Answerable'
  BY <1>0 DEF PageInv, Answerable, Turn
<1>5. OneQuestion' /\ AnswersSigned' /\ RecordsSigned'
  BY DEF PageInv, OneQuestion, AnswersSigned, RecordsSigned, Approved
<1>6. ASSUME NEW t \in Tabs
      PROVE  /\ tabs'[t].id \in Nat /\ tabs'[t].id <= used'.ids
             /\ tabs'[t].script.id \in {0, tabs[t].script.id}
             /\ tabs'[t].script.id <= used'.ids
             /\ tabs'[t].script.id # 0 =>
                  tabs'[t].script.nonce = tabs[t].script.nonce
  BY <1>0 DEF Turn
<1>7. IdsDrawn'
  BY <1>0, <1>a, <1>6 DEF IdsDrawn
<1>8. OwnIds'
  <2> SUFFICES ASSUME NEW t \in Tabs, NEW u \in Tabs, t # u,
                      tabs'[t].id # 0
               PROVE  tabs'[t].id # tabs'[u].id
    BY DEF OwnIds
  <2>1. CASE tabs'[t].id = tabs[t].id /\ tabs'[u].id \in {0, tabs[u].id}
    BY <2>1 DEF PageInv, OwnIds
  <2>2. CASE tabs'[t].id = used.ids + 1 /\ tabs'[u] = tabs[u]
    BY <1>0, <2>2
  <2>3. CASE tabs'[u].id = used.ids + 1 /\ tabs'[t] = tabs[t]
    BY <1>0, <2>3
  <2> QED BY <2>1, <2>2, <2>3 DEF Turn
<1>9. BeginsOnce'
  BY <1>a DEF PageInv, BeginsOnce
<1>10. ASSUME NEW t \in Tabs, tabs'[t].phase \in {"clicked", "waiting"}
       PROVE  \/ tabs'[t].id = used.ids + 1
              \/ /\ tabs[t].phase = tabs'[t].phase /\ tabs'[t].id = tabs[t].id
                 /\ tabs'[t].nonce = tabs[t].nonce
  BY <1>10 DEF Turn
<1>11. Unasked'
  <2> SUFFICES ASSUME NEW t \in Tabs, tabs'[t].phase = "clicked",
                      NEW id, id = tabs'[t].id
               PROVE  /\ \A u \in Tabs : tabs'[u].script.id # id
                      /\ \A m \in flight' : m.id # id
                      /\ ~AtGateway(id)
    BY <1>a DEF Unasked, AtGateway
  <2>1. id \in Nat
    BY <1>6
  <2>2. CASE id = used.ids + 1
    BY <1>0, <1>6, <2>1, <2>2
  <2>3. CASE tabs[t].phase = "clicked" /\ id = tabs[t].id
    <3>1. id # 0
      BY <2>3 DEF PageInv, SameChallenge
    <3> QED BY <1>6, <2>3, <3>1 DEF PageInv, Unasked
  <2> QED BY <1>10, <2>2, <2>3
<1>12. SameChallenge'
  <2> SUFFICES ASSUME NEW t \in Tabs,
                      tabs'[t].phase \in {"clicked", "waiting"}
               PROVE  /\ tabs'[t].id # 0
                      /\ \A u \in Tabs : tabs'[u].script.id = tabs'[t].id =>
                           tabs'[u].script.nonce = tabs'[t].nonce
                      /\ \A m \in flight : m.id = tabs'[t].id =>
                           /\ m.nonce = tabs'[t].nonce
                           /\ m.proof # None => m.proof.nonce = tabs'[t].nonce
                      /\ \A r \in records : r.id = tabs'[t].id =>
                           r.nonce = tabs'[t].nonce
    BY DEF SameChallenge
  <2>1. CASE tabs'[t].id = used.ids + 1
    <3>0. ~AtGateway(used.ids + 1)
      BY <1>0
    <3>1. \A r \in records : r.id # used.ids + 1
      BY <3>0 DEF AtGateway
    <3>2. \A u \in Tabs : tabs'[u].script.id # used.ids + 1
      BY <1>0, <1>6
    <3> QED BY <1>0, <2>1, <3>1, <3>2
  <2>2. CASE /\ tabs[t].phase = tabs'[t].phase /\ tabs'[t].id = tabs[t].id
             /\ tabs'[t].nonce = tabs[t].nonce
    BY <1>6, <2>2 DEF PageInv, SameChallenge
  <2> QED BY <1>10, <2>1, <2>2
<1> QED
  BY <1>1, <1>2, <1>3, <1>4, <1>5, <1>7, <1>8, <1>9, <1>11, <1>12
  DEF PageInv

\* What a message just sent says, and what the page that sent it turns into.
Sends(t, new, m) ==
  LET old == tabs[t]
  IN /\ tabs' = [tabs EXCEPT ![t] = new] /\ flight' = flight \cup {m}
     /\ UNCHANGED <<records, shown, doing, approvals, used, posts>>
     /\ m.tab = t /\ m.doc = old.doc /\ m.proof = None /\ m.answer = "none"
     /\ new.script # NoAsk /\ new.script.state = "asking"
     /\ new.script.id = m.id /\ new.script.nonce = m.nonce
     /\ new.doc = old.doc /\ new.id = old.id /\ new.origin = old.origin
     /\ new.nonce = old.nonce /\ new.proof = old.proof
     /\ \A n \in flight : n.tab = t => n.doc # old.doc
     /\ \/ /\ m.op = "begin" /\ old.phase = "clicked"
           /\ new.phase = "waiting"
           /\ m.id = new.id /\ m.nonce = new.nonce
        \/ /\ m.op = "status" /\ new.phase = old.phase
           /\ m.id = old.script.id /\ m.nonce = old.script.nonce
           /\ old.script # NoAsk

LEMMA SendKeepsPages ==
  ASSUME PageInv, NEW t \in Tabs, NEW new \in Pages, NEW m \in Messages,
         Sends(t, new, m), tabs[t] \in Pages
  PROVE  PageInv'
<1> USE DEF Sends
<1>0. /\ \A u \in Tabs :
           /\ tabs[u].doc \in Nat /\ tabs[u].id \in Nat
           /\ tabs[u].script.id \in Nat
           /\ tabs[u].id <= used.ids /\ tabs[u].script.id <= used.ids
           /\ tabs[u].doc <= used.loads
           /\ tabs'[u] = IF u = t THEN new ELSE tabs[u]
      /\ tabs' \in [Tabs -> Pages \cup {NoPage}]
      /\ \A id : AtGateway(id)' <=> AtGateway(id)
      /\ m.id \in Nat /\ m.id <= used.ids
  <2>1. tabs \in [Tabs -> Pages \cup {NoPage}]
    BY DEF PageInv, Shapes
  <2>2. m.id \in Nat
    BY DEF Messages
  <2> QED
    BY <2>1, <2>2, ShapeFacts DEF PageInv, IdsDrawn, DocsDrawn, AtGateway
<1>1. Shapes'
  BY <1>0 DEF PageInv, Shapes
<1>2. ProofInHand' /\ PageHearsItsOwnAnswer'
  BY <1>0 DEF PageInv, ProofInHand, PageHearsItsOwnAnswer, Approved
<1>3. DocsDrawn'
  BY <1>0 DEF PageInv, DocsDrawn
<1>4. Answerable'
  BY <1>0 DEF PageInv, Answerable
<1>5. OneQuestion' /\ AnswersSigned' /\ RecordsSigned' /\ PostsGood'
  BY DEF PageInv, OneQuestion, AnswersSigned, RecordsSigned, PostsGood,
         GoodPost, Approved
<1>6. IdsDrawn'
  BY <1>0 DEF PageInv, IdsDrawn
<1>7. OwnIds'
  BY <1>0 DEF PageInv, OwnIds
<1>8. Unasked'
  <2> SUFFICES ASSUME NEW u \in Tabs, tabs'[u].phase = "clicked",
                      NEW id, id = tabs'[u].id
               PROVE  /\ \A v \in Tabs : tabs'[v].script.id # id
                      /\ \A n \in flight' : n.id # id
                      /\ ~AtGateway(id)
    BY <1>0 DEF Unasked, AtGateway
  <2>1. tabs[u].phase = "clicked" /\ id = tabs[u].id /\ id # 0
    BY <1>0 DEF PageInv, SameChallenge
  <2>2. m.id # id
    <3>1. CASE m.op = "begin"
      BY <1>0, <2>1, <3>1 DEF PageInv, OwnIds
    <3>2. CASE m.op # "begin"
      BY <2>1, <3>2 DEF PageInv, Unasked
    <3> QED BY <3>1, <3>2
  <2> QED BY <1>0, <2>1, <2>2 DEF PageInv, Unasked
<1>9. BeginsOnce'
  <2>1. m.op = "begin" => ~AtGateway(m.id) /\ \A n \in flight : n.id # m.id
    BY DEF PageInv, Unasked
  <2> QED BY <1>0, <2>1 DEF PageInv, BeginsOnce
<1>10. SameChallenge'
  <2> SUFFICES ASSUME NEW u \in Tabs,
                      tabs'[u].phase \in {"clicked", "waiting"}
               PROVE  /\ tabs'[u].id # 0
                      /\ \A v \in Tabs : tabs'[v].script.id = tabs'[u].id =>
                           tabs'[v].script.nonce = tabs'[u].nonce
                      /\ \A n \in flight' : n.id = tabs'[u].id =>
                           /\ n.nonce = tabs'[u].nonce
                           /\ n.proof # None => n.proof.nonce = tabs'[u].nonce
                      /\ \A r \in records : r.id = tabs'[u].id =>
                           r.nonce = tabs'[u].nonce
    BY DEF SameChallenge
  <2>1. /\ tabs[u].phase \in {"clicked", "waiting"}
        /\ tabs'[u].id = tabs[u].id /\ tabs'[u].nonce = tabs[u].nonce
    BY <1>0
  <2>2. m.id = tabs[u].id => m.nonce = tabs[u].nonce
    <3>1. CASE m.op = "begin"
      BY <1>0, <2>1, <3>1 DEF PageInv, OwnIds, SameChallenge
    <3>2. CASE m.op # "begin"
      BY <2>1, <3>2 DEF PageInv, SameChallenge
    <3> QED BY <3>1, <3>2
  <2> QED BY <1>0, <2>1, <2>2 DEF PageInv, SameChallenge
<1> QED
  BY <1>1, <1>2, <1>3, <1>4, <1>5, <1>6, <1>7, <1>8, <1>9, <1>10 DEF PageInv

\* The content script sends the request of its page on, or answers it.
LEMMA AskKeepsPages ==
  ASSUME PageInv, NEW t \in Tabs, Ask(t)
  PROVE  PageInv'
<1> DEFINE page == tabs[t]
           ask == [state |-> "asking", id |-> page.id, nonce |-> page.nonce,
                   expires |-> page.expires]
           sent == [page EXCEPT !.phase = "waiting", !.script = ask]
           m == Message(t, "begin", ask)
<1>1. /\ page \in Pages /\ page.phase = "clicked"
      /\ UNCHANGED <<mailboxVars, active, used, siteVars, approvals>>
  BY ShapeFacts DEF PageInv, Ask
<1>2. CASE page.script = NoAsk
  <2>1. /\ tabs' = [tabs EXCEPT ![t] = sent] /\ flight' = flight \cup {m}
    BY <1>2 DEF Ask
  <2>2. ask \in Scripts /\ ask.state = "asking" /\ ask.id = page.id
        /\ ask.nonce = page.nonce /\ ask # NoAsk
    BY <1>1 DEF Pages, Scripts, NoAsk
  <2>3. /\ m \in Messages /\ m.tab = t /\ m.doc = page.doc /\ m.proof = None
        /\ m.answer = "none" /\ m.op = "begin"
        /\ m.id = ask.id /\ m.nonce = ask.nonce
    BY <1>1 DEF Message, Messages, Pages, Answers
  <2> HIDE DEF ask, m
  <2>4. /\ sent \in Pages /\ sent.phase = "waiting" /\ sent.script = ask
        /\ sent.doc = page.doc /\ sent.id = page.id
        /\ sent.nonce = page.nonce /\ sent.proof = page.proof
        /\ sent.origin = page.origin
    <3> HIDE DEF page
    <3> QED BY <1>1, <2>2 DEF Pages, Phases
  <2> HIDE DEF sent
  <2>5. \A n \in flight : n.tab = t => n.doc # page.doc
    BY <1>2 DEF PageInv, Answerable
  <2>6. UNCHANGED <<records, shown, doing, approvals, used, posts>>
    BY <1>1 DEF mailboxVars, siteVars
  <2>7. Sends(t, sent, m)
    BY <1>1, <2>1, <2>2, <2>3, <2>4, <2>5, <2>6 DEF Sends
  <2> QED BY <1>1, <2>3, <2>4, <2>7, SendKeepsPages
<1>3. CASE page.script # NoAsk
  <2> DEFINE new == [page EXCEPT !.phase = "loaded"]
  <2>1. /\ tabs' = [tabs EXCEPT ![t] = Answered(@, page.id, "error", None)]
        /\ flight' = flight
    BY <1>3 DEF Ask
  <2>2. tabs' = [tabs EXCEPT ![t] = new]
    BY <1>1, <2>1 DEF Answered, IsMine
  <2>3. /\ new \in Pages /\ new.phase = "loaded" /\ new.script = page.script
        /\ new.doc = page.doc /\ new.id = page.id
        /\ new.proof = page.proof
    <3> HIDE DEF page
    <3> QED BY <1>1, <2>2 DEF Pages, Phases
  <2> HIDE DEF new
  <2>4. tabs \in [Tabs -> Pages \cup {NoPage}]
        /\ used \in [loads : Nat, nonces : Nat, ids : Nat, faults : Nat]
        /\ used.loads \in Nat /\ used.ids \in Nat
    BY ShapeFacts DEF PageInv, Shapes
  <2>5. \A u \in Tabs : tabs'[u] = IF u = t THEN new ELSE tabs[u]
    BY <2>2, <2>4
  <2>6. Turn(t)
    BY <1>1, <2>3, <2>5 DEF Turn, PageInv, ProofInHand, DocsDrawn
  <2>7. \A u \in Tabs : Turn(u)
    BY <1>1, <2>1, <2>4, <2>5, <2>6, Unchanged
  <2>8. /\ UNCHANGED <<records, shown, doing, approvals, used, posts>>
        /\ PostsGood' /\ tabs' = [u \in Tabs |-> tabs'[u]]
    BY <1>1, <2>2, <2>4
    DEF mailboxVars, siteVars, PageInv, PostsGood, GoodPost, Approved
  <2> QED BY <2>1, <2>4, <2>7, <2>8, TurnsKeepPages
<1> QED BY <1>2, <1>3

\* And a second later asks how it stands.
LEMMA PollKeepsPages ==
  ASSUME PageInv, NEW t \in Tabs, Poll(t)
  PROVE  PageInv'
<1> DEFINE page == tabs[t]
           ask == page.script
           sent == [page EXCEPT !.script.state = "asking"]
           m == Message(t, "status", ask)
<1>1. /\ ask.state = "sleeping" /\ tabs' = [tabs EXCEPT ![t] = sent]
      /\ flight' = flight \cup {m}
      /\ UNCHANGED <<records, shown, doing, approvals, used, posts>>
  BY DEF Poll, mailboxVars, siteVars, PageInv, Shapes
<1>2. /\ page \in Pages /\ ask # NoAsk
      /\ ask \in [state : {"asking", "sleeping"}, id : Nat, nonce : Nat,
                  expires : Nat]
  BY <1>1, ShapeFacts, NoPageFacts DEF PageInv, Pages, Scripts
<1>3. /\ m \in Messages /\ m.tab = t /\ m.doc = page.doc /\ m.proof = None
      /\ m.answer = "none" /\ m.op = "status"
      /\ m.id = ask.id /\ m.nonce = ask.nonce
  BY <1>2 DEF Message, Messages, Pages, Answers
<1>4. \A n \in flight : n.tab = t => n.doc # page.doc
  BY <1>1 DEF PageInv, Answerable
<1> HIDE DEF m
<1>5. /\ sent \in Pages /\ sent.phase = page.phase
      /\ sent.doc = page.doc /\ sent.id = page.id
      /\ sent.nonce = page.nonce /\ sent.proof = page.proof
      /\ sent.origin = page.origin
      /\ sent.script # NoAsk /\ sent.script.state = "asking"
      /\ sent.script.id = ask.id /\ sent.script.nonce = ask.nonce
  <2> DEFINE asking == [ask EXCEPT !.state = "asking"]
  <2>1. /\ asking \in Scripts /\ asking # NoAsk /\ asking.state = "asking"
        /\ asking.id = ask.id /\ asking.nonce = ask.nonce
    <3> HIDE DEF ask
    <3> QED BY <1>2, NoPageFacts DEF Scripts
  <2>2. sent = [page EXCEPT !.script = asking]
    OBVIOUS
  <2> HIDE DEF page, sent, asking
  <2> QED BY <1>2, <2>1, <2>2 DEF Pages
<1> HIDE DEF sent
<1>6. Sends(t, sent, m)
  BY <1>1, <1>2, <1>3, <1>4, <1>5 DEF Sends
<1> QED BY <1>2, <1>3, <1>5, <1>6, SendKeepsPages

\* A page of a tab turns into another one; the rest stays.
LEMMA TurnKeepsPages ==
  ASSUME PageInv, NEW t \in Tabs, NEW new, tabs' = [tabs EXCEPT ![t] = new],
         Turn(t), flight' \subseteq flight,
         UNCHANGED <<records, shown, doing, approvals>>,
         used' \in [loads : Nat, nonces : Nat, ids : Nat, faults : Nat],
         used.loads <= used'.loads, used.ids <= used'.ids,
         PostsGood'
  PROVE  PageInv'
<1>1. /\ tabs \in [Tabs -> Pages \cup {NoPage}] /\ used'.loads \in Nat
  BY DEF PageInv, Shapes
<1>2. /\ \A u \in Tabs : u # t => tabs'[u] = tabs[u]
      /\ tabs' = [u \in Tabs |-> tabs'[u]]
  BY <1>1
<1>3. \A u \in Tabs : Turn(u)
  BY <1>1, <1>2, Unchanged
<1> QED BY <1>2, <1>3, TurnsKeepPages

LEMMA PhaseFacts ==
  ASSUME NEW page \in Pages, NEW phase \in Phases
  PROVE  LET new == [page EXCEPT !.phase = phase]
         IN /\ new \in Pages /\ new.phase = phase /\ new.doc = page.doc
            /\ new.id = page.id /\ new.nonce = page.nonce
            /\ new.proof = page.proof /\ new.script = page.script
            /\ new.origin = page.origin
BY DEF Pages

\* A page with nothing in hand may go on to any phase in which it does not
\* wait.
LEMMA PhaseTurns ==
  ASSUME PageInv, NEW t \in Tabs, tabs[t] \in Pages, tabs[t].phase # "proof",
         NEW phase \in {"loaded", "stuck"},
         tabs' = [tabs EXCEPT ![t].phase = phase], flight' \subseteq flight,
         UNCHANGED <<records, shown, doing, approvals, used, posts>>
  PROVE  PageInv'
<1> DEFINE page == tabs[t]
           new == [page EXCEPT !.phase = phase]
<1>1. tabs' = [tabs EXCEPT ![t] = new] /\ phase \in Phases
  BY DEF PageInv, Shapes, Phases
<1>2. /\ new \in Pages /\ new.phase = phase /\ new.doc = page.doc
      /\ new.id = page.id /\ new.proof = page.proof
      /\ new.script = page.script
  BY <1>1, PhaseFacts
<1> HIDE DEF new
<1>3. tabs'[t] = new
  BY <1>1 DEF PageInv, Shapes
<1>4. Turn(t)
  BY <1>2, <1>3 DEF Turn, PageInv, ProofInHand, DocsDrawn
<1>5. /\ used' \in [loads : Nat, nonces : Nat, ids : Nat, faults : Nat]
      /\ used.loads <= used'.loads /\ used.ids <= used'.ids /\ PostsGood'
  BY ShapeFacts DEF PageInv, Shapes, PostsGood, GoodPost, Approved
<1> QED BY <1>1, <1>4, <1>5, TurnKeepsPages

LEMMA TimeOutKeepsPages ==
  ASSUME PageInv, NEW t \in Tabs, TimeOut(t)
  PROVE  PageInv'
<1>1. /\ tabs[t].phase \in {"clicked", "waiting"}
      /\ tabs' = [tabs EXCEPT ![t].phase = "loaded"]
      /\ flight' \subseteq flight
      /\ UNCHANGED <<records, shown, doing, approvals, used, posts>>
  BY DEF TimeOut, mailboxVars, workerVars, siteVars
<1>2. tabs[t] \in Pages
  BY <1>1, ShapeFacts DEF PageInv
<1> QED BY <1>1, <1>2, PhaseTurns

\* A click draws the next id, or gives the challenge up.
LEMMA ConnectKeepsPages ==
  ASSUME PageInv, NEW t \in Tabs, Connect(t)
  PROVE  PageInv'
<1> DEFINE page == tabs[t]
           new == [page EXCEPT !.phase = "clicked", !.id = used.ids + 1]
<1>1. /\ page.phase = "ready" /\ page \in Pages
      /\ flight' = flight /\ posts' = posts
      /\ UNCHANGED <<records, shown, doing, approvals>>
      /\ used \in [loads : Nat, nonces : Nat, ids : Nat, faults : Nat]
  BY ShapeFacts
  DEF Connect, mailboxVars, workerVars, siteVars, PageInv, Shapes
<1>2. CASE InTime(page.expires)
  <2>1. /\ tabs' = [tabs EXCEPT ![t] = new]
        /\ used' = [used EXCEPT !.ids = used.ids + 1]
    BY <1>2 DEF Connect, PageInv, Shapes
  <2>2. /\ used' \in [loads : Nat, nonces : Nat, ids : Nat, faults : Nat]
        /\ used'.ids = used.ids + 1 /\ used'.loads = used.loads
        /\ used.ids \in Nat /\ used.loads \in Nat
    BY <1>1, <2>1
  <2>3. /\ new \in Pages /\ new.phase = "clicked" /\ new.doc = page.doc
        /\ new.id = used.ids + 1 /\ new.proof = page.proof
        /\ new.script = page.script
    <3> HIDE DEF page
    <3> QED BY <1>1, <2>2 DEF Pages, Phases
  <2> HIDE DEF new
  <2>4. /\ tabs'[t] = new
        /\ \A u \in Tabs : u # t => tabs'[u] = tabs[u]
    BY <2>1 DEF PageInv, Shapes
  <2>5. Turn(t)
    BY <1>1, <2>2, <2>3, <2>4 DEF Turn, PageInv, ProofInHand, DocsDrawn
  <2>6. PostsGood'
    BY <1>1 DEF PageInv, PostsGood, GoodPost, Approved
  <2>7. used.loads <= used'.loads /\ used.ids <= used'.ids
    BY <2>2
  <2> QED BY <1>1, <2>1, <2>2, <2>5, <2>6, <2>7, TurnKeepsPages
<1>3. CASE ~InTime(page.expires)
  <2>1. tabs' = [tabs EXCEPT ![t].phase = "loaded"] /\ used' = used
    BY <1>3 DEF Connect
  <2> QED BY <1>1, <2>1, PhaseTurns
<1> QED BY <1>2, <1>3

\* A challenge takes the place of the one before, of a page that waits for
\* no answer.
LEMMA PrepareKeepsPages ==
  ASSUME PageInv, now \in Nat, NEW t \in Tabs, Prepare(t)
  PROVE  PageInv'
<1> DEFINE page == tabs[t]
           mine == Session(page.origin, cookie[page.origin], page.doc)
           new == [page EXCEPT !.phase = "ready", !.nonce = used.nonces + 1,
                               !.expires = now + ChallengeAge]
<1>1. /\ page.phase = "loaded" /\ page \in Pages
      /\ flight' = flight /\ posts' = posts
      /\ UNCHANGED <<records, shown, doing, approvals>>
      /\ used \in [loads : Nat, nonces : Nat, ids : Nat, faults : Nat]
  BY ShapeFacts DEF Prepare, mailboxVars, workerVars, PageInv, Shapes
<1>2. CASE mine = {}
  <2>1. tabs' = [tabs EXCEPT ![t].phase = "stuck"] /\ used' = used
    BY <1>2 DEF Prepare
  <2> QED BY <1>1, <2>1, PhaseTurns
<1>3. CASE mine # {}
  <2>1. /\ tabs' = [tabs EXCEPT ![t] = new]
        /\ used' = [used EXCEPT !.nonces = used.nonces + 1]
    BY <1>3 DEF Prepare, PageInv, Shapes
  <2> HIDE DEF mine
  <2>2. /\ used' \in [loads : Nat, nonces : Nat, ids : Nat, faults : Nat]
        /\ used'.ids = used.ids /\ used'.loads = used.loads
        /\ used.ids \in Nat /\ used.loads \in Nat /\ used.nonces + 1 \in Nat
    BY <1>1, <2>1
  <2>3. now + ChallengeAge \in Nat
    BY NativeConstants
  <2>4. /\ new \in Pages /\ new.phase = "ready" /\ new.doc = page.doc
        /\ new.id = page.id /\ new.proof = page.proof
        /\ new.script = page.script
    <3> HIDE DEF page
    <3> QED BY <1>1, <2>2, <2>3 DEF Pages, Phases
  <2> HIDE DEF new
  <2>5. tabs'[t] = new
    BY <2>1 DEF PageInv, Shapes
  <2>6. Turn(t)
    BY <1>1, <2>2, <2>4, <2>5 DEF Turn, PageInv, ProofInHand, DocsDrawn
  <2>7. PostsGood'
    BY <1>1 DEF PageInv, PostsGood, GoodPost, Approved
  <2>8. used.loads <= used'.loads /\ used.ids <= used'.ids
    BY <2>2
  <2> QED BY <1>1, <2>1, <2>2, <2>6, <2>7, <2>8, TurnKeepsPages
<1> QED BY <1>2, <1>3

\* Where there was a page there is another document, or none.
LEMMA NewDocTurns ==
  ASSUME PageInv, NEW t \in Tabs, NEW new \in Pages \cup {NoPage},
         tabs' = [tabs EXCEPT ![t] = new], flight' \subseteq flight,
         UNCHANGED <<records, shown, doing, approvals>>,
         used' \in [loads : Nat, nonces : Nat, ids : Nat, faults : Nat],
         used.loads <= used'.loads, used.ids <= used'.ids, PostsGood',
         new.doc = 0 \/ (new.doc = used.loads + 1 /\ new.doc <= used'.loads),
         new.script = NoAsk, new.id = 0, new.phase \in {"blank", "loaded"},
         new.proof = None
  PROVE  PageInv'
<1>1. tabs'[t] = new
  BY DEF PageInv, Shapes
<1>2. \A m \in flight : m.doc # new.doc
  BY ShapeFacts DEF PageInv, DocsDrawn
<1>3. Turn(t)
  <2>1. new.doc <= used'.loads
    BY ShapeFacts DEF PageInv
  <2> QED BY <1>1, <1>2, <2>1, NoPageFacts DEF Turn
<1> QED BY <1>3, TurnKeepsPages

LEMMA FirstPage ==
  ASSUME NEW n \in Nat \ {0}, NEW site \in Origins
  PROVE  LET new == [NoPage EXCEPT !.doc = n, !.origin = site,
                                   !.phase = "loaded"]
         IN /\ new \in Pages /\ new.doc = n /\ new.script = NoPage.script
            /\ new.id = NoPage.id /\ new.phase = "loaded"
            /\ new.proof = NoPage.proof
<1>1. NoPage \in [doc : Nat, origin : Origins \cup {None},
                 phase : Phases \cup {"blank"}, id : Nat, nonce : Nat,
                 expires : Nat, proof : Proofs \cup {None}, script : Scripts]
  BY DEF NoPage, Scripts
<1>2. "loaded" \in Phases
  BY DEF Phases
<1> QED BY <1>1, <1>2 DEF Pages

LEMMA LoadKeepsPages ==
  ASSUME PageInv, NEW t \in Tabs, NEW site \in Origins, Load(t, site)
  PROVE  PageInv'
<1> DEFINE new == [NoPage EXCEPT !.doc = used.loads + 1, !.origin = site,
                                 !.phase = "loaded"]
           fault == IF tabs[t] = NoPage THEN 0 ELSE 1
<1>1. /\ tabs' = [tabs EXCEPT ![t] = new] /\ flight' = flight
      /\ posts' = posts
      /\ UNCHANGED <<records, shown, doing, approvals>>
      /\ used' = [used EXCEPT !.loads = used.loads + 1, !.faults = @ + fault]
  BY DEF Load, mailboxVars, workerVars
<1>2. /\ used \in [loads : Nat, nonces : Nat, ids : Nat, faults : Nat]
      /\ fault \in Nat /\ used.loads \in Nat /\ used.faults \in Nat
  BY DEF PageInv, Shapes
<1> HIDE DEF fault
<1>3. /\ used.loads + 1 \in Nat /\ used.faults + fault \in Nat
      /\ used' = [used EXCEPT !.loads = used.loads + 1,
                              !.faults = used.faults + fault]
  BY <1>1, <1>2
<1>4. /\ used' \in [loads : Nat, nonces : Nat, ids : Nat, faults : Nat]
      /\ used'.ids = used.ids /\ used'.loads = used.loads + 1
      /\ used.ids \in Nat
  BY <1>2, <1>3
<1>5. /\ new \in Pages /\ new.doc = used.loads + 1 /\ new.script = NoAsk
      /\ new.id = 0 /\ new.phase = "loaded" /\ new.proof = None
  <2>1. used.loads + 1 \in Nat \ {0}
    BY <1>2
  <2> QED BY <2>1, FirstPage, NoPageFacts
<1> HIDE DEF new
<1>6. /\ used.loads <= used'.loads /\ used.ids <= used'.ids
      /\ new.doc <= used'.loads
  BY <1>2, <1>4, <1>5
<1>7. PostsGood'
  BY <1>1 DEF PageInv, PostsGood, GoodPost, Approved
<1> QED BY <1>1, <1>4, <1>5, <1>6, <1>7, NewDocTurns

LEMMA LeaveKeepsPages ==
  ASSUME PageInv, NEW t \in Tabs, Leave(t)
  PROVE  PageInv'
<1>1. /\ tabs' = [tabs EXCEPT ![t] = NoPage] /\ flight' = flight
      /\ posts' = posts
      /\ UNCHANGED <<records, shown, doing, approvals>>
      /\ used' = [used EXCEPT !.faults = @ + 1]
  BY DEF Leave, Fault, mailboxVars, workerVars, siteVars
<1>2. /\ used' \in [loads : Nat, nonces : Nat, ids : Nat, faults : Nat]
      /\ used.loads <= used'.loads /\ used.ids <= used'.ids
  BY <1>1 DEF PageInv, Shapes
<1>3. PostsGood'
  BY <1>1 DEF PageInv, PostsGood, GoodPost, Approved
<1>4. /\ NoPage \in Pages \cup {NoPage} /\ NoPage.doc = 0
      /\ NoPage.script = NoAsk /\ NoPage.id = 0 /\ NoPage.proof = None
      /\ NoPage.phase \in {"blank", "loaded"} /\ flight' \subseteq flight
  BY <1>1, NoPageFacts
<1> QED BY <1>1, <1>2, <1>3, <1>4, NewDocTurns

\* What a page posts is a good proof.
LEMMA PostKeepsPages ==
  ASSUME PageInv, NEW t \in Tabs, Post(t)
  PROVE  /\ PageInv'
         /\ (\E p : GoodPost(p) /\ Verify(p)) \/ Undelivered
<1> DEFINE page == tabs[t]
           p == [site |-> page.origin, token |-> cookie[page.origin],
                 csrf |-> page.doc, proof |-> page.proof]
           new == [page EXCEPT !.phase = "loaded", !.proof = None]
<1>1. /\ page.phase = "proof" /\ page \in Pages
      /\ Verify(p) \/ Undelivered
      /\ posts' = posts \cup {p} /\ used' = used
      /\ tabs' = [tabs EXCEPT ![t] = new]
  BY ShapeFacts DEF Post, PageInv, Shapes
<1>2. /\ flight' = flight
      /\ UNCHANGED <<records, shown, doing, approvals>>
  BY <1>1 DEF Verify, Undelivered, mailboxVars, workerVars
<1>3. GoodPost(p)
  <2>1. page.proof \in Proofs /\ Approved(page.proof) /\ page.origin \in Origins
    BY <1>1 DEF Pages, PageInv, ProofInHand
  <2> HIDE DEF page
  <2> QED BY <2>1 DEF GoodPost
<1> HIDE DEF p
<1>4. PostsGood'
  BY <1>1, <1>2, <1>3 DEF PageInv, PostsGood, GoodPost, Approved
<1>5. /\ new \in Pages /\ new.phase = "loaded" /\ new.doc = page.doc
      /\ new.id = page.id /\ new.proof = None
      /\ new.script = page.script
  <2> HIDE DEF page
  <2> QED BY <1>1 DEF Pages, Phases
<1> HIDE DEF new
<1>6. tabs'[t] = new
  BY <1>1 DEF PageInv, Shapes
<1>7. Turn(t)
  BY <1>1, <1>5, <1>6 DEF Turn, PageInv, DocsDrawn
<1>8. /\ used' \in [loads : Nat, nonces : Nat, ids : Nat, faults : Nat]
      /\ used.loads <= used'.loads /\ used.ids <= used'.ids
  BY <1>1, ShapeFacts DEF PageInv, Shapes
<1>9. PageInv'
  BY <1>1, <1>2, <1>4, <1>7, <1>8, TurnKeepsPages
<1> QED BY <1>1, <1>3, <1>9

LEMMA RepeatKeepsPages ==
  ASSUME PageInv, Repeat
  PROVE  /\ PageInv'
         /\ \E p : GoodPost(p) /\ Verify(p)
<1>1. PICK p \in posts : Verify(p) /\ Fault /\ UNCHANGED <<tabs, posts>>
  BY DEF Repeat
<1>2. GoodPost(p)
  BY DEF PageInv, PostsGood
<1>3. /\ flight' = flight /\ used' = [used EXCEPT !.faults = @ + 1]
      /\ UNCHANGED <<records, shown, doing, approvals, tabs, posts>>
      /\ used \in [loads : Nat, nonces : Nat, ids : Nat, faults : Nat]
      /\ tabs \in [Tabs -> Pages \cup {NoPage}]
  BY <1>1 DEF Verify, Fault, mailboxVars, workerVars, PageInv, Shapes
<1>4. /\ used' \in [loads : Nat, nonces : Nat, ids : Nat, faults : Nat]
      /\ used.loads <= used'.loads /\ used.ids <= used'.ids
      /\ used'.loads \in Nat
  BY <1>3
<1>5. PostsGood'
  BY <1>3 DEF PageInv, PostsGood, GoodPost, Approved
<1>6. \A t \in Tabs : Turn(t)
  BY <1>3, <1>4, Unchanged
<1>7. tabs' = [t \in Tabs |-> tabs'[t]]
  BY <1>3
<1> QED BY <1>1, <1>2, <1>3, <1>4, <1>5, <1>6, <1>7, TurnsKeepPages

\* What a page makes of what its script hears.
LEMMA HeardFacts ==
  ASSUME NEW page \in Pages, page.script # NoAsk,
         NEW answer \in Answers, NEW proof \in Proofs \cup {None}
  PROVE  LET new == Heard(page, answer, proof)
         IN /\ new \in Pages /\ new.doc = page.doc /\ new.id = page.id
            /\ new.nonce = page.nonce /\ new.origin = page.origin
            /\ \/ new.script.id = 0
               \/ /\ new.script.id = page.script.id
                  /\ new.script.nonce = page.script.nonce
            /\ \/ new.phase = page.phase /\ new.proof = page.proof
               \/ /\ page.phase \in {"clicked", "waiting"}
                  /\ new.phase = "loaded" /\ new.proof = page.proof
               \/ /\ page.phase \in {"clicked", "waiting"}
                  /\ answer = "approved" /\ page.id = page.script.id
                  /\ new.phase = "proof" /\ new.proof = proof
<1> DEFINE new == Heard(page, answer, proof)
           ask == page.script
           told == Answered(page, ask.id, answer, proof)
<1>1. ask \in [state : {"asking", "sleeping"}, id : Nat, nonce : Nat,
               expires : Nat]
  BY DEF Pages, Scripts
<1>2. CASE answer = "pending" /\ now < page.script.expires
  <2> DEFINE asleep == [ask EXCEPT !.state = "sleeping"]
  <2>1. asleep \in Scripts /\ asleep.id = ask.id /\ asleep.nonce = ask.nonce
    <3> HIDE DEF ask
    <3> QED BY <1>1 DEF Scripts
  <2>2. new = [page EXCEPT !.script = asleep]
    BY <1>2 DEF Heard
  <2> HIDE DEF asleep, new
  <2>3. /\ new \in Pages /\ new.doc = page.doc /\ new.id = page.id
        /\ new.nonce = page.nonce /\ new.phase = page.phase
        /\ new.origin = page.origin
        /\ new.proof = page.proof /\ new.script = asleep
    BY <2>1, <2>2 DEF Pages
  <2> QED BY <2>1, <2>3 DEF new
<1>3. CASE ~(answer = "pending" /\ now < page.script.expires)
  <2>1. new = [told EXCEPT !.script = NoAsk]
    BY <1>3 DEF Heard
  <2>2. /\ told \in Pages /\ told.doc = page.doc /\ told.id = page.id
        /\ told.nonce = page.nonce /\ told.origin = page.origin
        /\ \/ told.phase = page.phase /\ told.proof = page.proof
           \/ /\ page.phase \in {"clicked", "waiting"}
              /\ told.phase = "loaded" /\ told.proof = page.proof
           \/ /\ page.phase \in {"clicked", "waiting"}
              /\ answer = "approved" /\ page.id = page.script.id
              /\ told.phase = "proof" /\ told.proof = proof
    <3>1. CASE page.phase \notin {"clicked", "waiting"} \/ ~IsMine(page, ask.id)
      BY <3>1 DEF Answered
    <3>2. CASE /\ page.phase \in {"clicked", "waiting"} /\ IsMine(page, ask.id)
               /\ answer = "approved"
      <4> DEFINE got == [page EXCEPT !.phase = "proof", !.proof = proof]
      <4>1. told = got /\ page.id = page.script.id
        BY <3>2 DEF Answered, IsMine
      <4>2. /\ got \in Pages /\ got.doc = page.doc /\ got.id = page.id
            /\ got.nonce = page.nonce /\ got.origin = page.origin
            /\ got.phase = "proof" /\ got.proof = proof
        BY DEF Pages, Phases
      <4> HIDE DEF got, told
      <4> QED BY <3>2, <4>1, <4>2
    <3>3. CASE /\ page.phase \in {"clicked", "waiting"} /\ IsMine(page, ask.id)
               /\ answer # "approved"
      <4>1. told = [page EXCEPT !.phase = "loaded"]
        BY <3>3 DEF Answered
      <4>2. "loaded" \in Phases
        BY DEF Phases
      <4> HIDE DEF told
      <4> QED BY <3>3, <4>1, <4>2, PhaseFacts
    <3> QED BY <3>1, <3>2, <3>3
  <2> HIDE DEF told, new
  <2>3. /\ new \in Pages /\ new.doc = told.doc /\ new.id = told.id
        /\ new.nonce = told.nonce /\ new.phase = told.phase
        /\ new.origin = told.origin
        /\ new.proof = told.proof /\ new.script = NoAsk
    BY <2>1, <2>2 DEF Pages, Scripts
  <2> QED BY <2>2, <2>3, NoPageFacts DEF new
<1> QED BY <1>2, <1>3

\* An answer turns the page it is for, if it is of the request the script
\* waits with.
LEMMA HeardTurns ==
  ASSUME PageInv, NEW t \in Tabs, tabs[t].script # NoAsk,
         NEW answer \in Answers, NEW proof \in Proofs \cup {None},
         tabs'[t] = Heard(tabs[t], answer, proof),
         \A m \in flight' : m.tab = t => m.doc # tabs[t].doc,
         used' = used,
         answer = "approved" =>
           /\ proof # None /\ Approved(proof)
           /\ proof.audience = tabs[t].origin
           /\ \/ tabs[t].phase \notin {"clicked", "waiting"}
              \/ tabs[t].id # tabs[t].script.id
              \/ proof.nonce = tabs[t].nonce
  PROVE  Turn(t)
<1> DEFINE page == tabs[t]
           new == Heard(page, answer, proof)
<1>1. page \in Pages /\ page.doc <= used.loads
  BY NoPageFacts, ShapeFacts DEF PageInv, DocsDrawn
<1>2. /\ new \in Pages /\ new.doc = page.doc /\ new.id = page.id
      /\ new.nonce = page.nonce /\ new.origin = page.origin
      /\ \/ new.script.id = 0
         \/ /\ new.script.id = page.script.id
            /\ new.script.nonce = page.script.nonce
      /\ \/ new.phase = page.phase /\ new.proof = page.proof
         \/ /\ page.phase \in {"clicked", "waiting"}
            /\ new.phase = "loaded" /\ new.proof = page.proof
         \/ /\ page.phase \in {"clicked", "waiting"}
            /\ answer = "approved" /\ page.id = page.script.id
            /\ new.phase = "proof" /\ new.proof = proof
  BY <1>1, HeardFacts
<1>3. tabs'[t] = new
  OBVIOUS
<1> HIDE DEF new
<1>4. CASE new.phase = page.phase /\ new.proof = page.proof
  BY <1>1, <1>2, <1>3, <1>4
  DEF Turn, PageInv, ProofInHand, PageHearsItsOwnAnswer
<1>5. CASE /\ page.phase \in {"clicked", "waiting"}
           /\ new.phase = "loaded" /\ new.proof = page.proof
  BY <1>1, <1>2, <1>3, <1>5 DEF Turn, PageInv, ProofInHand
<1>6. CASE /\ page.phase \in {"clicked", "waiting"}
           /\ answer = "approved" /\ page.id = page.script.id
           /\ new.phase = "proof" /\ new.proof = proof
  BY <1>1, <1>2, <1>3, <1>6 DEF Turn
<1> QED BY <1>2, <1>4, <1>5, <1>6

\* Hearing the answer to a message keeps the invariant.
LEMMA HearKeepsPages ==
  ASSUME PageInv, NEW m \in flight, flight' = flight \ {m},
         NEW answer \in Answers, NEW proof \in Proofs \cup {None},
         tabs' = Hear(m, answer, proof),
         UNCHANGED <<records, shown, doing, approvals, used, posts>>,
         answer = "approved" =>
           /\ answer = m.answer /\ proof = m.proof
           /\ tabs[m.tab].origin = m.origin
  PROVE  PageInv'
<1> DEFINE t == m.tab
<1>1. /\ m.tab \in Tabs /\ tabs \in [Tabs -> Pages \cup {NoPage}]
      /\ used.loads \in Nat /\ used.ids \in Nat
      /\ used \in [loads : Nat, nonces : Nat, ids : Nat, faults : Nat]
      /\ PostsGood'
  BY ShapeFacts DEF PageInv, Shapes, PostsGood, GoodPost, Approved
<1>2. CASE tabs[t].doc = m.doc
  <2>1. tabs' = [tabs EXCEPT ![t] = Heard(tabs[t], answer, proof)]
    BY <1>1, <1>2 DEF Hear
  <2>2. /\ tabs'[t] = Heard(tabs[t], answer, proof)
        /\ tabs[t].script # NoAsk /\ tabs[t].script.id = m.id
    BY <1>1, <1>2, <2>1 DEF PageInv, Answerable
  <2>3. \A n \in flight' : n.tab = t => n.doc # tabs[t].doc
    BY <1>2 DEF PageInv, OneQuestion
  <2>4. ASSUME answer = "approved"
        PROVE  /\ proof # None /\ Approved(proof)
               /\ proof.audience = tabs[t].origin
               /\ \/ tabs[t].phase \notin {"clicked", "waiting"}
                  \/ tabs[t].id # tabs[t].script.id
                  \/ proof.nonce = tabs[t].nonce
    BY <1>1, <2>2, <2>4 DEF PageInv, AnswersSigned, SameChallenge
  <2>5. Turn(t)
    BY <1>1, <2>2, <2>3, <2>4, HeardTurns
  <2>6. /\ used' \in [loads : Nat, nonces : Nat, ids : Nat, faults : Nat]
        /\ used.loads <= used'.loads /\ used.ids <= used'.ids
        /\ flight' \subseteq flight
    BY <1>1
  <2> DEFINE new == Heard(tabs[t], answer, proof)
  <2> HIDE DEF new
  <2>7. tabs' = [tabs EXCEPT ![t] = new]
    BY <2>1 DEF new
  <2> QED BY <1>1, <2>5, <2>6, <2>7, TurnKeepsPages
<1>3. CASE tabs[t].doc # m.doc
  <2>1. tabs' = tabs
    BY <1>3 DEF Hear
  <2>2. \A u \in Tabs : Turn(u)
    BY <1>1, <2>1, Unchanged
  <2>3. tabs' = [u \in Tabs |-> tabs'[u]]
    BY <1>1, <2>1
  <2> QED BY <1>1, <2>2, <2>3, TurnsKeepPages
<1> QED BY <1>2, <1>3

LEMMA RefuseKeepsPages ==
  ASSUME PageInv, NEW m \in flight, Refuse(m)
  PROVE  PageInv'
<1>1. /\ flight' = flight \ {m} /\ tabs' = Hear(m, "error", None)
      /\ UNCHANGED <<records, shown, doing, approvals, used, posts>>
      /\ "error" \in Answers /\ None \in Proofs \cup {None}
  BY DEF Refuse, mailboxVars, siteVars, Answers
<1> QED BY <1>1, HearKeepsPages

LEMMA ReturnKeepsPages ==
  ASSUME PageInv, NEW m \in flight, Return(m)
  PROVE  PageInv'
<1>1. /\ flight' = flight \ {m}
      /\ UNCHANGED <<records, shown, doing, approvals, used, posts>>
      /\ "error" \in Answers /\ None \in Proofs \cup {None}
      /\ m.answer \in Answers /\ m.proof \in Proofs \cup {None}
  BY DEF Return, mailboxVars, siteVars, Answers, PageInv, Shapes, Messages
<1>2. CASE tabs[m.tab].origin = m.origin
  <2>1. tabs' = Hear(m, m.answer, m.proof)
    BY <1>2 DEF Return
  <2> QED BY <1>1, <1>2, <2>1, HearKeepsPages
<1>3. CASE tabs[m.tab].origin # m.origin
  <2>1. tabs' = Hear(m, "error", None)
    BY <1>3 DEF Return
  <2> QED BY <1>1, <2>1, HearKeepsPages
<1> QED BY <1>2, <1>3

\* The scripts hear that the worker stopped.
LEMMA StopKeepsPages ==
  ASSUME PageInv, WorkerStops
  PROVE  PageInv'
<1>1. /\ flight' = {} /\ tabs' = Dropped /\ posts' = posts
      /\ UNCHANGED <<records, shown, doing, approvals>>
      /\ used' = [used EXCEPT !.faults = @ + 1]
  BY DEF WorkerStops, Fault, mailboxVars, siteVars
<1>2. /\ used' \in [loads : Nat, nonces : Nat, ids : Nat, faults : Nat]
      /\ used'.loads = used.loads /\ used'.ids = used.ids
      /\ used.loads \in Nat /\ used.ids \in Nat
  BY <1>1 DEF PageInv, Shapes
<1>3. ASSUME NEW t \in Tabs
      PROVE  Turn(t)
  <2>1. CASE \E m \in flight : m.tab = t /\ m.doc = tabs[t].doc
    <3> DEFINE page == tabs[t]
               new == Heard(page, "error", None)
    <3>1. tabs'[t] = new /\ page.script # NoAsk
      BY <1>1, <2>1 DEF Dropped, PageInv, Answerable
    <3>2. /\ page \in Pages /\ page.doc <= used.loads
          /\ "error" \in Answers /\ None \in Proofs \cup {None}
      BY <3>1, NoPageFacts, ShapeFacts DEF PageInv, DocsDrawn, Answers
    <3>3. /\ new \in Pages /\ new.doc = page.doc /\ new.id = page.id
          /\ new.nonce = page.nonce /\ new.origin = page.origin
          /\ \/ new.script.id = 0
             \/ /\ new.script.id = page.script.id
                /\ new.script.nonce = page.script.nonce
          /\ \/ new.phase = page.phase /\ new.proof = page.proof
             \/ /\ page.phase \in {"clicked", "waiting"}
                /\ new.phase = "loaded" /\ new.proof = page.proof
      BY <3>1, <3>2, HeardFacts
    <3> HIDE DEF new
    <3> QED
      BY <1>1, <1>2, <3>1, <3>2, <3>3
      DEF Turn, PageInv, ProofInHand, PageHearsItsOwnAnswer
  <2>2. CASE ~\E m \in flight : m.tab = t /\ m.doc = tabs[t].doc
    <3>1. tabs'[t] = tabs[t] /\ flight' \subseteq flight
      BY <1>1, <2>2 DEF Dropped
    <3> QED BY <1>2, <3>1, Unchanged
  <2> QED BY <2>1, <2>2
<1>4. tabs' = [t \in Tabs |-> tabs'[t]]
  BY <1>1 DEF Dropped
<1>5. PostsGood'
  BY <1>1 DEF PageInv, PostsGood, GoodPost, Approved
<1>6. used.loads <= used'.loads /\ used.ids <= used'.ids
  BY <1>2
<1> QED BY <1>1, <1>2, <1>3, <1>4, <1>5, <1>6, TurnsKeepPages

\* What the native host answers: the proof, if there is one, is that of a
\* request in the mailbox with this id and website.
Tells(m, h) ==
  /\ h \in Messages /\ h.tab = m.tab /\ h.doc = m.doc /\ h.id = m.id
  /\ h.nonce = m.nonce /\ h.origin = m.origin /\ h.op = m.op
  /\ h.stage = "handled"
  /\ h.answer = "approved" => h.proof # None
  /\ h.proof # None => \E r \in records :
       /\ r.id = m.id /\ r.origin = m.origin /\ r.proof = h.proof

\* A message handled, and what that leaves in the mailbox.
LEMMA AnswerKeepsPages ==
  ASSUME PageInv, NEW m \in flight, NEW h, Tells(m, h),
         flight' = (flight \ {m}) \cup {h},
         UNCHANGED <<tabs, shown, doing, approvals, used, posts>>,
         \A r \in records' :
           \/ r \in records
           \/ /\ m.op = "begin" /\ m.stage = "sent" /\ r.id = m.id
              /\ r.nonce = m.nonce /\ r.proof = None /\ r.status = "pending"
  PROVE  PageInv'
<1>0. /\ m.id \in Nat /\ m.id <= used.ids /\ m.doc <= used.loads
      /\ h.id = m.id /\ h.tab = m.tab /\ h.doc = m.doc /\ h.nonce = m.nonce
      /\ h.stage = "handled"
  BY ShapeFacts DEF PageInv, IdsDrawn, DocsDrawn, Tells
<1>1. ASSUME NEW id, AtGateway(id)'
      PROVE  \/ AtGateway(id)
             \/ m.op = "begin" /\ m.stage = "sent" /\ id = m.id
  BY <1>1 DEF AtGateway
<1>2. Shapes'
  BY DEF PageInv, Shapes, Tells
<1>3. ProofInHand' /\ PageHearsItsOwnAnswer' /\ OwnIds' /\ PostsGood'
  BY DEF PageInv, ProofInHand, PageHearsItsOwnAnswer, Approved, OwnIds,
         PostsGood, GoodPost
<1>4. DocsDrawn' /\ OneQuestion' /\ Answerable'
  BY <1>0 DEF PageInv, DocsDrawn, OneQuestion, Answerable
<1>5. IdsDrawn'
  BY <1>0, <1>1 DEF PageInv, IdsDrawn
<1>6. Unasked'
  <2> SUFFICES ASSUME NEW t \in Tabs, tabs[t].phase = "clicked",
                      NEW id, id = tabs[t].id
               PROVE  /\ \A u \in Tabs : tabs[u].script.id # id
                      /\ \A n \in flight' : n.id # id
                      /\ ~AtGateway(id)'
    BY DEF Unasked, AtGateway
  <2> QED BY <1>0, <1>1 DEF PageInv, Unasked
<1>7. BeginsOnce'
  <2> SUFFICES ASSUME NEW n \in flight', n.op = "begin", n.stage = "sent",
                      NEW id, id = n.id
               PROVE  /\ ~AtGateway(id)'
                      /\ \A o \in flight' : o.op = "begin" /\ o.id = id => o = n
    BY DEF BeginsOnce, AtGateway
  <2>1. n \in flight /\ n # m
    BY <1>0
  <2>2. m.op = "begin" => n.id # m.id
    BY <2>1 DEF PageInv, BeginsOnce
  <2> QED BY <1>0, <1>1, <2>1, <2>2 DEF PageInv, BeginsOnce, Tells
<1>8. h.proof # None => \E r \in records :
        /\ r.id = m.id /\ r.proof # None /\ r.proof = h.proof
        /\ h.proof.audience = m.origin
        /\ h.proof.nonce = r.nonce /\ Approved(h.proof)
  BY DEF Tells, PageInv, RecordsSigned, Signed
<1>9. SameChallenge'
  <2> SUFFICES ASSUME NEW t \in Tabs, tabs[t].phase \in {"clicked", "waiting"}
               PROVE  /\ tabs[t].id # 0
                      /\ \A u \in Tabs : tabs[u].script.id = tabs[t].id =>
                           tabs[u].script.nonce = tabs[t].nonce
                      /\ \A n \in flight' : n.id = tabs[t].id =>
                           /\ n.nonce = tabs[t].nonce
                           /\ n.proof # None => n.proof.nonce = tabs[t].nonce
                      /\ \A r \in records' : r.id = tabs[t].id =>
                           r.nonce = tabs[t].nonce
    BY DEF SameChallenge
  <2>1. /\ tabs[t].id # 0
        /\ \A u \in Tabs : tabs[u].script.id = tabs[t].id =>
              tabs[u].script.nonce = tabs[t].nonce
        /\ \A n \in flight : n.id = tabs[t].id =>
              /\ n.nonce = tabs[t].nonce
              /\ n.proof # None => n.proof.nonce = tabs[t].nonce
        /\ \A r \in records : r.id = tabs[t].id => r.nonce = tabs[t].nonce
    BY DEF PageInv, SameChallenge
  <2> QED BY <1>0, <1>8, <2>1
<1>10. AnswersSigned'
  <2>1. /\ h.answer = "approved" => h.proof # None
        /\ h.origin = m.origin
    BY DEF Tells
  <2> QED BY <1>8, <2>1 DEF PageInv, AnswersSigned, Approved
<1>11. RecordsSigned'
  BY DEF PageInv, RecordsSigned, Signed, Approved
<1> QED
  BY <1>2, <1>3, <1>4, <1>5, <1>6, <1>7, <1>9, <1>10, <1>11 DEF PageInv

\* Handling a message is a step of the mailbox's host, whose request ids are
\* fresh, or leaves the mailbox alone.
LEMMA HandleKeepsPages ==
  ASSUME MailboxInv, PageInv, NEW m \in flight, Handle(m)
  PROVE  PageInv' /\ (HostNext \/ UNCHANGED mailboxVars)
<1> DEFINE told == Status(m.id, m.origin)
           taken == Accepted(m.id, m.origin, m.nonce, m.expires)
           Said(answer, proof) ==
             [m EXCEPT !.stage = "handled", !.answer = answer, !.proof = proof]
<1>1. /\ m \in Messages /\ m.stage = "sent"
      /\ UNCHANGED <<now, keys, lastKey, shown, doing, tabs, used, posts,
                     approvals>>
  BY DEF Handle, PageInv, Shapes, siteVars
<1>2. ASSUME NEW answer \in Answers, NEW proof \in Proofs \cup {None}
      PROVE  LET h == Said(answer, proof)
             IN /\ h \in Messages /\ h.tab = m.tab /\ h.doc = m.doc
                /\ h.id = m.id /\ h.nonce = m.nonce /\ h.origin = m.origin
                /\ h.op = m.op /\ h.stage = "handled"
                /\ h.answer = answer /\ h.proof = proof
  BY <1>1 DEF Messages
<1>3. CASE m.op = "begin"
  <2> DEFINE answer == IF taken THEN "pending" ELSE "error"
             h == Said(answer, None)
  <2>1. /\ Begin(m.id, m.origin, m.nonce, m.expires)
        /\ flight' = (flight \ {m}) \cup {h}
    BY <1>3 DEF Handle
  <2>2. answer \in Answers /\ answer # "approved"
    BY DEF Answers
  <2> HIDE DEF answer
  <2>a. /\ h \in Messages /\ h.tab = m.tab /\ h.doc = m.doc
        /\ h.id = m.id /\ h.nonce = m.nonce /\ h.origin = m.origin
        /\ h.op = m.op /\ h.stage = "handled"
        /\ h.answer = answer /\ h.proof = None
    <3>1. None \in Proofs \cup {None}
      OBVIOUS
    <3> HIDE DEF Said
    <3> QED BY <1>2, <2>2, <3>1
  <2> HIDE DEF h
  <2>3. Tells(m, h)
    BY <2>2, <2>a DEF Tells
  <2>4. records' \subseteq
          records \cup {Request(m.id, m.origin, m.nonce, m.expires)}
    BY <2>1, KeptFacts DEF Begin
  <2>5. \A r \in records' :
          \/ r \in records
          \/ /\ m.op = "begin" /\ m.stage = "sent" /\ r.id = m.id
             /\ r.nonce = m.nonce /\ r.proof = None /\ r.status = "pending"
    BY <1>1, <1>3, <2>4 DEF Request
  <2>6. PageInv'
    BY <1>1, <2>1, <2>3, <2>5, AnswerKeepsPages
  <2>7. Fresh(m.id)
    BY <1>1, <1>3 DEF PageInv, BeginsOnce, AtGateway, Fresh
  <2>8. HostNext
    BY <1>1, <2>1, <2>7 DEF HostNext, Messages
  <2> QED BY <2>6, <2>8
<1>4. CASE m.op = "status"
  <2> DEFINE h == Said(told.status, told.proof)
  <2>1. flight' = (flight \ {m}) \cup {h} /\ records' = records
    BY <1>4 DEF Handle
  <2>2. /\ told.status \in Answers /\ told.proof \in Proofs \cup {None}
        /\ told.status = "approved" => told.proof # None
        /\ told.proof # None => \E r \in records :
             /\ r.id = m.id /\ r.origin = m.origin /\ r.proof = told.proof
    <3> DEFINE mine == {r \in records : r.id = m.id /\ r.origin = m.origin}
               one == CHOOSE r \in mine : TRUE
    <3>1. CASE mine = {}
      <4>1. told = [status |-> "error", proof |-> None]
        BY <3>1 DEF Status
      <4> QED BY <4>1 DEF Answers
    <3>2. CASE mine # {}
      <4>1. one \in mine
        BY <3>2
      <4>2. /\ one \in records /\ one.id = m.id /\ one.origin = m.origin
            /\ one \in Requests
            /\ one.status = "approved" => one.proof # None
        BY <4>1
        DEF MailboxInv, MailboxTypeOK, PageInv, RecordsSigned, Signed
      <4>3. \/ told = [status |-> "expired", proof |-> None]
            \/ told = [status |-> one.status, proof |-> one.proof]
        BY <3>2 DEF Status
      <4> HIDE DEF one, told
      <4> QED BY <4>2, <4>3 DEF Answers, Requests
    <3> QED BY <3>1, <3>2
  <2> HIDE DEF told
  <2>a. /\ h \in Messages /\ h.tab = m.tab /\ h.doc = m.doc
        /\ h.id = m.id /\ h.nonce = m.nonce /\ h.origin = m.origin
        /\ h.op = m.op /\ h.stage = "handled"
        /\ h.answer = told.status /\ h.proof = told.proof
    <3> HIDE DEF Said
    <3> QED BY <1>2, <2>2
  <2> HIDE DEF h
  <2>3. Tells(m, h)
    BY <2>2, <2>a DEF Tells
  <2>4. PageInv'
    BY <1>1, <2>1, <2>3, AnswerKeepsPages
  <2>5. UNCHANGED mailboxVars
    BY <1>1, <2>1 DEF mailboxVars
  <2> QED BY <2>4, <2>5
<1> QED BY <1>3, <1>4 DEF Handle

\* The app makes no request up: what it holds and shows was in the mailbox.
LEMMA AppMakesNothingUp ==
  ASSUME MailboxInv, AppNext
  PROVE  NoneIsNew /\ \A id \in Nat : AtGateway(id)' => AtGateway(id)
<1>0. /\ None \notin Nat /\ Idle.id = None
      /\ \A o : [Idle EXCEPT !.act = "forget", !.origin = o].id = None
  BY MailboxConstants DEF Idle
<1>1. CASE Refresh
  <2>1. records' \subseteq records /\ shown' \subseteq records' /\ doing' = doing
    BY <1>1, KeptFacts DEF Refresh, Show
  <2> QED BY <2>1, FewerStand DEF AtGateway
<1>2. CASE Approve
  <2>1. NoneIsNew /\ doing' = Idle
    BY <1>2, ApproveInv DEF Approve
  <2>2. shown' = shown \/ shown' \subseteq records'
    <3>1. CASE \E r \in records : Decidable(r)
      <4>1. PICK all : Show(all)
        BY <1>2, <3>1 DEF Approve
      <4> QED BY <4>1, KeptFacts DEF Show
    <3>2. CASE ~\E r \in records : Decidable(r)
      BY <1>2, <3>2 DEF Approve
    <3> QED BY <3>1, <3>2
  <2> QED BY <1>0, <2>1, <2>2 DEF AtGateway, NoneIsNew, BecameOf
<1>3. CASE ForgetKey
  <2>1. records' \subseteq records /\ shown' \subseteq records' /\ doing' = Idle
    BY <1>3, KeptFacts DEF ForgetKey, Show
  <2> QED BY <1>0, <2>1, FewerStand DEF AtGateway
<1>4. CASE GiveUp
  BY <1>0, <1>4, FewerStand DEF GiveUp, AtGateway
<1>5. ASSUME NEW r \in shown, LoadKey(r)
      PROVE  NoneIsNew /\ \A id \in Nat : AtGateway(id)' => AtGateway(id)
  <2>1. doing'.id = r.id /\ UNCHANGED <<records, shown>>
    BY <1>5 DEF LoadKey
  <2> QED BY <2>1, FewerStand DEF AtGateway
<1>6. ASSUME NEW r \in shown, Deny(r)
      PROVE  NoneIsNew /\ \A id \in Nat : AtGateway(id)' => AtGateway(id)
  <2>1. NoneIsNew /\ doing' = doing
    BY <1>6, DenyInv DEF Deny
  <2>2. shown' = shown \/ shown' \subseteq records'
    BY <1>6, KeptFacts DEF Deny, Show
  <2> QED BY <2>1, <2>2 DEF AtGateway, NoneIsNew, BecameOf
<1>7. ASSUME NEW o \in Origins, Revoke(o)
      PROVE  NoneIsNew /\ \A id \in Nat : AtGateway(id)' => AtGateway(id)
  <2>1. /\ NoneIsNew /\ shown' = shown
        /\ doing' = [Idle EXCEPT !.act = "forget", !.origin = o]
    BY <1>7, RevokeInv DEF Revoke
  <2> QED BY <1>0, <2>1 DEF AtGateway, NoneIsNew, BecameOf
<1>8. ASSUME NEW o \in Origins, RevokeSome(o)
      PROVE  NoneIsNew /\ \A id \in Nat : AtGateway(id)' => AtGateway(id)
  <2>1. NoneIsNew /\ shown' = shown /\ doing' = doing
    BY <1>8, RevokeSomeInv DEF RevokeSome
  <2> QED BY <2>1 DEF AtGateway, NoneIsNew, BecameOf
<1> QED BY <1>1, <1>2, <1>3, <1>4, <1>5, <1>6, <1>7, <1>8 DEF AppNext, AppWorks, AppStops

LEMMA AppKeepsPages ==
  ASSUME MailboxInv, MailboxInv', PageInv, App
  PROVE  PageInv'
<1>1. /\ AppNext /\ UNCHANGED <<tabs, flight, posts>>
      /\ approvals' = approvals \cup
           {[site |-> r.origin, nonce |-> r.nonce, key |-> r.proof.key] :
              r \in {q \in records' : q.status = "approved"}}
      /\ used' = used \/ used' = [used EXCEPT !.faults = @ + 1]
  BY DEF App, AppNext, Fault, workerVars, siteVars
<1>2. /\ used' \in [loads : Nat, nonces : Nat, ids : Nat, faults : Nat]
      /\ used'.loads = used.loads /\ used'.ids = used.ids
  BY <1>1 DEF PageInv, Shapes
<1>3. NoneIsNew /\ \A id \in Nat : AtGateway(id)' => AtGateway(id)
  BY <1>1, AppMakesNothingUp
<1>4. Shapes' /\ DocsDrawn' /\ Answerable' /\ OneQuestion' /\ OwnIds'
      /\ PageHearsItsOwnAnswer'
  BY <1>1, <1>2
  DEF PageInv, Shapes, DocsDrawn, Answerable, OneQuestion, OwnIds,
      PageHearsItsOwnAnswer
<1>5. ProofInHand' /\ AnswersSigned' /\ PostsGood'
  BY <1>1
  DEF PageInv, ProofInHand, AnswersSigned, PostsGood, GoodPost, Approved
<1>6. IdsDrawn'
  BY <1>1, <1>2, <1>3 DEF PageInv, IdsDrawn
<1>7. Unasked'
  <2> SUFFICES ASSUME NEW t \in Tabs, tabs[t].phase = "clicked",
                      NEW id, id = tabs[t].id
               PROVE  /\ \A u \in Tabs : tabs[u].script.id # id
                      /\ \A n \in flight : n.id # id
                      /\ ~AtGateway(id)'
    BY <1>1 DEF Unasked, AtGateway
  <2>1. id \in Nat
    BY ShapeFacts DEF PageInv
  <2> QED BY <1>3, <2>1 DEF PageInv, Unasked
<1>8. BeginsOnce'
  <2> SUFFICES ASSUME NEW n \in flight, n.op = "begin", n.stage = "sent",
                      NEW id, id = n.id
               PROVE  /\ ~AtGateway(id)'
                      /\ \A o \in flight : o.op = "begin" /\ o.id = id => o = n
    BY <1>1 DEF BeginsOnce, AtGateway
  <2>1. id \in Nat
    BY ShapeFacts DEF PageInv
  <2> QED BY <1>3, <2>1 DEF PageInv, BeginsOnce
<1>9. SameChallenge'
  <2>1. \A q \in records' : \E r \in records :
          q.id = r.id /\ q.nonce = r.nonce
    BY <1>3 DEF NoneIsNew, BecameOf
  <2> QED BY <1>1, <2>1 DEF PageInv, SameChallenge
<1>10. RecordsSigned'
  <2> SUFFICES ASSUME NEW q \in records'
               PROVE  Signed(q) /\ (q.proof # None => Approved(q.proof)')
    BY DEF RecordsSigned, Signed
  <2>1. Signed(q)
    BY <1>3 DEF NoneIsNew, BecameOf, PageInv, RecordsSigned
  <2>2. ASSUME q.proof # None PROVE Approved(q.proof)'
    <3>1. q.status = "approved"
      BY <2>2 DEF MailboxInv, ProofsAreOfTheKey
    <3>2. q.proof.audience = q.origin /\ q.proof.nonce = q.nonce
      BY <2>1, <2>2 DEF Signed
    <3> QED BY <1>1, <3>1, <3>2 DEF Approved
  <2> QED BY <2>1, <2>2
<1> QED BY <1>4, <1>5, <1>6, <1>7, <1>8, <1>9, <1>10 DEF PageInv

\* Time passes, or nothing does.
LEMMA IdleKeepsPages ==
  ASSUME PageInv, UNCHANGED <<tabs, flight, posts, used, records, shown,
                              doing, approvals>>
  PROVE  PageInv'
<1>1. /\ used' \in [loads : Nat, nonces : Nat, ids : Nat, faults : Nat]
      /\ used.loads <= used'.loads /\ used.ids <= used'.ids
      /\ used'.loads \in Nat /\ flight' \subseteq flight
      /\ tabs' = [t \in Tabs |-> tabs'[t]]
      /\ \A t \in Tabs : tabs'[t] = tabs[t]
  BY ShapeFacts DEF PageInv, Shapes
<1>2. PostsGood'
  BY DEF PageInv, PostsGood, GoodPost, Approved
<1>3. \A t \in Tabs : Turn(t)
  BY <1>1, Unchanged
<1> QED BY <1>1, <1>2, <1>3, TurnsKeepPages

-----------------------------------------------------------------------------

LEMMA NativeStart == Init => NativeInv
<1> SUFFICES ASSUME Init PROVE NativeInv
  OBVIOUS
<1>1. MailboxInv
  BY MailboxInitInv DEF Init
<1>2. /\ tabs = [t \in Tabs |-> NoPage] /\ flight = {} /\ posts = {}
      /\ sessions = {} /\ logins = <<>> /\ records = {} /\ shown = {}
      /\ used = [loads |-> 0, nonces |-> 0, ids |-> 0, faults |-> 0]
      /\ doing.id = None
  BY DEF Init, MailboxInit, Idle
<1>3. SiteInv
  BY <1>2 DEF SiteInv, OneLoginPerApproval
<1>4. ~\E id \in Nat : AtGateway(id)
  BY <1>2, MailboxConstants DEF AtGateway
<1>5. PageInv
  BY <1>2, <1>4, NoPageFacts
  DEF PageInv, Shapes, ProofInHand, DocsDrawn, Answerable, OneQuestion,
      IdsDrawn, OwnIds, Unasked, BeginsOnce, SameChallenge, AnswersSigned,
      RecordsSigned, PostsGood, PageHearsItsOwnAnswer
<1> QED BY <1>1, <1>3, <1>5 DEF NativeInv

\* Every step is one of the mailbox, the app or the clock, or leaves them
\* alone, and keeps the invariant.
LEMMA NativeStep ==
  ASSUME NativeInv, [Next]_nativeVars
  PROVE  NativeInv' /\ [AppNext \/ Tick \/ HostNext]_mailboxVars
<1>0. /\ MailboxInv /\ SiteInv /\ PageInv /\ now \in Nat
      /\ used \in [loads : Nat, nonces : Nat, ids : Nat, faults : Nat]
  BY DEF NativeInv, MailboxInv, MailboxTypeOK, SiteInv
<1>a. ASSUME [AppNext \/ Tick \/ HostNext]_mailboxVars, SiteInv', PageInv'
      PROVE  NativeInv' /\ [AppNext \/ Tick \/ HostNext]_mailboxVars
  BY <1>0, <1>a, MailboxStep DEF NativeInv
<1>b. ASSUME UNCHANGED <<sessions, logins, approvals, used>>
      PROVE  SiteInv'
  BY <1>0, <1>b, OthersKeepSites
<1>c. ASSUME \E p : GoodPost(p) /\ Verify(p),
             used' = used \/ used' = [used EXCEPT !.faults = @ + 1]
      PROVE  SiteInv' /\ UNCHANGED mailboxVars
  <2>1. PICK p : GoodPost(p) /\ Verify(p)
    BY <1>c
  <2>2. /\ used' \in [loads : Nat, nonces : Nat, ids : Nat, faults : Nat]
        /\ used'.loads = used.loads /\ used'.nonces = used.nonces
    BY <1>0, <1>c
  <2> QED BY <1>0, <2>1, <2>2, VerifyKeepsSites DEF Verify
<1>1. CASE App
  <2>1. /\ AppNext /\ UNCHANGED <<sessions, logins>>
        /\ approvals \subseteq approvals'
        /\ used' = used \/ used' = [used EXCEPT !.faults = @ + 1]
    BY <1>1 DEF App, AppNext, Fault, siteVars
  <2>2. MailboxInv'
    BY <1>0, <2>1, MailboxStep
  <2>3. PageInv'
    BY <1>0, <1>1, <2>2, AppKeepsPages
  <2>4. /\ used' \in [loads : Nat, nonces : Nat, ids : Nat, faults : Nat]
        /\ used'.loads = used.loads /\ used'.nonces = used.nonces
    BY <1>0, <2>1
  <2>5. SiteInv'
    BY <1>0, <2>1, <2>4, OthersKeepSites
  <2> QED BY <1>a, <2>1, <2>3, <2>5
<1>2. CASE Clock
  <2>1. /\ Tick /\ UNCHANGED <<tabs, flight, posts, used, approvals>>
        /\ UNCHANGED <<sessions, logins>>
        /\ UNCHANGED <<records, shown, doing>>
    BY <1>2 DEF Clock, Tick, workerVars, siteVars
  <2> QED BY <1>0, <1>a, <1>b, <2>1, IdleKeepsPages
<1>3. CASE WorkerStops
  <2>1. UNCHANGED mailboxVars /\ UNCHANGED <<sessions, logins, approvals>>
        /\ used' = [used EXCEPT !.faults = @ + 1]
    BY <1>3 DEF WorkerStops, Fault, siteVars
  <2>2. /\ used' \in [loads : Nat, nonces : Nat, ids : Nat, faults : Nat]
        /\ used'.loads = used.loads /\ used'.nonces = used.nonces
    BY <1>0, <2>1
  <2>3. SiteInv'
    BY <1>0, <2>1, <2>2, OthersKeepSites
  <2> QED BY <1>0, <1>3, <1>a, <2>1, <2>3, StopKeepsPages
<1>4. CASE Repeat
  <2>1. used' = [used EXCEPT !.faults = @ + 1]
    BY <1>4 DEF Repeat, Fault
  <2> QED BY <1>0, <1>4, <1>a, <1>c, <2>1, RepeatKeepsPages
<1>5. ASSUME NEW t \in Tabs, Post(t)
      PROVE  NativeInv' /\ [AppNext \/ Tick \/ HostNext]_mailboxVars
  <2>1. used' = used
    BY <1>5 DEF Post
  <2>2. PageInv' /\ ((\E p : GoodPost(p) /\ Verify(p)) \/ Undelivered)
    BY <1>0, <1>5, PostKeepsPages
  <2>3. CASE \E p : GoodPost(p) /\ Verify(p)
    BY <1>a, <1>c, <2>1, <2>2, <2>3
  <2>4. CASE Undelivered
    <3>1. UNCHANGED mailboxVars /\ UNCHANGED <<sessions, logins, approvals>>
      BY <2>4 DEF Undelivered
    <3> QED BY <1>a, <1>b, <2>1, <2>2, <3>1
  <2> QED BY <2>2, <2>3, <2>4
<1>6. ASSUME NEW t \in Tabs, Prepare(t)
      PROVE  NativeInv' /\ [AppNext \/ Tick \/ HostNext]_mailboxVars
  <2>1. UNCHANGED mailboxVars
    BY <1>6 DEF Prepare
  <2> QED
    BY <1>0, <1>6, <1>a, <2>1, PrepareKeepsSites, PrepareKeepsPages
<1>7. ASSUME NEW t \in Tabs, NEW site \in Origins, Load(t, site)
      PROVE  NativeInv' /\ [AppNext \/ Tick \/ HostNext]_mailboxVars
  <2>1. UNCHANGED mailboxVars
    BY <1>7 DEF Load
  <2> QED BY <1>0, <1>7, <1>a, <2>1, LoadKeepsSites, LoadKeepsPages
<1>8. ASSUME NEW t \in Tabs, Leave(t)
      PROVE  NativeInv' /\ [AppNext \/ Tick \/ HostNext]_mailboxVars
  <2>1. UNCHANGED mailboxVars /\ UNCHANGED <<sessions, logins, approvals>>
        /\ used' = [used EXCEPT !.faults = @ + 1]
    BY <1>8 DEF Leave, Fault, siteVars
  <2>2. /\ used' \in [loads : Nat, nonces : Nat, ids : Nat, faults : Nat]
        /\ used'.loads = used.loads /\ used'.nonces = used.nonces
    BY <1>0, <2>1
  <2>3. SiteInv'
    BY <1>0, <2>1, <2>2, OthersKeepSites
  <2> QED BY <1>0, <1>8, <1>a, <2>1, <2>3, LeaveKeepsPages
<1>9. ASSUME NEW t \in Tabs, Connect(t)
      PROVE  NativeInv' /\ [AppNext \/ Tick \/ HostNext]_mailboxVars
  <2>1. /\ UNCHANGED mailboxVars /\ UNCHANGED <<sessions, logins, approvals>>
        /\ used' = used \/ used' = [used EXCEPT !.ids = used.ids + 1]
    BY <1>9 DEF Connect, siteVars
  <2>2. /\ used' \in [loads : Nat, nonces : Nat, ids : Nat, faults : Nat]
        /\ used'.loads = used.loads /\ used'.nonces = used.nonces
    <3>1. used.ids + 1 \in Nat
      BY <1>0
    <3> QED BY <1>0, <2>1, <3>1
  <2>3. SiteInv'
    BY <1>0, <2>1, <2>2, OthersKeepSites
  <2> QED BY <1>0, <1>9, <1>a, <2>1, <2>3, ConnectKeepsPages
<1>10. ASSUME NEW t \in Tabs, Ask(t) \/ Poll(t) \/ TimeOut(t)
       PROVE  NativeInv' /\ [AppNext \/ Tick \/ HostNext]_mailboxVars
  <2>1. UNCHANGED mailboxVars
        /\ UNCHANGED <<sessions, logins, approvals, used>>
    BY <1>10 DEF Ask, Poll, TimeOut, siteVars
  <2>2. PageInv'
    BY <1>0, <1>10, AskKeepsPages, PollKeepsPages, TimeOutKeepsPages
  <2> QED BY <1>a, <1>b, <2>1, <2>2
<1>11. ASSUME NEW m \in flight, Refuse(m) \/ Return(m)
       PROVE  NativeInv' /\ [AppNext \/ Tick \/ HostNext]_mailboxVars
  <2>1. UNCHANGED mailboxVars
        /\ UNCHANGED <<sessions, logins, approvals, used>>
    BY <1>11 DEF Refuse, Return, siteVars
  <2>2. PageInv'
    BY <1>0, <1>11, RefuseKeepsPages, ReturnKeepsPages
  <2> QED BY <1>a, <1>b, <2>1, <2>2
<1>12. ASSUME NEW m \in flight, Handle(m)
       PROVE  NativeInv' /\ [AppNext \/ Tick \/ HostNext]_mailboxVars
  <2>1. UNCHANGED <<sessions, logins, approvals, used>>
    BY <1>12 DEF Handle, siteVars
  <2>2. PageInv' /\ (HostNext \/ UNCHANGED mailboxVars)
    BY <1>0, <1>12, HandleKeepsPages
  <2> QED BY <1>a, <1>b, <2>1, <2>2
<1>13. CASE UNCHANGED nativeVars
  <2>1. UNCHANGED mailboxVars
        /\ UNCHANGED <<sessions, logins, approvals, used>>
        /\ UNCHANGED <<tabs, flight, posts, records, shown, doing>>
    BY <1>13 DEF nativeVars, mailboxVars, workerVars, siteVars
  <2> QED BY <1>0, <1>a, <1>b, <2>1, IdleKeepsPages
<1> QED
  BY <1>1, <1>2, <1>3, <1>4, <1>5, <1>6, <1>7, <1>8, <1>9, <1>10, <1>11,
     <1>12, <1>13
  DEF Next, Proceed

LEMMA NativeInvariance == Spec => []NativeInv
<1>1. NativeInv /\ [Next]_nativeVars => NativeInv'
  BY NativeStep
<1> QED BY <1>1, NativeStart, PTL DEF Spec

\* The gateway behind the browser extension is used as it can be by anybody:
\* each step of a login is a step of the mailbox, of the app or of the clock,
\* with a request id that is not in use, or none of their business (handle in
\* the native host, begin and status in Gateway).
THEOREM LoginsUseTheMailbox == Spec => MailboxSpec
<1>1. Init => MailboxInit
  BY DEF Init
<1>2. NativeInv /\ [Next]_nativeVars =>
        [AppNext \/ Tick \/ HostNext]_mailboxVars
  BY NativeStep
<1> QED BY <1>1, <1>2, NativeInvariance, PTL DEF Spec, MailboxSpec

\* For any websites, tabs and requests: whatever is late, lost or repeated, a
\* login was approved by the user for its website and challenge, and answers
\* it for the first time (verify in native_site.py).
THEOREM LoginsAreApproved == Spec => []OneLoginPerApproval
<1>1. NativeInv => OneLoginPerApproval
  BY DEF NativeInv, SiteInv
<1> QED BY <1>1, NativeInvariance, PTL

\* For any websites, tabs and requests, no page is given the answer to another
\* challenge (receive in connectNativeORF).
THEOREM AnswersReachTheirPage == Spec => []PageHearsItsOwnAnswer
<1>1. NativeInv => PageHearsItsOwnAnswer
  BY DEF NativeInv, PageInv
<1> QED BY <1>1, NativeInvariance, PTL

\* So what is proved of the mailbox holds of it in a login.
THEOREM MailboxHoldsInLogins ==
  Spec => [](MailboxTypeOK /\ ProofsAreOfTheKey /\ OneRequestAtATime)
            /\ DecisionsStand
BY LoginsUseTheMailbox, MailboxTyped, NoProofOutlivesItsKey, MailboxBounded,
   NoDecisionUndone, PTL
=============================================================================
