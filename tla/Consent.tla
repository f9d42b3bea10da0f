------------------------------ MODULE Consent ------------------------------
(***************************************************************************)
(* What the service promises an owner, without requests, challenges,       *)
(* sessions or threads: a website holds a right to read only by an         *)
(* agreement its owner signed, or by a right no larger and no longer than  *)
(* one; nobody begins to use a right that was withdrawn, has run out or    *)
(* went with its profile.  A use that has begun may end later.             *)
(***************************************************************************)
EXTENDS Naturals

CONSTANTS Request,     \* a website's request for a right
          Deal,        \* Deal[r]: the profile, website and purpose of r
          Scope, User,
          Deadline,    \* when rights may end
          NoRight      \* no right, no use

VARIABLES now,
          agreed,      \* agreements ever signed
          held,        \* the right each request has led to
          using        \* the right each user is using

consentVars == <<now, agreed, held, using>>

Agreement(deal, S, u) == [deal |-> deal, scopes |-> S, until |-> u]
Right(S, u) == [scopes |-> S, until |-> u]

Init ==
  /\ now = 0 /\ agreed = {}
  /\ held = [r \in Request |-> NoRight]
  /\ using = [w \in User |-> NoRight]

Gives(r, S, u) ==
  /\ held[r] = NoRight
  /\ held' = [held EXCEPT ![r] = Right(S, u)]
  /\ UNCHANGED <<now, using>>

Agree(r, S, u) ==
  /\ agreed' = agreed \cup {Agreement(Deal[r], S, u)}
  /\ Gives(r, S, u)

\* A right by an earlier agreement about the same deal.
Inherit(r, S, u) ==
  /\ \E a \in agreed : a.deal = Deal[r] /\ S \subseteq a.scopes /\ u <= a.until
  /\ Gives(r, S, u)
  /\ UNCHANGED agreed

Withdraw(r) ==
  /\ held' = [held EXCEPT ![r] = NoRight]
  /\ UNCHANGED <<now, agreed, using>>

Forget(profile) ==
  /\ held' = [r \in Request |->
                IF Deal[r].profile = profile THEN NoRight ELSE held[r]]
  /\ UNCHANGED <<now, agreed, using>>

Begin(w, r, S) ==
  /\ held[r] # NoRight /\ S \subseteq held[r].scopes /\ now < held[r].until
  /\ using' = [using EXCEPT ![w] = [request |-> r, scopes |-> S]]
  /\ UNCHANGED <<now, agreed, held>>

End(w) ==
  /\ using' = [using EXCEPT ![w] = NoRight]
  /\ UNCHANGED <<now, agreed, held>>

Pass == now' = now + 1 /\ UNCHANGED <<agreed, held, using>>

Next ==
  \/ \E r \in Request :
       \/ Withdraw(r)
       \/ \E S \in SUBSET Scope :
            \/ \E u \in Deadline : Agree(r, S, u) \/ Inherit(r, S, u)
            \/ \E w \in User : Begin(w, r, S)
  \/ \E r \in Request : Forget(Deal[r].profile)
  \/ \E w \in User : End(w)
  \/ Pass

Spec == Init /\ [][Next]_consentVars
=============================================================================
