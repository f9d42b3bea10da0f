------------------------- MODULE ConsentRefinement -------------------------
(***************************************************************************)
(* ConsentService implements Consent: the rights are the grants that are   *)
(* not revoked, the agreements the approvals owners signed, and a thread   *)
(* uses a right from its last look at the session on.                      *)
(***************************************************************************)
EXTENDS ConsentService

ASSUME RightAssumption == None \notin [scopes: SUBSET Scope, until: Nat]

DealOf == [r \in Request |-> [profile |-> Ask[r].profile, site |-> Ask[r].site,
                              purpose |-> Ask[r].purpose]]

Approvals == {d \in decided : d.signed.action = "approve"}

Agreed == {[deal |-> DealOf[d.signed.request], scopes |-> d.signed.scopes,
            until |-> ExpiryOf(d)] : d \in Approvals}

Held == [r \in Request |->
           IF grant[r] = None THEN None
           ELSE IF grant[r].revoked THEN None
           ELSE [scopes |-> grant[r].scopes, until |-> grant[r].expires]]

InUse(w) == job[w].at \in {"read-profile", "insert-feedback"}

Using == [w \in Worker |->
            IF InUse(w) THEN [request |-> job[w].row.grant[1],
                              scopes |-> job[w].row.scopes]
            ELSE None]

\* When grants may end: by default, or as the owners sign.
Expiries == 0 .. MaxTime + GrantTTL \cup (GrantUntil \ {None})

Promise == INSTANCE Consent
  WITH Deadline <- Expiries,
       Deal <- DealOf, User <- Worker, NoRight <- None,
       agreed <- Agreed, held <- Held, using <- Using

\* Whatever the handlers do, and wherever they are interrupted, is what an
\* owner was promised: rights come from agreements, and nothing begins to be
\* read by a right withdrawn, run out or gone (perform_owner_action,
\* create_access_request, get_grant_session).
KeepsThePromise == Promise!Spec
=============================================================================
