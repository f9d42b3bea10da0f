------------------------------- MODULE MCConsent -------------------------------
(***************************************************************************)
(* Small instances of ConsentService.  One profile and one site: what is   *)
(* checked is how handlers of one relationship interleave.                 *)
(***************************************************************************)
EXTENDS ConsentRefinement, TLC

CONSTANTS r1, r2, r3, w1, w2, p1, s1, shop, news, a, b

AllowedAll == [s \in Site |-> Scope]

Asks(requested, required, expires) ==
  [profile |-> p1, site |-> s1, purpose |-> shop,
   requested |-> requested, required |-> required, expires |-> expires]

\* The second request asks for less than the first and may lapse.
AskReuse == [r \in Request |-> CASE r = r1 -> Asks({a, b}, {a}, None)
                                 [] r = r2 -> Asks({a}, {a}, 1)
                                 [] OTHER  -> Asks({a}, {a}, None)]

\* The last request is made for another purpose.
AskPurposes ==
  [r \in Request |-> IF r = r3 THEN [Asks({a}, {a}, None) EXCEPT !.purpose = news]
                                ELSE AskReuse[r]]

AskOne == [r \in Request |-> Asks({a}, {a}, None)]

\* One thread answers the site, the other one the owner.
ServesReuse == [w \in Worker |-> IF w = w1 THEN {"create", "poll"} ELSE {"owner", "profile", "poll"}]

\* A single thread: nothing interleaves but the owner's own decisions.
ServesOne == [w \in Worker |-> {"create", "owner"}]

ServesSession == [w \in Worker |->
  IF w = w1 THEN {"create", "begin", "exchange"} ELSE {"owner", "exchange", "use"}]

\* A single thread: what it carries is overtaken by the owner's actions and the clock.
ServesAccess == [w \in Worker |-> {"create", "owner", "begin", "exchange", "use"}]

\* Identifiers are random strings that no handler compares but for equality.
Interchangeable ==
  Permutations(Challenge) \cup Permutations(Session) \cup Permutations(Event)

AllActions == {"approve", "deny", "revoke", "delete", "sync-read"}

OneHour == {1}
HourOrDefault == {1, None}
Default == {None}
=============================================================================
