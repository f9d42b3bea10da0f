---------------------------- MODULE NativeLogin ----------------------------
(***************************************************************************)
(* A login from the page to the app and back (docs/native-gateway.md): the *)
(* page of each tab (examples/native_site.py, the SDK), its content script *)
(* (content.js), the extension's background worker (background.js), the    *)
(* native host and the app (Mailbox), and the website that verifies the    *)
(* proof (native_site.py, native_gateway.py).  A tab may navigate, the     *)
(* worker may be stopped and the answers may be late between any two       *)
(* steps; the network may deliver a proof late or twice.                   *)
(***************************************************************************)
EXTENDS Mailbox, Sequences

CONSTANTS Tabs,
          ChallengeAge, SessionAge,   \* what a website allows
          MaxSessions,                \* sessions a website keeps
          MaxActive,                  \* requests the background worker serves
          MaxTime, MaxLoads, MaxRequests, MaxFaults   \* bounds of the model

ASSUME NativeConstants == ChallengeAge \in Nat /\ SessionAge \in Nat

VARIABLES tabs,        \* the page of each tab and its content script
          flight,      \* messages of content scripts being answered
          active,      \* activeTabs of the background worker
          posts,       \* proofs sent to the websites
          sessions,    \* of the websites
          cookie,      \* the session each website's cookie names
          used,        \* page loads, challenges, request ids and faults
          approvals,   \* what the user approved, ever
          logins       \* logins the websites accepted, in order

workerVars == <<flight, active>>
siteVars   == <<posts, sessions, cookie, logins>>
nativeVars == <<mailboxVars, workerVars, siteVars, tabs, used, approvals>>

NoAsk == [state |-> "idle", id |-> 0, nonce |-> 0, expires |-> 0]

NoPage == [doc |-> 0, origin |-> None, phase |-> "blank",
           id |-> 0, nonce |-> 0, expires |-> 0, proof |-> None,
           script |-> NoAsk]

Init ==
  /\ MailboxInit
  /\ tabs = [t \in Tabs |-> NoPage]
  /\ flight = {} /\ active = {} /\ posts = {}
  /\ sessions = {} /\ cookie = [o \in Origins |-> None] /\ logins = <<>>
  /\ used = [loads |-> 0, nonces |-> 0, ids |-> 0, faults |-> 0]
  /\ approvals = {}

\* One more of the few faults: a navigation, a worker or an app stopped, a
\* proof delivered again.
Fault ==
  /\ used.faults < MaxFaults
  /\ used' = [used EXCEPT !.faults = @ + 1]

-----------------------------------------------------------------------------
(* The website *)

Live(site) == {s \in sessions : s.origin = site /\ now < s.expires}

\* GET /: a session for each page, named by its CSRF token and by the cookie
\* the browser keeps one of.
Load(t, site) ==
  LET token == used.loads + 1
      fault == IF tabs[t] = NoPage THEN 0 ELSE 1
  IN
  /\ used.loads < MaxLoads /\ used.faults + fault <= MaxFaults
  /\ Cardinality(Live(site)) < MaxSessions
  /\ sessions' = {s \in sessions : s.origin # site} \cup Live(site) \cup
       {[token |-> token, origin |-> site, expires |-> now + SessionAge,
         challenge |-> None]}
  /\ cookie' = [cookie EXCEPT ![site] = token]
  /\ tabs' = [tabs EXCEPT ![t] =
       [NoPage EXCEPT !.doc = token, !.origin = site, !.phase = "loaded"]]
  /\ used' = [used EXCEPT !.loads = token, !.faults = @ + fault]
  /\ UNCHANGED <<mailboxVars, workerVars, posts, logins, approvals>>

\* The tab goes on to a website that has no ORF login.
Leave(t) ==
  /\ tabs[t] # NoPage /\ Fault
  /\ tabs' = [tabs EXCEPT ![t] = NoPage]
  /\ UNCHANGED <<mailboxVars, workerVars, siteVars, approvals>>

\* session(request): the session of the cookie, if the page's token is its.
Session(site, token, csrf) ==
  {s \in Live(site) : s.token = token /\ s.token = csrf}

\* POST /challenge, when the page is loaded and after each attempt; a page
\* that is refused stays without one.
Prepare(t) ==
  LET page == tabs[t]
      mine == Session(page.origin, cookie[page.origin], page.doc)
      nonce == used.nonces + 1
      expires == now + ChallengeAge
  IN /\ page.phase = "loaded"
     /\ IF mine = {}
        THEN /\ tabs' = [tabs EXCEPT ![t].phase = "stuck"]
             /\ UNCHANGED <<sessions, used>>
        ELSE /\ expires <= MaxTime
             /\ sessions' = (sessions \ mine) \cup
                  {[s EXCEPT !.challenge = [nonce |-> nonce,
                                            expires |-> expires]] : s \in mine}
             /\ tabs' = [tabs EXCEPT ![t] =
                  [@ EXCEPT !.phase = "ready", !.nonce = nonce,
                            !.expires = expires]]
             /\ used' = [used EXCEPT !.nonces = nonce]
     /\ UNCHANGED <<mailboxVars, workerVars, approvals, posts, cookie, logins>>

\* Mutant of Verifies: any proof for the website will do.
VerifiesAny(proof, s) == proof.audience = s.origin /\ now < proof.expires

\* verify_native_login with the session's challenge.
Verifies(proof, s) ==
  /\ proof.audience = s.origin
  /\ proof.nonce = s.challenge.nonce /\ proof.expires = s.challenge.expires
  /\ now < proof.expires
  /\ now <= proof.issued + Lifetime
  /\ proof.issued < proof.expires /\ proof.expires <= proof.issued + Lifetime

\* POST /verify: an accepted proof takes the challenge with it.
Verify(p) ==
  LET good == {s \in Session(p.site, p.token, p.csrf) :
                 s.challenge # None /\ Verifies(p.proof, s)}
  IN /\ sessions' = (sessions \ good) \cup
                      {[s EXCEPT !.challenge = None] : s \in good}
     /\ logins' = IF good = {} THEN logins
                  ELSE LET s == CHOOSE s \in good : TRUE
                       IN Append(logins, [site |-> p.site, key |-> p.proof.key,
                                          nonce |-> s.challenge.nonce])
     /\ UNCHANGED <<mailboxVars, workerVars, approvals, cookie>>

\* The network loses a message, or has yet to deliver it.
Undelivered ==
  UNCHANGED <<mailboxVars, workerVars, approvals, cookie, sessions, logins>>

\* The page sends the proof it was given, and asks for another challenge
\* whatever comes of it.
Post(t) ==
  LET page == tabs[t]
      p == [site |-> page.origin, token |-> cookie[page.origin],
            csrf |-> page.doc, proof |-> page.proof]
  IN /\ page.phase = "proof"
     /\ Verify(p) \/ Undelivered
     /\ posts' = posts \cup {p}
     /\ tabs' = [tabs EXCEPT ![t] = [@ EXCEPT !.phase = "loaded",
                                              !.proof = None]]
     /\ UNCHANGED used

\* The network delivers a proof late, or once more.
Repeat == \E p \in posts : Verify(p) /\ Fault /\ UNCHANGED <<tabs, posts>>

-----------------------------------------------------------------------------
(* The page and its content script *)

\* A click: connectNativeORF posts a request with a fresh id to the content
\* script, or rejects a challenge too old and the page asks for another.
Connect(t) ==
  LET page == tabs[t]
      id == used.ids + 1
  IN /\ page.phase = "ready"
     /\ IF InTime(page.expires)
        THEN /\ used.ids < MaxRequests
             /\ used' = [used EXCEPT !.ids = id]
             /\ tabs' = [tabs EXCEPT ![t] =
                           [@ EXCEPT !.phase = "clicked", !.id = id]]
        ELSE /\ tabs' = [tabs EXCEPT ![t].phase = "loaded"]
             /\ UNCHANGED used
     /\ UNCHANGED <<mailboxVars, workerVars, siteVars, approvals>>

\* Mutant of IsMine: the page takes any answer of the content script.
IsAnyones(page, id) == TRUE

IsMine(page, id) == page.id = id

\* receive: what the page makes of the answer to request id.
Answered(page, id, answer, proof) ==
  IF page.phase \notin {"clicked", "waiting"} \/ ~IsMine(page, id) THEN page
  ELSE IF answer = "approved"
  THEN [page EXCEPT !.phase = "proof", !.proof = proof]
  ELSE [page EXCEPT !.phase = "loaded"]

Message(t, op, ask) ==
  [tab |-> t, doc |-> tabs[t].doc, origin |-> tabs[t].origin, op |-> op,
   id |-> ask.id, nonce |-> ask.nonce, expires |-> ask.expires,
   stage |-> "sent", answer |-> "none", proof |-> None]

\* The content script takes one request at a time and sends it on.
Ask(t) ==
  LET page == tabs[t]
      ask == [state |-> "asking", id |-> page.id, nonce |-> page.nonce,
              expires |-> page.expires]
  IN /\ page.phase = "clicked"
     /\ IF page.script = NoAsk
        THEN /\ tabs' = [tabs EXCEPT ![t] =
                           [@ EXCEPT !.phase = "waiting", !.script = ask]]
             /\ flight' = flight \cup {Message(t, "begin", ask)}
        ELSE /\ tabs' = [tabs EXCEPT ![t] =
                           Answered(@, page.id, "error", None)]
             /\ UNCHANGED flight
     /\ UNCHANGED <<mailboxVars, active, used, siteVars, approvals>>

\* A second later the content script asks how the request stands.
Poll(t) ==
  /\ tabs[t].script.state = "sleeping"
  /\ tabs' = [tabs EXCEPT ![t].script.state = "asking"]
  /\ flight' = flight \cup {Message(t, "status", tabs[t].script)}
  /\ UNCHANGED <<mailboxVars, active, used, siteVars, approvals>>

\* The SDK gives up a little after the challenge is over.
TimeOut(t) ==
  /\ tabs[t].phase \in {"clicked", "waiting"} /\ now > tabs[t].expires
  /\ tabs' = [tabs EXCEPT ![t].phase = "loaded"]
  /\ UNCHANGED <<mailboxVars, workerVars, used, siteVars, approvals>>

\* What the content script makes of an answer: it waits on while the request
\* is pending and not over, else it tells the page.
Heard(page, answer, proof) ==
  IF answer = "pending" /\ now < page.script.expires
  THEN [page EXCEPT !.script.state = "sleeping"]
  ELSE [Answered(page, page.script.id, answer, proof) EXCEPT !.script = NoAsk]

\* Answers reach the document that asked, if it is still there.
Hear(m, answer, proof) ==
  IF tabs[m.tab].doc = m.doc
  THEN [tabs EXCEPT ![m.tab] = Heard(@, answer, proof)]
  ELSE tabs

-----------------------------------------------------------------------------
(* The background worker and the native host *)

\* validateConnection: the tab still shows the website, the challenge is not
\* over; and no other request of the tab is being served.
Serves(m) ==
  /\ tabs[m.tab].origin = m.origin
  /\ m.op = "begin" => InTime(m.expires)
  /\ m.tab \notin active /\ Cardinality(active) < MaxActive

\* A message served goes to the native host, and handle there answers it
\* from the mailbox.
Handle(m) ==
  LET told == Status(m.id, m.origin)
      taken == Accepted(m.id, m.origin, m.nonce, m.expires)
      Told(answer, proof) ==
        flight' = (flight \ {m}) \cup
          {[m EXCEPT !.stage = "handled", !.answer = answer, !.proof = proof]}
  IN /\ m.stage = "sent" /\ Serves(m)
     /\ active' = active \cup {m.tab}
     /\ \/ /\ m.op = "begin"
           /\ Begin(m.id, m.origin, m.nonce, m.expires)
           /\ Told(IF taken THEN "pending" ELSE "error", None)
        \/ /\ m.op = "status"
           /\ Told(told.status, told.proof)
           /\ UNCHANGED records
     /\ UNCHANGED <<now, keys, lastKey, shown, doing, tabs, used, siteVars,
                    approvals>>

Refuse(m) ==
  /\ m.stage = "sent" /\ ~Serves(m)
  /\ flight' = flight \ {m}
  /\ tabs' = Hear(m, "error", None)
  /\ UNCHANGED <<mailboxVars, active, used, siteVars, approvals>>

Served(m) == active \ {m.tab}

\* The answer goes back, unless the tab shows another website by now.
Return(m) ==
  /\ m.stage = "handled"
  /\ flight' = flight \ {m}
  /\ active' = Served(m)
  /\ tabs' = IF tabs[m.tab].origin = m.origin
             THEN Hear(m, m.answer, m.proof) ELSE Hear(m, "error", None)
  /\ UNCHANGED <<mailboxVars, used, siteVars, approvals>>

\* Mutant of Dropped: nobody tells the content script.
DroppedSilently == tabs

\* The content scripts' calls fail.
Dropped ==
  [t \in Tabs |-> IF \E m \in flight : m.tab = t /\ m.doc = tabs[t].doc
                  THEN Heard(tabs[t], "error", None) ELSE tabs[t]]

\* The browser stops the background worker with all it was doing.
WorkerStops ==
  /\ flight # {} /\ Fault
  /\ flight' = {} /\ active' = {}
  /\ tabs' = Dropped
  /\ UNCHANGED <<mailboxVars, siteVars, approvals>>

-----------------------------------------------------------------------------

App ==
  /\ \/ AppWorks /\ UNCHANGED used
     \/ AppStops /\ Fault
  /\ approvals' = approvals \cup
       {[site |-> r.origin, nonce |-> r.nonce, key |-> r.proof.key] :
          r \in {q \in records' : q.status = "approved"}}
  /\ UNCHANGED <<tabs, workerVars, siteVars>>

Clock ==
  /\ now < MaxTime /\ Tick
  /\ UNCHANGED <<tabs, workerVars, used, siteVars, approvals>>

Proceed(t) ==
  \/ Ask(t) \/ Poll(t)
  \/ \E m \in flight : m.tab = t /\ (Handle(m) \/ Refuse(m) \/ Return(m))

Next ==
  \/ App \/ Clock \/ WorkerStops \/ Repeat
  \/ \E t \in Tabs :
       \/ Prepare(t) \/ Connect(t) \/ TimeOut(t) \/ Post(t) \/ Proceed(t)
       \/ Leave(t) \/ \E site \in Origins : Load(t, site)

\* Time passes, and the browser and the native host do what they were asked;
\* nobody has to click, approve or forget.
Fairness == WF_nativeVars(Clock) /\ \A t \in Tabs : WF_nativeVars(Proceed(t))

Spec == Init /\ [][Next]_nativeVars /\ Fairness

-----------------------------------------------------------------------------
(* Properties *)

\* Every login the website counts answers a challenge of its own that the
\* user approved for it, with the key that signed, and a challenge logs in
\* once, however often and late a proof arrives (verify in native_site.py).
OneLoginPerApproval ==
  /\ \A i \in 1 .. Len(logins) : logins[i] \in approvals
  /\ \A i, j \in 1 .. Len(logins) : logins[i].nonce = logins[j].nonce => i = j

\* A page is only handed the proof of the challenge it holds, even when its
\* content script is still busy with a request the SDK gave up
\* (connectNativeORF, content.js).
PageHearsItsOwnAnswer ==
  \A t \in Tabs : tabs[t].proof # None =>
    /\ tabs[t].proof.audience = tabs[t].origin
    /\ tabs[t].proof.nonce = tabs[t].nonce

\* A tab is not busy for ever, whatever the user does and whenever the worker is
\* stopped, as long as the host answers what it was asked: its content script
\* takes another request, and the worker serves it again (the listener in
\* content.js, handleNativeRequest in background.js).
Busy(t) == tabs[t].script.state # "idle" \/ t \in active

TabsAreFreeAgain == \A t \in Tabs : Busy(t) ~> ~Busy(t)
=============================================================================
