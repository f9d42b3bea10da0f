# A TLA+ model of open-recommender

This directory holds TLA+ modules that model the program in this repository, the
TLC configurations that check them, and proofs the TLA+ proof system (TLAPS)
checks. `PROJECT.json` lists the components, runs, mutants, findings, hazards and
theorems, and for every definition the source lines it stands for.

## The system

open-recommender (ORF) keeps a person's preferences in a profile they own, and
lets websites ask for parts of it. A profile is a log of Ed25519-signed events;
a local SQLite service stores profiles and mediates access; a command line edits
and synchronises profiles; a macOS app with browser extensions offers a login
that shares no preferences.

| Component | Source | State it keeps | Operations |
|---|---|---|---|
| Consent store and service | `store.py`, `service.py` | tables `access_requests`, `grants`, `challenges`, `grant_sessions`, `ranking_feedback_events` | create and poll requests, approve, deny, revoke, delete, exchange a grant for a session, read a projection, rank, send feedback |
| Signed history | `models.py`, `store.py` | `events`, `profiles.document_json` | sign, verify, merge, replay |
| Command line, device sync | `cli.py`, `crypto.py` | profile and key files | create, edit, push, pull, back up, restore |
| Rate limiter | `service.py` | buckets, next cleanup | check |
| Body limit | `service.py` | one counter per request | receive |
| Projections, scopes | `models.py` | none | normalise scopes, project a profile |
| Ranking, feed | `recommender/` | none (reads feedback) | score, order, diversify |
| Native gateway | `Gateway.swift`, `ORFGatewayApp.swift` | request files under a lock, Keychain identities | begin, status, approve, deny, forget |
| Extension bridge | `content.js`, `background.js` | a pending flag, active tabs | request, poll, answer |
| Site verifier | `native_gateway.py`, `native_site.py` | a challenge per browser session | challenge, verify |
| SDKs, pages, migrations, media | the rest | | thin clients, HTML, start-up |

How they interact. Websites call the service over HTTP, through the SDKs, with a
partner credential. The owner's tools (web page or CLI) sign one-time challenges
that the service issues; every owner decision carries one. The CLI pushes signed
events and pulls them on other devices. The extension passes login requests to
the gateway through a native host and polls for the answer; the app approves in
another process and the two share a directory of files under `flock`.

What is hard in it:

* The service's handlers are plain functions, so FastAPI runs them on a pool of
  threads. Each `with self._connect()` is a transaction of its own, and most
  handlers string several together; only owner actions, challenge verification,
  feedback and the event log use `BEGIN IMMEDIATE`. What a handler read may be
  stale when it writes.
* Expiry is lazy: deadlines are compared at each read, and a read that finds a
  lapsed request writes it back.
* A stored grant is reused for later requests by copying it.
* Deletion takes away rows that handlers in flight still hold, and leaves no
  tombstone.
* Devices edit apart and merge by replaying one signed log; clocks collide.
* CLI commands and the gateway app write files and Keychain items in several
  steps that can stop in between.

### What makes each part correct

* **Consent**: nothing is given that the owner did not sign for that site and
  purpose; decisions, revocation and deletion hold against whatever is in
  flight; a proof works once, for what it says; budgets hold.
* **History**: every order of delivery replays to the same profile; withdrawal
  beats a concurrent grant; a rejected batch leaves nothing.
* **Device sync**: what a device has acknowledged is not lost; two devices that
  exchange all events agree.
* **Rate limiter**: never more than the limit in a window; whoever waits gets in.
* **Gateway and bridge**: one answer per request, to the origin that asked, only
  while it is live and approved; the page gets an answer in the end.
* **Ranking, projections**: order is deterministic; nothing outside the approved
  scopes is visible.

## The modules

| Module | What it is |
|---|---|
| `ConsentStore` | the consent tables, and one operator per SQLite transaction |
| `ConsentService` | the handlers, as threads that run those transactions one by one; properties |
| `Consent` | what the service promises an owner, with no request, challenge, session or thread |
| `ConsentRefinement` | the mapping by which `ConsentService` implements `Consent` |
| `ProfileHistory` | signed events, the tie rule of every operation, the order of a replay |
| `DeviceSync` | devices, their commands, the hosted copy: push, pull, edit; on `ProfileHistory` |
| `ReplayLoop` | the loop of a replay, one event a step, against what a history means |
| `Projection` | scopes and the two projections of a profile |
| `Ranking` | the score and the order of a site's candidates |
| `Relevance` | `ReplayLoop` composed with a session that reads, ranks and sends feedback |
| `RateLimiter` | the fixed-window limiter |
| `Mailbox` | the gateway's request files, the app and its Keychain |
| `NativeLogin` | `Mailbox` composed with pages, content scripts, the worker and the website |
| `PrivateFiles` | key, profile and backup files: staging, publishing, being killed |
| `MCConsent`, `MCSync`, `MCRelevance`, `MCLimiter`, `MCFiles` | small instances for TLC |
| `ConsentServiceProofs`, `ConsentRefinementProofs`, `ProfileHistoryProofs`, `RelevanceProofs`, `DeviceSyncProofs`, `RateLimiterProofs`, `NativeLoginProofs`, `PrivateFilesProofs` | TLAPS proofs |

An operator introduced by a comment *Mutant of ...* is not part of a model: it is a
definition with a plausible bug, and `PROJECT.json` says which property notices it.

### ConsentStore

One variable per table, keyed by identifier. `request[r]` is the status in
`request_json` (all readers use that one, not the `status` column). What a request
asks for (`Ask[r]`: profile, site, purpose, scopes, deadline) never changes, so it is
a constant. `grants.request_id` is UNIQUE, so `grant` is a function of the request;
`by` says whether the owner's action or a reuse inserted it, which with the request
makes the grant's id. A grant's row is `revoked` or not, and its JSON `expires` is what
every reader compares. A challenge row keeps what the owner's signature over it says:
the action, its target and its parameters (`Binding`); the code keeps a digest of
those in `challenge_type` and the row's columns. Signatures are not modelled as
computations: a proof can be offered for any challenge that exists, and it is
accepted if the row is what the action requires, since only the owner can sign and
the signature covers the row.

`now` is the clock. `decided` is auxiliary: the owner's decisions that the store
carried out, each with its time. Nothing reads it but the properties, and it
survives deletion.

Two sentinels stand for the absent: `None` (SQL NULL, a row never inserted) and
`Gone` (a row deleted, whose identifier is not issued again).

### ConsentService

`job[w]` is what thread `w` holds between two transactions: the step that comes
next (`at`) and the values read so far. Reads and writes of one transaction are one
action; a read whose result the handler acts on later is an action of its own.

| Handler | Steps |
|---|---|
| `create_access_request` | `CreateRequest`, `InsertRequest`, `FindGrant`, `RereadRequest`, `ApproveReuse`, `TagReusedGrant` |
| `get_access_request` on a lapsed row | `PollRequest`, `ExpireRequest` |
| `create_owner_action_challenge`, `create_challenge` | `OwnerChallenge` or `ProfileChallenge`, `CheckProfile`, `InsertChallenge` |
| `begin_grant_exchange` | `BeginExchange`, `BeginRead`, `BeginGrant`, then as above |
| `exchange_grant_session` | `Exchange`, `ExchangeRead`, `ExchangeGrant`, `ExchangeVerify`, `InsertSession` |
| projection, rank, feedback | `ReadProjection`, `RecheckSession` or `Rank`, `ReadProfile`; `SendFeedback`, `IngestFeedback` |
| `perform_owner_action` | one action: `OwnerApproves`, `OwnerDenies`, `OwnerRevokes`, `OwnerReads`, `OwnerDeletes` |

`Fail(w)` ends a handler between any two of its transactions: it raises, the
database is locked, or the process dies. What it committed stays. A transaction
that fails is one that does not happen, because SQLite rolls it back; that is
why an owner action's guard is the conjunction of all its checks. `get_access_request`
reads, then writes `expired`, in two steps, because Python's `sqlite3` opens the
transaction at the UPDATE; it reads the clock between the two, so that a deadline may pass after
the read (`MayLapse`) and the write finds the request approved or denied in time. A call that lapses a row ends there in the model: going
on is the same as calling again.

Abstractions: timestamps are small integers; the audit log, listing and inspection
routes, site administration, item counts and byte budgets are left out; the
allowed scopes and the status of a site do not change; a signature is an oracle.
`issued` timestamps have the clock's grain, so `FindGrant` takes any of the newest
grants where the code breaks ties by random id.

### Consent and ConsentRefinement

`Consent` has four variables: the clock, the agreements owners ever signed, the
right each request has led to, and who is using a right. A right comes from an
agreement, or is inherited from an earlier agreement about the same profile, site
and purpose; it is withdrawn, or forgotten with its profile; use begins only under
a right that is held and has not run out, and may end later.

`ConsentRefinement` reads these off the detailed state: agreements are the signed
approvals in `decided`, rights are the grants that are not revoked, and a thread
uses a right from its last look at the session row on (`get_grant_session`, in
`RecheckSession`, `Rank` or `SendFeedback`) until its handler ends.
`KeepsThePromise` is `Consent`'s specification under that mapping. The reuse chain of
`create_access_request`, with its lost revocations, refines `Inherit`: that is exactly
how much the three documented statements below, which fail, leave standing. `Expiries`
is the range of the deadlines that the bounds of a run can produce.

### ProfileHistory

A history is a set of events; a document is the record `apply_event` keeps. `ApplyEvent`
stamps clock and date (`updatedAt`, the latest of all dates) and dispatches to one operator per operation, each with its own
tie rule at equal clocks: a preference is replaced (`>=`), a removal needs a later clock
(`>`), consent can only be withdrawn, a topic can only be opted out of. `Rebuild` is
`rebuild_from_verified_history`: the one clock-0 registration, which also dates the
document's `createdAt`, then a fold over the events in the order of (clock, timestamp, id). Signatures are ideal, since every event is verified
before it is used. Timestamps and ids are numbers standing for strings in their order.

### DeviceSync

`file[d]` is the profile file of a device, `hosted` the service's log and document, and
`command[c]` what a running command has loaded. Each command is a process: it loads
the whole file, calls the service, saves the whole file.

| Command | Steps |
|---|---|
| `topic-set`, `topic-remove`, `consent-set`, `opt-out`, `seed` | `LoadEdit`, then `SaveEdit` or `SaveSeed` |
| `sync-push` | `LoadPush`, `SaveRegistration` for older profiles, `PostProfile`, `PostEvents` |
| `sync-pull` | `LoadPull`, `ReadEvents`, `SavePull` |
| another signing client | `PostBatch` |
| the owner's deletion | `DeleteHosted` |

`SaveSeed` signs several events, each at a date of its own in the past, and then moves the file's
`createdAt` back to the first of them (`seed_profile`); no event says so. `SaveRegistration`
signs whatever name and creation date the loaded profile has by then. A file starts as
`create` leaves it (`NewFile`): with `--seed` it is dated back before it is registered,
so its last update may be later than any date in its log.

`Fail` ends a command between any two steps, with the store's transaction done or not:
that is a crash, a failed call and a lost reply. `Refused` is the service's or the
command's own error. `seen` remembers on top of which log an event was signed, for
`WithdrawalStands` alone. The service's half of the budget in bytes is left out; the one
in events is `MaxProfileEvents`.

### ReplayLoop, Projection, Ranking, Relevance

`ReplayLoop` takes any verified history and applies one event per step, as the loop in
`models.py` does. What a history *means* is defined beside it without any order: for each
setting, the events of its newest clock. Every prefix of a history is a history, so the
documents between are documents of some profile.

`Projection` has `parse_scope`, the two normalisations, `public_projection` and
`consented_projection`, with the `updated_at` that both return whatever the scopes. `Ranking` has the affinity, the feedback signals, the weights and
the sort key of `GrantSessionRanker`, in whole parts of a thousand instead of floats. Two
functions are replaced: a candidate carries the result of its age's decay, and `tanh`
is `Squash`, which is odd, rising and bounded like it. No property here depends on more.
`Relevance` lets one grant's session look at the document at every step of the replay and
keeps its `ranking_feedback_events` (insert-or-ignore by event id, row after row, all or nothing: of two
events with one id in a batch the first is stored).

### RateLimiter

`check` runs under a lock, so it is one step with three outcomes (`Admit`, `RefuseNew`,
`RefuseMore`), each after the cleanup that is due once a window. `admitted` and
`refused` are history for the properties. The clock counts ticks, `Second` of them to a
second, because `Retry-After` is cut to whole seconds.

### Mailbox and NativeLogin

`Mailbox` is `RequestMailbox` in `Gateway.swift`: every method holds a process-shared file
lock, so it is one step. The app in `ORFGatewayApp.swift` is another process whose approve
and forget each touch the Keychain and the mailbox, in two steps (`LoadKey`, `Approve`;
`Revoke`, `ForgetKey`); `GiveUp` is a failure or a crash between them. A proof names the
key that signed it. `RevokeSome` is a revocation that stops half way, since `revoke` saves one record after
the other. One simplification: `Fresh` keeps an id from being drawn again while the app still shows it or works on it,
where `begin` knows only the files it has kept.

`NativeLogin` composes it with everything on the way from a click to a website's session:

| Part | Code | Actions |
|---|---|---|
| page and SDK | `native_site.py`, `orf-web-sdk` | `Load`, `Prepare`, `Connect`, `TimeOut`, `Post`, `Leave` |
| content script | `content.js` | `Ask`, `Poll`, and what `Hear` does with an answer |
| background worker, native host | `background.js`, `ChromeHost` | `Handle`, `Refuse`, `Return`, `WorkerStops` |
| app and mailbox | `ORFGatewayApp.swift`, `Gateway.swift` | `App` |
| website | `native_gateway.py`, `native_site.py` | `Verify` in `Post` and in `Repeat`, a proof delivered again |

The worker's validation of a message and the host's handling of it are one step. A proof that is posted
arrives at once, late, more than once or never (`Post`, `Repeat`). A tab may navigate, the worker or the app may stop
and the clock may tick between any two steps.

### PrivateFiles

`create`, `backup-create` and `backup-restore`, each with its checks and then its writes.
`write_private_file` is three steps: `Stage`, `Flush`, `Publish`, where publishing is a
rename that replaces (`--overwrite`) or a hard link that refuses. `Kill` stops a command
anywhere, and other programs create files and links meanwhile. A path stands for the file it
resolves to; power failures, passphrases and file modes are left out.

## What is checked

Twelve runs: eight pass; four check one documented statement each and find it violated (Findings).

| Run | Bounds | Checks |
|---|---|---|
| `reuse` | 2 requests (one lapses at 1), 2 scopes, 2 challenges, 2 threads, clock 0..1 | `GrantCovered`, `ReuseCovered`, `DecisionStands` |
| `session` | 1 request, 3 challenges, 2 sessions, 2 feedback events with a budget of 1, 2 threads, clock 0..2 | `TypeOK`, `ProofMintsOneSession`, `NoAccessAcrossDeletion`, `FeedbackWithinBudget`, `RevocationBlocksUse`, `KeepsThePromise` |
| `access` | 3 requests for 2 purposes, 2 scopes, 2 challenges, 1 session, owner-chosen and default expiry, 1 thread, clock 0..1 | `UseWithinConsent`, `ApprovalSpendsItsProof`, `KeepsThePromise` |
| `lost_revocation`, `lost_denial`, `reuse_chain` | as `reuse`, with 3 requests for the last | one documented statement each, violated |
| `sync` | 2 devices with one command each, an edit or a seed of 2 events, 2 signatures and a registration, files registered or not yet, batches of another client at the same clocks, 1 mishap, a budget of 3 events | `TypeOK`, `HostedIsReplay`, `FileIsReplay`, `WithdrawalStands`, `NeverRolledBack`, `Converges` |
| `lost_edit` | 2 commands on one device's file | `PullKeepsLocalEdits`, violated |
| `relevance` | every history of a registration and three of eight changes, two of them at one clock; 2 topics, 2 scope sets, 3 candidates, 3 batches of feedback with a budget of 2 | `ConsentIsNewest`, `OptOutIsNewest`, `TopicIsNewest`, `HiddenEditsShowOnlyTheirDate`, `RankIgnoresRequestOrder`, `RetriesChangeNoRanking` |
| `limiter` | 3 clients, room for 2, 1 request a window, windows of 2 s in half seconds, two windows and a half | `LimiterTypeOK`, `TableBounded`, `NeverTwiceTheLimit`, `FullMeansRecent`, `WaitIsLongEnough` |
| `native` | 1 website, 1 tab, 2 page loads, 2 clicks, mailbox of 2, clock 0..3, 1 fault | `MailboxTypeOK`, `ProofsAreOfTheKey`, `OneRequestAtATime`, `OneLoginPerApproval`, `PageHearsItsOwnAnswer`, `DecisionsStand`, `TabsAreFreeAgain` |
| `files` | 4 paths, 2 commands at once, 2 identities, 1 file or link of another program | `FilesTypeOK`, `ProfileHasItsKey`, `NothingIsClobbered`, `InputBackupIntact` |

Consent:

* `GrantCovered`: every unrevoked grant gives no more scopes, and lasts no longer,
  than an approval the owner signed for the same profile, site and purpose.
* `ReuseCovered`: the same of what a reuse holds between its transactions.
* `ApprovalSpendsItsProof`: an owner-approved grant appears in the very step in which one
  challenge is spent, issued to the profile asked and not too old, whose signature names this
  request, the grant's scopes and its expiry (or the default one, counted from then); no other
  step spends such a challenge, and none spends two. The run is `access`, where approvals
  are for an hour of the owner's choice or for the default.
* `DecisionStands`: a decided request changes again only by deletion, by lapsing after
  its deadline, or by a reuse under way, and then within `GrantCovered`.
* `ProofMintsOneSession`: a replayed exchange proof gives no second session.
* `NoAccessAcrossDeletion`: a session that would be accepted is of a registered profile,
  though rows of in-flight exchanges (and of in-flight reuses) may appear after a
  deletion: no grant that existed at the exchange comes back.
* `FeedbackWithinBudget`: two sessions of one grant cannot exceed its budget together.
* `RevocationBlocksUse`: no session of a grant the owner approved and then revoked is
  admitted again. It is about admission, the last time the session row is loaded:
  `docs/architecture.md` says an operation already in flight is not recalled.
* `UseWithinConsent`: a session is only admitted for scopes, purpose and time that an
  approval of the owner gives.
* `KeepsThePromise`: the handlers implement `Consent`. It is checked where the sessions
  interleave (`session`) and where grants are reused (`access`).

History and devices:

* `HostedIsReplay`: the hosted document is at all times the replay of exactly the stored
  events, within the budget, with one registration; a batch refused half way leaves nothing.
* `FileIsReplay`: a file that commands have changed one event at a time shows the same settings, name
  and clocks as that replay. Its dates may differ: after a seed it is created no later, and updated
  no earlier, than the replay says, and until their next merge two copies with one log can
  show different dates.
* `WithdrawalStands`: a withdrawal that a copy has received is undone there only by the
  opposite at a later clock, signed without knowing it or after it; a tie never undoes it.
* `NeverRolledBack`: no upload takes an event out of the hosted log.
* `Converges`: when the owner stops editing, every device ends with the hosted profile,
  whatever was lost, retried or deleted. It is conditional on `Healthy`: one registration
  everywhere, and room in the budget. Two devices that each sign a registration are refused
  for good, as the code does; they never meet, and the property does not claim it.
* `ConsentIsNewest`, `OptOutIsNewest`, `TopicIsNewest`: a replay says what its history means.

What a site learns:

* `HiddenEditsShowOnlyTheirDate`: an edit of a topic that the session may not see, before or after it,
  changes one field of all the session reads: `updated_at`, which every event moves on and every
  projection shows. So a site can tell that something was edited and when, but nothing else: no
  other field, no place and no score of a ranking. The danger is the normalisation: an
  affinity divided by all weights would leak through the scores.
* `RankIgnoresRequestOrder`, `RetriesChangeNoRanking`: order of candidates and
  retried feedback leave a ranking alone.

Limiter: `TableBounded`, and `NeverTwiceTheLimit` across window ends, cleanups and dropped
buckets; twice is tight, as two full windows may lie back to back. `FullMeansRecent`: a full
table is full of clients of the last two windows. `WaitIsLongEnough`: whoever waits one
second more than `Retry-After` says is out of the window that refused them; without the
extra second they need not be, since the header is cut to whole seconds.

Gateway and bridge:

* `ProofsAreOfTheKey`: no proof of a forgotten key waits in the mailbox, wherever forgetting
  stops.
* `DecisionsStand`: a decision is taken back only by forgetting the website, also when the
  app's window shows something decided since.
* `OneRequestAtATime`: one request of a website before the user, and a bounded mailbox.
* `OneLoginPerApproval`: a login the website counts answers a challenge of its own that the
  user approved, once, however late and often a proof arrives.
* `PageHearsItsOwnAnswer`: a page that gave up and asked again is not handed the old answer.
* `TabsAreFreeAgain`: a tab's content script and the worker's list are free again in the end, as long as
  the native host answers or the worker is stopped.

Files: `ProfileHasItsKey` at every crash point (the key is written first), unless
`--overwrite` replaced it; `NothingIsClobbered` by a file that appears between check and
publication; `InputBackupIntact`.

### The bounds

An approval and one decision against it, or an approval and an exchange,
need two challenges; an approval, an exchange and a revocation or deletion, or two
exchanges, need three. Two threads give every pair of handlers that overlap; owner
actions are single transactions and need no thread. `access` has one thread: its question
is how far a session's grant reaches, over three requests and two purposes, and the
owner's actions and the clock overtake that thread between any two of its steps. Deadlines are 1
or 2 ticks, so that the clock crosses each of them while handlers are under way. `Serves` and `Signed` bound
which handlers a thread picks up and which owner challenges are asked for, so that
each run spends its states on one question; between them the runs take every action.
Challenges, sessions and events are symmetric: the code compares their identifiers only
for equality, and so do the invariants and action properties. `KeepsThePromise` is a safety
property and its mapping is symmetric too.

In `sync`, two signatures give a withdrawal on each device or a seed of two events, dated before the
profile's creation, and a registration comes on top of them, before or after the seed; the other
client's event falls on the clock of one of them, and a third event exhausts the budget. One
mishap is a lost reply, a crash or a deletion anywhere. `relevance` has three changes, the
least with a tie and something before or after it, and a batch of feedback that repeats an id. `limiter` runs for long enough to drop a bucket, make it
again and fill it. `native` has two clicks, so that the second meets what the first left behind
(a busy script, an expired file, a spent challenge), and one fault, a navigation, a stopped
worker or app or a proof that comes late or again, at any point; with one website a cross-origin delivery cannot
happen in it, beyond the tab leaving to a website without a login. `files` has
the four paths of a restore: backup, profile, key and one more.

### Fairness

Liveness is checked in two runs.

* `DeviceSync!FairSpec`: a command that was started goes on (weak fairness of `Proceed`), and
  each device pushes and pulls again and again (strong fairness of `LoadPush` and `LoadPull`,
  since the command is often busy with another). The program has no background sync, so this is
  an assumption about the owner, who runs the two commands again and again; nothing makes them edit. Failures are finitely
  many by `MaxMishaps`.
* `NativeLogin!Spec`: time passes (`Clock`), and a tab's content script, the worker and the host do what they were
  asked (`Proceed(t)`): timers, message delivery and a process that is running. Nobody has to
  click, approve, deny or forget, and a stopped worker makes its calls fail, as the browsers do.

The consent, limiter, replay and file models are about safety and assume no fairness. Deadlock
is not checked where the bounded clock, the finite supply of identifiers or the end of a
replay do end a behaviour; `sync` checks it.

### Findings

* `lost_revocation`. `create_access_request` ends with a transaction that writes
  `grant_json` as `approve_access_request` returned it. A revocation of that grant
  between the two is erased: the revoked grant is live again, and can be exchanged.
* `lost_denial`. `approve_access_request`, when it serves a reuse, checks the status in one
  transaction and writes in the next. A denial in between becomes an approval.
* `reuse_chain`. Needs no concurrency: a reuse makes a second grant, revocation revokes one,
  and the next request is approved from the other, although
  `docs/pilot-integration.md` promises that access needs fresh approval.
* `lost_edit`. `sync-pull` loads the file, waits for the service and writes the whole file
  from what it loaded. A command that saved an edit meanwhile has lost it, although
  `docs/architecture.md:75-77` says that unsent changes are retained. They are, if they were
  in the file when the pull began.

`GrantCovered`, `UseWithinConsent` and `KeepsThePromise` say how far the first three go: even then, nothing
exceeds what was once signed.

## What is proved

For every value of the constants, from the named assumptions of the modules:

| Module | Theorems |
|---|---|
| `ConsentServiceProofs` | types and coverage: `TypeCorrect`, `GrantsAreCovered`, `ReusesAreCovered`; sessions: `DeletionEndsAccess`, `RevocationEndsUse`, `UseIsConsented`, `OneSessionPerProof`, `BudgetHolds`; decisions: `ApprovalsAreSpent`, `DecisionsAreKept` |
| `ConsentRefinementProofs` | `ServiceKeepsThePromise`: the service implements `Consent` |
| `ProfileHistoryProofs` | no theorem of its own: what `Rebuild` and `ApplyEvent` give, for the next two |
| `RelevanceProofs` | `ReplayedConsent`, `ReplayedOptOuts`, `ReplayedTopics`; `RelevanceReplays`: they hold with sites reading and ranking; `HiddenFromSites`, `OrderLeavesRankings`, `RetriesLeaveRankings` |
| `DeviceSyncProofs` | `SyncTyped`, `HostedStaysReplay`, `FilesAreReplays`, `WithdrawalsStand`, `NothingRolledBack` |
| `RateLimiterProofs` | `LimiterTyped`, `LimiterTableBounded`, `LimiterRateBounded`, `LimiterFullOfRecent`, `LimiterWaitEnds` |
| `NativeLoginProofs` | the mailbox: `MailboxTyped`, `NoProofOutlivesItsKey`, `NoDecisionUndone`, `MailboxBounded`; the login: `LoginsUseTheMailbox` and with it `MailboxHoldsInLogins`, `LoginsAreApproved`, `AnswersReachTheirPage` |
| `PrivateFilesProofs` | `FilesTyped`, `KeyBesideProfile`, `OnlyOverwriteReplaces`, `BackupOutlivesRestore` |

So every invariant and every action property of the passing runs is a theorem, and so is the
refinement; only the two liveness properties are not.

**Assumptions.** Types of the constants (`AskAssumption`, `AllowedAssumption`, `TTLAssumption`, and the like);
`None` is no number; `SentinelAssumption`, `None` and `Gone` differ from each other and from every row
and id, as NULL differs from every value; `EventAssumption`, there are finitely many feedback
events, without which a cardinality says nothing; `RightAssumption`, no right is `None`.
`ReplayConstants` says the histories are verified: their events passed `validate` (`EventOK`).
`MailboxConstants`, `NativeConstants` and `LimiterConstants` say that lifetimes, windows and sizes are numbers,
`NoneIsNoProof` that no proof is `None`. In `Mailbox` an id that is in use is not drawn again (`Fresh`): ids
are random UUIDs. For the same reason `SyncConstants` gives the events of other clients ids below
`FirstId`, where those of the command line begin; it also says that all events passed `validate` and that the logs the copies start
from are empty or have one registration, dated no later than the profile's creation, and no conflict
inside, as a created profile has.
`RelevanceConstants` says that candidates and feedback are as `from_dict` lets them through
(`CandidateOK`, `ReactionOK`: scores in range, known event types), with each candidate once in a request, batches are finite sequences, and an
approved scope is a kind and a topic, as `parse_scope` makes it.

**Coverage.** `GrantCovered` alone is not inductive. `FindGrant` copies an expiry from a grant it reads;
two transactions later `ApproveReuse` makes a grant of it, when the original may have been
revoked or deleted, and `TagReusedGrant` writes a whole row back from memory. The
invariant is therefore `CoverInv`: `TypeOK`, `GrantCovered`, and `ReuseCovered` for what
threads hold. Decisions are never taken back (`DecisionsStay`), so what is covered stays so
(`CoveredStays`); `ReusableCovers` is the one place where coverage passes from one request to
another; the actions that neither insert a grant nor move a reuse on are dealt with
together in `QuietStep`.

**Sessions.** A session names a grant by its id, and so does a thread that is about to insert one; the
proof has to exclude that another grant comes in that grant's place. `ChainInv` says what
creating threads hold: no two create one request, and what a thread writes back is a reuse that
is not revoked. `NameInv` says that a named grant is closed: an owner's, when its request is
decided or gone, so that no owner approves it again; a reuse's, when no creating thread of its request
is left that could insert another. Then a named grant that the owner revoked stays
revoked (`RevocationEndsUse`), one of a deleted profile stays gone (`DeletionEndsAccess`), and
a session's scopes and deadline stay within the grant they were copied from
(`UseIsConsented`, with `CoverInv`). The lost revocation of a *reused* grant is why `RevokedStays` is about grants the
owner approved. `ProofInv` says that a thread past the verification of an exchange holds a
proof that is used and that no session and no other thread has.

**Decisions.** These need no new invariant: each action property is shown
for the one action that could break it, the others do not touch what it reads.

**Refinement.** `ExpiryInv` adds that deadlines are among `Expiries`. Each action is then shown to
be a step of `Consent` under the mapping, or to leave the mapped variables alone: the owner's actions
are `Agree`, `Withdraw` and `Forget`; `ApproveReuse` and a `TagReusedGrant` that brings back a
revoked grant are `Inherit`; the last look at a session is `Begin`, and the end of a handler `End`.

**Replay.** Each setting is a register with a clock. The invariant says that the clock is that of the newest event
applied to it and the value what the events of that clock mean (`Says`). For consent and opt-outs
that needs nothing of the order of the loop, so these would hold of any order of delivery; the
preference itself needs that every applied event sorts before every pending one.

`Rebuild` is a fold over a set, and what a fold gives is shown by induction over the subsets of the history:
`SubsetInduction` follows from the library's well-founded order of strict subsets, with a set in the
place of the induction's predicate. A replay then has three facts: its document says what its log means; appending an event
that sorts last is applying it (`Rebuild` of the longer log); and a registration signed
after all the rest, as `sync-push` does for old profiles, gives the same document as one
signed first, since at clock 0 it changes nothing that a later event set. For files whose dates are not
their log's, `Later` compares two documents of equal settings, one updated no earlier than the other:
an event applied to both keeps them so (`LaterReplay`).

**Device sync.** `FileIsReplay` and `HostedIsReplay` are not inductive: a command carries a log and a document from its
file to the service and back. `SyncInv` says the same of what every copy and every command holds. Each log is `Known`:
its ids were handed out, each to one event, and what the command line signed is ahead of the log it was
signed on. Each document is `Genuine`: with the settings of the replay of its log, its last update no earlier and its
creation no later, before and after its registration. Merging keeps `Known`,
since two events with one id are one event; signing keeps `Genuine`, since `next_clock` makes the new event sort last.
`WithdrawalStands` then is a fact about logs alone: where a permission outranks a withdrawal, an event at a
later clock gives it, and one that the withdrawal was signed on top of has an earlier clock.

**What a site learns.** A hidden topic is in no `SeenTopics`, whatever the scopes normalise to; projection and weights are
functions of these and of the date, and an event on such a topic changes no other. For rankings,
scores are integers (sums over finite sets, as folds of integers), an insertion keeps a
sorted sequence sorted, and two sequences sorted by a key that ends in the candidate's id and with
the same entries are equal; so a ranking depends on the set of candidates alone.

**Limiter.** The invariant places the admitted requests of a pair in windows: the last ones, as many as the bucket counts,
in the bucket's window, the others in windows that ended before it; if the bucket was
dropped, all of them in windows that are over. Two requests `max_requests` apart are then in
different windows, and two requests twice that apart have a window between them. For `FullMeansRecent`
it adds that a cleanup is never more than a window away and left no bucket that had ended before the last (`CleanupInv`), so that each of the
buckets of a full table counts a request of the last two windows; for `WaitIsLongEnough`, that the
header falls short of the window's end by less than a second.

**Mailbox.** The invariant ties the app's action in progress to the Keychain and the mailbox: the
key loaded for an approval is still the website's (`KeyLoaded`), a website being forgotten has no
proof left (`NothingLeft`), and an id names one request of one website (`OneRecordPerId`,
`ShownIsOfItsWebsite`). `MailboxSpec` lets any caller submit anything, and `LoginsUseTheMailbox` shows that pages,
scripts, worker and host together are such callers, for which one has to know that they draw new ids only.

**Login.** Two invariants on top of the mailbox's. `SiteInv`: a challenge waits in one session at most, and in none once a
login answered it; that makes a repeated proof harmless. `PageInv` follows a request's id through the page, the content script, the
messages, the mailbox and the app's window: whatever goes by the id of a page's request is about the
challenge the page holds (`SameChallenge`), a request is begun once (`BeginsOnce`), a script waits for the one message it
sent (`Answerable`), and a proof anywhere on its way is one the user approved (`AnswersSigned`,
`RecordsSigned`, `PostsGood`). A page that gave up and clicked again has a new id, so a late answer to
the old one finds nobody who holds it.

**Files.** What makes `ProfileHasItsKey` inductive is `KeyComesFirst`: a command whose next write is a profile
has published that profile's key already, and only `--overwrite` takes a file away, which `replaced` records. `InputBackupIntact` needs
that a restore's writes go elsewhere (`WritesElsewhere`), which its checks ensure before the first of them.

### Only model-checked

`Converges` and `TabsAreFreeAgain`, because liveness under fairness is beyond TLAPS.

## Not modelled

* The HTTP layer: routing, JSON, CSRF tokens, the request body limit (one counter
  per request, which meets nothing else), and which routes the rate limiter guards: a refused call
  changes nothing but the limiter.
* Partner credentials and site administration: run by the operator; here the allowed scopes are a
  constant. Schema migrations: run once, before the first request.
* Audit events, listings and inspection: written and read beside the state, never read by a decision.
* Byte budgets beside the budgets in events, and the counts of list items.
* `feed.py`: aggregates RSS, with no consent and no state.
* Cryptography: signatures, key derivation and canonical JSON are ideal; a proof is what it was signed for.
* HTTP clients of the SDKs, HTML pages, sample apps, media, seed catalogue and evaluation
  scripts: presentation and sample data.
* In the mailbox, the syntax of origins and messages and a file too large or torn; in the browsers,
  everything beyond the messages and tabs that the extension uses.

What would extend the project: two websites in `NativeLogin`; two devices that register apart, with
the refusal as a property; a refinement of `NativeLogin` to a login in one step.
