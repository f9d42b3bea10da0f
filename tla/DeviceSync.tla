----------------------------- MODULE DeviceSync -----------------------------
(***************************************************************************)
(* The profile file of each of the owner's devices, the commands of the    *)
(* command line that read it, change it and write it back (cli.py), and    *)
(* the hosted copy they push to and pull from (store.py: save_profile,     *)
(* append_events, list_events).  The devices hold copies of one profile    *)
(* and its key, as backup-restore makes them.                              *)
(*                                                                         *)
(* A command is a process of its own: it loads the file, calls the service *)
(* and saves the whole file, and anything may happen between two of these  *)
(* steps.  A call to the service is one transaction of the store; it may   *)
(* fail before it, or after it when only the reply is lost.  The proof     *)
(* that events/read asks for is the owner challenge of ConsentStore.       *)
(***************************************************************************)
EXTENDS ProfileHistory, Sequences

CONSTANTS Devices,
          Commands,          \* processes that run one command at a time
          DeviceOf,          \* the device whose file a command is given
          Changes,           \* what an edit may say
          Seeds,             \* sequences of dated changes that seed signs
          Times,             \* timestamps of edits
          Created,           \* when the profile was created
          OwnName,           \* its display name
          NewHistories,      \* the logs the copies may start from
          Batches,           \* events another signing client may post
          NoProfile,         \* no hosted copy
          MaxProfileEvents,  \* the service's budget
          MaxSigned,         \* bound: events signed, a registration one more
          MaxMishaps,        \* bound: failures, lost replies, deletions
          FirstId            \* bound: ids of the command line start here

\* A change that is signed at a date of its own: the display name is set by
\* the registration alone.
DatedChange(change, time) == [do |-> change, time |-> time]

Signable(dated) ==
  EventOK(Sign(dated.do, 0, 0, dated.time)) /\ dated.do.op # "set_profile"

\* Events of the other clients, under ids of their own.
Foreign(log) ==
  IsFiniteSet(log) /\ \A e \in log : EventOK(e) /\ e.id < FirstId

ASSUME SyncConstants ==
  /\ DeviceOf \in [Commands -> Devices]
  /\ \A c \in Changes : \A t \in Times : Signable(DatedChange(c, t))
  /\ \A s \in Seeds :
       /\ Len(s) \in Nat \ {0} /\ DOMAIN s = 1..Len(s)
       /\ \A i \in DOMAIN s : Signable(s[i])
  /\ Times \subseteq Nat /\ Created \in Nat /\ OwnName \in Names
  /\ \A h \in NewHistories :
       /\ Foreign(h) /\ ~Conflict(h, {})
       /\ h # {} => Registered(h) /\ Registration(h).time <= Created
  /\ \A b \in Batches : Foreign(b)
  /\ MaxProfileEvents \in Nat \ {0} /\ MaxSigned \in Nat
  /\ MaxMishaps \in Nat /\ FirstId \in Nat

VARIABLES file,       \* device -> [log, doc], the profile file
          hosted,     \* [log, doc] or NoProfile
          command,    \* command -> [at, log, doc, got]
          mishaps,
          \* History of the model, not of the program:
          seen        \* event id -> the log it was signed on top of

vars == <<file, hosted, command, mishaps, seen>>

Idle == [at |-> "idle", log |-> {}, doc |-> NoProfile, got |-> {}]

\* A file as create leaves it.  With --seed its creation is dated back to the
\* first seeded event before it is registered, its last update is not.  An
\* empty log is a profile from before registration events.
NewFile(log) ==
  [log |-> log,
   doc |-> IF log = {} THEN NewDocument(OwnName, Created)
           ELSE [Rebuild(log) EXCEPT !.updatedAt = Larger(@, Created)]]

Init ==
  /\ \E log \in NewHistories :
       file = [d \in Devices |-> NewFile(log)]
  /\ hosted = NoProfile
  /\ command = [c \in Commands |-> Idle]
  /\ mishaps = 0
  /\ seen = [i \in {} |-> {}]

Smaller(a, b) == IF a <= b THEN a ELSE b

Signatures == Cardinality(DOMAIN seen)
NewId == FirstId + Signatures

\* _apply_signed_event, once for each event, on the profile a command has
\* loaded.
Signed(c, events) ==
  [log |-> command[c].log \cup events,
   doc |-> Replay(command[c].doc, events)]

Remember(c, events) ==
  seen' = [i \in DOMAIN seen \cup {e.id : e \in events} |->
             IF i \in DOMAIN seen THEN seen[i]
             ELSE LET e == CHOOSE e \in events : e.id = i
                  IN command[c].log \cup {f \in events : f.clock < e.clock}]

Goto(c, at) == command' = [command EXCEPT ![c].at = at]
Stop(c) == command' = [command EXCEPT ![c] = Idle]

Load(c, at) ==
  /\ command[c].at = "idle"
  /\ LET f == file[DeviceOf[c]] IN
     command' = [command EXCEPT
                  ![c] = [at |-> at, log |-> f.log, doc |-> f.doc, got |-> {}]]
  /\ UNCHANGED <<file, hosted, mishaps, seen>>

-----------------------------------------------------------------------------
(* The service *)

\* Mutant of Mergeable: the budget is looked at once, before the batch.
MergeableOnce(stored, events) ==
  /\ ~Conflict(stored, events)
  /\ Cardinality(stored) <= MaxProfileEvents
  /\ Registered(stored \cup events)

\* _merge_events: all of the events are merged, or the transaction fails.
Mergeable(stored, events) ==
  /\ ~Conflict(stored, events)
  /\ Cardinality(stored \cup events) <= MaxProfileEvents
  /\ Registered(stored \cup events)

Merged(stored, events) ==
  [log |-> stored \cup events, doc |-> Rebuild(stored \cup events)]

HostedLog == IF hosted = NoProfile THEN {} ELSE hosted.log

\* Mutant of SaveProfile: the uploaded document replaces the stored one.
SaveProfileFresh(log) ==
  /\ log # {}
  /\ Mergeable({}, log)
  /\ hosted' = Merged({}, log)

\* save_profile registers the profile or merges with what is stored.
SaveProfile(log) ==
  /\ log # {}
  /\ Mergeable(HostedLog, log)
  /\ hosted' = Merged(HostedLog, log)

\* append_events is for registered profiles only.
AppendEvents(log) ==
  /\ hosted # NoProfile
  /\ Mergeable(HostedLog, log)
  /\ hosted' = Merged(HostedLog, log)

-----------------------------------------------------------------------------
(* Edits: topic-set, topic-remove, consent-set, opt-out; and seed *)

LoadEdit(c) == Signatures < MaxSigned /\ Load(c, "edit")

\* One event for each change, at the next clocks of the loaded profile,
\* which is saved with the given date of creation.
SaveSigned(c, dated, created) ==
  /\ command[c].at = "edit"
  /\ Signatures + Len(dated) <= MaxSigned
  /\ LET clock == NextClock(command[c].doc)
         events == {Sign(dated[i].do, NewId + i - 1, clock + i - 1,
                         dated[i].time) : i \in DOMAIN dated}
     IN /\ file' = [file EXCEPT ![DeviceOf[c]] =
                      [Signed(c, events) EXCEPT !.doc.createdAt = created]]
        /\ Remember(c, events)
  /\ Stop(c)
  /\ UNCHANGED <<hosted, mishaps>>

SaveEdit(c) ==
  \E change \in Changes, t \in Times :
    SaveSigned(c, <<DatedChange(change, t)>>, command[c].doc.createdAt)

\* The events of seed lie in the past: the profile is as old as the first.
SaveSeed(c) ==
  \E dated \in Seeds :
    SaveSigned(c, dated, Smaller(command[c].doc.createdAt, dated[1].time))

-----------------------------------------------------------------------------
(* sync-push *)

LoadPush(c) ==
  Load(c, IF Registrations(file[DeviceOf[c]].log) = {} THEN "register"
                                                       ELSE "post")

\* An older profile is registered first, under the name and the date of the
\* loaded profile, and the file saved, in one command.
SaveRegistration(c) ==
  /\ command[c].at = "register"
  /\ Signatures <= MaxSigned
  /\ LET doc == command[c].doc
         r == Sign(Change("set_profile", doc.name, TRUE, 0, "public", doc.name),
                   NewId, 0, doc.createdAt)
         profile == Signed(c, {r})
     IN /\ file' = [file EXCEPT ![DeviceOf[c]] = profile]
        /\ command' = [command EXCEPT ![c] =
             [at |-> "post", log |-> profile.log, doc |-> profile.doc,
              got |-> {}]]
        /\ Remember(c, {r})
  /\ UNCHANGED <<hosted, mishaps>>

PostProfile(c) ==
  /\ command[c].at = "post"
  /\ SaveProfile(command[c].log)
  /\ Goto(c, "append")
  /\ UNCHANGED <<file, mishaps, seen>>

PostEvents(c) ==
  /\ command[c].at = "append"
  /\ AppendEvents(command[c].log)
  /\ Stop(c)
  /\ UNCHANGED <<file, mishaps, seen>>

-----------------------------------------------------------------------------
(* sync-pull *)

LoadPull(c) == Load(c, "read")

\* Mutant of ReadEvents: the device's clock serves as a cursor.
ReadEventsSince(c) ==
  /\ command[c].at = "read"
  /\ hosted # NoProfile
  /\ command' = [command EXCEPT
                  ![c].at = "save",
                  ![c].got = {e \in hosted.log :
                               e.clock > command[c].doc.lastClock}]
  /\ UNCHANGED <<file, hosted, mishaps, seen>>

\* list_events after clock 0: everything but the registration.
ReadEvents(c) ==
  /\ command[c].at = "read"
  /\ hosted # NoProfile
  /\ command' = [command EXCEPT
                  ![c].at = "save",
                  ![c].got = {e \in hosted.log : e.clock > 0}]
  /\ UNCHANGED <<file, hosted, mishaps, seen>>

\* Mutant of SavePull: the events are merged, the settings stay.
SavePullLogOnly(c) ==
  /\ command[c].at = "save"
  /\ LET known == command[c].log
         union == known \cup command[c].got
     IN /\ ~Conflict(known, command[c].got)
        /\ Registered(union)
        /\ file' = [file EXCEPT ![DeviceOf[c]] =
                      [log |-> union, doc |-> command[c].doc]]
  /\ Stop(c)
  /\ UNCHANGED <<hosted, mishaps, seen>>

\* The union is replayed and replaces the file, whatever the file is by now.
SavePull(c) ==
  /\ command[c].at = "save"
  /\ LET known == command[c].log
         union == known \cup command[c].got
     IN /\ ~Conflict(known, command[c].got)
        /\ Registered(union)
        /\ file' = [file EXCEPT ![DeviceOf[c]] =
                      [log |-> union, doc |-> Rebuild(union)]]
  /\ Stop(c)
  /\ UNCHANGED <<hosted, mishaps, seen>>

-----------------------------------------------------------------------------
(* Failures *)

\* The service answers with an error, or the command's own check fails: the
\* command ends with the file as it is.
Refused(c) ==
  /\ LET k == command[c] IN
     \/ k.at = "edit" /\ Signatures >= MaxSigned
     \/ k.at = "register" /\ Signatures > MaxSigned
     \/ k.at = "post" /\ ~Mergeable(HostedLog, k.log)
     \/ k.at = "append" /\ (hosted = NoProfile \/ ~Mergeable(HostedLog, k.log))
     \/ k.at = "read" /\ hosted = NoProfile
     \/ k.at = "save" /\ (Conflict(k.log, k.got) \/ ~Registered(k.log \cup k.got))
  /\ Stop(c)
  /\ UNCHANGED <<file, hosted, mishaps, seen>>

\* The process dies or its call fails, or only the reply is lost.
Fail(c) ==
  /\ command[c].at # "idle"
  /\ mishaps < MaxMishaps
  /\ mishaps' = mishaps + 1
  /\ \/ UNCHANGED hosted
     \/ command[c].at = "post" /\ SaveProfile(command[c].log)
     \/ command[c].at = "append" /\ AppendEvents(command[c].log)
  /\ Stop(c)
  /\ UNCHANGED <<file, seen>>

\* The owner deletes the hosted copy: no row of it stays.
DeleteHosted ==
  /\ mishaps < MaxMishaps
  /\ hosted # NoProfile
  /\ hosted' = NoProfile
  /\ mishaps' = mishaps + 1
  /\ UNCHANGED <<file, command, seen>>

\* Another client of the owner, such as the browser's, posts signed events.
PostBatch ==
  /\ \E batch \in Batches : AppendEvents(batch)
  /\ UNCHANGED <<file, command, mishaps, seen>>

\* The steps of a command that was started.
Proceed(c) ==
  \/ SaveEdit(c) \/ SaveSeed(c)
  \/ SaveRegistration(c) \/ PostProfile(c) \/ PostEvents(c)
  \/ ReadEvents(c) \/ SavePull(c)
  \/ Refused(c)

Next ==
  \/ \E c \in Commands :
       \/ LoadEdit(c) \/ LoadPush(c) \/ LoadPull(c)
       \/ Proceed(c)
       \/ Fail(c)
  \/ DeleteHosted
  \/ PostBatch

Spec == Init /\ [][Next]_vars

(***************************************************************************)
(* What the owner does for the copies to meet: a command that was started  *)
(* goes on, and each device pushes and pulls again and again.  Failures    *)
(* are finitely many, of any number.                                       *)
(***************************************************************************)
Fairness ==
  \A c \in Commands :
    WF_vars(Proceed(c)) /\ SF_vars(LoadPush(c)) /\ SF_vars(LoadPull(c))

FairSpec == Spec /\ Fairness

-----------------------------------------------------------------------------
(* Properties *)

Copies == {file[d] : d \in Devices} \cup (IF hosted = NoProfile THEN {}
                                                               ELSE {hosted})

\* A document's own clock is not behind the clock of any of its settings, so
\* that the next event signed on it comes after everything it shows.
DocumentOK(doc) ==
  /\ doc.consent \in [Fields -> BOOLEAN] /\ doc.optOut \subseteq Topics
  /\ \A f \in Fields : doc.consentClock[f] \in -1..doc.lastClock
  /\ \A t \in Topics : /\ doc.topicClock[t] \in -1..doc.lastClock
                       /\ doc.optOutClock[t] \in -1..doc.lastClock

\* The types of the state, and clocks that fit together in every document.
TypeOK ==
  /\ \A copy \in Copies : DocumentOK(copy.doc)
  /\ \A c \in Commands : command[c].at \in
       {"idle", "edit", "register", "post", "append", "read", "save"}
  /\ Signatures \in 0..MaxSigned + 1 /\ mishaps \in 0..MaxMishaps

\* The hosted document is at all times the replay of exactly the stored
\* events, in their budget and with one registration: a batch refused half
\* way leaves neither an event nor a document behind (_merge_events in one
\* write transaction of save_profile and append_events).
HostedIsReplay ==
  hosted # NoProfile =>
    /\ Registered(hosted.log)
    /\ Cardinality(hosted.log) <= MaxProfileEvents
    /\ hosted.doc = Rebuild(hosted.log)

\* Two documents that can differ in their dates only.
SameButDates(doc, replay) ==
  doc = [replay EXCEPT !.createdAt = doc.createdAt,
                       !.updatedAt = doc.updatedAt]

\* A file that commands have changed one event at a time, the registration
\* perhaps the last, shows the same settings, name and clocks as a replay of
\* its whole log, so that copies with equal logs agree on these however they
\* came by the events.  On its dates a seeded file need not agree: it is
\* created no later and updated no earlier than its log says (seed_profile
\* moves created_at and no event says so, command_create and apply_event).
FileIsReplay ==
  \A d \in Devices :
    Registered(file[d].log) =>
      LET doc == file[d].doc
          replay == Rebuild(file[d].log)
      IN /\ SameButDates(doc, replay)
         /\ doc.createdAt <= replay.createdAt
         /\ doc.updatedAt >= replay.updatedAt

Withdrawal(e) ==
  \/ e.do.op = "set_consent" /\ ~e.do.flag
  \/ e.do.op = "set_opt_out" /\ e.do.flag

Withdrawn(doc, e) ==
  IF e.do.op = "set_consent" THEN ~doc.consent[e.do.on]
                             ELSE e.do.on \in doc.optOut

SeenBy(e) == IF e.id \in DOMAIN seen THEN seen[e.id] ELSE {}

\* A withdrawal of consent or an opt-out that a copy has received stands
\* there until the owner says the opposite at a later clock, and on a device
\* that signed it without the withdrawal before it: neither an edit made at
\* the same clock on another device nor one the withdrawal was signed on top
\* of brings the consent back (next_clock and the ties of apply_event).
WithdrawalStands ==
  \A copy \in Copies : \A e \in copy.log :
    Withdrawal(e) /\ ~Withdrawn(copy.doc, e) =>
      \E g \in copy.log :
        /\ g.do.op = e.do.op /\ g.do.on = e.do.on /\ g.do.flag # e.do.flag
        /\ g.clock > e.clock
        /\ g \notin SeenBy(e)

\* No upload, stale or retried, takes an event out of the hosted history:
\* only the owner's deletion does (INSERT OR IGNORE and the merge with what
\* is stored).
NeverRolledBack ==
  [][hosted # NoProfile /\ hosted' # NoProfile =>
       hosted.log \subseteq hosted'.log]_vars

\* One registration, known to every copy, and room for all there is: what
\* the copies need to be able to meet.
AllEvents ==
  UNION {copy.log : copy \in Copies} \cup
  UNION {command[c].log \cup command[c].got : c \in Commands}

Healthy ==
  /\ \A d \in Devices : Registered(file[d].log)
  /\ Mergeable({}, AllEvents)

Met ==
  /\ hosted # NoProfile
  /\ \A d \in Devices : file[d] = hosted

\* When the owner stops editing, every device ends with the hosted profile,
\* event for event and setting for setting, whatever was lost, retried or
\* deleted on the way (sync-push and sync-pull).
Converges == <>[](Healthy => Met)

\* docs/architecture.md: a pull merges local and remote events, "retaining
\* the local device label and unsent changes".
PullKeepsLocalEdits ==
  [][\A c \in Commands :
       command[c].at = "save" /\ command'[c].at = "idle" =>
         file[DeviceOf[c]].log \subseteq file'[DeviceOf[c]].log]_vars
=============================================================================
