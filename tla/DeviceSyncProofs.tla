-------------------------- MODULE DeviceSyncProofs --------------------------
(***************************************************************************)
(* The copies of a profile, for any devices, commands and histories: each  *)
(* says what its own log means, and no withdrawal of consent in a log is   *)
(* lost.  The argument is about logs alone: what a command signs sorts     *)
(* after everything its copy holds, under ids nobody else uses, so that    *)
(* appending to a document and replaying the longer log are the same.      *)
(***************************************************************************)
EXTENDS DeviceSync, ProfileHistoryProofs

-----------------------------------------------------------------------------
(* The invariant *)

\* A log whose ids are handed out, each to one event, and whose own events
\* are ahead of what they were signed on.
Known(log) ==
  /\ Sortable(log)
  /\ \A e \in log :
       /\ e.id < NewId
       /\ e.id >= FirstId /\ e.clock > 0 =>
            \A f \in seen[e.id] : f.clock < e.clock

\* A profile that is not registered: the replay of its log from the day it was
\* created, under its own name, and perhaps dated back by seed since.
Unregistered(log, doc) ==
  /\ Registrations(log) = {}
  /\ \A e \in log : e.do.op # "set_profile"
  /\ Later(doc, Replay(NewDocument(OwnName, Created), log))
  /\ doc.name = OwnName /\ doc.createdAt \in 0..Created

\* A document that is the replay of its log but for the dates, registered or
\* not yet.
Genuine(log, doc) ==
  \/ Unregistered(log, doc)
  \/ /\ Registered(log)
     /\ Later(doc, Rebuild(log))
     /\ doc.createdAt \in 0..Registration(log).time

\* The ids of the command line are handed out in their order.
IdsInv ==
  /\ Signatures \in Nat /\ Signatures <= MaxSigned + 1
  /\ DOMAIN seen = FirstId..(NewId - 1)

FilesInv ==
  /\ file = [d \in Devices |-> file[d]]
  /\ \A d \in Devices : Known(file[d].log) /\ Genuine(file[d].log, file[d].doc)

HostedInv ==
  hosted # NoProfile =>
    /\ Known(hosted.log) /\ Registered(hosted.log)
    /\ Cardinality(hosted.log) <= MaxProfileEvents
    /\ hosted.doc = Rebuild(hosted.log)

Stages == {"idle", "edit", "register", "post", "append", "read", "save"}

CommandOK(k) ==
  /\ k = [at |-> k.at, log |-> k.log, doc |-> k.doc, got |-> k.got]
  /\ k.at \in Stages
  /\ Known(k.log) /\ Known(k.got)
  /\ k.at # "idle" => Genuine(k.log, k.doc)
  /\ k.at = "register" => Registrations(k.log) = {}

CommandsInv ==
  /\ command = [c \in Commands |-> command[c]]
  /\ \A c \in Commands : CommandOK(command[c])

SyncInv ==
  /\ IdsInv /\ mishaps \in 0..MaxMishaps
  /\ FilesInv /\ HostedInv /\ CommandsInv

-----------------------------------------------------------------------------
(* Logs and documents *)

LEMMA OwnDocument ==
  /\ NewDocument(OwnName, Created) \in Documents
  /\ \A log : Sortable(log) =>
       Says(Replay(NewDocument(OwnName, Created), log), log)
BY SyncConstants, ReplaySays, NewDocumentSays DEF Says

LEMMA GenuineSays ==
  ASSUME NEW log, Sortable(log), NEW doc, Genuine(log, doc)
  PROVE  Says(doc, log)
BY OwnDocument, RebuildSays, LaterSays DEF Genuine, Unregistered

\* The date of creation that a replay starts from.
LEMMA RebuildDated ==
  ASSUME NEW log, Sortable(log), Registered(log)
  PROVE  /\ Registration(log).time \in Nat /\ Base(log) \in Documents
         /\ Rebuild(log) \in Documents
         /\ Rebuild(log).createdAt = Registration(log).time
<1>1. Registration(log).do.name \in Names /\ Registration(log).time \in Nat
  BY RegisteredOnce DEF Sortable, EventOK
<1>2. Base(log) \in Documents
  BY <1>1, NewDocumentSays DEF Base, Says
<1>3. Base(log).createdAt = Registration(log).time
  BY DEF Base, NewDocument
<1> QED BY <1>1, <1>2, <1>3, ReplayType, ReplayKeeps DEF Rebuild

\* A document that was just replayed.
LEMMA RebuildGenuine ==
  ASSUME NEW log, Sortable(log), Registered(log)
  PROVE  Genuine(log, Rebuild(log))
BY RebuildDated, LaterItself DEF Genuine

\* The only event at clock 0 is the registration.
LEMMA FirstClock ==
  ASSUME NEW log, Sortable(log), NEW doc, Genuine(log, doc),
         NEW e \in log, e.do.op # "set_profile"
  PROVE  e.clock > 0
<1>1. e.clock \in Nat
  BY DEF Sortable, EventOK
<1>2. e.clock # 0
  BY RegisteredOnce DEF Genuine, Unregistered, Registrations
<1> QED BY <1>1, <1>2

LEMMA KnownPart ==
  ASSUME NEW log, Known(log), NEW part \in SUBSET log
  PROVE  Known(part)
BY SortableSubset DEF Known

\* Two known logs without a conflict are one known log.
LEMMA KnownUnion ==
  ASSUME NEW a, Known(a), NEW b, Known(b), ~Conflict(a, b)
  PROVE  Known(a \cup b)
<1>1. IsFiniteSet(a \cup b) /\ \A e \in a \cup b : EventOK(e)
  BY FS_Union DEF Known, Sortable
<1>2. Sortable(a \cup b)
  BY <1>1, NoConflict
<1> QED BY <1>2 DEF Known

\* The date of creation is no part of what two documents agree on.
LEMMA DatedBack ==
  ASSUME NEW a, NEW b, Later(a, b), NEW created \in Nat
  PROVE  /\ Later([a EXCEPT !.createdAt = created], b)
         /\ [a EXCEPT !.createdAt = created].createdAt = created
         /\ [a EXCEPT !.createdAt = created].name = a.name
BY DEF Later, SameSettings, Documents

LEMMA CopyDated ==
  ASSUME NEW log, NEW doc, NEW created,
         NEW copy, copy = [log |-> log, doc |-> doc]
  PROVE  [copy EXCEPT !.doc.createdAt = created] =
           [log |-> log, doc |-> [doc EXCEPT !.createdAt = created]]
<1>1. PICK next : next = [doc EXCEPT !.createdAt = created]
  OBVIOUS
<1>2. copy.doc = doc
  OBVIOUS
<1>3. [copy EXCEPT !.doc = next] = [log |-> log, doc |-> next]
  OBVIOUS
<1> QED BY <1>1, <1>2, <1>3

\* Events appended to a copy: the same document as the replay of the whole.
LEMMA Appended ==
  ASSUME NEW log, Sortable(log), NEW doc, Genuine(log, doc),
         NEW events, Sortable(log \cup events),
         \A e \in events : e.clock > doc.lastClock /\ e.do.op # "set_profile",
         NEW created \in Nat, created <= doc.createdAt
  PROVE  Genuine(log \cup events,
                 [Replay(doc, events) EXCEPT !.createdAt = created])
<1>1. Says(doc, log)
  BY GenuineSays
<1>2. /\ doc.lastClock \in Nat
      /\ \A e \in log : e.clock \in Nat /\ e.clock <= doc.lastClock
      /\ \A e \in events : e.clock \in Nat /\ e.clock > doc.lastClock
  BY <1>1 DEF Says, Dated, Sortable, EventOK
<1>3. \A a \in log, b \in events : Before(a, b)
  BY <1>2 DEF Before
<1>4. Registrations(log \cup events) = Registrations(log)
  BY <1>2 DEF Registrations
<1>5. \A d : Replay(Replay(d, log), events) = Replay(d, log \cup events)
  BY <1>3, ReplayAppends
<1>6. Sortable(events)
  <2>1. events \in SUBSET (log \cup events)
    OBVIOUS
  <2> QED BY <2>1, SortableSubset
<1> DEFINE next == [Replay(doc, events) EXCEPT !.createdAt = created]
<1>7. ASSUME NEW d, Later(doc, Replay(d, log))
      PROVE  /\ Later(next, Replay(d, log \cup events))
             /\ next.createdAt = created /\ next.name = Replay(doc, events).name
  <2>1. Later(Replay(doc, events), Replay(d, log \cup events))
    BY <1>5, <1>6, <1>7, LaterReplay
  <2> QED BY <2>1, DatedBack
<1>8. Replay(doc, events).name = doc.name
  BY <1>1, <1>6, ReplayKeeps DEF Says
<1> HIDE DEF next
<1>9. CASE Unregistered(log, doc)
  <2>1. /\ Later(next, Replay(NewDocument(OwnName, Created), log \cup events))
        /\ next.createdAt = created /\ next.name = OwnName
    BY <1>7, <1>8, <1>9 DEF Unregistered
  <2>2. created \in 0..Created
    BY <1>9, SyncConstants DEF Unregistered
  <2>3. Unregistered(log \cup events, next)
    BY <1>4, <1>9, <2>1, <2>2 DEF Unregistered
  <2> QED BY <2>3 DEF Genuine, next
<1>10. CASE /\ Registered(log) /\ Later(doc, Rebuild(log))
            /\ doc.createdAt \in 0..Registration(log).time
  <2>1. Registered(log \cup events)
    BY <1>4, <1>10 DEF Registered
  <2>2. Registration(log \cup events) = Registration(log)
    BY <1>10, <2>1, RegisteredOnce
  <2>3. Base(log \cup events) = Base(log)
    BY <2>2 DEF Base
  <2>4. /\ Later(next, Rebuild(log \cup events)) /\ next.createdAt = created
    BY <1>7, <1>10, <2>3 DEF Rebuild
  <2>5. created \in 0..Registration(log \cup events).time
    <3>1. Registration(log).time \in Nat
      BY <1>10, RebuildDated
    <3> QED BY <1>10, <2>2, <3>1
  <2> QED BY <2>1, <2>4, <2>5 DEF Genuine, next
<1> QED BY <1>9, <1>10 DEF Genuine

\* An older profile registered late: as if it had been registered first, on
\* the day it is dated back to.
LEMMA Registering ==
  ASSUME NEW log, NEW doc, Unregistered(log, doc),
         NEW r, Sortable(log \cup {r}), r.clock = 0, r.do.op = "set_profile",
         r.do.name = doc.name, r.time = doc.createdAt
  PROVE  Genuine(log \cup {r}, Replay(doc, {r}))
<1> DEFINE new == NewDocument(OwnName, Created)
           old == NewDocument(OwnName, r.time)
<1>1. /\ Sortable(log) /\ EventOK(r)
      /\ \A e \in log : e.clock \in Nat /\ e.clock # 0
  BY SortableSubset DEF Unregistered, Sortable, EventOK, Registrations
<1>2. Replay(doc, {r}) = ApplyEvent(doc, r)
  BY <1>1, ReplayOne
<1>3. new \in Documents /\ old \in Documents /\ Later(new, old)
  <2>1. r.time \in Nat /\ r.time <= Created /\ Created \in Nat /\ OwnName \in Names
    BY SyncConstants DEF Unregistered
  <2>2. new \in Documents /\ old \in Documents
    BY <2>1, NewDocumentSays DEF Says
  <2> QED BY <2>1, <2>2 DEF Later, SameSettings, NewDocument
<1>4. Replay(old, log \cup {r}) = ApplyEvent(Replay(old, log), r)
  <2>1. \A e \in log : e.clock > 0
    BY <1>1
  <2> HIDE DEF old
  <2> QED BY <1>3, <2>1, RegisteredLate
<1>5. Registered(log \cup {r})
  <2>1. Registrations(log \cup {r}) = {r}
    BY <1>1 DEF Unregistered, Registrations
  <2> QED BY <2>1 DEF Registered
<1>6. Registration(log \cup {r}) = r
  BY <1>5, RegisteredOnce
<1>7. Base(log \cup {r}) = old
  BY <1>6 DEF Base, Unregistered
<1> HIDE DEF new, old
<1>8. Later(doc, Replay(old, log))
  <2>1. Later(doc, Replay(new, log))
    BY DEF Unregistered, new
  <2>2. Later(Replay(new, log), Replay(old, log))
    BY <1>1, <1>3, LaterReplay
  <2> QED BY <2>1, <2>2, LaterThanLater
<1>9. Later(ApplyEvent(doc, r), Rebuild(log \cup {r}))
  BY <1>1, <1>4, <1>7, <1>8, LaterEffect DEF Rebuild
<1>10. ApplyEvent(doc, r).createdAt \in 0..r.time
  <2>1. doc \in Documents /\ r.time \in Nat
    BY <1>1, <1>8 DEF Later, EventOK
  <2> QED BY <1>1, <2>1, NameEffect
<1> QED BY <1>2, <1>5, <1>6, <1>9, <1>10 DEF Genuine

-----------------------------------------------------------------------------
(* Signing *)

\* New events: one for each of the next ids, ahead of the log they extend.
Fresh(log, events, n) ==
  /\ IsFiniteSet(events) /\ n \in Nat
  /\ {e.id : e \in events} = NewId..(NewId + n - 1)
  /\ \A e, f \in events : e.id = f.id => e = f
  /\ \A e \in events :
       EventOK(e) /\ (e.clock > 0 => \A f \in log : f.clock < e.clock)

LEMMA NextInterval ==
  ASSUME NEW a \in Nat, NEW b \in Nat, a <= b, NEW n \in Nat
  PROVE  (a..(b - 1)) \cup (b..(b + n - 1)) = a..(b + n - 1)
OBVIOUS

LEMMA FreshIds ==
  ASSUME IdsInv, NEW c \in Commands, NEW n \in Nat, Signatures + n <= MaxSigned + 1,
         NEW log, log = command[c].log, Known(log),
         NEW events, Fresh(log, events, n), Remember(c, events)
  PROVE  /\ IdsInv'
         /\ \A known : Known(known) => Known(known)'
         /\ Sortable(log \cup events) /\ Known(log \cup events)'
<1> DEFINE ids == {e.id : e \in events}
           On1(e) == log \cup {f \in events : f.clock < e.clock}
<1>1. /\ Signatures \in Nat /\ FirstId \in Nat /\ NewId = FirstId + Signatures
      /\ DOMAIN seen = FirstId..(NewId - 1) /\ ids = NewId..(NewId + n - 1)
  BY SyncConstants DEF IdsInv, NewId, Fresh
<1>2. /\ DOMAIN seen' = DOMAIN seen \cup ids
      /\ \A i \in DOMAIN seen : seen'[i] = seen[i]
  BY DEF Remember
<1>3. ASSUME NEW e \in events PROVE seen'[e.id] = On1(e)
  <2>1. e.id \in ids /\ e.id \notin DOMAIN seen
    BY <1>1
  <2>2. (CHOOSE x \in events : x.id = e.id) = e
    BY DEF Fresh
  <2>3. seen'[e.id] = LET x == CHOOSE x \in events : x.id = e.id
                      IN command[c].log \cup {f \in events : f.clock < x.clock}
    BY <2>1 DEF Remember
  <2> QED BY <2>2, <2>3
<1>4. DOMAIN seen' = FirstId..(NewId + n - 1)
  <2>1. NewId \in Nat /\ FirstId <= NewId
    BY <1>1
  <2> HIDE DEF ids
  <2> QED BY <1>1, <1>2, <2>1, NextInterval
<1>5. Signatures' = Signatures + n
  <2>1. Signatures' = Cardinality(FirstId..(NewId + n - 1))
    BY <1>4 DEF Signatures
  <2>2. Cardinality(FirstId..(NewId + n - 1)) =
          IF FirstId > NewId + n - 1 THEN 0 ELSE NewId + n - 1 - FirstId + 1
    BY <1>1, FS_Interval
  <2> QED BY <1>1, <2>1, <2>2
<1>6. NewId' = NewId + n /\ NewId \in Nat
  BY <1>1, <1>5 DEF NewId
<1>7. IdsInv'
  BY <1>1, <1>4, <1>5, <1>6, SyncConstants DEF IdsInv
<1>8. ASSUME NEW known, Known(known) PROVE Known(known)'
  <2>1. Sortable(known) /\ \A e \in known : e.id \in Nat /\ e.id < NewId
    BY <1>8 DEF Known, Sortable, EventOK
  <2>2. ASSUME NEW e \in known
        PROVE  /\ e.id < NewId'
               /\ e.id >= FirstId /\ e.clock > 0 =>
                    \A f \in seen'[e.id] : f.clock < e.clock
    <3>1. e.id < NewId'
      BY <1>6, <2>1
    <3>2. e.id >= FirstId => seen'[e.id] = seen[e.id]
      BY <1>1, <1>2, <2>1
    <3> QED BY <1>8, <3>1, <3>2 DEF Known
  <2> QED BY <2>1, <2>2 DEF Known
<1>9. Sortable(log \cup events)
  <2>1. IsFiniteSet(log \cup events)
    BY FS_Union DEF Known, Sortable, Fresh
  <2>2. \A e \in log : e.id < NewId /\ e.id \in Nat
    BY DEF Known, Sortable, EventOK
  <2>3. \A e \in events : e.id >= NewId
    BY <1>1, <1>6
  <2>4. \A e, f \in log \cup events : e.id = f.id => e = f
    BY <1>6, <2>2, <2>3 DEF Known, Sortable, Fresh
  <2> QED BY <2>1, <2>4 DEF Known, Sortable, Fresh
<1>10. ASSUME NEW e \in log \cup events
       PROVE  /\ e.id < NewId'
              /\ e.id >= FirstId /\ e.clock > 0 =>
                   \A f \in seen'[e.id] : f.clock < e.clock
  <2>1. CASE e \in log
    BY <1>8, <2>1 DEF Known
  <2>2. CASE e \in events
    <3>1. e.id \in ids
      BY <2>2
    <3>2. e.id < NewId'
      <4> DEFINE k == e.id
      <4>1. k \in NewId..(NewId + n - 1)
        BY <1>1, <3>1
      <4> HIDE DEF k
      <4>2. k < NewId'
        BY <1>6, <4>1
      <4> QED BY <4>2 DEF k
    <3>3. e.clock > 0 => \A f \in On1(e) : f.clock < e.clock
      BY <2>2 DEF Fresh
    <3> QED BY <1>3, <2>2, <3>2, <3>3
  <2> QED BY <2>1, <2>2
<1>11. Known(log \cup events)'
  BY <1>9, <1>10 DEF Known
<1> QED BY <1>7, <1>8, <1>9, <1>11

\* The events of one edit, or of seed.
Edits(dated, clock) ==
  {Sign(dated[i].do, NewId + i - 1, clock + i - 1, dated[i].time) :
     i \in DOMAIN dated}

LEMMA EditsAreFresh ==
  ASSUME IdsInv, NEW n \in Nat, NEW dated, DOMAIN dated = 1..n,
         \A i \in 1..n : Signable(dated[i]),
         NEW clock \in Nat \ {0},
         NEW log, \A f \in log : f.clock \in Nat /\ f.clock < clock,
         NEW events, events = Edits(dated, clock)
  PROVE  /\ Fresh(log, events, n)
         /\ \A e \in events : e.clock >= clock /\ e.do.op # "set_profile"
<1> DEFINE event(i) == Sign(dated[i].do, NewId + i - 1, clock + i - 1,
                         dated[i].time)
           f == [i \in 1..n |-> event(i)]
<1>1. NewId \in Nat
  BY SyncConstants DEF IdsInv, NewId
<1>2. events = {event(i) : i \in 1..n}
  BY DEF Edits
<1>3. \A i \in 1..n : /\ event(i).id = NewId + i - 1
                      /\ event(i).clock = clock + i - 1
                      /\ event(i).time = dated[i].time
                      /\ event(i).do = dated[i].do
  BY DEF Sign
<1>4. \A i \in 1..n : EventOK(event(i)) /\ event(i).do.op # "set_profile"
  <2> SUFFICES ASSUME NEW i \in 1..n
               PROVE  EventOK(event(i)) /\ event(i).do.op # "set_profile"
    OBVIOUS
  <2>1. LET e == Sign(dated[i].do, 0, 0, dated[i].time) IN
        /\ EventOK(e) /\ e.do = dated[i].do /\ e.time = dated[i].time
        /\ dated[i].do.op # "set_profile"
    BY DEF Sign, Signable
  <2>2. /\ NewId + i - 1 \in Nat /\ clock + i - 1 \in Nat
    BY <1>1
  <2> HIDE DEF event
  <2> QED BY <1>3, <2>1, <2>2 DEF EventOK
<1>5. IsFiniteSet(events)
  <2>1. f \in Surjection(1..n, events)
    BY <1>2 DEF Surjection
  <2>2. IsFiniteSet(1..n)
    BY FS_Interval
  <2> HIDE DEF f
  <2> QED BY <2>1, <2>2, FS_Surjection
<1> HIDE DEF event
<1>6. ASSUME NEW e \in events
      PROVE  \E i \in 1..n : /\ e = event(i) /\ e.id = NewId + i - 1
                            /\ e.clock = clock + i - 1 /\ EventOK(e)
                            /\ e.do.op # "set_profile"
  <2>1. PICK i \in 1..n : e = event(i)
    BY <1>2
  <2>2. event(i).id = NewId + i - 1 /\ event(i).clock = clock + i - 1
    BY <1>3
  <2> QED BY <1>4, <2>1, <2>2
<1>7. {e.id : e \in events} = NewId..(NewId + n - 1)
  <2>1. ASSUME NEW e \in events PROVE e.id \in NewId..(NewId + n - 1)
    <3>1. PICK i \in 1..n : e.id = NewId + i - 1
      BY <1>6
    <3>2. NewId + i - 1 \in NewId..(NewId + n - 1)
      BY <1>1
    <3> QED BY <3>1, <3>2
  <2>2. ASSUME NEW k \in NewId..(NewId + n - 1) PROVE \E e \in events : e.id = k
    <3> DEFINE i == k - NewId + 1
    <3>1. i \in 1..n /\ NewId + i - 1 = k
      BY <1>1
    <3> HIDE DEF i
    <3>2. event(i) \in events /\ event(i).id = NewId + i - 1
      BY <1>2, <1>3, <3>1
    <3> QED BY <3>1, <3>2
  <2> DEFINE S == NewId..(NewId + n - 1)
  <2>3. (\A e \in events : e.id \in S) /\ \A k \in S : \E e \in events : e.id = k
    BY <2>1, <2>2
  <2> HIDE DEF S
  <2>4. {e.id : e \in events} = S
    BY <2>3
  <2> QED BY <2>4 DEF S
<1>8. ASSUME NEW e \in events, NEW g \in events, e.id = g.id PROVE e = g
  <2>1. PICK i \in 1..n : e = event(i) /\ e.id = NewId + i - 1
    BY <1>6
  <2>2. PICK j \in 1..n : g = event(j) /\ g.id = NewId + j - 1
    BY <1>6
  <2>3. NewId + i - 1 = NewId + j - 1
    BY <1>8, <2>1, <2>2
  <2>4. i = j
    BY <1>1, <2>3
  <2> QED BY <2>1, <2>2, <2>4
<1>9. ASSUME NEW e \in events PROVE e.clock \in Nat /\ e.clock >= clock
  <2>1. PICK i \in 1..n : e.clock = clock + i - 1
    BY <1>6
  <2>2. clock + i - 1 \in Nat /\ clock + i - 1 >= clock
    OBVIOUS
  <2> QED BY <2>1, <2>2
<1>10. ASSUME NEW e \in events
       PROVE  /\ EventOK(e) /\ e.do.op # "set_profile"
              /\ \A g \in log : g.clock < e.clock
  <2>1. EventOK(e) /\ e.do.op # "set_profile"
    BY <1>6
  <2> DEFINE k == e.clock
  <2>2. k \in Nat /\ k >= clock
    BY <1>9
  <2> HIDE DEF k
  <2>3. \A g \in log : g.clock < k
    BY <2>2
  <2> QED BY <2>1, <2>3 DEF k
<1> QED BY <1>5, <1>7, <1>8, <1>9, <1>10 DEF Fresh

-----------------------------------------------------------------------------
(* Parts of a step *)

KnownStays == \A log : Known(log) => Known(log)'

LEMMA NothingKnown == Known({})
BY FS_EmptySet DEF Known, Sortable

LEMMA ForeignKnown ==
  ASSUME IdsInv, NEW log, Foreign(log), ~Conflict(log, {})
  PROVE  Known(log)
<1>1. log \cup {} = log
  OBVIOUS
<1>2. Sortable(log)
  BY <1>1, NoConflict DEF Foreign
<1>3. NewId \in Nat /\ FirstId \in Nat /\ FirstId <= NewId
  BY SyncConstants DEF IdsInv, NewId
<1>4. \A e \in log : e.id \in Nat /\ e.id < FirstId
  BY DEF Foreign, EventOK
<1> QED BY <1>2, <1>3, <1>4 DEF Known

LEMMA SeenStays == IdsInv /\ UNCHANGED seen => IdsInv' /\ KnownStays
BY DEF IdsInv, KnownStays, Known, NewId, Signatures

LEMMA FilesStay == FilesInv /\ KnownStays /\ UNCHANGED file => FilesInv'
BY DEF FilesInv, KnownStays

LEMMA FileStep ==
  ASSUME FilesInv, KnownStays, NEW d \in Devices, NEW log, NEW doc,
         file' = [file EXCEPT ![d] = [log |-> log, doc |-> doc]],
         Known(log)', Genuine(log, doc)
  PROVE  FilesInv'
<1>1. \A x \in Devices : file'[x] = IF x = d THEN [log |-> log, doc |-> doc]
                                             ELSE file[x]
  BY DEF FilesInv
<1>2. file' = [x \in Devices |-> file'[x]]
  BY DEF FilesInv
<1>3. ASSUME NEW x \in Devices
      PROVE  Known(file[x].log)' /\ Genuine(file'[x].log, file'[x].doc)
  <2>1. CASE x = d
    BY <1>1, <2>1
  <2>2. CASE x # d
    <3>1. file'[x] = file[x]
      BY <1>1, <2>2
    <3>2. \A l : Known(l) => Known(l)'
      BY DEF KnownStays
    <3>3. Known(file[x].log) /\ Genuine(file[x].log, file[x].doc)
      BY DEF FilesInv
    <3> QED BY <3>1, <3>2, <3>3
  <2> QED BY <2>1, <2>2
<1> QED BY <1>2, <1>3 DEF FilesInv

LEMMA HostedStays == HostedInv /\ KnownStays /\ UNCHANGED hosted => HostedInv'
BY DEF HostedInv, KnownStays

LEMMA HostedKnown == HostedInv => Known(HostedLog)
BY NothingKnown DEF HostedInv, HostedLog

\* _merge_events leaves the replay of what is stored then.
LEMMA MergeStep ==
  ASSUME HostedInv, KnownStays, NEW log, Known(log),
         Mergeable(HostedLog, log), hosted' = Merged(HostedLog, log)
  PROVE  HostedInv'
<1>0. PICK stored : stored = HostedLog
  OBVIOUS
<1> DEFINE union == stored \cup log
<1>1. Known(union)
  BY <1>0, HostedKnown, KnownUnion DEF Mergeable
<1>2. Known(union)'
  BY <1>1 DEF KnownStays
<1>3. hosted'.log = union /\ hosted'.doc = Rebuild(union)
  BY <1>0 DEF Merged
<1>4. Registered(union) /\ Cardinality(union) <= MaxProfileEvents
  BY <1>0 DEF Mergeable
<1> QED BY <1>2, <1>3, <1>4 DEF HostedInv

LEMMA CommandsStay == CommandsInv /\ KnownStays /\ UNCHANGED command => CommandsInv'
BY DEF CommandsInv, CommandOK, KnownStays

LEMMA CommandStep ==
  ASSUME CommandsInv, KnownStays, NEW c \in Commands, NEW k,
         command' = [command EXCEPT ![c] = k], CommandOK(k)'
  PROVE  CommandsInv'
<1>1. \A x \in Commands : command'[x] = IF x = c THEN k ELSE command[x]
  BY DEF CommandsInv
<1>2. command' = [x \in Commands |-> command'[x]]
  BY DEF CommandsInv
<1>3. ASSUME NEW x \in Commands PROVE CommandOK(command[x])'
  <2>1. CASE x = c
    BY <1>1, <2>1
  <2>2. CASE x # c
    <3>0. PICK was : was = command[x]
      OBVIOUS
    <3>1. CommandOK(was)
      BY <3>0 DEF CommandsInv
    <3>2. command'[x] = was
      BY <1>1, <2>2, <3>0
    <3>3. CommandOK(was) => CommandOK(was)'
      BY DEF CommandOK, KnownStays
    <3> QED BY <3>1, <3>2, <3>3
  <2> QED BY <2>1, <2>2
<1> QED BY <1>2, <1>3 DEF CommandsInv

-----------------------------------------------------------------------------
(* The invariant is inductive *)

LEMMA Starts == Init => SyncInv
<1> SUFFICES ASSUME Init PROVE SyncInv
  OBVIOUS
<1>1. DOMAIN seen = {} /\ hosted = NoProfile /\ mishaps = 0
  BY DEF Init
<1>2. Signatures = 0 /\ NewId = FirstId
  BY <1>1, FS_EmptySet, SyncConstants DEF Signatures, NewId
<1>3. IdsInv
  <2>1. FirstId..(FirstId - 1) = {}
    BY SyncConstants
  <2> QED BY <1>1, <1>2, <2>1, SyncConstants DEF IdsInv
<1>4. FilesInv
  <2>1. PICK log \in NewHistories : file = [d \in Devices |-> NewFile(log)]
    BY DEF Init
  <2>2. Known(log) /\ Sortable(log)
    BY <1>3, ForeignKnown, SyncConstants DEF Known
  <2>3. log = {} => Genuine(log, NewDocument(OwnName, Created))
    <3> DEFINE new == NewDocument(OwnName, Created)
    <3>1. Replay(new, {}) = new
      BY <2>2, ReplayUnfolds
    <3>2. Later(new, new)
      BY OwnDocument, LaterItself
    <3>3. new.name = OwnName /\ new.createdAt = Created
      BY DEF NewDocument
    <3>4. Created \in 0..Created
      BY SyncConstants
    <3> HIDE DEF new
    <3>5. Unregistered({}, new)
      BY <3>1, <3>2, <3>3, <3>4 DEF Unregistered, Registrations, new
    <3> QED BY <3>5 DEF Genuine, new
  <2>4. log # {} =>
          Genuine(log, [Rebuild(log) EXCEPT !.updatedAt = Larger(@, Created)])
    <3> SUFFICES ASSUME log # {}
                 PROVE  Genuine(log, [Rebuild(log) EXCEPT
                                       !.updatedAt = Larger(@, Created)])
      OBVIOUS
    <3>1. Registered(log)
      BY SyncConstants
    <3> DEFINE d == Rebuild(log)
               n == [d EXCEPT !.updatedAt = Larger(@, Created)]
    <3>2. /\ d \in Documents /\ d.createdAt = Registration(log).time
          /\ Registration(log).time \in Nat
      BY <2>2, <3>1, RebuildDated
    <3> HIDE DEF d
    <3>3. d.updatedAt \in Int /\ Created \in Int
      BY <3>2, SyncConstants DEF Documents
    <3>4. Larger(d.updatedAt, Created) \in Int /\ Larger(d.updatedAt, Created) >= d.updatedAt
      BY <3>3 DEF Larger
    <3>5. Later(n, d) /\ n.createdAt = d.createdAt
      BY <3>2, <3>4 DEF Later, SameSettings, Documents
    <3> HIDE DEF n
    <3>6. Genuine(log, n)
      BY <3>1, <3>2, <3>5 DEF Genuine, d
    <3> QED BY <3>6 DEF n, d
  <2> QED BY <2>1, <2>2, <2>3, <2>4 DEF FilesInv, NewFile
<1>5. CommandsInv
  <2>1. CommandOK(Idle)
    BY NothingKnown DEF CommandOK, Idle, Stages
  <2>2. command = [c \in Commands |-> Idle]
    BY DEF Init
  <2> QED BY <2>1, <2>2 DEF CommandsInv
<1> QED BY <1>1, <1>3, <1>4, <1>5, SyncConstants DEF SyncInv, HostedInv

LEMMA IdleOK == CommandOK(Idle)'
<1>1. Known({})'
  BY FS_EmptySet DEF Known, Sortable
<1> QED BY <1>1 DEF CommandOK, Idle, Stages

\* A command that stops and signs nothing.
LEMMA Stopped ==
  ASSUME SyncInv, NEW c \in Commands, Stop(c), UNCHANGED seen
  PROVE  IdsInv' /\ KnownStays /\ CommandsInv'
<1>1. IdsInv' /\ KnownStays
  BY SeenStays DEF SyncInv
<1>2. CommandsInv'
  BY <1>1, IdleOK, CommandStep DEF SyncInv, Stop
<1> QED BY <1>1, <1>2

LEMMA Loading ==
  ASSUME SyncInv, NEW c \in Commands, NEW at \in Stages, Load(c, at),
         at = "register" => Registrations(file[DeviceOf[c]].log) = {}
  PROVE  SyncInv'
<1>1. PICK f : f = file[DeviceOf[c]]
  OBVIOUS
<1>2. IdsInv' /\ KnownStays /\ FilesInv' /\ HostedInv' /\ mishaps' \in 0..MaxMishaps
  BY SeenStays, FilesStay, HostedStays DEF SyncInv, Load
<1> DEFINE k == [at |-> at, log |-> f.log, doc |-> f.doc, got |-> {}]
<1>3. Known(f.log) /\ Genuine(f.log, f.doc)
  BY <1>1, SyncConstants DEF SyncInv, FilesInv
<1>4. CommandOK(k)'
  BY <1>1, <1>2, <1>3, NothingKnown DEF CommandOK, KnownStays
<1>5. command' = [command EXCEPT ![c] = k]
  BY <1>1 DEF Load
<1>6. CommandsInv'
  <2> HIDE DEF k
  <2> QED BY <1>2, <1>4, <1>5, CommandStep DEF SyncInv
<1> QED BY <1>2, <1>6 DEF SyncInv

\* One event for each change, ahead of the loaded copy.
LEMMA Saving ==
  ASSUME SyncInv, NEW c \in Commands, NEW n \in Nat,
         NEW dated, Len(dated) = n, DOMAIN dated = 1..n,
         \A i \in 1..n : Signable(dated[i]),
         NEW created, command[c].at = "edit" =>
                        created \in 0..command[c].doc.createdAt,
         SaveSigned(c, dated, created)
  PROVE  SyncInv'
<1>1. PICK k : k = command[c]
  OBVIOUS
<1>2. /\ k.at = "edit" /\ Known(k.log) /\ Genuine(k.log, k.doc)
      /\ Signatures + n <= MaxSigned /\ DeviceOf[c] \in Devices
  BY <1>1, SyncConstants DEF SyncInv, CommandsInv, CommandOK, SaveSigned
<1>3. Says(k.doc, k.log) /\ Sortable(k.log)
  BY <1>2, GenuineSays DEF Known
<1> DEFINE clock == NextClock(command[c].doc)
<1>4. /\ clock \in Nat \ {0} /\ clock > k.doc.lastClock /\ k.doc.lastClock \in Nat
      /\ \A f \in k.log : f.clock \in Nat /\ f.clock < clock
  <2>1. /\ k.doc.lastClock \in Nat
        /\ \A f \in k.log : f.clock \in Nat /\ f.clock <= k.doc.lastClock
    BY <1>3 DEF Says, Dated, Sortable, EventOK
  <2>2. clock = k.doc.lastClock + 1
    BY <1>1 DEF NextClock
  <2> HIDE DEF clock
  <2> QED BY <2>1, <2>2
<1>5. created \in Nat /\ created <= k.doc.createdAt
  <2>1. created \in 0..k.doc.createdAt
    BY <1>1, <1>2
  <2>2. k.doc.createdAt \in Int
    BY <1>3 DEF Says, Documents
  <2> QED BY <2>1, <2>2
<1>6. PICK events :
        /\ events = Edits(dated, clock)
        /\ file' = [file EXCEPT ![DeviceOf[c]] =
                      [Signed(c, events) EXCEPT !.doc.createdAt = created]]
        /\ Remember(c, events)
  BY DEF SaveSigned, Edits
<1>7. /\ Fresh(k.log, events, n)
      /\ \A e \in events : e.clock >= clock /\ e.do.op # "set_profile"
  <2>1. IdsInv
    BY DEF SyncInv
  <2> HIDE DEF clock
  <2> QED BY <1>4, <1>6, <2>1, EditsAreFresh
<1>8. /\ IdsInv' /\ KnownStays
      /\ Sortable(k.log \cup events) /\ Known(k.log \cup events)'
  <2>1. Signatures + n <= MaxSigned + 1
    BY <1>2, SyncConstants DEF SyncInv, IdsInv
  <2> QED BY <1>1, <1>2, <1>6, <1>7, <2>1, FreshIds DEF SyncInv, KnownStays
<1> DEFINE doc == [Replay(k.doc, events) EXCEPT !.createdAt = created]
<1>9. Genuine(k.log \cup events, doc)
  <2>1. \A e \in events : e.clock > k.doc.lastClock
    BY <1>4, <1>7, <1>8 DEF Sortable, EventOK
  <2> QED BY <1>2, <1>3, <1>5, <1>7, <1>8, <2>1, Appended
<1>10. file' = [file EXCEPT ![DeviceOf[c]] = [log |-> k.log \cup events, doc |-> doc]]
  <2>1. Signed(c, events) = [log |-> k.log \cup events, doc |-> Replay(k.doc, events)]
    BY <1>1 DEF Signed
  <2>2. [Signed(c, events) EXCEPT !.doc.createdAt = created] =
          [log |-> k.log \cup events, doc |-> doc]
    <3>1. PICK copy : copy = Signed(c, events)
      OBVIOUS
    <3>2. PICK log, d : log = k.log \cup events /\ d = Replay(k.doc, events)
      OBVIOUS
    <3>3. copy = [log |-> log, doc |-> d]
      BY <2>1, <3>1, <3>2
    <3>4. [copy EXCEPT !.doc.createdAt = created] =
            [log |-> log, doc |-> [d EXCEPT !.createdAt = created]]
      BY <3>3, CopyDated
    <3> QED BY <3>1, <3>2, <3>4
  <2> QED BY <1>6, <2>2
<1>11. FilesInv'
  <2> HIDE DEF doc
  <2> QED BY <1>2, <1>8, <1>9, <1>10, FileStep DEF SyncInv
<1>12. CommandsInv'
  BY <1>8, IdleOK, CommandStep DEF SyncInv, SaveSigned, Stop
<1> QED BY <1>8, <1>11, <1>12, HostedStays DEF SyncInv, SaveSigned

\* The registration of an older profile, signed last and sorted first.
LEMMA SavingRegistration ==
  ASSUME SyncInv, NEW c \in Commands, SaveRegistration(c)
  PROVE  SyncInv'
<1>1. PICK k : k = command[c]
  OBVIOUS
<1>2. /\ Known(k.log) /\ Unregistered(k.log, k.doc)
      /\ DeviceOf[c] \in Devices /\ Sortable(k.log)
  <2>1. /\ Known(k.log) /\ Genuine(k.log, k.doc) /\ Registrations(k.log) = {}
    BY <1>1 DEF SyncInv, CommandsInv, CommandOK, SaveRegistration
  <2>2. ~Registered(k.log)
    BY <2>1 DEF Registered
  <2> QED BY <2>1, <2>2, SyncConstants DEF Genuine, Known
<1>3. PICK r :
        r = Sign(Change("set_profile", k.doc.name, TRUE, 0, "public", k.doc.name),
                 NewId, 0, k.doc.createdAt)
  OBVIOUS
<1>4. /\ r.id = NewId /\ r.clock = 0 /\ r.time = k.doc.createdAt
      /\ r.do.op = "set_profile" /\ r.do.name = k.doc.name
      /\ r.do.flag \in BOOLEAN /\ r.do.weight \in Nat
  BY <1>3 DEF Sign, Change
<1>5. EventOK(r)
  <2>1. NewId \in Nat
    BY SyncConstants DEF SyncInv, IdsInv, NewId
  <2>2. WellFormed(r.do)
    BY <1>4 DEF WellFormed, Ops
  <2>3. k.doc.name \in Names /\ k.doc.createdAt \in Nat
    BY <1>2, SyncConstants DEF Unregistered
  <2> QED BY <1>4, <2>1, <2>2, <2>3 DEF EventOK
<1>6. Fresh(k.log, {r}, 1)
  <2>1. NewId..(NewId + 1 - 1) = {NewId}
    BY SyncConstants DEF SyncInv, IdsInv, NewId
  <2>2. {e.id : e \in {r}} = {NewId}
    BY <1>4
  <2>3. IsFiniteSet({r})
    BY FS_Singleton
  <2> QED BY <1>4, <1>5, <2>1, <2>2, <2>3 DEF Fresh
<1>7. /\ IdsInv' /\ KnownStays
      /\ Sortable(k.log \cup {r}) /\ Known(k.log \cup {r})'
  <2>1. Signatures + 1 <= MaxSigned + 1 /\ Remember(c, {r})
    BY <1>1, <1>3, SyncConstants DEF SaveRegistration, SyncInv, IdsInv
  <2> QED BY <1>1, <1>2, <1>6, <2>1, FreshIds DEF SyncInv, KnownStays
<1>8. Genuine(k.log \cup {r}, Replay(k.doc, {r}))
  BY <1>2, <1>4, <1>7, Registering
<1> DEFINE next == [at |-> "post", log |-> k.log \cup {r},
                    doc |-> Replay(k.doc, {r}), got |-> {}]
<1>9. /\ file' = [file EXCEPT ![DeviceOf[c]] =
                    [log |-> k.log \cup {r}, doc |-> Replay(k.doc, {r})]]
      /\ command' = [command EXCEPT ![c] = next]
  BY <1>1, <1>3 DEF SaveRegistration, Signed
<1>10. FilesInv'
  BY <1>2, <1>7, <1>8, <1>9, FileStep DEF SyncInv
<1>11. CommandOK(next)'
  BY <1>7, <1>8, NothingKnown DEF CommandOK, Stages, KnownStays
<1>12. CommandsInv'
  <2> HIDE DEF next
  <2> QED BY <1>7, <1>9, <1>11, CommandStep DEF SyncInv
<1> QED BY <1>7, <1>10, <1>12, HostedStays DEF SyncInv, SaveRegistration

\* A command that goes on with the copy it has.
LEMMA Going ==
  ASSUME SyncInv, KnownStays, NEW c \in Commands, NEW at \in Stages,
         at \notin {"idle", "register"}, NEW k, k = command[c], k.at # "idle",
         NEW got, Known(got),
         command' = [command EXCEPT ![c] = [at |-> at, log |-> k.log,
                                            doc |-> k.doc, got |-> got]]
  PROVE  CommandsInv'
<1> DEFINE next == [at |-> at, log |-> k.log, doc |-> k.doc, got |-> got]
<1>1. Known(k.log) /\ Genuine(k.log, k.doc)
  BY DEF SyncInv, CommandsInv, CommandOK
<1>2. CommandOK(next)'
  BY <1>1 DEF CommandOK, KnownStays
<1> HIDE DEF next
<1> QED BY <1>2, CommandStep DEF SyncInv, next

LEMMA Posting ==
  ASSUME SyncInv, UNCHANGED seen, NEW log, Known(log),
         SaveProfile(log) \/ AppendEvents(log)
  PROVE  IdsInv' /\ KnownStays /\ HostedInv'
<1>1. IdsInv' /\ KnownStays
  BY SeenStays DEF SyncInv
<1>2. Mergeable(HostedLog, log) /\ hosted' = Merged(HostedLog, log)
  BY DEF SaveProfile, AppendEvents
<1> QED BY <1>1, <1>2, MergeStep DEF SyncInv

LEMMA AtStage ==
  ASSUME NEW x, NEW log, NEW doc, NEW y, NEW at,
         NEW k, k = [at |-> x, log |-> log, doc |-> doc, got |-> y]
  PROVE  [k EXCEPT !.at = at] = [at |-> at, log |-> log, doc |-> doc, got |-> y]
OBVIOUS

LEMMA WithReply ==
  ASSUME NEW x, NEW log, NEW doc, NEW y, NEW got,
         NEW k, k = [at |-> x, log |-> log, doc |-> doc, got |-> y]
  PROVE  [k EXCEPT !.got = got] = [at |-> x, log |-> log, doc |-> doc, got |-> got]
OBVIOUS

LEMMA ProceedStep ==
  ASSUME SyncInv, NEW c \in Commands, Proceed(c)
  PROVE  SyncInv'
<1>1. PICK k : k = command[c]
  OBVIOUS
<1>2. /\ k = [at |-> k.at, log |-> k.log, doc |-> k.doc, got |-> k.got]
      /\ Known(k.log) /\ Known(k.got) /\ DeviceOf[c] \in Devices
      /\ command = [x \in Commands |-> command[x]]
  BY <1>1, SyncConstants DEF SyncInv, CommandsInv, CommandOK
<1>0. k.at = "edit" => k.doc.createdAt \in Nat
  <2>1. k.at = "edit" => Genuine(k.log, k.doc)
    BY <1>1 DEF SyncInv, CommandsInv, CommandOK
  <2>2. \A n \in Nat : \A x \in 0..n : x \in Nat
    OBVIOUS
  <2> QED BY <1>2, <2>1, <2>2, RebuildDated, SyncConstants
      DEF Genuine, Unregistered, Known
<1>3. ASSUME SaveEdit(c) PROVE SyncInv'
  <2>1. PICK change \in Changes, t \in Times :
          SaveSigned(c, <<DatedChange(change, t)>>, k.doc.createdAt)
    BY <1>1, <1>3 DEF SaveEdit
  <2>2. PICK dated : dated = <<DatedChange(change, t)>>
    OBVIOUS
  <2>3. /\ Len(dated) = 1 /\ DOMAIN dated = 1..1
        /\ \A i \in 1..1 : Signable(dated[i])
    <3>1. dated[1] = DatedChange(change, t)
      BY <2>2
    <3> QED BY <2>2, <3>1, SyncConstants
  <2>4. k.at = "edit" => k.doc.createdAt \in 0..k.doc.createdAt
    BY <1>0
  <2> QED BY <1>1, <2>1, <2>2, <2>3, <2>4, Saving
<1>4. ASSUME SaveSeed(c) PROVE SyncInv'
  <2>1. PICK dated \in Seeds :
          SaveSigned(c, dated, Smaller(k.doc.createdAt, dated[1].time))
    BY <1>1, <1>4 DEF SaveSeed
  <2>2. PICK n \in Nat \ {0} : n = Len(dated)
    BY SyncConstants
  <2>3. DOMAIN dated = 1..n /\ \A i \in 1..n : Signable(dated[i])
    BY <2>2, SyncConstants
  <2>4. k.at = "edit" =>
          Smaller(k.doc.createdAt, dated[1].time) \in 0..k.doc.createdAt
    <3>1. Signable(dated[1])
      BY <2>3
    <3>2. dated[1].time \in Nat
      BY <3>1 DEF Signable, EventOK, Sign
    <3> QED BY <1>0, <3>2 DEF Smaller
  <2> QED BY <1>1, <2>1, <2>2, <2>3, <2>4, Saving
<1>5. ASSUME SaveRegistration(c) PROVE SyncInv'
  BY <1>5, SavingRegistration
<1>6. ASSUME PostProfile(c) PROVE SyncInv'
  <2>1. k.at = "post" /\ SaveProfile(k.log) /\ UNCHANGED <<file, mishaps, seen>>
    BY <1>1, <1>6 DEF PostProfile
  <2>2. IdsInv' /\ KnownStays /\ HostedInv'
    BY <1>2, <2>1, Posting
  <2>3. command' = [command EXCEPT ![c] =
          [at |-> "append", log |-> k.log, doc |-> k.doc, got |-> k.got]]
    <3>1. command' = [command EXCEPT ![c] = [k EXCEPT !.at = "append"]]
      BY <1>1, <1>6 DEF PostProfile, Goto
    <3>2. [k EXCEPT !.at = "append"] =
            [at |-> "append", log |-> k.log, doc |-> k.doc, got |-> k.got]
      BY <1>2
    <3> QED BY <3>1, <3>2
  <2>4. CommandsInv'
    BY <1>1, <1>2, <2>1, <2>2, <2>3, Going DEF Stages
  <2> QED BY <2>1, <2>2, <2>4, FilesStay DEF SyncInv
<1>7. ASSUME PostEvents(c) PROVE SyncInv'
  <2>1. AppendEvents(k.log) /\ Stop(c) /\ UNCHANGED <<file, mishaps, seen>>
    BY <1>1, <1>7 DEF PostEvents
  <2>2. IdsInv' /\ KnownStays /\ HostedInv'
    BY <1>2, <2>1, Posting
  <2> QED BY <2>1, <2>2, Stopped, FilesStay DEF SyncInv
<1>8. ASSUME ReadEvents(c) PROVE SyncInv'
  <2> DEFINE got == {e \in hosted.log : e.clock > 0}
  <2>1. k.at = "read" /\ hosted # NoProfile /\ UNCHANGED <<file, hosted, mishaps, seen>>
    BY <1>1, <1>8 DEF ReadEvents
  <2>2. IdsInv' /\ KnownStays /\ HostedInv' /\ FilesInv'
    BY <2>1, SeenStays, HostedStays, FilesStay DEF SyncInv
  <2>3. Known(got)
    BY <2>1, KnownPart DEF SyncInv, HostedInv
  <2>4. command' = [command EXCEPT ![c] =
          [at |-> "save", log |-> k.log, doc |-> k.doc, got |-> got]]
    <3>1. PICK m : /\ m = [k EXCEPT !.at = "save"]
                   /\ command' = [command EXCEPT ![c] = [m EXCEPT !.got = got]]
      BY <1>1, <1>2, <1>8 DEF ReadEvents
    <3>2. PICK x, l, d, g : /\ k = [at |-> x, log |-> l, doc |-> d, got |-> g]
                             /\ l = k.log /\ d = k.doc
      BY <1>2
    <3> HIDE DEF got
    <3>3. m = [at |-> "save", log |-> l, doc |-> d, got |-> g]
      BY <3>1, <3>2, AtStage
    <3>4. [m EXCEPT !.got = got] =
            [at |-> "save", log |-> l, doc |-> d, got |-> got]
      BY <3>3, WithReply
    <3> QED BY <3>1, <3>2, <3>4
  <2>5. CommandsInv'
    <3>1. PICK g : g = got
      OBVIOUS
    <3> HIDE DEF got
    <3> QED BY <1>1, <2>1, <2>2, <2>3, <2>4, <3>1, Going DEF Stages
  <2> QED BY <2>1, <2>2, <2>5 DEF SyncInv
<1>9. ASSUME SavePull(c) PROVE SyncInv'
  <2> DEFINE union == k.log \cup k.got
  <2>1. /\ ~Conflict(k.log, k.got) /\ Registered(union)
        /\ file' = [file EXCEPT ![DeviceOf[c]] = [log |-> union, doc |-> Rebuild(union)]]
        /\ Stop(c) /\ UNCHANGED <<hosted, mishaps, seen>>
    BY <1>1, <1>9 DEF SavePull
  <2>2. IdsInv' /\ KnownStays /\ CommandsInv'
    BY <2>1, Stopped
  <2>3. Known(union)'
    BY <1>2, <2>1, <2>2, KnownUnion DEF KnownStays
  <2>4. Genuine(union, Rebuild(union))
    BY <2>1, <2>3, RebuildGenuine DEF Known
  <2>5. FilesInv'
    <3>1. PICK u : u = union
      OBVIOUS
    <3> HIDE DEF union
    <3> QED BY <1>2, <2>1, <2>2, <2>3, <2>4, FileStep DEF SyncInv
  <2> QED BY <2>1, <2>2, <2>5, HostedStays DEF SyncInv
<1>10. ASSUME Refused(c) PROVE SyncInv'
  BY <1>10, Stopped, FilesStay, HostedStays DEF Refused, SyncInv
<1> QED BY <1>3, <1>4, <1>5, <1>6, <1>7, <1>8, <1>9, <1>10 DEF Proceed

LEMMA SyncStep == SyncInv /\ [Next]_vars => SyncInv'
<1> SUFFICES ASSUME SyncInv, [Next]_vars PROVE SyncInv'
  OBVIOUS
<1>1. ASSUME NEW c \in Commands, LoadEdit(c) \/ LoadPull(c) PROVE SyncInv'
  BY <1>1, Loading DEF LoadEdit, LoadPull, Stages
<1>2. ASSUME NEW c \in Commands, LoadPush(c) PROVE SyncInv'
  <2>1. CASE Registrations(file[DeviceOf[c]].log) = {}
    BY <1>2, <2>1, Loading DEF LoadPush, Stages
  <2>2. CASE Registrations(file[DeviceOf[c]].log) # {}
    BY <1>2, <2>2, Loading DEF LoadPush, Stages
  <2> QED BY <2>1, <2>2
<1>3. ASSUME NEW c \in Commands, Fail(c) PROVE SyncInv'
  <2>1. /\ Stop(c) /\ UNCHANGED <<file, seen>> /\ mishaps' \in 0..MaxMishaps
    BY <1>3, SyncConstants DEF Fail, SyncInv
  <2>2. IdsInv' /\ KnownStays /\ CommandsInv'
    BY <2>1, Stopped
  <2>3. HostedInv'
    <3>1. PICK log : log = command[c].log
      OBVIOUS
    <3>2. Known(log)
      BY <3>1 DEF SyncInv, CommandsInv, CommandOK
    <3>3. \/ UNCHANGED hosted
          \/ SaveProfile(log) \/ AppendEvents(log)
      BY <1>3, <3>1 DEF Fail
    <3> QED BY <2>1, <2>2, <3>2, <3>3, Posting, HostedStays DEF SyncInv
  <2> QED BY <2>1, <2>2, <2>3, FilesStay DEF SyncInv
<1>4. ASSUME DeleteHosted PROVE SyncInv'
  <2>1. UNCHANGED <<file, command, seen>> /\ mishaps' \in 0..MaxMishaps /\ HostedInv'
    BY <1>4, SyncConstants DEF DeleteHosted, SyncInv, HostedInv
  <2> QED BY <2>1, SeenStays, FilesStay, CommandsStay DEF SyncInv
<1>5. ASSUME PostBatch PROVE SyncInv'
  <2>1. PICK batch \in Batches : AppendEvents(batch)
    BY <1>5 DEF PostBatch
  <2>2. UNCHANGED <<file, command, mishaps, seen>>
    BY <1>5 DEF PostBatch
  <2>3. Known(HostedLog \cup batch)
    <3>1. Foreign(batch) /\ ~Conflict(HostedLog, batch)
      BY <2>1, SyncConstants DEF AppendEvents, Mergeable
    <3>2. Sortable(HostedLog) /\ Known(HostedLog)
      BY HostedKnown DEF SyncInv, Known
    <3>3. Sortable(HostedLog \cup batch)
      <4>1. IsFiniteSet(HostedLog \cup batch)
        BY <3>1, <3>2, FS_Union DEF Sortable, Foreign
      <4>2. \A e \in HostedLog \cup batch : EventOK(e)
        BY <3>1, <3>2 DEF Sortable, Foreign
      <4> QED BY <3>1, <4>1, <4>2, NoConflict
    <3>4. \A e \in batch : e.id \in Nat /\ e.id < FirstId
      BY <3>1 DEF Foreign, EventOK
    <3>5. FirstId \in Nat /\ NewId \in Nat /\ FirstId <= NewId
      BY SyncConstants DEF SyncInv, IdsInv, NewId
    <3> QED BY <3>2, <3>3, <3>4, <3>5 DEF Known
  <2>4. Known(batch)
    BY <2>3, KnownPart
  <2>5. IdsInv' /\ KnownStays /\ HostedInv'
    BY <2>1, <2>2, <2>4, Posting
  <2> QED BY <2>2, <2>5, FilesStay, CommandsStay DEF SyncInv
<1>6. ASSUME UNCHANGED vars PROVE SyncInv'
  BY <1>6, SeenStays, FilesStay, HostedStays, CommandsStay DEF SyncInv, vars
<1> QED BY <1>1, <1>2, <1>3, <1>4, <1>5, <1>6, ProceedStep DEF Next

LEMMA Synchronised == Spec => []SyncInv
BY Starts, SyncStep, PTL DEF Spec

-----------------------------------------------------------------------------
(* Theorems *)

LEMMA EveryCopy ==
  ASSUME SyncInv, NEW copy \in Copies
  PROVE  Known(copy.log) /\ Genuine(copy.log, copy.doc)
<1>1. CASE copy \in {file[d] : d \in Devices}
  BY <1>1 DEF SyncInv, FilesInv
<1>2. CASE hosted # NoProfile /\ copy = hosted
  BY <1>2, RebuildGenuine DEF SyncInv, HostedInv, Known
<1> QED BY <1>1, <1>2 DEF Copies

\* The document of every copy is well formed, and its clock ahead of all of
\* its settings.
THEOREM SyncTyped == Spec => []TypeOK
<1>1. SyncInv => TypeOK
  <2> SUFFICES ASSUME SyncInv PROVE TypeOK
    OBVIOUS
  <2>1. ASSUME NEW copy \in Copies PROVE DocumentOK(copy.doc)
    <3>1. Says(copy.doc, copy.log)
      BY EveryCopy, GenuineSays DEF Known
    <3> QED BY <3>1 DEF Says, Documents, Dated, DocumentOK
  <2>2. \A c \in Commands : command[c].at \in Stages
    BY DEF SyncInv, CommandsInv, CommandOK
  <2>3. Signatures \in 0..MaxSigned + 1
    BY SyncConstants DEF SyncInv, IdsInv
  <2> QED BY <2>1, <2>2, <2>3 DEF SyncInv, TypeOK, Stages
<1> QED BY <1>1, Synchronised, PTL

\* No failure, retry or race leaves a hosted document other than the replay
\* of the stored events.
THEOREM HostedStaysReplay == Spec => []HostedIsReplay
<1>1. SyncInv => HostedIsReplay
  BY DEF SyncInv, HostedInv, HostedIsReplay
<1> QED BY <1>1, Synchronised, PTL

\* Copies changed event by event and copies replayed from their logs agree on
\* every setting, and on how their dates may differ.
THEOREM FilesAreReplays == Spec => []FileIsReplay
<1>1. SyncInv => FileIsReplay
  <2> SUFFICES ASSUME SyncInv, NEW d \in Devices, Registered(file[d].log)
               PROVE  LET doc == file[d].doc
                          replay == Rebuild(file[d].log)
                      IN /\ SameButDates(doc, replay)
                         /\ doc.createdAt <= replay.createdAt
                         /\ doc.updatedAt >= replay.updatedAt
    BY DEF FileIsReplay
  <2>1. PICK f : f = file[d]
    OBVIOUS
  <2>2. Sortable(f.log) /\ Registered(f.log) /\ Genuine(f.log, f.doc)
    BY <2>1 DEF SyncInv, FilesInv, Known
  <2>3. Registrations(f.log) # {}
    BY <2>2 DEF Registered
  <2>4. /\ Later(f.doc, Rebuild(f.log))
        /\ f.doc.createdAt \in 0..Registration(f.log).time
    BY <2>2, <2>3 DEF Genuine, Unregistered
  <2>5. f.doc.createdAt <= Rebuild(f.log).createdAt
    BY <2>2, <2>4, RebuildDated
  <2>6. SameButDates(f.doc, Rebuild(f.log))
    BY <2>4, LaterInDates DEF SameButDates
  <2> QED BY <2>1, <2>4, <2>5, <2>6 DEF Later
<1> QED BY <1>1, Synchronised, PTL

\* The event that took a withdrawal back, in a copy that says so.
LEMMA TakenBack ==
  ASSUME NEW log, Sortable(log), NEW doc, Says(doc, log),
         NEW e \in log, Withdrawal(e), ~Withdrawn(doc, e)
  PROVE  \E g \in log : /\ g.do.op = e.do.op /\ g.do.on = e.do.on
                         /\ g.do.flag # e.do.flag /\ g.clock > e.clock
<1>0. /\ \A x \in log : EventOK(x) /\ x.clock \in Nat /\ x.do.flag \in BOOLEAN
      /\ WellFormed(e.do)
  BY DEF Sortable, EventOK
<1>1. CASE e.do.op = "set_consent"
  <2> DEFINE events == On(log, {"set_consent"}, e.do.on)
  <2>1. e.do.on \in Fields /\ ~e.do.flag /\ doc.consent[e.do.on]
    BY <1>0, <1>1 DEF WellFormed, Withdrawal, Withdrawn
  <2>2. \A x \in Newest(events) : x.do.flag
    BY <1>0, <2>1, ConsentMeaning DEF ConsentMeans
  <2>3. IsClock(doc.consentClock[e.do.on], events) /\ doc.consentClock[e.do.on] \in Int
    BY <2>1 DEF Says, ConsentSaid, Documents
  <2>4. e \in events
    BY <1>1 DEF On
  <2>5. PICK g \in events : g.clock = doc.consentClock[e.do.on]
    BY <2>3, <2>4 DEF IsClock
  <2>6. \A x \in events : x.clock <= g.clock
    BY <2>3, <2>5 DEF IsClock
  <2>7. g \in log /\ g.do.op = "set_consent" /\ g.do.on = e.do.on
    BY DEF On
  <2>8. g.do.flag
    BY <2>2, <2>6 DEF Newest
  <2>9. e.clock # g.clock
    BY <2>1, <2>2, <2>4, <2>6 DEF Newest
  <2> QED BY <1>0, <1>1, <2>1, <2>4, <2>6, <2>7, <2>8, <2>9
<1>2. CASE e.do.op = "set_opt_out"
  <2> DEFINE events == On(log, {"set_opt_out"}, e.do.on)
  <2>1. e.do.on \in Topics /\ e.do.flag /\ e.do.on \notin doc.optOut
    BY <1>0, <1>2 DEF WellFormed, Withdrawal, Withdrawn
  <2>2. \A x \in Newest(events) : ~x.do.flag
    BY <1>0, <2>1, OptOutMeaning DEF OptOutMeans
  <2>3. IsClock(doc.optOutClock[e.do.on], events) /\ doc.optOutClock[e.do.on] \in Int
    BY <2>1 DEF Says, OptOutSaid, Documents
  <2>4. e \in events
    BY <1>2 DEF On
  <2>5. PICK g \in events : g.clock = doc.optOutClock[e.do.on]
    BY <2>3, <2>4 DEF IsClock
  <2>6. \A x \in events : x.clock <= g.clock
    BY <2>3, <2>5 DEF IsClock
  <2>7. g \in log /\ g.do.op = "set_opt_out" /\ g.do.on = e.do.on
    BY DEF On
  <2>8. ~g.do.flag
    BY <2>2, <2>6 DEF Newest
  <2>9. e.clock # g.clock
    BY <2>1, <2>2, <2>4, <2>6 DEF Newest
  <2>10. g.do.flag # e.do.flag
    BY <2>1, <2>8, Zenon
  <2>11. g.clock > e.clock
    BY <1>0, <2>4, <2>6, <2>7, <2>9
  <2> QED BY <1>2, <2>7, <2>10, <2>11
<1> QED BY <1>1, <1>2 DEF Withdrawal

\* Whatever is edited, synced or restored where: what a device signed after
\* it had seen a permission outranks that permission in every copy.
THEOREM WithdrawalsStand == Spec => []WithdrawalStands
<1>1. SyncInv => WithdrawalStands
  <2> SUFFICES ASSUME SyncInv, NEW copy \in Copies, NEW e \in copy.log,
                      Withdrawal(e), ~Withdrawn(copy.doc, e)
               PROVE  \E g \in copy.log :
                        /\ g.do.op = e.do.op /\ g.do.on = e.do.on
                        /\ g.do.flag # e.do.flag
                        /\ g.clock > e.clock
                        /\ g \notin SeenBy(e)
    BY DEF WithdrawalStands
  <2>1. Known(copy.log) /\ Genuine(copy.log, copy.doc) /\ Sortable(copy.log)
    BY EveryCopy DEF Known
  <2>2. PICK g \in copy.log :
          /\ g.do.op = e.do.op /\ g.do.on = e.do.on
          /\ g.do.flag # e.do.flag /\ g.clock > e.clock
    BY <2>1, GenuineSays, TakenBack
  <2>3. e.clock \in Nat /\ g.clock \in Nat /\ e.id \in Nat
    BY <2>1 DEF Sortable, EventOK
  <2>4. e.clock > 0
    <3>1. e.do.op # "set_profile"
      BY DEF Withdrawal
    <3> QED BY <2>1, <3>1, FirstClock
  <2>5. ASSUME e.id \in DOMAIN seen PROVE \A f \in seen[e.id] : f.clock < e.clock
    <3>1. e.id >= FirstId
      BY <2>3, <2>5, SyncConstants DEF SyncInv, IdsInv
    <3> QED BY <2>1, <2>4, <3>1 DEF Known
  <2>6. ~(g.clock < e.clock)
    BY <2>2, <2>3
  <2>7. g \notin SeenBy(e)
    BY <2>5, <2>6 DEF SeenBy
  <2> QED BY <2>2, <2>7
<1> QED BY <1>1, Synchronised, PTL

\* A stale or repeated upload never removes a stored event.
THEOREM NothingRolledBack == Spec => NeverRolledBack
<1>1. [Next]_vars =>
        [hosted # NoProfile /\ hosted' # NoProfile =>
           hosted.log \subseteq hosted'.log]_vars
  <2> SUFFICES ASSUME Next, hosted # NoProfile, hosted' # NoProfile
               PROVE  hosted.log \subseteq hosted'.log
    OBVIOUS
  <2>1. \/ UNCHANGED hosted
        \/ hosted' = NoProfile
        \/ \E log : hosted' = Merged(HostedLog, log)
    <3>1. ASSUME NEW log, SaveProfile(log) \/ AppendEvents(log)
          PROVE  hosted' = Merged(HostedLog, log)
      BY <3>1 DEF SaveProfile, AppendEvents
    <3>2. ASSUME NEW c \in Commands, LoadEdit(c) \/ LoadPush(c) \/ LoadPull(c)
          PROVE  UNCHANGED hosted
      BY <3>2 DEF LoadEdit, LoadPush, LoadPull, Load
    <3>3. ASSUME NEW c \in Commands, Proceed(c)
          PROVE  UNCHANGED hosted \/ \E log : hosted' = Merged(HostedLog, log)
      BY <3>1, <3>3 DEF Proceed, SaveEdit, SaveSeed, SaveSigned, SaveRegistration,
         PostProfile, PostEvents, ReadEvents, SavePull, Refused
    <3>4. ASSUME NEW c \in Commands, Fail(c)
          PROVE  UNCHANGED hosted \/ \E log : hosted' = Merged(HostedLog, log)
      BY <3>1, <3>4 DEF Fail
    <3>5. PostBatch => \E log : hosted' = Merged(HostedLog, log)
      BY <3>1 DEF PostBatch
    <3> QED BY <3>2, <3>3, <3>4, <3>5 DEF Next, DeleteHosted
  <2>2. ASSUME NEW log, hosted' = Merged(HostedLog, log)
        PROVE  hosted.log \subseteq hosted'.log
    <3>1. HostedLog = hosted.log /\ hosted'.log = HostedLog \cup log
      BY <2>2 DEF Merged, HostedLog
    <3> QED BY <3>1
  <2> QED BY <2>1, <2>2
<1> QED BY <1>1, PTL DEF Spec, NeverRolledBack
=============================================================================
