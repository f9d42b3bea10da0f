------------------------- MODULE PrivateFilesProofs -------------------------
(***************************************************************************)
(* Proofs about PrivateFiles, for any paths and any number of commands     *)
(* running beside each other and of identities.  The invariant says what a *)
(* command between two of its writes has still to do, and what it has done *)
(* already: one that still has the profile to publish has published the    *)
(* key, and nobody but --overwrite takes it away again.                    *)
(***************************************************************************)
EXTENDS PrivateFiles, TLAPS

Ids == 1 .. MaxIds

\* What a command may still have to write: the two files of an identity, its
\* profile alone once the key is there, or a backup.
Todo ==
  {<<>>}
    \cup {Pair(a, b, i) : a, b \in Paths, i \in Ids}
    \cup {<<Write(a, kind, i)>> : a \in Paths, kind \in {"profile", "backup"},
                                  i \in Ids}

Commands == [source : Paths \cup {None}, overwrite : BOOLEAN, writes : Todo]

Shape ==
  /\ files \in [Paths -> Whole]
  /\ procs \in [Procs -> Commands]
  /\ staged \in [Procs -> Whole \cup {Torn}]
  /\ ids \in 0 .. MaxIds /\ others \in 0 .. MaxOthers
  /\ replaced \subseteq Ids

\* Only a command that has a file to write has begun one.
StagedIsNext ==
  \A p \in Procs : staged[p] # NoFile =>
    Writing(p) /\ staged[p] \in {Torn, Next1(p).file}

HasKey(id) == id \in replaced \/ \E key \in Paths : files[key] = File("key", id)

\* The key is published before the profile.
KeyComesFirst ==
  \A p \in Procs :
    Writing(p) /\ Next1(p).file.kind = "profile" => HasKey(Next1(p).file.id)

\* A command that read a backup writes elsewhere.
WritesElsewhere ==
  \A p \in Procs : procs[p].source # None =>
    \A i \in DOMAIN procs[p].writes : procs[p].writes[i].path # procs[p].source

FilesInv ==
  Shape /\ StagedIsNext /\ KeyComesFirst /\ WritesElsewhere /\ ProfileHasItsKey

-----------------------------------------------------------------------------

\* What is first and what is left of what a command has to write.
LEMMA TodoFacts ==
  ASSUME NEW w \in Todo
  PROVE  /\ w \in Seq(Writes) /\ Len(w) <= 2
         /\ w # <<>> =>
              /\ Head(w).path \in Paths /\ Head(w) = w[1] /\ 1 \in DOMAIN w
              /\ Head(w).file \in Whole
              /\ Head(w).file.kind \in {"key", "profile", "backup"}
              /\ Head(w).file.id \in Ids
              /\ Tail(w) \in Todo
              /\ \A i \in DOMAIN Tail(w) : i + 1 \in DOMAIN w
                                           /\ Tail(w)[i] = w[i + 1]
              /\ Tail(w) # <<>> =>
                   /\ Head(w).file.kind = "key"
                   /\ Head(Tail(w)).file.id = Head(w).file.id
<1>1. CASE w = <<>>
  BY <1>1
<1>2. ASSUME NEW a \in Paths, NEW b \in Paths, NEW i \in Ids, w = Pair(a, b, i)
      PROVE  /\ w \in Seq(Writes) /\ Len(w) = 2 /\ w # <<>>
             /\ Head(w) = w[1] /\ w[1] = Write(b, "key", i)
             /\ Tail(w) = <<Write(a, "profile", i)>>
             /\ Tail(w)[1] = w[2] /\ DOMAIN w = {1, 2} /\ DOMAIN Tail(w) = {1}
  <2>1. Write(a, "profile", i) \in Writes /\ Write(b, "key", i) \in Writes
    BY DEF Write, Writes, Whole, File, Ids
  <2> HIDE DEF Ids
  <2> QED
    BY <1>2, <2>1 DEF Pair
<1>3. ASSUME NEW a \in Paths, NEW k \in {"profile", "backup"}, NEW i \in Ids,
             w = <<Write(a, k, i)>>
      PROVE  /\ w \in Seq(Writes) /\ Len(w) = 1 /\ w # <<>>
             /\ Head(w) = w[1] /\ w[1] = Write(a, k, i)
             /\ Tail(w) = <<>> /\ DOMAIN w = {1}
  <2>1. Write(a, k, i) \in Writes
    BY DEF Write, Writes, Whole, File, Ids
  <2> QED
    BY <1>3, <2>1
<1>4. ASSUME NEW a \in Paths, NEW k \in {"key", "profile", "backup"},
             NEW i \in Ids
      PROVE  /\ Write(a, k, i).path = a /\ Write(a, k, i).file \in Whole
             /\ Write(a, k, i).file.kind = k /\ Write(a, k, i).file.id = i
  BY DEF Write, File, Whole, Ids
<1>5. CASE \E a, b \in Paths, i \in Ids : w = Pair(a, b, i)
  <2> PICK a \in Paths, b \in Paths, i \in Ids : w = Pair(a, b, i)
    BY <1>5
  <2>1. /\ w \in Seq(Writes) /\ Len(w) = 2 /\ w # <<>>
        /\ Head(w) = w[1] /\ w[1] = Write(b, "key", i)
        /\ Tail(w) = <<Write(a, "profile", i)>>
        /\ Tail(w)[1] = w[2] /\ DOMAIN w = {1, 2} /\ DOMAIN Tail(w) = {1}
    BY <1>2
  <2>2. Tail(w) \in Todo
    <3>1. <<Write(a, "profile", i)>> \in Todo
      BY DEF Todo
    <3> QED BY <2>1, <3>1
  <2>3. \A n \in DOMAIN Tail(w) : n + 1 \in DOMAIN w /\ Tail(w)[n] = w[n + 1]
    BY <2>1
  <2>4. Head(Tail(w)).file.id = i
    <3> DEFINE left == Tail(w)
               one == Write(a, "profile", i)
    <3>1. left = <<one>> /\ one.file.id = i
      BY <1>4, <2>1
    <3> HIDE DEF left, one
    <3>2. Head(left) = one
      BY <3>1
    <3> QED BY <3>1, <3>2 DEF left
  <2>5. Head(w).path \in Paths /\ Head(w).file \in Whole
        /\ Head(w).file.kind = "key" /\ Head(w).file.id = i
    BY <1>4, <2>1
  <2> QED
    BY <2>1, <2>2, <2>3, <2>4, <2>5
<1>6. CASE \E a \in Paths, k \in {"profile", "backup"}, i \in Ids :
             w = <<Write(a, k, i)>>
  <2> PICK a \in Paths, k \in {"profile", "backup"}, i \in Ids :
             w = <<Write(a, k, i)>>
    BY <1>6
  <2>1. /\ w \in Seq(Writes) /\ Len(w) = 1 /\ w # <<>>
        /\ Head(w) = w[1] /\ w[1] = Write(a, k, i)
        /\ Tail(w) = <<>> /\ DOMAIN w = {1}
    BY <1>3
  <2>2. <<>> \in Todo
    BY DEF Todo
  <2> QED
    BY <1>4, <2>1, <2>2
<1> QED BY <1>1, <1>5, <1>6 DEF Todo

LEMMA WholeFacts ==
  /\ NoFile \in Whole /\ Torn \notin Whole /\ NoFile # Torn
  /\ \A f \in Whole :
       /\ f.kind \in {"key", "profile", "backup"} =>
            f.id \in Ids /\ f = File(f.kind, f.id)
       /\ f.kind \notin {"key", "profile", "backup"} => f.id = None
  BY DEF Whole, NoFile, Torn, File, Ids

LEMMA FilesStart == FilesInit => FilesInv
<1> SUFFICES ASSUME FilesInit PROVE FilesInv
  OBVIOUS
<1>1. Ended \in Commands /\ Ended.writes = <<>> /\ Ended.source = None
  BY DEF Ended, Command, Commands, Todo
<1>2. NoFile.kind = "none"
  BY DEF NoFile, File
<1> QED
  BY <1>1, <1>2, WholeFacts, FilesConstants
  DEF FilesInit, FilesInv, Shape, StagedIsNext, KeyComesFirst, Writing,
      WritesElsewhere, ProfileHasItsKey

\* A command begins, its files as they are: what it has to write first is not
\* a profile.
LEMMA Begins ==
  ASSUME FilesInv, NEW p \in Procs, NEW c \in Commands, Start(p, c),
         ids' \in 0 .. MaxIds,
         c.writes # <<>>, Head(c.writes).file.kind # "profile",
         c.source # None =>
           \A i \in DOMAIN c.writes : c.writes[i].path # c.source
  PROVE  FilesInv'
<1>1. /\ procs' = [procs EXCEPT ![p] = c] /\ procs[p] = Ended
      /\ UNCHANGED <<files, staged, others, replaced>>
  BY DEF Start
<1>2. Ended.writes = <<>>
  BY DEF Ended, Command
<1>3. staged[p] = NoFile
  BY <1>1, <1>2 DEF FilesInv, StagedIsNext, Writing
<1>4. /\ \A q \in Procs : procs'[q] = IF q = p THEN c ELSE procs[q]
      /\ procs' \in [Procs -> Commands]
  BY <1>1 DEF FilesInv, Shape
<1>5. Shape'
  BY <1>1, <1>4 DEF FilesInv, Shape
<1>6. StagedIsNext'
  BY <1>1, <1>3, <1>4 DEF FilesInv, StagedIsNext, Writing, Next1
<1>7. KeyComesFirst'
  BY <1>1, <1>4 DEF FilesInv, KeyComesFirst, Writing, Next1, HasKey
<1>8. WritesElsewhere'
  BY <1>4 DEF FilesInv, WritesElsewhere
<1>9. ProfileHasItsKey'
  BY <1>1 DEF FilesInv, ProfileHasItsKey
<1> QED BY <1>5, <1>6, <1>7, <1>8, <1>9 DEF FilesInv

LEMMA PairFacts ==
  ASSUME NEW a \in Paths, NEW b \in Paths, NEW i \in Ids
  PROVE  /\ Pair(a, b, i) \in Todo /\ Pair(a, b, i) # <<>>
         /\ Head(Pair(a, b, i)).file.kind = "key"
         /\ \A n \in DOMAIN Pair(a, b, i) : Pair(a, b, i)[n].path \in {a, b}
<1>1. Pair(a, b, i) \in Todo
  BY DEF Todo
<1> QED BY <1>1 DEF Pair, Write, File

LEMMA CreateInv ==
  ASSUME FilesInv, NEW p \in Procs, NEW a \in Paths, NEW b \in Paths,
         Create(p, a, b)
  PROVE  FilesInv'
<1> DEFINE c == Command(None, FALSE, Pair(a, b, ids + 1))
<1>1. ids + 1 \in Ids /\ ids' = ids + 1 /\ ids' \in 0 .. MaxIds
  BY FilesConstants DEF FilesInv, Shape, Create, Ids
<1>2. Start(p, c)
  BY DEF Create
<1>3. /\ c \in Commands /\ c.source = None
      /\ c.writes = Pair(a, b, ids + 1)
  BY <1>1, PairFacts DEF Command, Commands
<1> HIDE DEF c
<1> QED BY <1>1, <1>2, <1>3, PairFacts, Begins

LEMMA BackupCreateInv ==
  ASSUME FilesInv, NEW p \in Procs, NEW a \in Paths, NEW b \in Paths,
         NEW d \in Paths, BackupCreate(p, a, b, d)
  PROVE  FilesInv'
<1> DEFINE i == files[a].id
           w == <<Write(d, "backup", i)>>
           c == Command(None, FALSE, w)
<1>1. i \in Ids
  BY WholeFacts DEF FilesInv, Shape, BackupCreate
<1>2. Start(p, c) /\ ids' = ids
  BY DEF BackupCreate
<1> HIDE DEF i
<1>3. w \in Todo /\ w # <<>> /\ Head(w).file.kind = "backup"
  BY <1>1 DEF Todo, Write, File
<1> HIDE DEF w
<1>4. c \in Commands /\ c.source = None /\ c.writes = w
  BY <1>3 DEF Command, Commands
<1> HIDE DEF c
<1>5. ids' \in 0 .. MaxIds
  BY <1>2 DEF FilesInv, Shape
<1> QED BY <1>2, <1>3, <1>4, <1>5, Begins

LEMMA BackupRestoreInv ==
  ASSUME FilesInv, NEW p \in Procs, NEW a \in Paths, NEW b \in Paths,
         NEW d \in Paths, NEW o \in BOOLEAN, BackupRestore(p, a, b, d, o)
  PROVE  FilesInv'
<1> DEFINE i == files[a].id
           w == Pair(b, d, i)
           c == Command(a, o, w)
<1>1. i \in Ids
  BY WholeFacts DEF FilesInv, Shape, BackupRestore
<1>2. Start(p, c) /\ ids' = ids /\ a \notin {b, d}
  BY DEF BackupRestore, Distinct
<1> HIDE DEF i
<1>3. /\ w \in Todo /\ w # <<>> /\ Head(w).file.kind = "key"
      /\ \A n \in DOMAIN w : w[n].path # a
  BY <1>1, <1>2, PairFacts
<1> HIDE DEF w
<1>4. c \in Commands /\ c.source = a /\ c.writes = w
  BY <1>3 DEF Command, Commands
<1> HIDE DEF c
<1>5. ids' \in 0 .. MaxIds
  BY <1>2 DEF FilesInv, Shape
<1> QED BY <1>2, <1>3, <1>4, <1>5, Begins

\* A command ends, at its last write or before, and its staged file is gone.
LEMMA Ends ==
  ASSUME FilesInv, NEW p \in Procs, procs' = [procs EXCEPT ![p] = Ended],
         staged' = [staged EXCEPT ![p] = NoFile],
         UNCHANGED <<files, ids, others, replaced>>
  PROVE  FilesInv'
<1>1. Ended \in Commands /\ Ended.writes = <<>> /\ Ended.source = None
  BY DEF Ended, Command, Commands, Todo
<1>2. /\ \A q \in Procs : procs'[q] = IF q = p THEN Ended ELSE procs[q]
      /\ \A q \in Procs : staged'[q] = IF q = p THEN NoFile ELSE staged[q]
      /\ procs' \in [Procs -> Commands]
      /\ staged' \in [Procs -> Whole \cup {Torn}]
  BY <1>1, WholeFacts DEF FilesInv, Shape
<1>3. Shape'
  BY <1>2 DEF FilesInv, Shape
<1>4. StagedIsNext'
  BY <1>2 DEF FilesInv, StagedIsNext, Writing, Next1
<1>5. KeyComesFirst'
  BY <1>1, <1>2 DEF FilesInv, KeyComesFirst, Writing, Next1, HasKey
<1>6. WritesElsewhere' /\ ProfileHasItsKey'
  BY <1>1, <1>2 DEF FilesInv, WritesElsewhere, ProfileHasItsKey
<1> QED BY <1>3, <1>4, <1>5, <1>6 DEF FilesInv

LEMMA StageInv ==
  ASSUME FilesInv, NEW p \in Procs, Stage(p)
  PROVE  FilesInv'
<1>0. /\ staged[p] = NoFile /\ Writing(p)
      /\ UNCHANGED <<files, ids, others, replaced>>
      /\ staged \in [Procs -> Whole \cup {Torn}]
  BY DEF Stage, FilesInv, Shape
<1>1. CASE IsLink(Next1(p).path)
  <2>1. procs' = [procs EXCEPT ![p] = Ended]
        /\ staged' = [staged EXCEPT ![p] = NoFile]
    BY <1>0, <1>1 DEF Stage
  <2> QED BY <1>0, <2>1, Ends
<1>2. CASE ~IsLink(Next1(p).path)
  <2>1. staged' = [staged EXCEPT ![p] = Torn] /\ procs' = procs
    BY <1>2 DEF Stage
  <2> QED
    BY <1>0, <2>1
    DEF FilesInv, Shape, StagedIsNext, KeyComesFirst, WritesElsewhere,
        ProfileHasItsKey, Writing, Next1, HasKey
<1> QED BY <1>1, <1>2

LEMMA FlushInv ==
  ASSUME FilesInv, NEW p \in Procs, Flush(p)
  PROVE  FilesInv'
<1>1. /\ staged[p] = Torn /\ staged' = [staged EXCEPT ![p] = Next1(p).file]
      /\ UNCHANGED <<files, procs, ids, others, replaced>>
  BY DEF Flush
<1>2. Writing(p) /\ procs[p].writes \in Todo
  BY <1>1, WholeFacts DEF FilesInv, StagedIsNext, Shape, Commands
<1>3. Next1(p).file \in Whole
  BY <1>2, TodoFacts DEF Writing, Next1
<1>4. /\ \A q \in Procs : staged'[q] = IF q = p THEN Next1(p).file
                                       ELSE staged[q]
      /\ staged' \in [Procs -> Whole \cup {Torn}]
  BY <1>1, <1>3 DEF FilesInv, Shape
<1>5. Shape'
  BY <1>1, <1>4 DEF FilesInv, Shape
<1>6. StagedIsNext'
  BY <1>1, <1>2, <1>4 DEF FilesInv, StagedIsNext, Writing, Next1
<1> QED
  BY <1>1, <1>5, <1>6
  DEF FilesInv, KeyComesFirst, WritesElsewhere, ProfileHasItsKey, Writing,
      Next1, HasKey

\* The file published is whole, and it is the only one that changes.
LEMMA Publishes ==
  ASSUME Shape, NEW p \in Procs, Publish(p), Free(p)
  PROVE  LET path == Next1(p).path
             file == Next1(p).file
         IN /\ path \in Paths /\ file \in Whole
            /\ file.kind \in {"key", "profile", "backup"} /\ file.id \in Ids
            /\ files' = [files EXCEPT ![path] = file]
            /\ \A x \in Paths : files'[x] = IF x = path THEN file ELSE files[x]
            /\ replaced' = IF files[path] \in {file, NoFile} THEN replaced
                           ELSE replaced \cup ({files[path].id} \ {None})
<1>1. Writing(p) /\ procs[p].writes \in Todo /\ staged[p] = Next1(p).file
  BY DEF Publish, Ready, Shape, Commands
<1> QED BY <1>1, TodoFacts DEF Publish, Writing, Next1, Shape

\* Nobody loses a key but through --overwrite.
LEMMA KeysStay ==
  ASSUME Shape, NEW p \in Procs, Publish(p), Free(p),
         NEW id \in Ids, HasKey(id)
  PROVE  HasKey(id)'
<1> DEFINE path == Next1(p).path
           file == Next1(p).file
<1>1. /\ path \in Paths /\ replaced \subseteq replaced'
      /\ \A x \in Paths : files'[x] = IF x = path THEN file ELSE files[x]
      /\ replaced' = IF files[path] \in {file, NoFile} THEN replaced
                     ELSE replaced \cup ({files[path].id} \ {None})
  BY Publishes
<1> HIDE DEF path, file
<1>2. CASE id \in replaced
  BY <1>1, <1>2 DEF HasKey
<1>3. ASSUME NEW key \in Paths, files[key] = File("key", id)
      PROVE  HasKey(id)'
  <2>1. File("key", id).id = id /\ File("key", id) # NoFile /\ id # None
    BY FilesConstants DEF File, NoFile, Ids
  <2>2. CASE key # path \/ files[path] = file
    BY <1>1, <1>3, <2>2 DEF HasKey
  <2>3. CASE key = path /\ files[path] # file
    BY <1>1, <1>3, <2>1, <2>3 DEF HasKey
  <2> QED BY <2>2, <2>3
<1> QED BY <1>2, <1>3 DEF HasKey

LEMMA PublishInv ==
  ASSUME FilesInv, NEW p \in Procs, Publish(p)
  PROVE  FilesInv'
<1> DEFINE path == Next1(p).path
           file == Next1(p).file
           w == procs[p].writes
<1>0. /\ Shape /\ w \in Todo /\ w # <<>> /\ Writing(p)
      /\ staged' = [staged EXCEPT ![p] = NoFile] /\ UNCHANGED <<ids, others>>
  BY DEF Publish, Ready, FilesInv, Shape, Commands, Writing
<1>1. CASE ~Free(p)
  <2>1. procs' = [procs EXCEPT ![p] = Ended] /\ UNCHANGED <<files, replaced>>
    BY <1>1 DEF Publish
  <2> QED BY <1>0, <2>1, Ends
<1>2. CASE Free(p)
  <2>1. /\ path \in Paths /\ file \in Whole
        /\ file.kind \in {"key", "profile", "backup"} /\ file.id \in Ids
        /\ \A x \in Paths : files'[x] = IF x = path THEN file ELSE files[x]
        /\ replaced' = IF files[path] \in {file, NoFile} THEN replaced
                       ELSE replaced \cup ({files[path].id} \ {None})
        /\ files' \in [Paths -> Whole]
    BY <1>0, <1>2, Publishes DEF Shape
  <2>2. procs' = [procs EXCEPT ![p].writes = Tail(@)]
    BY <1>2 DEF Publish
  <2>3. /\ \A q \in Procs : q # p => procs'[q] = procs[q]
        /\ procs'[p] = [procs[p] EXCEPT !.writes = Tail(w)]
        /\ procs'[p].writes = Tail(w) /\ procs'[p].source = procs[p].source
        /\ Tail(w) \in Todo /\ procs' \in [Procs -> Commands]
    <3>1. Tail(w) \in Todo
      BY <1>0, TodoFacts
    <3> HIDE DEF w
    <3> QED BY <1>0, <2>2, <3>1 DEF Shape, Commands, w
  <2>4. /\ \A q \in Procs : staged'[q] = IF q = p THEN NoFile ELSE staged[q]
        /\ staged' \in [Procs -> Whole \cup {Torn}]
    BY <1>0, WholeFacts DEF Shape
  <2>5. replaced' \subseteq Ids
    <3>1. \A f \in Whole : f.id \in Ids \cup {None}
      BY WholeFacts
    <3> HIDE DEF path, file
    <3> QED BY <1>0, <2>1, <3>1 DEF Shape
  <2>6. Shape'
    BY <1>0, <2>1, <2>3, <2>4, <2>5 DEF Shape
  <2>7. StagedIsNext'
    BY <2>3, <2>4 DEF FilesInv, StagedIsNext, Writing, Next1
  <2>8. \A id \in Ids : HasKey(id) => HasKey(id)'
    BY <1>0, <1>2, KeysStay
  <2>9. KeyComesFirst'
    <3> SUFFICES ASSUME NEW q \in Procs, procs'[q].writes # <<>>,
                        Head(procs'[q].writes).file.kind = "profile",
                        NEW id, id = Head(procs'[q].writes).file.id
                 PROVE  HasKey(id)'
      BY DEF KeyComesFirst, Writing, Next1
    <3>1. CASE q = p
      <4>1. file.kind = "key" /\ Head(Tail(w)).file.id = file.id
        BY <1>0, <2>3, <3>1, TodoFacts DEF Next1
      <4>2. file = File("key", file.id)
        BY <2>1, <4>1, WholeFacts
      <4>3. files'[path] = File("key", file.id)
        BY <2>1, <4>2
      <4>4. id = file.id
        BY <2>3, <3>1, <4>1
      <4> QED BY <2>1, <4>3, <4>4 DEF HasKey
    <3>2. CASE q # p
      <4>1. procs'[q] = procs[q] /\ procs[q].writes \in Todo
        BY <1>0, <2>3, <3>2 DEF Shape, Commands
      <4>2. HasKey(Head(procs[q].writes).file.id)
        BY <4>1 DEF FilesInv, KeyComesFirst, Writing, Next1
      <4>3. Head(procs[q].writes).file.id \in Ids
        BY <4>1, TodoFacts
      <4> QED BY <2>8, <4>1, <4>2, <4>3
    <3> QED BY <3>1, <3>2
  <2>10. WritesElsewhere'
    <3> SUFFICES ASSUME NEW q \in Procs, procs'[q].source # None,
                        NEW i \in DOMAIN procs'[q].writes
                 PROVE  procs'[q].writes[i].path # procs'[q].source
      BY DEF WritesElsewhere
    <3>1. CASE q = p
      <4>1. i + 1 \in DOMAIN w /\ Tail(w)[i] = w[i + 1]
        BY <1>0, <2>3, <3>1, TodoFacts
      <4>2. procs'[q].writes = Tail(w) /\ procs'[q].source = procs[p].source
        BY <2>3, <3>1
      <4>3. procs[p].source # None => w[i + 1].path # procs[p].source
        BY <4>1 DEF FilesInv, WritesElsewhere
      <4> QED BY <4>1, <4>2, <4>3
    <3>2. CASE q # p
      BY <2>3, <3>2 DEF FilesInv, WritesElsewhere
    <3> QED BY <3>1, <3>2
  <2>11. ProfileHasItsKey'
    <3> SUFFICES ASSUME NEW x \in Paths, files'[x].kind = "profile",
                        NEW id, id = files'[x].id
                 PROVE  HasKey(id)'
      BY DEF ProfileHasItsKey, HasKey
    <3>1. CASE x = path
      <4>1. HasKey(file.id)
        BY <1>0, <2>1, <3>1 DEF FilesInv, KeyComesFirst
      <4> QED BY <2>1, <2>8, <3>1, <4>1
    <3>2. CASE x # path
      <4>1. files'[x] = files[x] /\ files[x].id \in Ids
        BY <1>0, <2>1, <3>2, WholeFacts DEF Shape
      <4>2. HasKey(files[x].id)
        BY <4>1 DEF FilesInv, ProfileHasItsKey, HasKey
      <4> QED BY <2>8, <4>1, <4>2
    <3> QED BY <3>1, <3>2
  <2> QED BY <2>6, <2>7, <2>9, <2>10, <2>11 DEF FilesInv
<1> QED BY <1>1, <1>2

\* Another program only makes files where there are none.
LEMMA OtherInv ==
  ASSUME FilesInv, NEW path \in Paths, NEW kind \in {"link", "other"},
         Other(path, kind)
  PROVE  FilesInv'
<1> DEFINE file == File(kind, None)
<1>1. /\ others' = others + 1 /\ others < MaxOthers /\ files[path] = NoFile
      /\ files' = [files EXCEPT ![path] = file]
      /\ UNCHANGED <<procs, staged, ids, replaced>>
  BY DEF Other, Exists
<1>2. /\ file \in Whole /\ file.kind # "profile" /\ NoFile # File("key", None)
      /\ \A id : NoFile # File("key", id)
  BY DEF File, Whole, NoFile
<1> HIDE DEF file
<1>3. /\ \A x \in Paths : files'[x] = IF x = path THEN file ELSE files[x]
      /\ files' \in [Paths -> Whole]
  BY <1>1, <1>2 DEF FilesInv, Shape
<1>4. \A id : HasKey(id) => HasKey(id)'
  BY <1>1, <1>2, <1>3 DEF HasKey
<1>5. Shape'
  BY <1>1, <1>3, FilesConstants DEF FilesInv, Shape
<1>6. StagedIsNext' /\ WritesElsewhere'
  BY <1>1 DEF FilesInv, StagedIsNext, WritesElsewhere, Writing, Next1
<1>7. KeyComesFirst'
  BY <1>1, <1>4 DEF FilesInv, KeyComesFirst, Writing, Next1
<1>8. ProfileHasItsKey'
  <2> SUFFICES ASSUME NEW x \in Paths, files'[x].kind = "profile",
                      NEW id, id = files'[x].id
               PROVE  HasKey(id)'
    BY DEF ProfileHasItsKey, HasKey
  <2>1. files'[x] = files[x]
    BY <1>2, <1>3
  <2> QED BY <1>4, <2>1 DEF FilesInv, ProfileHasItsKey, HasKey
<1> QED BY <1>5, <1>6, <1>7, <1>8 DEF FilesInv

LEMMA ExitOrKillInv ==
  ASSUME FilesInv, NEW p \in Procs, Exit(p) \/ Kill(p)
  PROVE  FilesInv'
<1>1. CASE Exit(p)
  <2>1. staged[p] = NoFile /\ staged \in [Procs -> Whole \cup {Torn}]
    BY <1>1 DEF Exit, FilesInv, StagedIsNext, Shape
  <2>2. staged' = [staged EXCEPT ![p] = NoFile]
    BY <1>1, <2>1 DEF Exit
  <2> QED BY <1>1, <2>2, Ends DEF Exit
<1>2. CASE Kill(p)
  BY <1>2, Ends DEF Kill
<1> QED BY <1>1, <1>2

LEMMA FilesStep == FilesInv /\ [FilesNext]_filesVars => FilesInv'
<1> SUFFICES ASSUME FilesInv, [FilesNext]_filesVars PROVE FilesInv'
  OBVIOUS
<1>1. ASSUME NEW p \in Procs, CommandNext(p) PROVE FilesInv'
  BY <1>1, StageInv, FlushInv, PublishInv, ExitOrKillInv, CreateInv,
     BackupCreateInv, BackupRestoreInv
  DEF CommandNext
<1>2. CASE UNCHANGED filesVars
  BY <1>2
  DEF filesVars, FilesInv, Shape, StagedIsNext, KeyComesFirst,
      WritesElsewhere, ProfileHasItsKey, Writing, Next1, HasKey
<1> QED BY <1>1, <1>2, OtherInv DEF FilesNext

LEMMA FilesInvariance == FilesSpec => []FilesInv
BY FilesStart, FilesStep, PTL DEF FilesSpec

-----------------------------------------------------------------------------

\* A file changes only when a command publishes there, or where there is none.
LEMMA FilesChange ==
  ASSUME FilesInv, [FilesNext]_filesVars
  PROVE  \/ UNCHANGED files
         \/ \E p \in Procs :
              /\ Publish(p) /\ Free(p) /\ Writing(p)
              /\ procs'[p] # procs[p] =>
                   \A q \in Procs : q # p => procs'[q] = procs[q]
              /\ \A x \in Paths : x # Next1(p).path => files'[x] = files[x]
         \/ /\ procs' = procs
            /\ \A x \in Paths : Exists(x) => files'[x] = files[x]
<1>1. ASSUME NEW p \in Procs, Publish(p), Free(p)
      PROVE  /\ Writing(p)
             /\ \A q \in Procs : q # p => procs'[q] = procs[q]
             /\ \A x \in Paths : x # Next1(p).path => files'[x] = files[x]
  BY <1>1, Publishes DEF Publish, Ready, FilesInv, Shape
<1>2. ASSUME NEW path \in Paths, NEW kind \in {"link", "other"},
             Other(path, kind)
      PROVE  /\ procs' = procs
             /\ \A x \in Paths : Exists(x) => files'[x] = files[x]
  BY <1>2 DEF Other, Exists, FilesInv, Shape
<1>3. ASSUME NEW p \in Procs, CommandNext(p), ~(Publish(p) /\ Free(p))
      PROVE  UNCHANGED files
  BY <1>3
  DEF CommandNext, Stage, Flush, Publish, Exit, Kill, Create, BackupCreate,
      BackupRestore, Start
<1> QED BY <1>1, <1>2, <1>3 DEF FilesNext, filesVars

\* Whatever is at a path is whole, wherever any number of commands stop
\* (write_private_file).
THEOREM FilesTyped == FilesSpec => []FilesTypeOK
<1>1. FilesInv => FilesTypeOK
  <2> SUFFICES ASSUME FilesInv PROVE FilesTypeOK
    OBVIOUS
  <2>1. ASSUME NEW p \in Procs
        PROVE  /\ procs[p].source \in Paths \cup {None}
               /\ procs[p].overwrite \in BOOLEAN
               /\ procs[p].writes \in Seq(Writes) /\ Len(procs[p].writes) <= 2
    BY TodoFacts DEF FilesInv, Shape, Commands
  <2> QED BY <2>1 DEF FilesInv, Shape, FilesTypeOK, Ids
<1> QED BY <1>1, FilesInvariance, PTL

\* For any number of identities, paths and commands: a profile on the disk
\* has its key on the disk (command_create, command_backup_restore).
THEOREM KeyBesideProfile == FilesSpec => []ProfileHasItsKey
<1>1. FilesInv => ProfileHasItsKey
  BY DEF FilesInv
<1> QED BY <1>1, FilesInvariance, PTL

\* No command told otherwise replaces a file, whatever appears between its
\* check and its publication (write_private_file).
THEOREM OnlyOverwriteReplaces == FilesSpec => NothingIsClobbered
<1>1. ASSUME FilesInv, [FilesNext]_filesVars, NEW path \in Paths,
             Exists(path), files'[path] # files[path]
      PROVE  \E p \in Procs : procs[p].overwrite /\ Writing(p)
                              /\ Next1(p).path = path
  BY <1>1, FilesChange DEF Free
<1>2. FilesInv /\ [FilesNext]_filesVars =>
        [\A path \in Paths :
           Exists(path) /\ files'[path] # files[path] =>
             \E p \in Procs : procs[p].overwrite /\ Writing(p)
                              /\ Next1(p).path = path]_filesVars
  BY <1>1
<1> QED BY <1>2, FilesInvariance, PTL DEF FilesSpec, NothingIsClobbered

\* A restore never writes to the backup it reads (command_backup_restore).
THEOREM BackupOutlivesRestore == FilesSpec => InputBackupIntact
<1>1. ASSUME FilesInv, [FilesNext]_filesVars, NEW p \in Procs,
             procs[p].source # None, procs'[p] # procs[p]
      PROVE  files'[procs[p].source] = files[procs[p].source]
  <2>1. procs[p].source \in Paths /\ procs[p].writes \in Todo
    BY <1>1 DEF FilesInv, Shape, Commands
  <2>2. CASE UNCHANGED files
    BY <2>2
  <2>3. ASSUME NEW q \in Procs, Publish(q), Free(q), Writing(q),
               \A x \in Paths : x # Next1(q).path => files'[x] = files[x]
        PROVE  files'[procs[p].source] = files[procs[p].source]
    <3>1. q = p
      BY <1>1, <2>3 DEF Publish, FilesInv, Shape
    <3>2. Next1(p).path # procs[p].source
      BY <1>1, <2>1, <2>3, <3>1, TodoFacts
      DEF FilesInv, WritesElsewhere, Writing, Next1
    <3> QED BY <2>1, <2>3, <3>1, <3>2
  <2> QED BY <1>1, <2>2, <2>3, FilesChange
<1>2. FilesInv /\ [FilesNext]_filesVars =>
        [\A p \in Procs :
           procs[p].source # None /\ procs'[p] # procs[p] =>
             files'[procs[p].source] = files[procs[p].source]]_filesVars
  BY <1>1
<1> QED BY <1>2, FilesInvariance, PTL DEF FilesSpec, InputBackupIntact
=============================================================================
