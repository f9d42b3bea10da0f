---------------------------- MODULE PrivateFiles ----------------------------
(***************************************************************************)
(* The files of an identity on its owner's disk: create, backup-create and *)
(* backup-restore (cli.py), each of which writes its files one after       *)
(* another with write_private_file (crypto.py): staged beside the target,  *)
(* then published in one step.  Commands run beside each other and beside  *)
(* other programs, and are killed at any point; files are on one local     *)
(* file system that loses nothing it has flushed.  A path stands for the   *)
(* file it resolves to; staged files have names of their own, and one left *)
(* by a killed command is never read again, so it is not kept here.        *)
(***************************************************************************)
EXTENDS Naturals, Sequences

CONSTANTS Paths,
          Procs,      \* commands running
          None,       \* no file, no command
          MaxIds, MaxOthers   \* bounds: identities made, files of others

ASSUME FilesConstants == MaxIds \in Nat /\ MaxOthers \in Nat /\ None \notin Nat

VARIABLES files,      \* what is at each path
          procs,      \* what each command has still to do
          staged,     \* its staged file
          ids,        \* identities made so far
          others,     \* files made by other programs so far
          replaced    \* identities a file of which --overwrite replaced with
                      \* another

filesVars == <<files, procs, staged, ids, others, replaced>>

File(kind, id) == [kind |-> kind, id |-> id]
NoFile == File("none", None)
Torn == File("torn", None)

Whole == {NoFile, File("link", None), File("other", None)} \cup
           [kind : {"key", "profile", "backup"}, id : 1 .. MaxIds]

Exists(path) == files[path] # NoFile
IsLink(path) == files[path].kind = "link"

\* A command: the files to write, in order, and where it read a backup.
Command(source, overwrite, writes) ==
  [source |-> source, overwrite |-> overwrite, writes |-> writes]

Ended == Command(None, FALSE, <<>>)

FilesInit ==
  /\ files = [path \in Paths |-> NoFile]
  /\ procs = [p \in Procs |-> Ended]
  /\ staged = [p \in Procs |-> NoFile]
  /\ ids = 0 /\ others = 0 /\ replaced = {}

-----------------------------------------------------------------------------
(* The commands, up to their first write *)

Write(path, kind, id) == [path |-> path, file |-> File(kind, id)]

\* Mutant of Pair: the profile is saved first.
PairProfileFirst(profilePath, keyPath, id) ==
  <<Write(profilePath, "profile", id), Write(keyPath, "key", id)>>

\* An identity's files: the key is saved first.
Pair(profilePath, keyPath, id) ==
  <<Write(keyPath, "key", id), Write(profilePath, "profile", id)>>

Start(p, command) ==
  /\ procs[p] = Ended
  /\ procs' = [procs EXCEPT ![p] = command]
  /\ UNCHANGED <<files, staged, others, replaced>>

\* command_create
Create(p, profilePath, keyPath) ==
  /\ profilePath # keyPath
  /\ ~Exists(profilePath) /\ ~Exists(keyPath)
  /\ ids < MaxIds /\ ids' = ids + 1
  /\ Start(p, Command(None, FALSE, Pair(profilePath, keyPath, ids + 1)))

\* command_backup_create: of a profile with its own key.
BackupCreate(p, profilePath, keyPath, backupPath) ==
  /\ files[profilePath].kind = "profile"
  /\ files[keyPath] = File("key", files[profilePath].id)
  /\ UNCHANGED ids
  /\ Start(p, Command(None, FALSE,
       <<Write(backupPath, "backup", files[profilePath].id)>>))

\* Mutant of Distinct: the backup may be a destination.
DistinctTargets(backupPath, profilePath, keyPath) == profilePath # keyPath

Distinct(backupPath, profilePath, keyPath) ==
  profilePath # keyPath /\ backupPath \notin {profilePath, keyPath}

\* command_backup_restore
BackupRestore(p, backupPath, profilePath, keyPath, overwrite) ==
  /\ files[backupPath].kind = "backup"
  /\ Distinct(backupPath, profilePath, keyPath)
  /\ \A path \in {profilePath, keyPath} :
       ~IsLink(path) /\ (Exists(path) => overwrite)
  /\ UNCHANGED ids
  /\ Start(p, Command(backupPath, overwrite,
       Pair(profilePath, keyPath, files[backupPath].id)))

-----------------------------------------------------------------------------
(* write_private_file *)

Next1(p) == Head(procs[p].writes)

Writing(p) == procs[p].writes # <<>>

\* Nothing is saved through a link; else a fresh staged file is begun.
Stage(p) ==
  /\ Writing(p) /\ staged[p] = NoFile
  /\ IF IsLink(Next1(p).path)
     THEN procs' = [procs EXCEPT ![p] = Ended] /\ UNCHANGED staged
     ELSE staged' = [staged EXCEPT ![p] = Torn] /\ UNCHANGED procs
  /\ UNCHANGED <<files, ids, others, replaced>>

\* Written, flushed and closed.
Flush(p) ==
  /\ staged[p] = Torn
  /\ staged' = [staged EXCEPT ![p] = Next1(p).file]
  /\ UNCHANGED <<files, procs, ids, others, replaced>>

\* Mutant of Ready: published before it is written out.
ReadyTorn(p) == staged[p] # NoFile

Ready(p) == Writing(p) /\ staged[p] = Next1(p).file

\* Mutant of Free: what was checked before is not checked again.
FreeBefore(p) == TRUE

\* os.replace takes what is there; os.link refuses it.
Free(p) == procs[p].overwrite \/ ~Exists(Next1(p).path)

Publish(p) ==
  LET path == Next1(p).path IN
  /\ Ready(p)
  /\ staged' = [staged EXCEPT ![p] = NoFile]
  /\ IF Free(p)
     THEN /\ files' = [files EXCEPT ![path] = staged[p]]
          /\ replaced' = IF files[path] \in {staged[p], NoFile}
                         THEN replaced
                         ELSE replaced \cup ({files[path].id} \ {None})
          /\ procs' = [procs EXCEPT ![p].writes = Tail(@)]
     ELSE /\ procs' = [procs EXCEPT ![p] = Ended]
          /\ UNCHANGED <<files, replaced>>
  /\ UNCHANGED <<ids, others>>

Exit(p) ==
  /\ procs[p] # Ended /\ ~Writing(p)
  /\ procs' = [procs EXCEPT ![p] = Ended]
  /\ UNCHANGED <<files, staged, ids, others, replaced>>

\* The command is killed, or a write fails.
Kill(p) ==
  /\ Writing(p)
  /\ procs' = [procs EXCEPT ![p] = Ended]
  /\ staged' = [staged EXCEPT ![p] = NoFile]
  /\ UNCHANGED <<files, ids, others, replaced>>

\* Another program makes a file or a link.
Other(path, kind) ==
  /\ others < MaxOthers /\ others' = others + 1
  /\ ~Exists(path)
  /\ files' = [files EXCEPT ![path] = File(kind, None)]
  /\ UNCHANGED <<procs, staged, ids, replaced>>

-----------------------------------------------------------------------------

CommandNext(p) ==
  \/ Stage(p) \/ Flush(p) \/ Publish(p) \/ Exit(p) \/ Kill(p)
  \/ \E a, b \in Paths : Create(p, a, b)
  \/ \E a, b, c \in Paths :
       \/ BackupCreate(p, a, b, c)
       \/ \E overwrite \in BOOLEAN : BackupRestore(p, a, b, c, overwrite)

FilesNext ==
  \/ \E p \in Procs : CommandNext(p)
  \/ \E path \in Paths, kind \in {"link", "other"} : Other(path, kind)

FilesSpec == FilesInit /\ [][FilesNext]_filesVars

-----------------------------------------------------------------------------
(* Properties *)

Writes == [path : Paths, file : Whole]

\* Whatever is at a path is whole, wherever a command stops
\* (write_private_file).
FilesTypeOK ==
  /\ files \in [Paths -> Whole]
  /\ staged \in [Procs -> Whole \cup {Torn}]
  /\ ids \in 0 .. MaxIds /\ others \in 0 .. MaxOthers
  /\ replaced \subseteq 1 .. MaxIds
  /\ \A p \in Procs :
       /\ procs[p].source \in Paths \cup {None}
       /\ procs[p].overwrite \in BOOLEAN
       /\ procs[p].writes \in Seq(Writes) /\ Len(procs[p].writes) <= 2

\* Only a restore told to overwrite replaces a file, one that appears between
\* the check and the publication included (write_private_file).
NothingIsClobbered ==
  [][\A path \in Paths :
       Exists(path) /\ files'[path] # files[path] =>
         \E p \in Procs : procs[p].overwrite /\ Writing(p)
                          /\ Next1(p).path = path]_filesVars

\* A profile on the disk has its key on the disk, wherever create or a
\* restore stops, unless --overwrite replaced a file of that identity
\* (command_create, command_backup_restore).
ProfileHasItsKey ==
  \A path \in Paths :
    files[path].kind = "profile" /\ files[path].id \notin replaced =>
      \E key \in Paths : files[key] = File("key", files[path].id)

\* A restore leaves the backup it reads alone, so that one that stopped half
\* way can be run again (command_backup_restore).
InputBackupIntact ==
  [][\A p \in Procs :
       procs[p].source # None /\ procs'[p] # procs[p] =>
         files'[procs[p].source] = files[procs[p].source]]_filesVars
=============================================================================
