------------------------------- MODULE Storage -------------------------------
(***************************************************************************)
(* The data directory of a server: its database, the artifacts its rows    *)
(* name, the lock that keeps two programs from opening it, and the tools   *)
(* of scripts/storage.mjs (backup, restore, adoption of a database without *)
(* a migration journal, removal of a dead owner's lock).                   *)
(*                                                                         *)
(* A program may end by a crash between any two of its file operations.    *)
(* The lock is a directory with the file owner.json; rmdir succeeds on an  *)
(* empty directory only.  An artifact is its digest: a file named by a     *)
(* digest that another content has is "rotten".  Schemas are releases: a   *)
(* release applies every migration of the earlier ones and its own.        *)
(***************************************************************************)
EXTENDS Integers

CONSTANTS Programs,    \* executions of the server or of a tool, each with its pid
          Digests,     \* contents of artifacts
          Releases     \* releases 1..Releases of the code

None == "none"

ASSUME StorageAssumption ==
  /\ {None, "torn"} \cap Programs = {}
  /\ Releases \in Nat

NoDb == [release |-> 0, journal |-> FALSE, rows |-> {}]
NoCopy == [db |-> NoDb, arts |-> {}, whole |-> FALSE]

VARIABLES lock,      \* dir, owner (None, "torn" or a program), recovery
          prog,      \* each program's kind, release, pc, and what it has read
          db,        \* release of the schema, journal, rows (digests of artifacts)
          disk,      \* artifact files: absent, whole, rotten
          open,      \* the run artifacts are uploaded for has not ended
          copy,      \* the backup at the destination, or NoCopy
          restored   \* the data directory restored from it, or NoCopy

storageVars == <<lock, prog, db, disk, open, copy, restored>>

Idle == [kind |-> None, release |-> 0, pc |-> "off", seen |-> None,
         up |-> [d \in Digests |-> "no"], snap |-> NoDb, arts |-> {}]

StorageInit ==
  /\ lock = [dir |-> FALSE, owner |-> None, recovery |-> FALSE]
  /\ prog = [p \in Programs |-> Idle]
  /\ \E j \in BOOLEAN : db = [release |-> 1, journal |-> j, rows |-> {}]
  /\ disk = [d \in Digests |-> "absent"]
  /\ open = TRUE /\ copy = NoCopy /\ restored = NoCopy

Running(p) == prog[p].pc \notin {"off", "ended"}
\* Where a program goes on; one that ends takes what it has read with it.
Goto(p, pc) ==
  prog' = IF pc = "ended" THEN [prog EXCEPT ![p] = [Idle EXCEPT !.pc = pc]]
          ELSE [prog EXCEPT ![p].pc = pc]
At(p, pc) == prog[p].pc = pc

\* The programs that have the database open.
Holds(p) == prog[p].pc \in {"opened", "serving", "dumped", "copied", "backed", "adopted"}

\* rmdir leaves a lock that has an entry.
NotEmpty == lock.recovery \/ lock.owner # None

-------------------------------------------------------------------------------
(* The lock: acquireDataLock and its release *)

\* A program starts: requireNew of the tools comes first, then mkdir of the lock.
StartProgram(p, kind, release) ==
  /\ At(p, "off")
  /\ kind \in {"backup", "adopt"} => copy = NoCopy
  /\ IF lock.dir
       THEN Goto(p, "ended") /\ UNCHANGED lock
       ELSE /\ prog' = [prog EXCEPT ![p].kind = kind, ![p].release = release,
                          ![p].pc = "locking"]
            /\ lock' = [lock EXCEPT !.dir = TRUE]
  /\ UNCHANGED <<db, disk, open, copy, restored>>

\* owner.json is written, in part if the program dies meanwhile; or cannot be.
WriteOwner(p) ==
  /\ At(p, "locking")
  /\ \/ lock.dir /\ lock' = [lock EXCEPT !.owner = p] /\ Goto(p, "opened")
     \/ lock.dir /\ lock' = [lock EXCEPT !.owner = "torn"] /\ Goto(p, "ended")
     \/ lock' = [lock EXCEPT !.dir = lock.dir /\ NotEmpty] /\ Goto(p, "ended")
  /\ UNCHANGED <<db, disk, open, copy, restored>>

\* close, then release: the lock must still be this program's.
ReadOwn(p) ==
  /\ Holds(p)
  /\ Goto(p, IF lock.owner = p THEN "releasing" ELSE "ended")
  /\ UNCHANGED <<lock, db, disk, open, copy, restored>>

UnlinkOwn(p) ==
  /\ At(p, "releasing") /\ Goto(p, "removing")
  /\ lock' = [lock EXCEPT !.owner = None]
  /\ UNCHANGED <<db, disk, open, copy, restored>>

RemoveDir(p) ==
  /\ At(p, "removing") /\ Goto(p, "ended")
  /\ lock' = [lock EXCEPT !.dir = NotEmpty]
  /\ UNCHANGED <<db, disk, open, copy, restored>>

Crash(p) ==
  /\ Running(p) /\ Goto(p, "ended")
  /\ UNCHANGED <<lock, db, disk, open, copy, restored>>

\* unlockStorage.  Another tool's recovery directory, or no lock, refuses it.
StartUnlock(p) ==
  /\ At(p, "off") /\ lock.dir /\ ~lock.recovery
  /\ lock' = [lock EXCEPT !.recovery = TRUE]
  /\ prog' = [prog EXCEPT ![p].kind = "unlock", ![p].pc = "reading"]
  /\ UNCHANGED <<db, disk, open, copy, restored>>

ReadOwner(p) ==
  /\ At(p, "reading")
  /\ IF lock.owner \in Programs
       THEN prog' = [prog EXCEPT ![p].seen = lock.owner, ![p].pc = "probing"]
       ELSE Goto(p, "leaving")
  /\ UNCHANGED <<lock, db, disk, open, copy, restored>>

\* Mutant: a failed probe is a dead owner, also where it lives.
MutProbeOwner(p) ==
  /\ At(p, "probing") /\ Goto(p, "dead")
  /\ UNCHANGED <<lock, db, disk, open, copy, restored>>

\* kill(pid, 0): a dead owner's pid may be another process's by now.
ProbeOwner(p) ==
  /\ At(p, "probing")
  /\ \/ Goto(p, "leaving")
     \/ ~Running(prog[p].seen) /\ Goto(p, "dead")
  /\ UNCHANGED <<lock, db, disk, open, copy, restored>>

UnlinkOwner(p) ==
  /\ At(p, "dead")
  /\ IF lock.owner = prog[p].seen
       THEN lock' = [lock EXCEPT !.owner = None] /\ Goto(p, "cleared")
       ELSE Goto(p, "leaving") /\ UNCHANGED lock
  /\ UNCHANGED <<db, disk, open, copy, restored>>

\* The lock itself goes last, and only when this tool cleared it.
RemoveRecovery(p) ==
  /\ prog[p].pc \in {"leaving", "cleared"}
  /\ lock' = [lock EXCEPT !.recovery = FALSE]
  /\ Goto(p, IF At(p, "cleared") THEN "removing" ELSE "ended")
  /\ UNCHANGED <<db, disk, open, copy, restored>>

-------------------------------------------------------------------------------
(* The server: migrate, and uploads of artifacts *)

\* Mutant: the journal is compared as far as the release's own statements go.
MutMigrate(p) ==
  /\ At(p, "opened") /\ prog[p].kind = "server" /\ db.journal
  /\ db' = [db EXCEPT !.release = IF @ < prog[p].release THEN prog[p].release ELSE @]
  /\ Goto(p, "serving")
  /\ UNCHANGED <<lock, disk, open, copy, restored>>

\* A journal of a later release or a database without one is refused.
Migrate(p) ==
  /\ At(p, "opened") /\ prog[p].kind = "server"
  /\ db.journal /\ db.release <= prog[p].release
  /\ db' = [db EXCEPT !.release = prog[p].release]
  /\ Goto(p, "serving")
  /\ UNCHANGED <<lock, disk, open, copy, restored>>

StageUpload(p, d) ==
  /\ At(p, "serving") /\ open /\ prog[p].up[d] = "no"
  /\ prog' = [prog EXCEPT ![p].up[d] = "staged"]
  /\ UNCHANGED <<lock, db, disk, open, copy, restored>>

\* The staged file takes the place of the digest's.
PublishUpload(p, d) ==
  /\ At(p, "serving") /\ prog[p].up[d] = "staged"
  /\ disk' = [disk EXCEPT ![d] = "whole"]
  /\ prog' = [prog EXCEPT ![p].up[d] = "published"]
  /\ UNCHANGED <<lock, db, open, copy, restored>>

\* Mutant: the row is written before the file has its name.
MutInsertRow(p, d) ==
  /\ At(p, "serving") /\ prog[p].up[d] \in {"staged", "published"}
  /\ db' = [db EXCEPT !.rows = IF open THEN @ \cup {d} ELSE @]
  /\ prog' = [prog EXCEPT ![p].up[d] = IF @ = "published" THEN "no" ELSE @]
  /\ UNCHANGED <<lock, disk, open, copy, restored>>

\* The row, unless the run has ended since the upload began.
InsertRow(p, d) ==
  /\ At(p, "serving") /\ prog[p].up[d] = "published"
  /\ db' = [db EXCEPT !.rows = IF open THEN @ \cup {d} ELSE @]
  /\ prog' = [prog EXCEPT ![p].up[d] = "no"]
  /\ UNCHANGED <<lock, disk, open, copy, restored>>

EndRun(p) ==
  /\ At(p, "serving") /\ open /\ open' = FALSE
  /\ UNCHANGED <<lock, prog, db, disk, copy, restored>>

-------------------------------------------------------------------------------
(* backupStorage, adoptLegacyStorage and restoreStorage *)

Dump(p) ==
  /\ At(p, "opened") /\ prog[p].kind \in {"backup", "adopt"}
  /\ prog' = [prog EXCEPT ![p].snap = db, ![p].pc = "dumped"]
  /\ UNCHANGED <<lock, db, disk, open, copy, restored>>

\* One corrupt artifact refuses the backup.
CopyArtifacts(p) ==
  /\ At(p, "dumped") /\ \A d \in Digests : disk[d] # "rotten"
  /\ prog' = [prog EXCEPT ![p].arts = {d \in Digests : disk[d] = "whole"},
                ![p].pc = "copied"]
  /\ UNCHANGED <<lock, db, disk, open, copy, restored>>

\* The manifest is complete: the backup is renamed to its destination.
PublishCopy(p) ==
  /\ At(p, "copied") /\ copy = NoCopy
  /\ copy' = [db |-> prog[p].snap, arts |-> prog[p].arts, whole |-> TRUE]
  /\ Goto(p, "backed")
  /\ UNCHANGED <<lock, db, disk, open, restored>>

\* Mutant: the journal is written first, the backup after it.
MutAdopt(p) ==
  /\ At(p, "opened") /\ prog[p].kind = "adopt"
  /\ ~db.journal /\ db.release = prog[p].release
  /\ db' = [db EXCEPT !.journal = TRUE]
  /\ Goto(p, "adopted")
  /\ UNCHANGED <<lock, disk, open, copy, restored>>

\* adoptLegacyMigrations: the schema must be exactly the release's.
Adopt(p) ==
  /\ At(p, "backed") /\ prog[p].kind = "adopt"
  /\ ~db.journal /\ db.release = prog[p].release
  /\ db' = [db EXCEPT !.journal = TRUE]
  /\ Goto(p, "adopted")
  /\ UNCHANGED <<lock, disk, open, copy, restored>>

\* Every entry is verified as it is read.
StartRestore(p) ==
  /\ At(p, "off") /\ restored = NoCopy /\ copy # NoCopy
  /\ IF copy.whole
       THEN prog' = [prog EXCEPT ![p].kind = "restore", ![p].arts = copy.arts,
                       ![p].snap = copy.db, ![p].pc = "staged"]
       ELSE Goto(p, "ended")
  /\ UNCHANGED <<lock, db, disk, open, copy, restored>>

PublishRestored(p) ==
  /\ At(p, "staged") /\ Goto(p, "ended")
  /\ restored' = IF restored # NoCopy THEN restored
                 ELSE [db |-> prog[p].snap, arts |-> prog[p].arts, whole |-> TRUE]
  /\ UNCHANGED <<lock, db, disk, open, copy>>

\* A file loses its content.
Rot ==
  /\ \/ \E d \in Digests : /\ disk[d] = "whole" /\ disk' = [disk EXCEPT ![d] = "rotten"]
                           /\ UNCHANGED copy
     \/ copy # NoCopy /\ copy' = [copy EXCEPT !.whole = FALSE] /\ UNCHANGED disk
  /\ UNCHANGED <<lock, prog, db, open, restored>>

StorageNext ==
  \/ Rot
  \/ \E p \in Programs :
       \/ \E k \in {"server", "backup", "adopt"}, r \in 1..Releases : StartProgram(p, k, r)
       \/ WriteOwner(p) \/ ReadOwn(p) \/ UnlinkOwn(p) \/ RemoveDir(p) \/ Crash(p)
       \/ StartUnlock(p) \/ ReadOwner(p) \/ ProbeOwner(p) \/ UnlinkOwner(p)
       \/ RemoveRecovery(p) \/ Migrate(p) \/ EndRun(p)
       \/ \E d \in Digests : StageUpload(p, d) \/ PublishUpload(p, d) \/ InsertRow(p, d)
       \/ Dump(p) \/ CopyArtifacts(p) \/ PublishCopy(p) \/ Adopt(p)
       \/ StartRestore(p) \/ PublishRestored(p)

StorageSpec == StorageInit /\ [][StorageNext]_storageVars

-------------------------------------------------------------------------------
(* Properties *)

\* PGlite cannot share a directory between processes: one program at a time has
\* the database open, through crashes and removals of dead locks by tools that
\* race each other, releases and new programs (acquireDataLock, unlockStorage).
OneOwner == \A p, q \in Programs : Holds(p) /\ Holds(q) => p = q

\* A server answers requests on the schema of its own release and its journal,
\* whatever other releases and the adoption tool did to the directory (migrate).
CodeFits ==
  \A p \in Programs : At(p, "serving") => db.journal /\ db.release = prog[p].release

\* Every artifact a row names has its file: in the data directory whenever a
\* server dies during an upload, in every backup that is visible, and in what is
\* restored from it (the upload route, writeBackup, restoreStorage).
CopiesComplete ==
  /\ \A d \in db.rows : disk[d] # "absent"
  /\ copy # NoCopy => copy.db.rows \subseteq copy.arts
  /\ restored # NoCopy => restored.db.rows \subseteq restored.arts

\* When a journal has been written into a legacy database, a backup of exactly
\* that database without the journal is visible (adoptLegacyStorage).
AdoptedFromBackup ==
  \A p \in Programs :
    At(p, "adopted") => copy # NoCopy /\ copy.db = [db EXCEPT !.journal = FALSE]

\* One program at a time works on the directory, on its own schema, and what is
\* kept or restored is complete, through every crash between two file operations.
StorageHolds == OneOwner /\ CodeFits /\ CopiesComplete /\ AdoptedFromBackup
=============================================================================
