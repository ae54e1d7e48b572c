---------------------------- MODULE StorageProofs ----------------------------
(* Theorems about parts of the server that share no state: the data directory   *)
(* (Storage), for any number of programs, artifacts and releases, the records   *)
(* of a team (Records), for any number of requests and restarts, and the turns, *)
(* discussions and consents of assistants (Turns), for any number of each.      *)
EXTENDS Storage, Records, Turns,
        SequenceTheorems, FiniteSetTheorems, WellFoundedInduction, TLAPS

\* Where a program has the lock, or is about to remove it: from mkdir to rmdir,
\* and in a tool from the removal of a dead owner on.
HasLock == {"locking", "opened", "serving", "dumped", "copied", "backed", "adopted",
            "releasing", "cleared", "removing"}
InDatabase == {"opened", "serving", "dumped", "copied", "backed", "adopted"}
Relies == {"serving", "dumped", "copied", "backed", "adopted", "staged"}
PCs == HasLock \cup {"off", "ended", "reading", "probing", "leaving", "dead", "staged"}

Locks == [dir : BOOLEAN, owner : Programs \cup {None, "torn"}, recovery : BOOLEAN]
Schemas == [release : Nat, journal : BOOLEAN, rows : SUBSET Digests]
Copies == [db : Schemas, arts : SUBSET Digests, whole : BOOLEAN]
States == [kind : {None, "server", "backup", "adopt", "unlock", "restore"}, release : Nat,
           pc : PCs, seen : Programs \cup {None},
           up : [Digests -> {"no", "staged", "published"}],
           snap : Schemas, arts : SUBSET Digests]

StorageTypeOK ==
  /\ lock \in Locks
  /\ prog \in [Programs -> States]
  /\ db \in Schemas
  /\ disk \in [Digests -> {"absent", "whole", "rotten"}]
  /\ open \in BOOLEAN
  /\ copy \in Copies /\ restored \in Copies

-------------------------------------------------------------------------------
(* The inductive invariant *)

\* One program at a time has the lock, which is there; owner.json names it from
\* the end of its write until its removal, and nobody otherwise.
OneLock ==
  /\ \A p, q \in Programs : prog[p].pc \in HasLock /\ prog[q].pc \in HasLock => p = q
  /\ \A p \in Programs : prog[p].pc \in HasLock =>
       /\ lock.dir
       /\ lock.owner = IF prog[p].pc \in InDatabase \cup {"releasing"} THEN p ELSE None
  /\ ~lock.dir => lock.owner = None /\ ~lock.recovery

\* Nobody becomes an owner after it ended: what a tool found dead stays dead.
DeadStayDead ==
  /\ lock.owner \in Programs => prog[lock.owner].pc # "off"
  /\ \A p \in Programs :
       /\ prog[p].pc \in {"probing", "dead"} =>
            prog[p].seen \in Programs /\ prog[prog[p].seen].pc # "off"
       /\ prog[p].pc = "dead" => prog[prog[p].seen].pc = "ended"

\* What a program has read, published or copied so far.
ServerFits ==
  \A p \in Programs :
    /\ prog[p].pc = "serving" => db.journal /\ db.release = prog[p].release
    /\ \A d \in Digests : prog[p].up[d] = "published" => disk[d] # "absent"

CopyFits ==
  /\ db.release # 0
  /\ \A d \in db.rows : disk[d] # "absent"
  /\ copy # NoCopy => copy.db.release # 0 /\ copy.db.rows \subseteq copy.arts
  /\ restored # NoCopy => restored.db.rows \subseteq restored.arts
  /\ \A p \in Programs :
       /\ prog[p].kind = "server" => prog[p].release # 0
       /\ prog[p].pc \in {"dumped", "copied", "backed"} => prog[p].snap = db
       /\ prog[p].pc \in {"copied", "backed", "staged"} =>
            prog[p].snap.rows \subseteq prog[p].arts
       /\ prog[p].pc = "backed" => copy # NoCopy /\ copy.db = prog[p].snap

StorageInv ==
  StorageTypeOK /\ OneLock /\ DeadStayDead /\ ServerFits /\ CopyFits /\ AdoptedFromBackup

-------------------------------------------------------------------------------
(* One step *)

LEMMA StorageInitInv == StorageInit => StorageInv
<1> SUFFICES ASSUME StorageInit PROVE StorageInv
  OBVIOUS
<1>1. Idle \in States /\ NoCopy \in Copies
  BY DEF Idle, States, NoCopy, Copies, NoDb, Schemas, PCs, HasLock
<1>2. StorageTypeOK
  BY <1>1 DEF StorageInit, StorageTypeOK, Schemas, Locks
<1>3. \A p \in Programs : prog[p].pc = "off" /\ prog[p].up = [d \in Digests |-> "no"]
                            /\ prog[p].kind = None
  BY DEF StorageInit, Idle
<1>4. /\ lock.owner = None /\ ~lock.recovery /\ ~lock.dir
      /\ db.release = 1 /\ db.rows = {} /\ copy = NoCopy /\ restored = NoCopy
  BY DEF StorageInit
<1> QED
  BY <1>2, <1>3, <1>4, StorageAssumption
  DEF StorageInv, OneLock, DeadStayDead, ServerFits, CopyFits, AdoptedFromBackup, HasLock, At, None

\* What Goto leaves of a program.
LEMMA GotoFacts ==
  ASSUME StorageTypeOK, NEW p \in Programs, NEW x \in PCs, Goto(p, x)
  PROVE  /\ prog' \in [Programs -> States]
         /\ \A q \in Programs : q # p => prog'[q] = prog[q]
         /\ prog'[p].pc = x
         /\ x # "ended" => /\ prog'[p].kind = prog[p].kind /\ prog'[p].seen = prog[p].seen
                           /\ prog'[p].release = prog[p].release /\ prog'[p].up = prog[p].up
                           /\ prog'[p].snap = prog[p].snap /\ prog'[p].arts = prog[p].arts
         /\ x = "ended" => /\ prog'[p].kind = None
                           /\ prog'[p].up = [d \in Digests |-> "no"]
<1>1. prog \in [Programs -> States] /\ prog[p] \in States
  BY DEF StorageTypeOK
<1>2. CASE x = "ended"
  BY <1>2, <1>1 DEF Goto, Idle, States, NoDb, Schemas, PCs
<1>3. CASE x # "ended"
  BY <1>3, <1>1 DEF Goto, States
<1> QED
  BY <1>2, <1>3

\* A program that ends, or goes on without the lock and without anything it relies
\* on, disturbs nothing.
LEMMA LeavesStep ==
  ASSUME StorageInv, NEW p \in Programs, NEW x \in {"ended", "leaving"}, Goto(p, x),
         prog[p].pc # "ended", UNCHANGED <<lock, db, disk, open, copy, restored>>
  PROVE  StorageInv'
<1> x \in PCs
  BY DEF PCs
<1>0. StorageTypeOK
  BY DEF StorageInv
<1>1. StorageTypeOK'
  BY <1>0, GotoFacts DEF StorageTypeOK
<1>2. OneLock'
  BY <1>0, GotoFacts DEF StorageInv, OneLock, HasLock, InDatabase
<1>3. DeadStayDead'
  BY <1>0, GotoFacts, StorageAssumption DEF StorageInv, DeadStayDead, StorageTypeOK, States, None
<1>4. ServerFits'
  BY <1>0, GotoFacts DEF StorageInv, ServerFits
<1>5. CopyFits'
  BY <1>0, GotoFacts DEF StorageInv, CopyFits, None
<1>6. AdoptedFromBackup'
  BY <1>0, GotoFacts DEF StorageInv, AdoptedFromBackup, At
<1> QED
  BY <1>1, <1>2, <1>3, <1>4, <1>5, <1>6 DEF StorageInv

\* A step that changes at most the lock and where a program is leaves what it knows
\* of the database alone, if nothing it has read or copied is relied on where it goes on.
LEMMA OutsideStep ==
  ASSUME StorageInv, NEW p \in Programs,
         prog' \in [Programs -> States],
         \A q \in Programs : q # p => prog'[q] = prog[q],
         prog'[p].pc \notin Relies,
         prog'[p].kind = "server" => prog'[p].release # 0,
         \A d \in Digests : prog'[p].up[d] = "published" => prog[p].up[d] = "published",
         lock' \in Locks,
         UNCHANGED <<db, disk, open, copy, restored>>,
         OneLock', DeadStayDead'
  PROVE  StorageInv'
<1>1. StorageTypeOK'
  BY DEF StorageInv, StorageTypeOK
<1>2. ServerFits'
  BY DEF StorageInv, ServerFits, Relies
<1>3. CopyFits'
  BY DEF StorageInv, CopyFits, Relies
<1>4. AdoptedFromBackup'
  BY DEF StorageInv, AdoptedFromBackup, At, Relies
<1> QED
  BY <1>1, <1>2, <1>3, <1>4 DEF StorageInv

\* What OneLock says of its custodian and of the others.
LEMMA Custody ==
  ASSUME OneLock, NEW p \in Programs, prog[p].pc \in HasLock
  PROVE  /\ lock.dir
         /\ prog[p].pc \in InDatabase \cup {"releasing"} => lock.owner = p
         /\ prog[p].pc \notin InDatabase \cup {"releasing"} => lock.owner = None
         /\ \A q \in Programs : q # p => prog[q].pc \notin HasLock
  BY DEF OneLock

\* A program that starts, ends or goes on, whatever it does to owner.json but name
\* another program there, brings nobody back who is dead.
LEMMA DeadStep ==
  ASSUME DeadStayDead, NEW p \in Programs,
         \A q \in Programs : q # p => prog'[q] = prog[q],
         prog'[p].pc # "off", prog[p].pc # "ended",
         lock'.owner \in {lock.owner, p, None, "torn"},
         prog'[p].pc \in {"probing", "dead"} =>
           /\ prog'[p].seen \in Programs /\ prog'[prog'[p].seen].pc # "off"
           /\ prog'[p].pc = "dead" => prog'[prog'[p].seen].pc = "ended"
  PROVE  DeadStayDead'
<1>1. \A q \in Programs : prog[q].pc # "off" => prog'[q].pc # "off"
  OBVIOUS
<1>2. \A q \in Programs : prog[q].pc = "ended" => prog'[q].pc = "ended"
  OBVIOUS
<1>3. lock'.owner \in Programs => prog'[lock'.owner].pc # "off"
  BY <1>1, StorageAssumption DEF DeadStayDead
<1>4. ASSUME NEW q \in Programs
      PROVE  /\ prog'[q].pc \in {"probing", "dead"} =>
                  prog'[q].seen \in Programs /\ prog'[prog'[q].seen].pc # "off"
             /\ prog'[q].pc = "dead" => prog'[prog'[q].seen].pc = "ended"
  BY <1>1, <1>2 DEF DeadStayDead
<1> QED
  BY <1>3, <1>4 DEF DeadStayDead

\* owner.json goes first.
LEMMA UnlinkOwnStep == ASSUME StorageInv, NEW p \in Programs, UnlinkOwn(p) PROVE StorageInv'
<1>0. StorageTypeOK /\ OneLock /\ DeadStayDead /\ CopyFits
  BY DEF StorageInv
<1>1. prog[p].pc = "releasing" /\ "removing" \in PCs /\ Goto(p, "removing")
  BY DEF UnlinkOwn, At, PCs, HasLock
<1>2. /\ prog' \in [Programs -> States]
      /\ \A q \in Programs : q # p => prog'[q] = prog[q]
      /\ prog'[p].pc = "removing"
      /\ prog'[p].kind = prog[p].kind /\ prog'[p].release = prog[p].release
      /\ prog'[p].up = prog[p].up
  BY <1>0, <1>1, GotoFacts
<1>3. lock' = [lock EXCEPT !.owner = None] /\ UNCHANGED <<db, disk, open, copy, restored>>
  BY DEF UnlinkOwn
<1>4. /\ lock' \in Locks
      /\ lock'.owner = None /\ lock'.dir = lock.dir /\ lock'.recovery = lock.recovery
  BY <1>0, <1>3 DEF StorageTypeOK, Locks
<1>5. OneLock'
  BY <1>0, <1>1, <1>2, <1>4, Custody DEF OneLock, HasLock, InDatabase
<1>6. DeadStayDead'
  BY <1>1, <1>2, <1>4, <1>0, DeadStep
<1> QED
  BY <1>0, <1>2, <1>3, <1>4, <1>5, <1>6, OutsideStep DEF Relies, CopyFits

\* rmdir of the lock: nobody has it any more.
LEMMA RemoveDirStep == ASSUME StorageInv, NEW p \in Programs, RemoveDir(p) PROVE StorageInv'
<1>0. StorageTypeOK /\ OneLock /\ DeadStayDead /\ CopyFits
  BY DEF StorageInv
<1>1. prog[p].pc = "removing" /\ "ended" \in PCs /\ Goto(p, "ended")
  BY DEF RemoveDir, At, PCs, HasLock
<1>2. /\ prog' \in [Programs -> States]
      /\ \A q \in Programs : q # p => prog'[q] = prog[q]
      /\ prog'[p].pc = "ended"
      /\ prog'[p].kind = None /\ prog'[p].up = [d \in Digests |-> "no"]
  BY <1>0, <1>1, GotoFacts
<1>3. lock' = [lock EXCEPT !.dir = NotEmpty] /\ UNCHANGED <<db, disk, open, copy, restored>>
  BY DEF RemoveDir
<1>4. /\ lock' \in Locks
      /\ lock'.owner = lock.owner /\ lock'.dir = lock.recovery /\ lock'.recovery = lock.recovery
  BY <1>0, <1>1, <1>3, Custody DEF StorageTypeOK, Locks, NotEmpty, HasLock, InDatabase
<1>5. OneLock'
  BY <1>0, <1>1, <1>2, <1>4, Custody DEF OneLock, HasLock, InDatabase
<1>6. DeadStayDead'
  BY <1>1, <1>2, <1>4, <1>0, DeadStep
<1> QED
  BY <1>0, <1>2, <1>3, <1>4, <1>5, <1>6, OutsideStep DEF Relies, None

\* A crash leaves the lock and the files as they are.
LEMMA CrashStep == ASSUME StorageInv, NEW p \in Programs, Crash(p) PROVE StorageInv'
BY LeavesStep DEF Crash, Running

\* mkdir of the lock succeeds where nobody has it.
LEMMA StartProgramStep ==
  ASSUME StorageInv, NEW p \in Programs, NEW kind \in {"server", "backup", "adopt"},
         NEW release \in 1..Releases, StartProgram(p, kind, release) PROVE StorageInv'
<1>0. StorageTypeOK /\ OneLock /\ DeadStayDead /\ CopyFits
  BY DEF StorageInv
<1>1. At(p, "off") /\ UNCHANGED <<db, disk, open, copy, restored>>
  BY DEF StartProgram
<1>2. CASE lock.dir
  BY <1>1, <1>2, LeavesStep DEF StartProgram, At
<1>3. CASE ~lock.dir
  <2>1. /\ prog' = [prog EXCEPT ![p].kind = kind, ![p].release = release, ![p].pc = "locking"]
        /\ lock' = [lock EXCEPT !.dir = TRUE]
    BY <1>3 DEF StartProgram
  <2>2. /\ prog' \in [Programs -> States]
        /\ \A q \in Programs : q # p => prog'[q] = prog[q]
        /\ prog'[p].pc = "locking" /\ prog'[p].release = release
        /\ prog'[p].up = prog[p].up
    <3>1. prog' = [prog EXCEPT ![p] = [prog[p] EXCEPT !.kind = kind, !.release = release,
                                         !.pc = "locking"]]
      BY <2>1
    <3>2. [prog[p] EXCEPT !.kind = kind, !.release = release, !.pc = "locking"] \in States
      <4>1. prog[p] \in States /\ release \in Nat /\ "locking" \in PCs
        BY <1>0, StorageAssumption DEF StorageTypeOK, PCs, HasLock
      <4> QED
        BY <4>1 DEF States
    <3> QED
      BY <1>0, <3>1, <3>2 DEF StorageTypeOK, States
  <2>3. /\ lock' \in Locks
        /\ lock'.owner = lock.owner /\ lock'.dir /\ lock'.recovery = lock.recovery
    BY <1>0, <2>1 DEF StorageTypeOK, Locks
  <2>4. OneLock'
    BY <1>0, <1>3, <2>2, <2>3 DEF OneLock, HasLock, InDatabase
  <2>5. DeadStayDead'
    BY <1>0, <1>1, <2>2, <2>3, DeadStep DEF At
  <2> QED
    BY <1>1, <2>2, <2>3, <2>4, <2>5, OutsideStep DEF Relies
<1> QED
  BY <1>2, <1>3

\* owner.json is written, in part, or not at all.
LEMMA WriteOwnerStep ==
  ASSUME StorageInv, NEW p \in Programs, WriteOwner(p) PROVE StorageInv'
<1>0. StorageTypeOK /\ OneLock /\ DeadStayDead /\ CopyFits
  BY DEF StorageInv
<1>1. prog[p].pc = "locking" /\ UNCHANGED <<db, disk, open, copy, restored>>
  BY DEF WriteOwner, At
<1>2. /\ lock.dir /\ lock.owner = None
      /\ \A q \in Programs : q # p => prog[q].pc \notin HasLock
  BY <1>0, <1>1, Custody DEF HasLock, InDatabase
<1>3. CASE lock' = [lock EXCEPT !.owner = p] /\ Goto(p, "opened")
  <2>1. /\ prog' \in [Programs -> States]
        /\ \A q \in Programs : q # p => prog'[q] = prog[q]
        /\ prog'[p].pc = "opened" /\ prog'[p].up = prog[p].up
        /\ prog'[p].kind = prog[p].kind /\ prog'[p].release = prog[p].release
    BY <1>0, <1>3, GotoFacts DEF PCs, HasLock
  <2>2. /\ lock' \in Locks
        /\ lock'.owner = p /\ lock'.dir /\ lock'.recovery = lock.recovery
    BY <1>0, <1>2, <1>3 DEF StorageTypeOK, Locks
  <2>3. OneLock'
    BY <1>2, <2>1, <2>2 DEF OneLock, HasLock, InDatabase
  <2>4. DeadStayDead'
    BY <1>0, <1>1, <2>1, <2>2, DeadStep
  <2> QED
    BY <1>0, <1>1, <2>1, <2>2, <2>3, <2>4, OutsideStep DEF Relies, CopyFits
<1>4. ASSUME Goto(p, "ended"),
             \/ lock' = [lock EXCEPT !.owner = "torn"]
             \/ lock' = [lock EXCEPT !.dir = lock.dir /\ NotEmpty]
      PROVE  StorageInv'
  <2>1. /\ prog' \in [Programs -> States]
        /\ \A q \in Programs : q # p => prog'[q] = prog[q]
        /\ prog'[p].pc = "ended" /\ prog'[p].kind = None
        /\ prog'[p].up = [d \in Digests |-> "no"]
    BY <1>0, <1>4, GotoFacts DEF PCs
  <2>2. /\ lock' \in Locks /\ lock'.recovery = lock.recovery
        /\ lock'.dir \/ (lock'.owner = None /\ ~lock'.recovery)
        /\ lock'.owner \in {None, "torn"}
    BY <1>0, <1>2, <1>4 DEF StorageTypeOK, Locks, NotEmpty
  <2>3. OneLock'
    BY <1>2, <2>1, <2>2 DEF OneLock, HasLock
  <2>4. DeadStayDead'
    BY <1>0, <1>1, <2>1, <2>2, DeadStep
  <2> QED
    BY <1>1, <2>1, <2>2, <2>3, <2>4, OutsideStep DEF Relies, None
<1> QED
  BY <1>3, <1>4 DEF WriteOwner

\* A program releases the lock only when it is its own.
LEMMA ReadOwnStep ==
  ASSUME StorageInv, NEW p \in Programs, ReadOwn(p) PROVE StorageInv'
<1>0. StorageTypeOK /\ OneLock /\ DeadStayDead /\ CopyFits
  BY DEF StorageInv
<1>1. prog[p].pc \in InDatabase /\ UNCHANGED <<lock, db, disk, open, copy, restored>>
  BY DEF ReadOwn, Holds, InDatabase
<1>2. CASE lock.owner # p
  BY <1>1, <1>2, LeavesStep DEF ReadOwn, InDatabase
<1>3. CASE lock.owner = p
  <2>1. Goto(p, "releasing")
    BY <1>3 DEF ReadOwn
  <2>2. /\ prog' \in [Programs -> States]
        /\ \A q \in Programs : q # p => prog'[q] = prog[q]
        /\ prog'[p].pc = "releasing" /\ prog'[p].up = prog[p].up
        /\ prog'[p].kind = prog[p].kind /\ prog'[p].release = prog[p].release
    BY <1>0, <2>1, GotoFacts DEF PCs, HasLock
  <2>3. OneLock'
    BY <1>0, <1>1, <1>3, <2>2 DEF OneLock, HasLock, InDatabase
  <2>4. DeadStayDead'
    BY <1>0, <1>1, <2>2, DeadStep DEF InDatabase
  <2> QED
    BY <1>0, <1>1, <2>2, <2>3, <2>4, OutsideStep DEF Relies, CopyFits, StorageTypeOK
<1> QED
  BY <1>2, <1>3

\* A tool takes the recovery directory of a lock that is there.
LEMMA StartUnlockStep ==
  ASSUME StorageInv, NEW p \in Programs, StartUnlock(p) PROVE StorageInv'
<1>0. StorageTypeOK /\ OneLock /\ DeadStayDead /\ CopyFits
  BY DEF StorageInv
<1>1. /\ prog[p].pc = "off" /\ lock.dir /\ UNCHANGED <<db, disk, open, copy, restored>>
      /\ lock' = [lock EXCEPT !.recovery = TRUE]
      /\ prog' = [prog EXCEPT ![p].kind = "unlock", ![p].pc = "reading"]
  BY DEF StartUnlock, At
<1>2. /\ prog' \in [Programs -> States]
      /\ \A q \in Programs : q # p => prog'[q] = prog[q]
      /\ prog'[p].pc = "reading" /\ prog'[p].kind = "unlock" /\ prog'[p].up = prog[p].up
  BY <1>0, <1>1 DEF StorageTypeOK, States, PCs
<1>3. /\ lock' \in Locks
      /\ lock'.owner = lock.owner /\ lock'.dir /\ lock'.recovery
  BY <1>0, <1>1 DEF StorageTypeOK, Locks
<1>4. OneLock'
  BY <1>0, <1>1, <1>2, <1>3 DEF OneLock, HasLock
<1>5. DeadStayDead'
  BY <1>0, <1>1, <1>2, <1>3, DeadStep
<1> QED
  BY <1>1, <1>2, <1>3, <1>4, <1>5, OutsideStep DEF Relies

\* A tool reads who owns the lock.
LEMMA ReadOwnerStep ==
  ASSUME StorageInv, NEW p \in Programs, ReadOwner(p) PROVE StorageInv'
<1>0. StorageTypeOK /\ OneLock /\ DeadStayDead /\ CopyFits
  BY DEF StorageInv
<1>1. prog[p].pc = "reading" /\ UNCHANGED <<lock, db, disk, open, copy, restored>>
  BY DEF ReadOwner, At
<1>2. CASE lock.owner \notin Programs
  BY <1>1, <1>2, LeavesStep DEF ReadOwner
<1>3. CASE lock.owner \in Programs
  <2>1. prog' = [prog EXCEPT ![p].seen = lock.owner, ![p].pc = "probing"]
    BY <1>3 DEF ReadOwner
  <2>2. /\ prog' \in [Programs -> States]
        /\ \A q \in Programs : q # p => prog'[q] = prog[q]
        /\ prog'[p].pc = "probing" /\ prog'[p].seen = lock.owner
        /\ prog'[p].up = prog[p].up
        /\ prog'[p].kind = prog[p].kind /\ prog'[p].release = prog[p].release
    <3>1. prog' = [prog EXCEPT ![p] = [prog[p] EXCEPT !.seen = lock.owner, !.pc = "probing"]]
      BY <2>1
    <3>2. [prog[p] EXCEPT !.seen = lock.owner, !.pc = "probing"] \in States
      BY <1>0, <1>3, ZenonT(60) DEF StorageTypeOK, States, PCs
    <3> QED
      BY <1>0, <3>1, <3>2 DEF StorageTypeOK, States
  <2>3. OneLock'
    BY <1>0, <1>1, <2>2 DEF OneLock, HasLock
  <2>4. prog'[lock.owner].pc # "off"
    BY <1>0, <1>3, <2>2 DEF DeadStayDead
  <2>5. DeadStayDead'
    BY <1>0, <1>1, <1>3, <2>2, <2>4, DeadStep
  <2> QED
    BY <1>0, <1>1, <2>2, <2>3, <2>5, OutsideStep DEF Relies, CopyFits, StorageTypeOK
<1> QED
  BY <1>2, <1>3

\* Only an owner that ended is found dead.
LEMMA ProbeOwnerStep ==
  ASSUME StorageInv, NEW p \in Programs, ProbeOwner(p) PROVE StorageInv'
<1>0. StorageTypeOK /\ OneLock /\ DeadStayDead /\ CopyFits
  BY DEF StorageInv
<1>1. prog[p].pc = "probing" /\ UNCHANGED <<lock, db, disk, open, copy, restored>>
  BY DEF ProbeOwner, At
<1>2. CASE Goto(p, "leaving")
  BY <1>1, <1>2, LeavesStep
<1>3. CASE ~Running(prog[p].seen) /\ Goto(p, "dead")
  <2>1. prog[p].seen \in Programs /\ prog[prog[p].seen].pc = "ended"
    BY <1>0, <1>1, <1>3 DEF DeadStayDead, Running
  <2>2. /\ prog' \in [Programs -> States]
        /\ \A q \in Programs : q # p => prog'[q] = prog[q]
        /\ prog'[p].pc = "dead" /\ prog'[p].seen = prog[p].seen
        /\ prog'[p].up = prog[p].up
        /\ prog'[p].kind = prog[p].kind /\ prog'[p].release = prog[p].release
    BY <1>0, <1>3, GotoFacts DEF PCs
  <2>3. OneLock'
    BY <1>0, <1>1, <2>2 DEF OneLock, HasLock
  <2>4. DeadStayDead'
    BY <1>0, <1>1, <2>1, <2>2, DeadStep
  <2> QED
    BY <1>0, <1>1, <2>2, <2>3, <2>4, OutsideStep DEF Relies, CopyFits, StorageTypeOK
<1> QED
  BY <1>1, <1>2, <1>3 DEF ProbeOwner

\* An owner that is still the dead one leaves the lock to the tool alone.
LEMMA UnlinkOwnerStep ==
  ASSUME StorageInv, NEW p \in Programs, UnlinkOwner(p) PROVE StorageInv'
<1>0. StorageTypeOK /\ OneLock /\ DeadStayDead /\ CopyFits
  BY DEF StorageInv
<1>1. prog[p].pc = "dead" /\ UNCHANGED <<db, disk, open, copy, restored>>
  BY DEF UnlinkOwner, At
<1>2. CASE lock.owner # prog[p].seen
  BY <1>1, <1>2, LeavesStep DEF UnlinkOwner
<1>3. CASE lock.owner = prog[p].seen
  <2>1. lock' = [lock EXCEPT !.owner = None] /\ Goto(p, "cleared")
    BY <1>3 DEF UnlinkOwner
  <2>2. /\ prog' \in [Programs -> States]
        /\ \A q \in Programs : q # p => prog'[q] = prog[q]
        /\ prog'[p].pc = "cleared" /\ prog'[p].up = prog[p].up
        /\ prog'[p].kind = prog[p].kind /\ prog'[p].release = prog[p].release
    BY <1>0, <2>1, GotoFacts DEF PCs, HasLock
  <2>3. /\ lock' \in Locks
        /\ lock'.owner = None /\ lock'.dir = lock.dir /\ lock'.recovery = lock.recovery
    BY <1>0, <2>1 DEF StorageTypeOK, Locks
  <2>4. lock.owner \in Programs /\ prog[lock.owner].pc = "ended" /\ lock.owner # None
    BY <1>0, <1>1, <1>3, StorageAssumption DEF DeadStayDead
  <2>5. \A q \in Programs : prog[q].pc \notin HasLock
    BY <1>0, <2>4, Custody DEF HasLock, InDatabase
  <2>6. OneLock'
    BY <1>0, <2>2, <2>3, <2>4, <2>5 DEF OneLock, HasLock, InDatabase
  <2>7. DeadStayDead'
    BY <1>0, <1>1, <2>2, <2>3, DeadStep
  <2> QED
    BY <1>0, <1>1, <2>2, <2>3, <2>6, <2>7, OutsideStep DEF Relies, CopyFits
<1> QED
  BY <1>2, <1>3

\* The recovery directory goes, and then the lock the tool has cleared.
LEMMA RemoveRecoveryStep ==
  ASSUME StorageInv, NEW p \in Programs, RemoveRecovery(p) PROVE StorageInv'
<1>0. StorageTypeOK /\ OneLock /\ DeadStayDead /\ CopyFits
  BY DEF StorageInv
<1>1. /\ prog[p].pc \in {"leaving", "cleared"} /\ UNCHANGED <<db, disk, open, copy, restored>>
      /\ lock' = [lock EXCEPT !.recovery = FALSE]
  BY DEF RemoveRecovery
<1>2. /\ lock' \in Locks
      /\ lock'.owner = lock.owner /\ lock'.dir = lock.dir /\ ~lock'.recovery
  BY <1>0, <1>1 DEF StorageTypeOK, Locks
<1>3. CASE prog[p].pc = "leaving"
  <2>1. /\ prog' \in [Programs -> States]
        /\ \A q \in Programs : q # p => prog'[q] = prog[q]
        /\ prog'[p].pc = "ended" /\ prog'[p].kind = None
        /\ prog'[p].up = [d \in Digests |-> "no"]
    BY <1>0, <1>3, GotoFacts DEF PCs, RemoveRecovery, At
  <2>2. OneLock'
    BY <1>0, <1>2, <1>3, <2>1 DEF OneLock, HasLock
  <2>3. DeadStayDead'
    BY <1>0, <1>2, <1>3, <2>1, DeadStep
  <2> QED
    BY <1>1, <1>2, <2>1, <2>2, <2>3, OutsideStep DEF Relies, None
<1>4. CASE prog[p].pc = "cleared"
  <2>1. /\ prog' \in [Programs -> States]
        /\ \A q \in Programs : q # p => prog'[q] = prog[q]
        /\ prog'[p].pc = "removing" /\ prog'[p].up = prog[p].up
        /\ prog'[p].kind = prog[p].kind /\ prog'[p].release = prog[p].release
    BY <1>0, <1>4, GotoFacts DEF PCs, HasLock, RemoveRecovery, At
  <2>2. OneLock'
    BY <1>0, <1>2, <1>4, <2>1 DEF OneLock, HasLock, InDatabase
  <2>3. DeadStayDead'
    BY <1>0, <1>2, <1>4, <2>1, DeadStep
  <2> QED
    BY <1>0, <1>1, <1>2, <2>1, <2>2, <2>3, OutsideStep DEF Relies, CopyFits
<1> QED
  BY <1>1, <1>3, <1>4

-------------------------------------------------------------------------------
(* Steps of the program that has the database *)

\* While a program stays in the database the lock is untouched, and nobody else
\* relies on the database.
LEMMA InsideStep ==
  ASSUME StorageInv, NEW p \in Programs,
         \A q \in Programs : q # p => prog'[q] = prog[q],
         prog[p].pc \in InDatabase, prog'[p].pc \in InDatabase, UNCHANGED lock
  PROVE  /\ OneLock' /\ DeadStayDead'
         /\ \A q \in Programs : q # p => prog[q].pc \notin HasLock
<1>0. OneLock /\ DeadStayDead
  BY DEF StorageInv
<1>1. \A q \in Programs : q # p => prog[q].pc \notin HasLock
  BY <1>0, Custody DEF HasLock, InDatabase
<1>2. OneLock'
  BY <1>0, <1>1 DEF OneLock, HasLock, InDatabase
<1>3. DeadStayDead'
  BY <1>0, DeadStep DEF InDatabase
<1> QED
  BY <1>1, <1>2, <1>3

\* A server serves on its own schema.
LEMMA MigrateStep ==
  ASSUME StorageInv, NEW p \in Programs, Migrate(p) PROVE StorageInv'
<1>0. StorageTypeOK /\ OneLock /\ ServerFits /\ CopyFits /\ AdoptedFromBackup
  BY DEF StorageInv
<1>1. prog[p].pc = "opened" /\ prog[p].kind = "server" /\ db.journal
  BY DEF Migrate, At
<1>2. /\ prog' \in [Programs -> States]
      /\ \A q \in Programs : q # p => prog'[q] = prog[q]
      /\ prog'[p].pc = "serving" /\ prog'[p].up = prog[p].up
      /\ prog'[p].kind = prog[p].kind /\ prog'[p].release = prog[p].release
  BY <1>0, GotoFacts DEF Migrate, PCs, HasLock
<1>3. /\ db' \in Schemas /\ db'.rows = db.rows /\ db'.journal
      /\ db'.release = prog[p].release
      /\ UNCHANGED <<lock, disk, open, copy, restored>>
  BY <1>0, <1>1 DEF Migrate, StorageTypeOK, Schemas, States
<1>4. /\ OneLock' /\ DeadStayDead'
      /\ \A q \in Programs : q # p => prog[q].pc \notin HasLock
  BY <1>1, <1>2, InsideStep DEF InDatabase, Migrate
<1>5. StorageTypeOK'
  BY <1>0, <1>2, <1>3, <1>4 DEF StorageTypeOK
<1>6. ServerFits'
  BY <1>0, <1>2, <1>3, <1>4 DEF ServerFits, HasLock
<1>7. CopyFits'
  BY <1>0, <1>1, <1>2, <1>3, <1>4 DEF CopyFits, HasLock
<1>8. AdoptedFromBackup'
  BY <1>2, <1>4 DEF AdoptedFromBackup, HasLock, At
<1> QED
  BY <1>4, <1>5, <1>6, <1>7, <1>8 DEF StorageInv

\* An upload is staged beside the artifacts.
LEMMA StageUploadStep ==
  ASSUME StorageInv, NEW p \in Programs, NEW d \in Digests, StageUpload(p, d) PROVE StorageInv'
<1>0. StorageTypeOK /\ OneLock /\ ServerFits /\ CopyFits /\ AdoptedFromBackup
  BY DEF StorageInv
<1>1. prog[p].pc = "serving" /\ prog[p].up[d] = "no"
  BY DEF StageUpload, At
<1>2. /\ prog' \in [Programs -> States]
      /\ \A q \in Programs : q # p => prog'[q] = prog[q]
      /\ prog'[p].pc = "serving" /\ prog'[p].kind = prog[p].kind
      /\ prog'[p].release = prog[p].release
      /\ \A c \in Digests : prog'[p].up[c] = IF c = d THEN "staged" ELSE prog[p].up[c]
  BY <1>0, <1>1 DEF StageUpload, StorageTypeOK, States
<1>3. UNCHANGED <<lock, db, disk, open, copy, restored>>
  BY DEF StageUpload
<1>4. /\ OneLock' /\ DeadStayDead'
      /\ \A q \in Programs : q # p => prog[q].pc \notin HasLock
  BY <1>1, <1>2, InsideStep DEF InDatabase, StageUpload
<1>5. StorageTypeOK'
  BY <1>0, <1>2, <1>3 DEF StorageTypeOK
<1>6. ServerFits'
  BY <1>0, <1>1, <1>2, <1>3 DEF ServerFits
<1>7. CopyFits'
  BY <1>0, <1>1, <1>2, <1>3 DEF CopyFits, StorageTypeOK, Schemas
<1>8. AdoptedFromBackup'
  BY <1>0, <1>2, <1>3, <1>4 DEF AdoptedFromBackup, HasLock, At
<1> QED
  BY <1>4, <1>5, <1>6, <1>7, <1>8 DEF StorageInv

\* The digest has its file from here on.
LEMMA PublishUploadStep ==
  ASSUME StorageInv, NEW p \in Programs, NEW d \in Digests, PublishUpload(p, d) PROVE StorageInv'
<1>0. StorageTypeOK /\ OneLock /\ ServerFits /\ CopyFits /\ AdoptedFromBackup
  BY DEF StorageInv
<1>1. prog[p].pc = "serving" /\ prog[p].up[d] = "staged"
  BY DEF PublishUpload, At
<1>2. /\ prog' \in [Programs -> States]
      /\ \A q \in Programs : q # p => prog'[q] = prog[q]
      /\ prog'[p].pc = "serving" /\ prog'[p].kind = prog[p].kind
      /\ prog'[p].release = prog[p].release
      /\ \A c \in Digests : prog'[p].up[c] = IF c = d THEN "published" ELSE prog[p].up[c]
  BY <1>0, <1>1 DEF PublishUpload, StorageTypeOK, States
<1>3. /\ disk' \in [Digests -> {"absent", "whole", "rotten"}]
      /\ \A c \in Digests : disk[c] # "absent" => disk'[c] # "absent"
      /\ disk'[d] # "absent"
      /\ UNCHANGED <<lock, db, open, copy, restored>>
  BY <1>0 DEF PublishUpload, StorageTypeOK
<1>4. /\ OneLock' /\ DeadStayDead'
      /\ \A q \in Programs : q # p => prog[q].pc \notin HasLock
  BY <1>1, <1>2, InsideStep DEF InDatabase, PublishUpload
<1>5. StorageTypeOK'
  BY <1>0, <1>2, <1>3 DEF StorageTypeOK
<1>6. ServerFits'
  BY <1>0, <1>1, <1>2, <1>3 DEF ServerFits
<1>7. CopyFits'
  BY <1>0, <1>1, <1>2, <1>3 DEF CopyFits, StorageTypeOK, Schemas
<1>8. AdoptedFromBackup'
  BY <1>0, <1>2, <1>3, <1>4 DEF AdoptedFromBackup, HasLock, At
<1> QED
  BY <1>4, <1>5, <1>6, <1>7, <1>8 DEF StorageInv

\* A row names an artifact that is published.
LEMMA InsertRowStep ==
  ASSUME StorageInv, NEW p \in Programs, NEW d \in Digests, InsertRow(p, d) PROVE StorageInv'
<1>0. StorageTypeOK /\ OneLock /\ ServerFits /\ CopyFits /\ AdoptedFromBackup
  BY DEF StorageInv
<1>1. prog[p].pc = "serving" /\ prog[p].up[d] = "published"
  BY DEF InsertRow, At
<1>2. /\ prog' \in [Programs -> States]
      /\ \A q \in Programs : q # p => prog'[q] = prog[q]
      /\ prog'[p].pc = "serving" /\ prog'[p].kind = prog[p].kind
      /\ prog'[p].release = prog[p].release
      /\ \A c \in Digests : prog'[p].up[c] = IF c = d THEN "no" ELSE prog[p].up[c]
  BY <1>0, <1>1 DEF InsertRow, StorageTypeOK, States
<1>3. /\ db' \in Schemas /\ db'.journal = db.journal /\ db'.release = db.release
      /\ db'.rows \subseteq db.rows \cup {d}
      /\ UNCHANGED <<lock, disk, open, copy, restored>>
  BY <1>0 DEF InsertRow, StorageTypeOK, Schemas
<1>4. /\ OneLock' /\ DeadStayDead'
      /\ \A q \in Programs : q # p => prog[q].pc \notin HasLock
  BY <1>1, <1>2, InsideStep DEF InDatabase, InsertRow
<1>5. StorageTypeOK'
  BY <1>0, <1>2, <1>3 DEF StorageTypeOK
<1>6. ServerFits'
  BY <1>0, <1>1, <1>2, <1>3 DEF ServerFits
<1>7. CopyFits'
  BY <1>0, <1>1, <1>2, <1>3, <1>4 DEF CopyFits, ServerFits, HasLock
<1>8. AdoptedFromBackup'
  BY <1>0, <1>2, <1>3, <1>4 DEF AdoptedFromBackup, HasLock, At
<1> QED
  BY <1>4, <1>5, <1>6, <1>7, <1>8 DEF StorageInv

\* The run ends while uploads of it are under way.
LEMMA EndRunStep ==
  ASSUME StorageInv, NEW p \in Programs, EndRun(p) PROVE StorageInv'
<1>0. StorageTypeOK /\ OneLock /\ DeadStayDead /\ ServerFits /\ CopyFits /\ AdoptedFromBackup
  BY DEF StorageInv
<1>1. UNCHANGED <<lock, prog, db, disk, copy, restored>> /\ open' = FALSE
  BY DEF EndRun
<1> QED
  BY <1>0, <1>1 DEF StorageInv, StorageTypeOK, OneLock, DeadStayDead, ServerFits, CopyFits,
                    AdoptedFromBackup, At

\* The dump is of the database as nobody else changes it.
LEMMA DumpStep ==
  ASSUME StorageInv, NEW p \in Programs, Dump(p) PROVE StorageInv'
<1>0. StorageTypeOK /\ OneLock /\ DeadStayDead /\ ServerFits /\ CopyFits /\ AdoptedFromBackup
  BY DEF StorageInv
<1>1. prog[p].pc = "opened"
  BY DEF Dump, At
<1>2. /\ prog' \in [Programs -> States]
      /\ \A q \in Programs : q # p => prog'[q] = prog[q]
      /\ prog'[p].pc = "dumped" /\ prog'[p].kind = prog[p].kind
      /\ prog'[p].release = prog[p].release /\ prog'[p].up = prog[p].up
      /\ prog'[p].snap = db /\ prog'[p].arts = prog[p].arts
  <2>1. prog' = [prog EXCEPT ![p] = [prog[p] EXCEPT !.snap = db, !.pc = "dumped"]]
    BY DEF Dump
  <2>2. prog \in [Programs -> States] /\ prog[p] \in States /\ db \in Schemas
    BY <1>0 DEF StorageTypeOK
  <2>3. [prog[p] EXCEPT !.snap = db, !.pc = "dumped"] \in States
    BY <2>2 DEF States, PCs, HasLock
  <2> QED
    BY <2>1, <2>2, <2>3 DEF States
<1>3. UNCHANGED <<lock, db, disk, open, copy, restored>>
  BY DEF Dump
<1>4. /\ OneLock' /\ DeadStayDead'
      /\ \A q \in Programs : q # p => prog[q].pc \notin HasLock
  BY <1>1, <1>2, <1>3, InsideStep DEF InDatabase
<1>5. StorageTypeOK'
  BY <1>0, <1>2, <1>3 DEF StorageTypeOK
<1>6. ServerFits'
  BY <1>0, <1>2, <1>3 DEF ServerFits
<1>7. CopyFits'
  BY <1>0, <1>1, <1>2, <1>3 DEF CopyFits
<1>8. AdoptedFromBackup'
  BY <1>0, <1>2, <1>3 DEF AdoptedFromBackup, At
<1> QED
  BY <1>4, <1>5, <1>6, <1>7, <1>8 DEF StorageInv

\* Every artifact the dump names is there and whole.
LEMMA CopyArtifactsStep ==
  ASSUME StorageInv, NEW p \in Programs, CopyArtifacts(p) PROVE StorageInv'
<1>0. StorageTypeOK /\ OneLock /\ DeadStayDead /\ ServerFits /\ CopyFits /\ AdoptedFromBackup
  BY DEF StorageInv
<1>1. prog[p].pc = "dumped" /\ \A d \in Digests : disk[d] # "rotten"
  BY DEF CopyArtifacts, At
<1>2. /\ prog' \in [Programs -> States]
      /\ \A q \in Programs : q # p => prog'[q] = prog[q]
      /\ prog'[p].pc = "copied" /\ prog'[p].kind = prog[p].kind
      /\ prog'[p].release = prog[p].release /\ prog'[p].up = prog[p].up
      /\ prog'[p].snap = prog[p].snap /\ prog'[p].arts = {d \in Digests : disk[d] = "whole"}
  <2>1. prog' = [prog EXCEPT ![p] = [prog[p] EXCEPT !.arts = {d \in Digests : disk[d] = "whole"},
                                         !.pc = "copied"]]
    BY DEF CopyArtifacts
  <2>2. prog \in [Programs -> States] /\ prog[p] \in States /\ db \in Schemas
    BY <1>0 DEF StorageTypeOK
  <2>3. [prog[p] EXCEPT !.arts = {d \in Digests : disk[d] = "whole"},
                                         !.pc = "copied"] \in States
    BY <2>2 DEF States, PCs, HasLock
  <2> QED
    BY <2>1, <2>2, <2>3 DEF States
<1>3. UNCHANGED <<lock, db, disk, open, copy, restored>>
  BY DEF CopyArtifacts
<1>4. /\ OneLock' /\ DeadStayDead'
      /\ \A q \in Programs : q # p => prog[q].pc \notin HasLock
  BY <1>1, <1>2, <1>3, InsideStep DEF InDatabase
<1>5. StorageTypeOK'
  BY <1>0, <1>2, <1>3 DEF StorageTypeOK
<1>6. ServerFits'
  BY <1>0, <1>2, <1>3 DEF ServerFits
<1>7. CopyFits'
  BY <1>0, <1>1, <1>2, <1>3 DEF CopyFits, StorageTypeOK, Schemas
<1>8. AdoptedFromBackup'
  BY <1>0, <1>2, <1>3 DEF AdoptedFromBackup, At
<1> QED
  BY <1>4, <1>5, <1>6, <1>7, <1>8 DEF StorageInv

\* The backup appears complete.
LEMMA PublishCopyStep ==
  ASSUME StorageInv, NEW p \in Programs, PublishCopy(p) PROVE StorageInv'
<1>0. StorageTypeOK /\ OneLock /\ DeadStayDead /\ ServerFits /\ CopyFits /\ AdoptedFromBackup
  BY DEF StorageInv
<1>1. prog[p].pc = "copied"
  BY DEF PublishCopy, At
<1>2. /\ prog' \in [Programs -> States]
      /\ \A q \in Programs : q # p => prog'[q] = prog[q]
      /\ prog'[p].pc = "backed" /\ prog'[p].kind = prog[p].kind
      /\ prog'[p].release = prog[p].release /\ prog'[p].up = prog[p].up
      /\ prog'[p].snap = prog[p].snap /\ prog'[p].arts = prog[p].arts
  BY <1>0, GotoFacts DEF PublishCopy, PCs, HasLock
<1>3. /\ copy' \in Copies /\ copy'.db = prog[p].snap /\ copy'.arts = prog[p].arts
      /\ copy' # NoCopy
      /\ UNCHANGED <<lock, db, disk, open, restored>>
  BY <1>0 DEF PublishCopy, StorageTypeOK, States, Copies, NoCopy
<1>4. /\ OneLock' /\ DeadStayDead'
      /\ \A q \in Programs : q # p => prog[q].pc \notin HasLock
  BY <1>1, <1>2, <1>3, InsideStep DEF InDatabase
<1>5. StorageTypeOK'
  BY <1>0, <1>2, <1>3 DEF StorageTypeOK
<1>6. ServerFits'
  BY <1>0, <1>2, <1>3 DEF ServerFits
<1>7. CopyFits'
  BY <1>0, <1>1, <1>2, <1>3, <1>4 DEF CopyFits, HasLock
<1>8. AdoptedFromBackup'
  BY <1>2, <1>4 DEF AdoptedFromBackup, At, HasLock
<1> QED
  BY <1>4, <1>5, <1>6, <1>7, <1>8 DEF StorageInv

\* The journal is written into the database that was backed up.
LEMMA AdoptStep ==
  ASSUME StorageInv, NEW p \in Programs, Adopt(p) PROVE StorageInv'
<1>0. StorageTypeOK /\ OneLock /\ DeadStayDead /\ ServerFits /\ CopyFits /\ AdoptedFromBackup
  BY DEF StorageInv
<1>1. prog[p].pc = "backed" /\ ~db.journal
  BY DEF Adopt, At
<1>2. /\ prog' \in [Programs -> States]
      /\ \A q \in Programs : q # p => prog'[q] = prog[q]
      /\ prog'[p].pc = "adopted" /\ prog'[p].kind = prog[p].kind
      /\ prog'[p].release = prog[p].release /\ prog'[p].up = prog[p].up
      /\ prog'[p].snap = prog[p].snap /\ prog'[p].arts = prog[p].arts
  BY <1>0, GotoFacts DEF Adopt, PCs, HasLock
<1>3. /\ db' \in Schemas /\ db'.rows = db.rows /\ db'.release = db.release
      /\ [db' EXCEPT !.journal = FALSE] = db
      /\ UNCHANGED <<lock, disk, open, copy, restored>>
  BY <1>0, <1>1 DEF Adopt, StorageTypeOK, Schemas
<1>4. /\ OneLock' /\ DeadStayDead'
      /\ \A q \in Programs : q # p => prog[q].pc \notin HasLock
  BY <1>1, <1>2, <1>3, InsideStep DEF InDatabase
<1>5. StorageTypeOK'
  BY <1>0, <1>2, <1>3 DEF StorageTypeOK
<1>6. ServerFits'
  BY <1>0, <1>1, <1>2, <1>3, <1>4 DEF ServerFits, HasLock
<1>7. CopyFits'
  BY <1>0, <1>1, <1>2, <1>3, <1>4 DEF CopyFits, HasLock
<1>8. AdoptedFromBackup'
  BY <1>0, <1>1, <1>2, <1>3, <1>4 DEF AdoptedFromBackup, CopyFits, At, HasLock
<1> QED
  BY <1>4, <1>5, <1>6, <1>7, <1>8 DEF StorageInv

\* A restore reads the backup as it was published.
LEMMA StartRestoreStep ==
  ASSUME StorageInv, NEW p \in Programs, StartRestore(p) PROVE StorageInv'
<1>0. StorageTypeOK /\ OneLock /\ DeadStayDead /\ ServerFits /\ CopyFits /\ AdoptedFromBackup
  BY DEF StorageInv
<1>1. prog[p].pc = "off" /\ UNCHANGED <<lock, db, disk, open, copy, restored>>
  BY DEF StartRestore, At
<1>2. CASE ~copy.whole
  BY <1>1, <1>2, LeavesStep DEF StartRestore
<1>3. CASE copy.whole
  <2>1. /\ copy # NoCopy
        /\ prog' = [prog EXCEPT ![p] = [prog[p] EXCEPT !.kind = "restore", !.arts = copy.arts,
                                         !.snap = copy.db, !.pc = "staged"]]
    BY <1>3 DEF StartRestore
  <2>2. prog \in [Programs -> States] /\ prog[p] \in States /\ copy \in Copies
    BY <1>0 DEF StorageTypeOK
  <2>3. copy.db \in Schemas /\ copy.arts \in SUBSET Digests
    BY <2>2 DEF Copies
  <2>4. [prog[p] EXCEPT !.kind = "restore", !.arts = copy.arts, !.snap = copy.db,
                        !.pc = "staged"] \in States
    BY <2>2, <2>3 DEF States, PCs
  <2>5. /\ prog' \in [Programs -> States]
        /\ \A q \in Programs : q # p => prog'[q] = prog[q]
        /\ prog'[p].pc = "staged" /\ prog'[p].kind = "restore" /\ prog'[p].up = prog[p].up
        /\ prog'[p].snap = copy.db /\ prog'[p].arts = copy.arts
    BY <2>1, <2>2, <2>4 DEF States
  <2>6. OneLock'
    BY <1>0, <1>1, <2>5 DEF OneLock, HasLock
  <2>7. DeadStayDead'
    BY <1>0, <1>1, <2>5, DeadStep
  <2>8. StorageTypeOK'
    BY <1>0, <1>1, <2>5 DEF StorageTypeOK
  <2>9. ServerFits'
    BY <1>0, <1>1, <2>5 DEF ServerFits
  <2>10. AdoptedFromBackup'
    BY <1>0, <1>1, <2>5 DEF AdoptedFromBackup, At
  <2>11. CopyFits'
    BY <1>0, <1>1, <2>1, <2>5 DEF CopyFits
  <2> QED
    BY <2>6, <2>7, <2>8, <2>9, <2>10, <2>11 DEF StorageInv
<1> QED
  BY <1>2, <1>3

\* The restored directory appears complete.
LEMMA PublishRestoredStep ==
  ASSUME StorageInv, NEW p \in Programs, PublishRestored(p) PROVE StorageInv'
<1>0. StorageTypeOK /\ OneLock /\ DeadStayDead /\ ServerFits /\ CopyFits /\ AdoptedFromBackup
  BY DEF StorageInv
<1>1. prog[p].pc = "staged" /\ UNCHANGED <<lock, db, disk, open, copy>>
  BY DEF PublishRestored, At
<1>2. /\ prog' \in [Programs -> States]
      /\ \A q \in Programs : q # p => prog'[q] = prog[q]
      /\ prog'[p].pc = "ended" /\ prog'[p].kind = None
      /\ prog'[p].up = [d \in Digests |-> "no"]
  BY <1>0, GotoFacts DEF PublishRestored, PCs
<1>3. restored' \in Copies /\ (restored' # NoCopy => restored'.db.rows \subseteq restored'.arts)
  BY <1>0, <1>1 DEF StorageTypeOK, States, CopyFits, Copies, PublishRestored
<1>4. OneLock' /\ DeadStayDead'
  BY <1>0, <1>1, <1>2, DeadStep DEF OneLock, HasLock
<1>5. StorageTypeOK'
  BY <1>0, <1>1, <1>2, <1>3 DEF StorageTypeOK
<1>6. ServerFits'
  BY <1>0, <1>1, <1>2 DEF ServerFits
<1>7. CopyFits'
  BY <1>0, <1>1, <1>2, <1>3 DEF CopyFits, None
<1>8. AdoptedFromBackup'
  BY <1>0, <1>1, <1>2 DEF AdoptedFromBackup, At
<1> QED
  BY <1>4, <1>5, <1>6, <1>7, <1>8 DEF StorageInv

\* A file that loses its content is still there, and a rotten backup still visible.
LEMMA RotStep == ASSUME StorageInv, Rot PROVE StorageInv'
<1>0. StorageTypeOK /\ OneLock /\ DeadStayDead /\ ServerFits /\ CopyFits /\ AdoptedFromBackup
  BY DEF StorageInv
<1>1. UNCHANGED <<lock, prog, db, open, restored>>
  BY DEF Rot
<1>2. OneLock' /\ DeadStayDead'
  BY <1>0, <1>1 DEF OneLock, DeadStayDead
<1>3. /\ disk' \in [Digests -> {"absent", "whole", "rotten"}]
      /\ \A d \in Digests : disk[d] # "absent" => disk'[d] # "absent"
  BY <1>0 DEF Rot, StorageTypeOK
<1>4. /\ copy' \in Copies /\ copy'.db = copy.db /\ copy'.arts = copy.arts
      /\ copy # NoCopy <=> copy' # NoCopy
  <2>1. CASE UNCHANGED copy
    BY <1>0, <2>1 DEF StorageTypeOK
  <2>2. CASE copy # NoCopy /\ copy' = [copy EXCEPT !.whole = FALSE]
    <3>1. copy' \in Copies /\ copy'.db = copy.db /\ copy'.arts = copy.arts
      BY <1>0, <2>2 DEF StorageTypeOK, Copies
    <3>2. copy'.db.release # 0
      BY <1>0, <2>2, <3>1 DEF CopyFits
    <3> QED
      BY <2>2, <3>1, <3>2 DEF NoCopy, NoDb
  <2> QED
    BY <2>1, <2>2 DEF Rot
<1>5. StorageTypeOK'
  BY <1>0, <1>1, <1>3, <1>4 DEF StorageTypeOK
<1>6. ServerFits'
  BY <1>0, <1>1, <1>3 DEF ServerFits
<1>7. CopyFits'
  BY <1>0, <1>1, <1>3, <1>4 DEF CopyFits, StorageTypeOK, Schemas
<1>8. AdoptedFromBackup'
  BY <1>0, <1>1, <1>4 DEF AdoptedFromBackup, At
<1> QED
  BY <1>2, <1>5, <1>6, <1>7, <1>8 DEF StorageInv

-------------------------------------------------------------------------------
(* Theorems *)

\* The invariant is inductive over every operation of the directory.
LEMMA StorageInvStep == StorageInv /\ [StorageNext]_storageVars => StorageInv'
<1> SUFFICES ASSUME StorageInv, [StorageNext]_storageVars PROVE StorageInv'
  OBVIOUS
<1>1. CASE UNCHANGED storageVars
  BY <1>1 DEF storageVars, StorageInv, StorageTypeOK, OneLock, DeadStayDead, ServerFits,
              CopyFits, AdoptedFromBackup, At
<1>2. CASE Rot
  BY <1>2, RotStep
<1>3. ASSUME NEW p \in Programs, NEW k \in {"server", "backup", "adopt"},
             NEW r \in 1..Releases, StartProgram(p, k, r)
      PROVE  StorageInv'
  BY <1>3, StartProgramStep
<1>4. ASSUME NEW p \in Programs,
             \/ WriteOwner(p) \/ ReadOwn(p) \/ UnlinkOwn(p) \/ RemoveDir(p) \/ Crash(p)
      PROVE  StorageInv'
  BY <1>4, WriteOwnerStep, ReadOwnStep, UnlinkOwnStep, RemoveDirStep, CrashStep
<1>5. ASSUME NEW p \in Programs,
             \/ StartUnlock(p) \/ ReadOwner(p) \/ ProbeOwner(p) \/ UnlinkOwner(p)
             \/ RemoveRecovery(p)
      PROVE  StorageInv'
  BY <1>5, StartUnlockStep, ReadOwnerStep, ProbeOwnerStep, UnlinkOwnerStep, RemoveRecoveryStep
<1>6. ASSUME NEW p \in Programs, NEW d \in Digests,
             StageUpload(p, d) \/ PublishUpload(p, d) \/ InsertRow(p, d)
      PROVE  StorageInv'
  BY <1>6, StageUploadStep, PublishUploadStep, InsertRowStep
<1>7. ASSUME NEW p \in Programs,
             \/ Migrate(p) \/ EndRun(p) \/ Dump(p) \/ CopyArtifacts(p) \/ PublishCopy(p)
             \/ Adopt(p) \/ StartRestore(p) \/ PublishRestored(p)
      PROVE  StorageInv'
  BY <1>7, MigrateStep, EndRunStep, DumpStep, CopyArtifactsStep, PublishCopyStep, AdoptStep,
     StartRestoreStep, PublishRestoredStep
<1> QED
  BY <1>1, <1>2, <1>3, <1>4, <1>5, <1>6, <1>7 DEF StorageNext

LEMMA StorageInductive == StorageSpec => []StorageInv
<1> QED
  BY StorageInitInv, StorageInvStep, PTL DEF StorageSpec

\* The variables of the directory stay in their types (lib/data-lock.mjs, scripts/storage.mjs).
THEOREM StorageTypeCorrect == StorageSpec => []StorageTypeOK
<1>1. StorageInv => StorageTypeOK
  BY DEF StorageInv
<1> QED
  BY <1>1, StorageInductive, PTL

\* However many programs of however many releases start, crash, unlock, upload, back
\* up, adopt and restore: one of them at a time has the database open, a server is on
\* its own schema, every row's artifact is in place, in the backup and in what is
\* restored from it, and a journal is adopted from a backup only.
THEOREM StorageIsSafe == StorageSpec => []StorageHolds
<1>1. StorageInv => OneOwner
  BY DEF StorageInv, OneLock, OneOwner, Holds, HasLock
<1>2. StorageInv => CodeFits
  BY DEF StorageInv, ServerFits, CodeFits, At
<1>3. StorageInv => CopiesComplete
  BY DEF StorageInv, CopyFits, CopiesComplete
<1>4. StorageInv => StorageHolds
  BY <1>1, <1>2, <1>3 DEF StorageInv, StorageHolds
<1> QED
  BY <1>4, StorageInductive, PTL

-------------------------------------------------------------------------------
(* Records: types *)

Pending == {"look", "insert", "read", "write", "emit", "select"}
AllStatuses == {"open", "closed", "mitigated", "accepted_risk", "resolved"}

Answers == Calls \cup {Nothing, "failed", "missing"}
Requests == [op : {Nothing, "promote", "open", "patch", "sweep"}, kind : Kinds,
             pc : Pending \cup {"idle", "done", "untold"},
             want : AllStatuses \cup {Nothing}, saw : AllStatuses \cup {Nothing},
             answer : Answers]

RecordsTypeOK ==
  /\ row \in [Kinds -> AllStatuses \cup {Nothing}]
  /\ told \in [Kinds -> AllStatuses \cup {Nothing}]
  /\ author \in Calls \cup {Nothing}
  /\ call \in [Calls -> Requests]
  /\ queue \in Seq(Calls)

-------------------------------------------------------------------------------
(* Records: the inductive invariant *)

\* A request the database has an operation of waits once in the queue, no other does.
WaitsOnce ==
  /\ \A i, j \in 1..Len(queue) : queue[i] = queue[j] => i = j
  /\ \A i \in 1..Len(queue) : call[queue[i]].pc \in Pending
  /\ \A c \in Calls : call[c].pc \in Pending => \E i \in 1..Len(queue) : queue[i] = c

\* A promotion and the making of another record write "open", and neither reads first.
Plans ==
  \A c \in Calls :
    /\ call[c].op = "promote" => call[c].kind = "decision" /\ call[c].want = "open"
    /\ call[c].op = "open" => call[c].want = "open"
    /\ call[c].op = "promote" => call[c].pc \notin {"read", "write", "select"}
    /\ call[c].pc \in Pending => call[c].want \in AllStatuses

Telling(c, k) == call[c].kind = k /\ call[c].pc = "emit"
Untold(c, k) == call[c].kind = k /\ call[c].pc = "untold"

\* Events are in the queue in the order of the writes they tell of: the last one of
\* a record names the status the record has.
LastTells(k) ==
  \/ \E c \in Calls : Untold(c, k)
  \/ told[k] = row[k] /\ \A c \in Calls : ~Telling(c, k)
  \/ \E i \in 1..Len(queue) :
       /\ Telling(queue[i], k) /\ call[queue[i]].want = row[k]
       /\ \A j \in 1..Len(queue) : Telling(queue[j], k) => j <= i

RecordsInv ==
  RecordsTypeOK /\ WaitsOnce /\ Plans /\ OneDecision /\ \A k \in Kinds : LastTells(k)

-------------------------------------------------------------------------------
(* Records: lemmas *)

LEMMA RecordsInitInv == RecordsInit => RecordsInv
<1> SUFFICES ASSUME RecordsInit PROVE RecordsInv
  OBVIOUS
<1>1. RecordsTypeOK
  BY DEF RecordsInit, RecordsTypeOK, NoCall, Requests, Answers, Pending, Nothing, Kinds
<1>2. WaitsOnce /\ Plans /\ OneDecision
  BY CallNames DEF RecordsInit, WaitsOnce, Plans, OneDecision, NoCall, Pending, Nothing
<1>3. \A k \in Kinds : LastTells(k)
  BY DEF RecordsInit, LastTells, Telling, NoCall, Nothing
<1> QED
  BY <1>1, <1>2, <1>3 DEF RecordsInv

\* What the invariant says of the last event of a record follows from how the queue
\* is read when a request joins it.
LEMMA Joins ==
  ASSUME NEW S, NEW q \in Seq(S), NEW c \in S
  PROVE  /\ Append(q, c) \in Seq(S) /\ Len(Append(q, c)) = Len(q) + 1
         /\ \A i \in 1..Len(q) : Append(q, c)[i] = q[i]
         /\ Append(q, c)[Len(q) + 1] = c
  BY AppendProperties

\* The queue without its head, and with the head behind the others.
LEMMA Leaves ==
  ASSUME NEW S, NEW q \in Seq(S), q # <<>>
  PROVE  /\ Tail(q) \in Seq(S) /\ Len(Tail(q)) = Len(q) - 1 /\ Len(q) \in Nat \ {0}
         /\ Len(Tail(q)) \in Nat
         /\ \A i \in 1..Len(Tail(q)) : Tail(q)[i] = q[i + 1] /\ i + 1 \in 1..Len(q)
         /\ Head(q) = q[1] /\ Head(q) \in S
  BY HeadTailProperties, EmptySeq, LenProperties

\* A request that is new joins the queue: it has told nothing.
Asked(c, op, kind, pc, want) ==
  /\ call[c].pc = "idle"
  /\ call' = [call EXCEPT ![c] = [op |-> op, kind |-> kind, pc |-> pc, want |-> want,
                                  saw |-> Nothing, answer |-> Nothing]]
  /\ queue' = Append(queue, c)
  /\ UNCHANGED <<row, author, told>>

LEMMA AskStep ==
  ASSUME RecordsInv, NEW c \in Calls,
         NEW op \in {"promote", "open", "patch", "sweep"}, NEW kind \in Kinds,
         NEW pc \in Pending \ {"emit"}, NEW want \in AllStatuses,
         op = "promote" => kind = "decision" /\ want = "open" /\ pc = "look",
         op = "open" => want = "open",
         Asked(c, op, kind, pc, want)
  PROVE  RecordsInv'
<1> USE DEF RecordsInv, Asked
<1>1. call[c] \in Requests /\ queue \in Seq(Calls)
  BY DEF RecordsTypeOK
<1>2. call'[c] = [op |-> op, kind |-> kind, pc |-> pc, want |-> want, saw |-> Nothing,
                  answer |-> Nothing]
  BY DEF RecordsTypeOK
<1>3. \A d \in Calls : d # c => call'[d] = call[d]
  BY DEF RecordsTypeOK
<1>4. queue' \in Seq(Calls) /\ Len(queue') = Len(queue) + 1 /\ queue'[Len(queue) + 1] = c
      /\ (\A i \in 1..Len(queue) : queue'[i] = queue[i]) /\ Len(queue) \in Nat
  BY <1>1, Joins, LenProperties
<1>5. \A i \in 1..Len(queue) : queue[i] \in Calls /\ queue[i] # c
  BY <1>1, ElementOfSeq DEF WaitsOnce, Pending
<1>6. RecordsTypeOK'
  BY <1>2, <1>3, <1>4 DEF Answers, Requests, RecordsTypeOK
<1>7. WaitsOnce'
  <2>1. \A i \in 1..Len(queue') : i \in 1..Len(queue) \/ i = Len(queue) + 1
    BY <1>4
  <2>2. \A i, j \in 1..Len(queue') : queue'[i] = queue'[j] => i = j
    BY <2>1, <1>4, <1>5 DEF WaitsOnce
  <2>3. \A i \in 1..Len(queue') : call'[queue'[i]].pc \in Pending
    BY <2>1, <1>2, <1>3, <1>4, <1>5 DEF WaitsOnce
  <2>4. ASSUME NEW d \in Calls, call'[d].pc \in Pending
        PROVE  \E i \in 1..Len(queue') : queue'[i] = d
    <3>1. CASE d = c
      BY <1>4, <3>1
    <3>2. CASE d # c
      <4>1. PICK i \in 1..Len(queue) : queue[i] = d
        BY <3>2, <2>4, <1>3 DEF WaitsOnce
      <4>2. i \in 1..Len(queue')
        BY <1>4
      <4> QED
        BY <4>1, <4>2, <1>4
    <3> QED
      BY <3>1, <3>2
  <2> QED
    BY <2>2, <2>3, <2>4 DEF WaitsOnce
<1>8. Plans'
  BY <1>2, <1>3 DEF Plans, RecordsTypeOK
<1>9. OneDecision'
  <2> SUFFICES ASSUME NEW d \in Calls, call'[d].op = "promote", call'[d].answer \in Calls
               PROVE  call'[d].answer = author'
    BY DEF OneDecision
  <2>1. d # c
    BY <1>2, CallNames DEF Nothing
  <2> QED
    BY <2>1, <1>3 DEF OneDecision
<1>10. ASSUME NEW k \in Kinds PROVE LastTells(k)'
  <2>1. \A d \in Calls : Telling(d, k)' <=> Telling(d, k)
    BY <1>2, <1>3 DEF Telling
  <2>2. CASE \E d \in Calls : Untold(d, k)
    BY <2>2, <1>3 DEF LastTells, Untold
  <2>3. CASE told[k] = row[k] /\ \A d \in Calls : ~Telling(d, k)
    BY <2>3, <2>1 DEF LastTells
  <2>4. CASE \E i \in 1..Len(queue) :
               /\ Telling(queue[i], k) /\ call[queue[i]].want = row[k]
               /\ \A j \in 1..Len(queue) : Telling(queue[j], k) => j <= i
    <3>1. PICK i \in 1..Len(queue) :
               /\ Telling(queue[i], k) /\ call[queue[i]].want = row[k]
               /\ \A j \in 1..Len(queue) : Telling(queue[j], k) => j <= i
      BY <2>4
    <3>2. i \in 1..Len(queue') /\ queue'[i] = queue[i]
      BY <1>4
    <3>3. Telling(queue[i], k)'
      BY <3>1, <3>2, <1>3, <1>5 DEF Telling
    <3>4. call'[queue'[i]].want = row'[k]
      BY <3>1, <3>2, <1>5, <1>3
    <3>5. ASSUME NEW j \in 1..Len(queue'), Telling(queue[j], k)'
          PROVE  j <= i
      BY <3>5, <1>4, <1>2, <1>3, <1>5, <3>1 DEF Telling
    <3> QED
      BY <3>2, <3>3, <3>4, <3>5 DEF LastTells
  <2> QED
    BY <2>2, <2>3, <2>4 DEF LastTells
<1> QED
  BY <1>6, <1>7, <1>8, <1>9, <1>10

\* What the database does with the request at the head of the queue: it leaves, or
\* waits behind the others.
TakenAs(c, next, saw, answer) ==
  call' = [call EXCEPT ![c] = [op |-> call[c].op, kind |-> call[c].kind, pc |-> next,
                               want |-> call[c].want, saw |-> saw, answer |-> answer]]

LEMMA TakeFacts ==
  ASSUME RecordsInv, NEW c \in Calls, NEW pc \in Pending, NEW next \in Pending \cup {"done"},
         NEW saw \in AllStatuses \cup {Nothing}, NEW answer \in Answers,
         Takes(c, pc, next), Becomes(c, next, saw, answer)
  PROVE  /\ TakenAs(c, next, saw, answer)
         /\ call' \in [Calls -> Requests] /\ queue' \in Seq(Calls)
         /\ \A d \in Calls : d # c => call'[d] = call[d]
         /\ Len(queue) \in Nat \ {0} /\ queue[1] = c /\ call[c].pc = pc
         /\ \A i \in 1..Len(queue) : queue[i] \in Calls
         /\ Len(queue') = IF next = "done" THEN Len(queue) - 1 ELSE Len(queue)
         /\ \A i \in 1..(Len(queue) - 1) : queue'[i] = queue[i + 1]
         /\ next # "done" => queue'[Len(queue)] = c
<1>1. call[c] \in Requests /\ queue \in Seq(Calls) /\ queue # <<>> /\ Head(queue) = c
      /\ call[c].pc = pc
  BY DEF RecordsInv, RecordsTypeOK, Takes
<1>2. call[c] = [op |-> call[c].op, kind |-> call[c].kind, pc |-> call[c].pc,
                 want |-> call[c].want, saw |-> call[c].saw, answer |-> call[c].answer]
  BY <1>1 DEF Requests
<1>3. TakenAs(c, next, saw, answer)
  <2>1. c \in DOMAIN call
    BY DEF RecordsInv, RecordsTypeOK
  <2>2. PICK op, kind, was, want, read, got :
           call[c] = [op |-> op, kind |-> kind, pc |-> was, want |-> want, saw |-> read,
                      answer |-> got]
    BY <1>2
  <2>3. [call[c] EXCEPT !.pc = next]
        = [op |-> op, kind |-> kind, pc |-> next, want |-> want, saw |-> read, answer |-> got]
    BY <2>2
  <2>4. PICK one : one = [call EXCEPT ![c].pc = next]
    OBVIOUS
  <2>5. one = [call EXCEPT ![c] = [op |-> op, kind |-> kind, pc |-> next, want |-> want,
                                   saw |-> read, answer |-> got]]
    BY <2>3, <2>4
  <2>6. [one[c] EXCEPT !.saw = saw]
        = [op |-> op, kind |-> kind, pc |-> next, want |-> want, saw |-> saw, answer |-> got]
    BY <2>1, <2>5
  <2>7. PICK two : two = [one EXCEPT ![c].saw = saw]
    OBVIOUS
  <2>8. two = [call EXCEPT ![c] = [op |-> op, kind |-> kind, pc |-> next, want |-> want,
                                   saw |-> saw, answer |-> got]]
    BY <2>5, <2>6, <2>7
  <2>9. [two[c] EXCEPT !.answer = answer]
        = [op |-> op, kind |-> kind, pc |-> next, want |-> want, saw |-> saw,
           answer |-> answer]
    BY <2>1, <2>8
  <2>10. [two EXCEPT ![c].answer = answer]
         = [call EXCEPT ![c] = [op |-> op, kind |-> kind, pc |-> next, want |-> want,
                                saw |-> saw, answer |-> answer]]
    BY <2>8, <2>9
  <2>11. call' = [two EXCEPT ![c].answer = answer]
    BY <2>4, <2>7 DEF Becomes
  <2> QED
    BY <2>2, <2>10, <2>11 DEF TakenAs
<1>4. call' \in [Calls -> Requests] /\ \A d \in Calls : d # c => call'[d] = call[d]
  BY <1>1, <1>3 DEF TakenAs, RecordsInv, RecordsTypeOK, Requests
<1>5. Len(queue) \in Nat \ {0} /\ queue[1] = c /\ Tail(queue) \in Seq(Calls)
      /\ Len(Tail(queue)) = Len(queue) - 1 /\ Len(Tail(queue)) \in Nat
      /\ (\A i \in 1..Len(Tail(queue)) : Tail(queue)[i] = queue[i + 1])
      /\ \A i \in 1..Len(queue) : queue[i] \in Calls
  BY <1>1, Leaves, ElementOfSeq
<1>6. CASE next = "done"
  BY <1>6, <1>1, <1>3, <1>4, <1>5 DEF Takes
<1>7. CASE next # "done"
  BY <1>7, <1>5, Joins, <1>1, <1>3, <1>4 DEF Takes
<1> QED
  BY <1>6, <1>7

LEMMA TakeWaits ==
  ASSUME RecordsInv, NEW c \in Calls, NEW pc \in Pending, NEW next \in Pending \cup {"done"},
         NEW saw \in AllStatuses \cup {Nothing}, NEW answer \in Answers,
         Takes(c, pc, next), Becomes(c, next, saw, answer),
         call[c].op = "promote" => next \notin {"read", "write", "select"}
  PROVE  WaitsOnce' /\ Plans'
<1>1. /\ TakenAs(c, next, saw, answer)
      /\ call' \in [Calls -> Requests] /\ queue' \in Seq(Calls)
      /\ \A d \in Calls : d # c => call'[d] = call[d]
      /\ Len(queue) \in Nat \ {0} /\ queue[1] = c /\ call[c].pc = pc
      /\ \A i \in 1..Len(queue) : queue[i] \in Calls
      /\ Len(queue') = IF next = "done" THEN Len(queue) - 1 ELSE Len(queue)
      /\ \A i \in 1..(Len(queue) - 1) : queue'[i] = queue[i + 1]
      /\ next # "done" => queue'[Len(queue)] = c
  BY TakeFacts
<1>2. call'[c].pc = next /\ call'[c].op = call[c].op /\ call'[c].kind = call[c].kind
      /\ call'[c].want = call[c].want
  BY <1>1 DEF TakenAs, RecordsInv, RecordsTypeOK
<1>3. WaitsOnce
  BY DEF RecordsInv
<1>4. \A i \in 1..(Len(queue) - 1) : queue[i + 1] # c /\ i + 1 \in 1..Len(queue)
  BY <1>1, <1>3 DEF WaitsOnce
<1>5. \A i \in 1..Len(queue') : i \in 1..(Len(queue) - 1) \/ (next # "done" /\ i = Len(queue))
  BY <1>1
<1>6. WaitsOnce'
  <2>1. \A i, j \in 1..Len(queue') : queue'[i] = queue'[j] => i = j
    <3> SUFFICES ASSUME NEW i \in 1..Len(queue'), NEW j \in 1..Len(queue'), queue'[i] = queue'[j]
                 PROVE  i = j
      OBVIOUS
    <3>1. CASE i \in 1..(Len(queue) - 1) /\ j \in 1..(Len(queue) - 1)
      BY <3>1, <1>1, <1>4, <1>3 DEF WaitsOnce
    <3>2. CASE i = Len(queue) \/ j = Len(queue)
      BY <3>2, <1>1, <1>4, <1>5
    <3> QED
      BY <3>1, <3>2, <1>5
  <2>2. ASSUME NEW i \in 1..Len(queue') PROVE call'[queue'[i]].pc \in Pending
    <3>1. CASE i \in 1..(Len(queue) - 1)
      BY <3>1, <1>1, <1>4, <1>3 DEF WaitsOnce
    <3>2. CASE next # "done" /\ i = Len(queue)
      BY <3>2, <1>1, <1>2
    <3> QED
      BY <3>1, <3>2, <1>5
  <2>3. ASSUME NEW d \in Calls, call'[d].pc \in Pending
        PROVE  \E i \in 1..Len(queue') : queue'[i] = d
    <3>1. CASE d = c
      BY <3>1, <2>3, <1>2, <1>1 DEF Pending
    <3>2. CASE d # c
      <4>1. PICK j \in 1..Len(queue) : queue[j] = d
        BY <3>2, <2>3, <1>1, <1>3 DEF WaitsOnce
      <4>2. j - 1 \in 1..(Len(queue) - 1) /\ (j - 1) + 1 = j
        BY <4>1, <3>2, <1>1
      <4>3. queue'[j - 1] = d /\ j - 1 \in 1..Len(queue')
        BY <4>1, <4>2, <1>1
      <4> QED
        BY <4>3
    <3> QED
      BY <3>1, <3>2
  <2> QED
    BY <2>1, <2>2, <2>3 DEF WaitsOnce
<1>7. Plans'
  BY <1>1, <1>2 DEF RecordsInv, Plans
<1> QED
  BY <1>6, <1>7

\* The database takes an operation that neither writes a status nor tells one.
LEMMA LookStep ==
  ASSUME RecordsInv, NEW c \in Calls, NEW pc \in Pending \ {"emit"},
         NEW next \in (Pending \cup {"done"}) \ {"emit"},
         NEW saw \in AllStatuses \cup {Nothing}, NEW answer \in Answers,
         Takes(c, pc, next), Becomes(c, next, saw, answer),
         call[c].op = "promote" => next \notin {"read", "write", "select"}
                                   /\ (answer \in Calls => answer = author),
         UNCHANGED <<row, author, told>>
  PROVE  RecordsInv'
<1>1. /\ TakenAs(c, next, saw, answer)
      /\ call' \in [Calls -> Requests] /\ queue' \in Seq(Calls)
      /\ \A d \in Calls : d # c => call'[d] = call[d]
      /\ Len(queue) \in Nat \ {0} /\ queue[1] = c /\ call[c].pc = pc
      /\ \A i \in 1..Len(queue) : queue[i] \in Calls
      /\ Len(queue') = IF next = "done" THEN Len(queue) - 1 ELSE Len(queue)
      /\ \A i \in 1..(Len(queue) - 1) : queue'[i] = queue[i + 1]
      /\ next # "done" => queue'[Len(queue)] = c
  BY TakeFacts
<1>2. call'[c].pc = next /\ call'[c].op = call[c].op /\ call'[c].answer = answer
  BY <1>1 DEF TakenAs, RecordsInv, RecordsTypeOK
<1>3. WaitsOnce' /\ Plans'
  BY TakeWaits
<1>4. RecordsTypeOK'
  BY <1>1 DEF RecordsInv, RecordsTypeOK
<1>5. OneDecision'
  BY <1>1, <1>2 DEF RecordsInv, OneDecision
<1>6. ASSUME NEW k \in Kinds PROVE LastTells(k)'
  <2>1. ~Telling(c, k) /\ ~Telling(c, k)' /\ ~Untold(c, k)
    BY <1>1, <1>2 DEF Telling, Untold, Pending
  <2>2. \A d \in Calls : d # c => (Telling(d, k)' <=> Telling(d, k)) /\ (Untold(d, k)' <=> Untold(d, k))
    BY <1>1 DEF Telling, Untold
  <2>3. CASE \E d \in Calls : Untold(d, k)
    BY <2>3, <2>1, <2>2 DEF LastTells
  <2>4. CASE told[k] = row[k] /\ \A d \in Calls : ~Telling(d, k)
    BY <2>4, <2>1, <2>2 DEF LastTells
  <2>5. CASE \E i \in 1..Len(queue) :
               /\ Telling(queue[i], k) /\ call[queue[i]].want = row[k]
               /\ \A j \in 1..Len(queue) : Telling(queue[j], k) => j <= i
    <3>1. PICK i \in 1..Len(queue) :
               /\ Telling(queue[i], k) /\ call[queue[i]].want = row[k]
               /\ \A j \in 1..Len(queue) : Telling(queue[j], k) => j <= i
      BY <2>5
    <3>2. i - 1 \in 1..Len(queue') /\ queue'[i - 1] = queue[i] /\ queue[i] # c
      BY <3>1, <2>1, <1>1
    <3>3. Telling(queue[i - 1], k)' /\ call'[queue'[i - 1]].want = row'[k]
      BY <3>1, <3>2, <1>1 DEF Telling
    <3>4. ASSUME NEW j \in 1..Len(queue'), Telling(queue[j], k)'
          PROVE  j <= i - 1
      <4>1. queue'[j] # c
        BY <3>4, <1>2 DEF Telling
      <4>2. j \in 1..(Len(queue) - 1)
        BY <4>1, <1>1
      <4>3. queue'[j] = queue[j + 1] /\ j + 1 \in 1..Len(queue)
        BY <4>2, <1>1
      <4>4. Telling(queue[j + 1], k)
        BY <4>1, <4>3, <3>4, <1>1 DEF Telling
      <4>5. j + 1 <= i
        BY <4>3, <4>4, <3>1
      <4> QED
        BY <4>5
    <3> QED
      BY <3>2, <3>3, <3>4 DEF LastTells
  <2> QED
    BY <2>3, <2>4, <2>5 DEF RecordsInv, LastTells
<1> QED
  BY <1>3, <1>4, <1>5, <1>6 DEF RecordsInv

\* A record is written; the event that tells it waits behind all others.
LEMMA WriteStep ==
  ASSUME RecordsInv, NEW c \in Calls, NEW pc \in Pending \ {"emit"},
         NEW saw \in AllStatuses \cup {Nothing},
         Takes(c, pc, "emit"), Becomes(c, "emit", saw, c),
         row' = [row EXCEPT ![call[c].kind] = call[c].want], call[c].want \in AllStatuses,
         told' = told, author' \in Calls \cup {Nothing},
         call[c].op = "promote" => author = Nothing /\ author' = c,
         call[c].op # "promote" => author' = author
  PROVE  RecordsInv'
<1>0. "emit" \in Pending \cup {"done"} /\ c \in Answers
  BY DEF Pending, Answers
<1>1. /\ TakenAs(c, "emit", saw, c)
      /\ call' \in [Calls -> Requests] /\ queue' \in Seq(Calls)
      /\ \A d \in Calls : d # c => call'[d] = call[d]
      /\ Len(queue) \in Nat \ {0} /\ queue[1] = c /\ call[c].pc = pc
      /\ \A i \in 1..Len(queue) : queue[i] \in Calls
      /\ Len(queue') = Len(queue)
      /\ \A i \in 1..(Len(queue) - 1) : queue'[i] = queue[i + 1]
      /\ queue'[Len(queue)] = c
  BY <1>0, TakeFacts
<1>2. call'[c].pc = "emit" /\ call'[c].op = call[c].op /\ call'[c].answer = c
      /\ call'[c].kind = call[c].kind /\ call'[c].want = call[c].want
  BY <1>1 DEF TakenAs, RecordsInv, RecordsTypeOK
<1>3. WaitsOnce' /\ Plans'
  BY <1>0, TakeWaits
<1>4. RecordsTypeOK'
  BY <1>1 DEF RecordsInv, RecordsTypeOK, Requests
<1>5. OneDecision'
  <2> SUFFICES ASSUME NEW d \in Calls, call'[d].op = "promote", call'[d].answer \in Calls
               PROVE  call'[d].answer = author'
    BY DEF OneDecision
  <2>1. CASE d = c
    BY <2>1, <1>2
  <2>2. CASE d # c
    BY <2>2, <1>1, CallNames DEF RecordsInv, OneDecision, Nothing
  <2> QED
    BY <2>1, <2>2
<1>6. ASSUME NEW k \in Kinds PROVE LastTells(k)'
  <2>1. CASE k = call[c].kind
    <3>1. Len(queue') \in 1..Len(queue') /\ queue'[Len(queue')] = c
      BY <1>1
    <3>2. Telling(queue[Len(queue)], k)' /\ call'[queue'[Len(queue')]].want = row'[k]
      BY <3>1, <2>1, <1>2 DEF Telling, RecordsInv, RecordsTypeOK
    <3>3. \A j \in 1..Len(queue') : j <= Len(queue')
      BY <1>1
    <3> QED
      BY <3>1, <3>2, <3>3 DEF LastTells
  <2>2. CASE k # call[c].kind
    <3>1. ~Telling(c, k) /\ ~Telling(c, k)' /\ ~Untold(c, k) /\ row'[k] = row[k]
      BY <2>2, <1>2 DEF Telling, Untold, RecordsInv, RecordsTypeOK
    <3>2. \A d \in Calls : d # c => (Telling(d, k)' <=> Telling(d, k)) /\ (Untold(d, k)' <=> Untold(d, k))
      BY <1>1 DEF Telling, Untold
    <3>3. CASE \E d \in Calls : Untold(d, k)
      BY <3>3, <3>1, <3>2 DEF LastTells
    <3>4. CASE told[k] = row[k] /\ \A d \in Calls : ~Telling(d, k)
      BY <3>4, <3>1, <3>2 DEF LastTells
    <3>5. CASE \E i \in 1..Len(queue) :
                 /\ Telling(queue[i], k) /\ call[queue[i]].want = row[k]
                 /\ \A j \in 1..Len(queue) : Telling(queue[j], k) => j <= i
      <4>1. PICK i \in 1..Len(queue) :
                 /\ Telling(queue[i], k) /\ call[queue[i]].want = row[k]
                 /\ \A j \in 1..Len(queue) : Telling(queue[j], k) => j <= i
        BY <3>5
      <4>2. i - 1 \in 1..Len(queue') /\ queue'[i - 1] = queue[i] /\ queue[i] # c
        BY <4>1, <3>1, <1>1
      <4>3. Telling(queue[i - 1], k)' /\ call'[queue'[i - 1]].want = row'[k]
        BY <4>1, <4>2, <3>1, <1>1 DEF Telling
      <4>4. ASSUME NEW j \in 1..Len(queue'), Telling(queue[j], k)'
            PROVE  j <= i - 1
        <5>1. queue'[j] # c
          BY <4>4, <2>2, <1>2 DEF Telling
        <5>2. j \in 1..(Len(queue) - 1)
          BY <5>1, <1>1
        <5>3. queue'[j] = queue[j + 1] /\ j + 1 \in 1..Len(queue)
          BY <5>2, <1>1
        <5>4. Telling(queue[j + 1], k)
          BY <5>1, <5>3, <4>4, <1>1 DEF Telling
        <5>5. j + 1 <= i
          BY <5>3, <5>4, <4>1
        <5> QED
          BY <5>5
      <4> QED
        BY <4>2, <4>3, <4>4 DEF LastTells
    <3> QED
      BY <3>3, <3>4, <3>5 DEF RecordsInv, LastTells
  <2> QED
    BY <2>1, <2>2
<1> QED
  BY <1>3, <1>4, <1>5, <1>6 DEF RecordsInv

\* The first event in the queue is told: if it is the last of its record, it tells
\* what the record says.
LEMMA EmitStep == ASSUME RecordsInv, NEW c \in Calls, Emit(c) PROVE RecordsInv'
<1>0. "emit" \in Pending /\ "done" \in Pending \cup {"done"} /\ call[c].saw \in AllStatuses \cup {Nothing}
      /\ call[c].answer \in Answers /\ call[c].want \in AllStatuses \cup {Nothing}
      /\ call[c].kind \in Kinds
  BY DEF Pending, RecordsInv, RecordsTypeOK, Requests
<1>a. Takes(c, "emit", "done") /\ Becomes(c, "done", call[c].saw, call[c].answer)
      /\ told' = [told EXCEPT ![call[c].kind] = call[c].want] /\ row' = row /\ author' = author
  BY DEF Emit
<1>1. /\ TakenAs(c, "done", call[c].saw, call[c].answer)
      /\ call' \in [Calls -> Requests] /\ queue' \in Seq(Calls)
      /\ \A d \in Calls : d # c => call'[d] = call[d]
      /\ Len(queue) \in Nat \ {0} /\ queue[1] = c /\ call[c].pc = "emit"
      /\ \A i \in 1..Len(queue) : queue[i] \in Calls
      /\ Len(queue') = Len(queue) - 1
      /\ \A i \in 1..(Len(queue) - 1) : queue'[i] = queue[i + 1]
  BY <1>0, <1>a, TakeFacts
<1>2. call'[c].pc = "done" /\ call'[c].op = call[c].op /\ call'[c].answer = call[c].answer
  BY <1>1 DEF TakenAs, RecordsInv, RecordsTypeOK
<1>3. WaitsOnce' /\ Plans'
  BY <1>0, <1>a, TakeWaits
<1>4. RecordsTypeOK'
  BY <1>0, <1>a, <1>1 DEF RecordsInv, RecordsTypeOK
<1>5. OneDecision'
  BY <1>a, <1>1, <1>2 DEF RecordsInv, OneDecision
<1>6. ASSUME NEW k \in Kinds PROVE LastTells(k)'
  <2>1. ~Telling(c, k)' /\ ~Untold(c, k)
    BY <1>1, <1>2 DEF Telling, Untold
  <2>2. \A d \in Calls : d # c => (Telling(d, k)' <=> Telling(d, k)) /\ (Untold(d, k)' <=> Untold(d, k))
    BY <1>1 DEF Telling, Untold
  <2>3. CASE \E d \in Calls : Untold(d, k)
    BY <2>3, <2>1, <2>2 DEF LastTells
  <2>4. CASE told[k] = row[k] /\ \A d \in Calls : ~Telling(d, k)
    BY <2>4, <1>1, <1>a, <2>1, <2>2 DEF Telling, RecordsInv, RecordsTypeOK, LastTells
  <2>5. CASE \E i \in 1..Len(queue) :
               /\ Telling(queue[i], k) /\ call[queue[i]].want = row[k]
               /\ \A j \in 1..Len(queue) : Telling(queue[j], k) => j <= i
    <3>1. PICK i \in 1..Len(queue) :
               /\ Telling(queue[i], k) /\ call[queue[i]].want = row[k]
               /\ \A j \in 1..Len(queue) : Telling(queue[j], k) => j <= i
      BY <2>5
    <3>2. CASE i = 1
      <4>1. told'[k] = row'[k]
        BY <3>1, <3>2, <1>1, <1>a DEF Telling, RecordsInv, RecordsTypeOK
      <4>2. ASSUME NEW d \in Calls, Telling(d, k)' PROVE FALSE
        <5>1. d # c /\ Telling(d, k)
          BY <4>2, <2>1, <2>2
        <5>2. PICK j \in 1..Len(queue) : queue[j] = d
          BY <5>1 DEF RecordsInv, WaitsOnce, Telling, Pending
        <5>3. j <= 1
          BY <5>1, <5>2, <3>1, <3>2
        <5> QED
          BY <5>1, <5>2, <5>3, <1>1
      <4> QED
        BY <4>1, <4>2 DEF LastTells
    <3>3. CASE i # 1
      <4>1. i - 1 \in 1..(Len(queue) - 1) /\ (i - 1) + 1 = i
        BY <3>3, <1>1
      <4>2. i - 1 \in 1..Len(queue') /\ queue'[i - 1] = queue[i] /\ queue[i] # c
        BY <3>3, <1>1, <4>1 DEF RecordsInv, WaitsOnce
      <4>3. Telling(queue[i - 1], k)' /\ call'[queue'[i - 1]].want = row'[k]
        BY <3>1, <4>2, <1>1, <1>a DEF Telling
      <4>4. ASSUME NEW j \in 1..Len(queue'), Telling(queue[j], k)'
            PROVE  j <= i - 1
        <5>1. queue'[j] = queue[j + 1] /\ j + 1 \in 1..Len(queue)
          BY <1>1
        <5>2. queue'[j] # c
          BY <4>4, <1>2 DEF Telling
        <5>3. Telling(queue[j + 1], k)
          BY <5>1, <5>2, <4>4, <1>1 DEF Telling
        <5>4. j + 1 <= i
          BY <5>1, <5>3, <3>1
        <5> QED
          BY <5>4
      <4> QED
        BY <4>2, <4>3, <4>4 DEF LastTells
    <3> QED
      BY <3>2, <3>3
  <2> QED
    BY <2>3, <2>4, <2>5 DEF RecordsInv, LastTells
<1> QED
  BY <1>3, <1>4, <1>5, <1>6 DEF RecordsInv

\* With the server the queue is lost; a status that was written stays untold.
LEMMA CrashRecordsStep == ASSUME RecordsInv, CrashRecords PROVE RecordsInv'
<1>1. queue' = <<>> /\ row' = row /\ author' = author /\ told' = told
  BY DEF CrashRecords
<1>2. ASSUME NEW c \in Calls
      PROVE  /\ call'[c] \in Requests /\ call'[c].pc \in {"idle", "done", "untold"}
             /\ call'[c].op = call[c].op /\ call'[c].kind = call[c].kind
             /\ call'[c].want = call[c].want /\ call'[c].answer = call[c].answer
             /\ (call[c].pc \in {"emit", "untold"} <=> call'[c].pc = "untold")
  <2>1. call[c] \in Requests
    BY DEF RecordsInv, RecordsTypeOK
  <2>2. PICK to \in {"idle", "done", "untold"} :
           /\ call'[c] = [call[c] EXCEPT !.pc = to]
           /\ (call[c].pc \in {"emit", "untold"} <=> to = "untold")
    BY DEF CrashRecords
  <2> QED
    BY <2>1, <2>2 DEF Requests
<1>3. call' = [c \in Calls |-> call'[c]]
  BY DEF CrashRecords
<1>4. RecordsTypeOK'
  BY <1>2, <1>3, <1>1, EmptySeq DEF RecordsInv, RecordsTypeOK
<1>5. WaitsOnce'
  BY <1>2, <1>1, EmptySeq DEF Pending, WaitsOnce
<1>6. Plans' /\ OneDecision'
  BY <1>1, <1>2 DEF RecordsInv, OneDecision, Plans, Pending
<1>7. ASSUME NEW k \in Kinds PROVE LastTells(k)'
  BY <1>2, ElementOfSeq, <1>1 DEF Telling, Untold, RecordsInv, RecordsTypeOK, LastTells
<1> QED
  BY <1>4, <1>5, <1>6, <1>7 DEF RecordsInv

FreshCall(op, kind, pc, want) ==
  [NoCall EXCEPT !.op = op, !.kind = kind, !.pc = pc, !.want = want]

LEMMA Fresh ==
  ASSUME NEW op, NEW kind, NEW pc, NEW want
  PROVE  FreshCall(op, kind, pc, want)
         = [op |-> op, kind |-> kind, pc |-> pc, want |-> want, saw |-> Nothing,
            answer |-> Nothing]
<1> DEFINE r1 == [NoCall EXCEPT !.op = op]
           r2 == [r1 EXCEPT !.kind = kind]
           r3 == [r2 EXCEPT !.pc = pc]
<1>1. r1 = [op |-> op, kind |-> "decision", pc |-> "idle", want |-> Nothing, saw |-> Nothing,
            answer |-> Nothing]
  BY DEF NoCall
<1>2. r2 = [op |-> op, kind |-> kind, pc |-> "idle", want |-> Nothing, saw |-> Nothing,
            answer |-> Nothing]
  <2> HIDE DEF r1
  <2> QED
    BY <1>1
<1>3. r3 = [op |-> op, kind |-> kind, pc |-> pc, want |-> Nothing, saw |-> Nothing,
            answer |-> Nothing]
  <2> HIDE DEF r2
  <2> QED
    BY <1>2
<1>4. [r3 EXCEPT !.want = want]
      = [op |-> op, kind |-> kind, pc |-> pc, want |-> want, saw |-> Nothing,
         answer |-> Nothing]
  <2> HIDE DEF r3
  <2> QED
    BY <1>3
<1> QED
  BY <1>4 DEF FreshCall

LEMMA AskIsAsked ==
  ASSUME NEW c, NEW op, NEW kind, NEW pc, NEW want, Ask(c, op, kind, pc, want)
  PROVE  Asked(c, op, kind, pc, want)
<1>1. call' = [call EXCEPT ![c] = FreshCall(op, kind, pc, want)]
  BY DEF Ask, FreshCall
<1>2. FreshCall(op, kind, pc, want) = [op |-> op, kind |-> kind, pc |-> pc, want |-> want, saw |-> Nothing,
               answer |-> Nothing]
  BY Fresh
<1>3. call' = [call EXCEPT ![c] = [op |-> op, kind |-> kind, pc |-> pc, want |-> want,
                                  saw |-> Nothing, answer |-> Nothing]]
  BY <1>1, <1>2
<1> QED
  BY <1>3 DEF Ask, Asked

\* A request asks for its first operation.
LEMMA AskingStep ==
  ASSUME RecordsInv, NEW c \in Calls,
         CreateDecision(c) \/ CreateHandoff(c) \/ CreateBlocker(c) \/ SetDecisionStatus(c)
         \/ SetHandoffStatus(c) \/ SetBlockerStatus(c) \/ Decide(c)
  PROVE  RecordsInv'
<1> USE DEF Kinds, Statuses, Pending, AllStatuses
<1>1. CASE CreateDecision(c)
  BY <1>1, AskIsAsked, AskStep DEF CreateDecision
<1>2. CASE CreateHandoff(c)
  BY <1>2, AskIsAsked, AskStep DEF CreateHandoff
<1>3. CASE CreateBlocker(c)
  BY <1>3, AskIsAsked, AskStep DEF CreateBlocker
<1>4. CASE SetDecisionStatus(c) \/ SetHandoffStatus(c) \/ SetBlockerStatus(c)
  <2>1. PICK kind \in Kinds, s \in AllStatuses : Asked(c, "patch", kind, "read", s)
    BY <1>4, AskIsAsked DEF SetDecisionStatus, SetHandoffStatus, SetBlockerStatus
  <2> QED
    BY <2>1, AskStep
<1>5. CASE Decide(c)
  <2>1. Asked(c, "sweep", "blocker", "select", "resolved")
    <3>1. call' = [call EXCEPT ![c] = FreshCall("sweep", "blocker", "select", "resolved")]
      BY <1>5 DEF Decide, FreshCall
    <3>a. FreshCall("sweep", "blocker", "select", "resolved") = [op |-> "sweep", kind |-> "blocker", pc |-> "select",
                   want |-> "resolved", saw |-> Nothing, answer |-> Nothing]
      BY Fresh
    <3>2. call' = [call EXCEPT ![c] = [op |-> "sweep", kind |-> "blocker", pc |-> "select",
                     want |-> "resolved", saw |-> Nothing, answer |-> Nothing]]
      BY <3>1, <3>a
    <3> QED
      BY <3>2, <1>5 DEF Decide, Asked
  <2> QED
    BY <2>1, AskStep
<1> QED
  BY <1>1, <1>2, <1>3, <1>4, <1>5

\* The database takes one operation.
LEMMA OperationStep ==
  ASSUME RecordsInv, NEW c \in Calls,
         LookForDecision(c) \/ InsertDecision(c) \/ InsertRecord(c) \/ ReadRecord(c)
         \/ WriteStatus(c) \/ SelectBlockers(c)
  PROVE  RecordsInv'
<1>1. /\ call[c].kind \in Kinds /\ row[call[c].kind] \in AllStatuses \cup {Nothing}
      /\ row["decision"] \in AllStatuses \cup {Nothing}
      /\ author \in Answers /\ Nothing \in Answers /\ "failed" \in Answers /\ "missing" \in Answers
      /\ Nothing \in AllStatuses \cup {Nothing} /\ c \in Answers
      /\ call[c].saw \in AllStatuses \cup {Nothing} /\ call[c].want \in AllStatuses \cup {Nothing}
      /\ author \in Calls \cup {Nothing}
  BY DEF RecordsInv, RecordsTypeOK, Requests, Answers, Kinds
<1>2. /\ call[c].op = "promote" => call[c].pc \notin {"read", "write", "select"}
      /\ call[c].op = "promote" => call[c].kind = "decision" /\ call[c].want = "open"
      /\ call[c].op = "open" => call[c].want = "open"
  BY DEF RecordsInv, Plans
<1> USE DEF Pending
<1>3. CASE LookForDecision(c)
  <2>1. PICK next \in {"insert", "done"} :
           Takes(c, "look", next) /\ Becomes(c, next, row["decision"], author)
           /\ UNCHANGED <<row, author, told>>
    BY <1>3 DEF LookForDecision
  <2> QED
    BY <2>1, <1>1, LookStep
<1>4. CASE InsertDecision(c)
  BY <1>4, <1>2, <1>1, WriteStep, CallNames, LookStep DEF InsertDecision, AllStatuses
<1>5. CASE InsertRecord(c)
  BY <1>5, <1>2, <1>1, WriteStep DEF InsertRecord, AllStatuses
<1>6. CASE ReadRecord(c)
  <2>1. call[c].op # "promote"
    BY <1>6, <1>2 DEF ReadRecord, Takes
  <2>2. PICK next \in {"write", "done"}, answer \in {Nothing, "missing"} :
           Takes(c, "read", next) /\ Becomes(c, next, row[call[c].kind], answer)
           /\ UNCHANGED <<row, author, told>>
    BY <1>6 DEF ReadRecord
  <2>3. answer \in Answers
    BY <1>1, <2>2
  <2> QED
    BY <2>1, <2>2, <2>3, <1>1, LookStep
<1>7. CASE WriteStatus(c)
  BY <1>7, <1>2, <1>1, WriteStep DEF WriteStatus, Takes, RecordsInv, Plans
<1>8. CASE SelectBlockers(c)
  <2>1. call[c].op # "promote"
    BY <1>8, <1>2 DEF SelectBlockers, Takes
  <2>2. PICK next \in {"read", "done"} :
           Takes(c, "select", next) /\ Becomes(c, next, Nothing, Nothing)
           /\ UNCHANGED <<row, author, told>>
    BY <1>8 DEF SelectBlockers
  <2> QED
    BY <2>1, <2>2, <1>1, LookStep
<1> QED
  BY <1>3, <1>4, <1>5, <1>6, <1>7, <1>8

LEMMA RecordsInvStep == RecordsInv /\ [RecordsNext]_recordVars => RecordsInv'
<1> SUFFICES ASSUME RecordsInv, [RecordsNext]_recordVars PROVE RecordsInv'
  OBVIOUS
<1>1. CASE UNCHANGED recordVars
  <2>1. \A k \in Kinds : LastTells(k)' <=> LastTells(k)
    BY <1>1 DEF recordVars, LastTells, Telling, Untold
  <2> QED
    BY <1>1, <2>1 DEF recordVars, RecordsInv, RecordsTypeOK, WaitsOnce, Plans, OneDecision
<1>2. CASE RecordsNext
  BY <1>2, AskingStep, OperationStep, EmitStep, CrashRecordsStep DEF RecordsNext
<1> QED
  BY <1>1, <1>2

\* Types of the records of a discussion, of the requests that change them and of the
\* queue of the database, which holds requests only (the routes of decisions, hand-offs
\* and blockers).
THEOREM RecordsTypeCorrect == RecordsSpec => []RecordsTypeOK
<1>1. RecordsSpec => []RecordsInv
  BY RecordsInitInv, RecordsInvStep, PTL DEF RecordsSpec
<1>2. RecordsInv => RecordsTypeOK
  BY DEF RecordsInv
<1> QED
  BY <1>1, <1>2, PTL

\* createDecision makes one record of a message however promotions overlap, and at
\* rest the last event of a record tells the status it has (setDecisionStatus,
\* setHandoffStatus, setBlockerStatus, resolveBlockersForSource), for any number of
\* requests and restarts.
THEOREM RecordsAreTold == RecordsSpec => []RecordsHold
<1>1. RecordsSpec => []RecordsInv
  BY RecordsInitInv, RecordsInvStep, PTL DEF RecordsSpec
<1>2. ASSUME RecordsInv PROVE RecordsHold
  <2>1. ASSUME NEW k \in Kinds
        PROVE  told[k] = row[k] \/ \E c \in Calls : call[c].kind = k /\ call[c].pc \in {"emit", "untold"}
    BY <1>2, ElementOfSeq DEF RecordsInv, RecordsTypeOK, LastTells, Telling, Untold
  <2> QED
    BY <1>2, <2>1 DEF RecordsInv, RecordsHold, ToldAtRest
<1> QED
  BY <1>1, <1>2, PTL

-------------------------------------------------------------------------------
(* Turns: types *)

TurnStates == {"none", "queued", "waiting", "running", "completed", "failed", "cancelled"}
TurnRows == [is : TurnStates, task : TurnTasks, run : TurnRuns \cup {NoTurnRun},
             grant : Nat, answered : BOOLEAN]
ExecRows == [is : {"none", "queued", "running", "completed", "failed", "cancelled"},
             task : TurnTasks, grant : Nat]
TalkRows == [is : {"none", "running", "stopping", "ready", "failed", "cancelled"},
             step : 0..Steps, turn : TurnIds \cup {NoTurn}, grant : Nat, error : BOOLEAN]
PumpDoes == {"settle", "wait", "close", "triage", "retry", "request_changes", "assign", "error"}
Pumps == [at : {"idle", "pick"} \cup PumpDoes, todo : SUBSET TurnIds,
          turn : TurnIds \cup {NoTurn}, run : TurnRuns \cup {NoTurnRun}]
TurnItems == {TurnItem(k) : k \in TurnIds}
RunItems == {RunItem(r) : r \in TurnRuns}
StopCalls == [by : {"user", "item"} \cup Finishers, item : TurnItems \cup RunItems,
              run : TurnRuns \cup {NoTurnRun}, at : {"stop", "confirm", "commit"}]
Fins == [at : {"idle", "lost", "stops", "cancel", "close"}, left : SUBSET TurnRuns]
Fences == {<<"fence", 0>>, <<"state", 0>>}
Withdrawals == [at : {"idle", "revoked", "stopping"},
                todo : SUBSET (TurnItems \cup RunItems \cup Fences),
                upTo : Nat, unconfirmed : BOOLEAN]

TurnsTypeOK ==
  /\ work \in [TurnTasks -> TaskStatus \cup {"none"}]
  /\ turn \in [TurnIds -> TurnRows]
  /\ exec \in [TurnRuns -> ExecRows]
  /\ proc \in [TurnRuns -> {"none", "sending", "alive", "gone"}]
  /\ lost \subseteq TurnRuns
  /\ consent \in [grant : Nat, given : BOOLEAN]
  /\ talks \in TalkRows
  /\ pump \in Pumps
  /\ calls \subseteq StopCalls
  /\ fin \in [Finishers -> Fins]
  /\ wd \in Withdrawals
  /\ clean \in Nat /\ acts \in Nat

-------------------------------------------------------------------------------
(* Turns: the inductive invariant *)

\* Runs are numbered in the order in which they were made.
RunsInOrder ==
  /\ \E n \in 0..LastRun : \A r \in TurnRuns : Started(r) <=> r <= n
  /\ \A r \in TurnRuns : exec[r].grant # 0 => Started(r)

\* A run that has not ended, or whose exit is not confirmed, keeps its task.
Held(r) == exec[r].is \in {"queued", "running"} \/ r \in lost
RunKeepsTask ==
  /\ \A r \in TurnRuns :
       /\ exec[r].is = "queued" => work[exec[r].task] = "assigned"
       /\ exec[r].is = "running" => work[exec[r].task] = "running"
       /\ r \in lost => exec[r].is = "failed" /\ work[exec[r].task] \in {"ready", "blocked"}
       /\ Working(r) => Held(r)
  /\ \A r, s \in TurnRuns : Held(r) /\ Held(s) /\ exec[r].task = exec[s].task => r = s

\* The tasks of the conversation follow each other: all but the last one are closed,
\* and the last one is the task of the last turn.
Before(k) == IF k = 1 THEN 0 ELSE turn[k - 1].task
Made(k) == turn[k].is # "none"
TasksInOrder ==
  /\ \A s, t \in 1..TalkTasks : s < t /\ work[t] # "none" => work[s] \in TaskTerminal
  /\ \A k \in 1..Talk : Made(k) => turn[k].task # 0 /\ \A j \in 1..k : Made(j)
  /\ \A k \in 1..Talk : ~Made(k) /\ (k > 1 => Made(k - 1)) =>
       \A t \in 1..TalkTasks : work[t] # "none" <=> t <= Before(k)

\* A turn and its run.
TurnAndRun ==
  \A k \in TurnIds :
    LET t == turn[k] IN
    /\ t.is = "none" => t = NoRow
    /\ t.is \in {"queued", "waiting"} => t.run = NoTurnRun
    /\ t.is = "running" => t.run # NoTurnRun
    /\ t.run # NoTurnRun => Started(t.run)
    /\ t.is = "completed" => t.run # NoTurnRun /\ t.answered /\ exec[t.run].is = "completed"
    /\ t.run # NoTurnRun /\ exec[t.run].is \notin {"completed", "failed"} =>
         t.is \in {"running", "cancelled"}
    /\ t.is = "cancelled" /\ t.run # NoTurnRun => exec[t.run].is = "cancelled"

\* The pump settles a turn with a run that has ended.
PumpKnows ==
  /\ pump.at = "pick" => pump.todo # {}
  /\ pump.at \in PumpDoes => pump.turn # NoTurn
  /\ pump.at = "settle" => pump.run # NoTurnRun /\ Over(pump.run)

\* A cancellation of a turn that waits for the stop of a run cancels that run's turn.
CallsKnow ==
  \A c \in calls :
    /\ c.item \in RunItems => c.at # "commit" /\ c.run = c.item[2]
    /\ c.item \in TurnItems => c.at # "confirm"
    /\ c.at # "commit" => c.run # NoTurnRun
    /\ c.run # NoTurnRun => Started(c.run)
    /\ c.at = "confirm" => Over(c.run)
    /\ c.item \in TurnItems /\ c.run # NoTurnRun =>
         \/ turn[c.item[2]].run = c.run
         \/ exec[c.run].is \in {"completed", "failed"}
    /\ c.at = "commit" /\ c.run # NoTurnRun => exec[c.run].is = "cancelled"

\* A finishStopping under way is that of a discussion with an active turn.
TalkKnows ==
  /\ talks.is = "none" => talks.step = 0 /\ talks.turn = NoTurn /\ work[0] = "none"
  /\ talks.turn # NoTurn => talks.step < Steps /\ talks.turn = PlanTurn(talks.step)
  /\ \A a \in Finishers : fin[a].at \in {"lost", "stops"} =>
       talks.turn # NoTurn /\ talks.is \notin {"none", "running", "ready"}

\* Nothing begins any more under a grant whose withdrawal is committed.
Passed(grant) == grant <= consent.grant /\ (consent.given => grant < consent.grant)
Settled(r) == Over(r) /\ r \notin lost /\ ~Working(r)
StopsUpTo(last, todo) ==
  /\ \A r \in TurnRuns : exec[r].grant \in 1..last => Settled(r) \/ RunItem(r) \in todo
  /\ \A k \in TurnIds : turn[k].grant \in 1..last =>
       turn[k].is \notin PendingTurn \/ TurnItem(k) \in todo
  /\ talks.grant \in 1..last =>
       \/ talks.is \notin OpenDiscussion \/ <<"fence", 0>> \in todo
       \/ talks.is = "stopping" /\ <<"state", 0>> \in todo
WithdrawalKnows ==
  /\ Passed(clean)
  /\ wd.at # "idle" => Passed(wd.upTo)
  /\ wd.at # "stopping" => wd.todo = {}
  /\ \A r \in TurnRuns : RunItem(r) \in wd.todo => Started(r)
  /\ wd.at = "stopping" /\ ~wd.unconfirmed => StopsUpTo(wd.upTo, wd.todo)

TurnsInv ==
  /\ TurnsTypeOK /\ RunsInOrder /\ RunKeepsTask /\ TasksInOrder /\ TurnAndRun /\ PumpKnows
  /\ CallsKnow /\ TalkKnows /\ DiscussionFollowsAnswers /\ WithdrawalKnows
  /\ WithdrawnWorkStopped

-------------------------------------------------------------------------------
(* Turns: what a step does to tasks, runs and processes *)

LEMMA WorkEdges ==
  /\ \A s \in TaskStatus \cup {"none"} :
       /\ CanTransitionTask(s, "triage") => s = "backlog"
       /\ CanTransitionTask(s, "retry") => s = "blocked"
       /\ CanTransitionTask(s, "request_changes") => s = "review"
       /\ CanTransitionTask(s, "cancel") <=> s \in TaskStatus \ TaskTerminal
  /\ ApplyTaskTransition("backlog", "triage") = "ready"
  /\ ApplyTaskTransition("ready", "assign") = "assigned"
  /\ ApplyTaskTransition("assigned", "run_started") = "running"
  /\ ApplyTaskTransition("assigned", "assign_failed_retryable") = "ready"
  /\ ApplyTaskTransition("running", "run_completed") = "review"
  /\ ApplyTaskTransition("running", "run_failed") = "blocked"
  /\ ApplyTaskTransition("blocked", "retry") = "ready"
  /\ ApplyTaskTransition("review", "accept") = "done"
  /\ ApplyTaskTransition("review", "request_changes") = "ready"
  BY DEF CanTransitionTask, ApplyTaskTransition, TaskTransitions, TaskStatus, TaskTerminal

\* The number of the next run is not taken.
LEMMA NextRunIsNew ==
  ASSUME TurnsInv, NextRun \in TurnRuns
  PROVE  ~Started(NextRun) /\ \A r \in TurnRuns : Started(r) \/ r = NextRun <=> r <= NextRun
<1>1. PICK n \in 0..LastRun : \A r \in TurnRuns : Started(r) <=> r <= n
  BY DEF TurnsInv, RunsInOrder
<1>2. {r \in TurnRuns : Started(r)} = 1..n
  BY <1>1, TurnsAssumption DEF TurnRuns
<1>3. Cardinality(1..n) = n
  BY <1>1, FS_Interval, TurnsAssumption
<1>4. NextRun = n + 1
  BY <1>2, <1>3 DEF NextRun
<1> QED
  BY <1>1, <1>4, TurnsAssumption DEF TurnRuns

Calm == UNCHANGED <<work, exec, proc, lost>>
Opens(t) ==
  /\ IF t = 0 THEN StartDiscussion ELSE \E k \in TurnIds : Enqueue(k)
  /\ work[t] = "none" /\ work' = [work EXCEPT ![t] = "backlog"] /\ UNCHANGED <<exec, proc, lost>>
Shifting == {<<"review", "done">>, <<"review", "ready">>, <<"blocked", "ready">>,
             <<"backlog", "ready">>}
Shifts(t, edge) ==
  work[t] = edge[1] /\ work' = [work EXCEPT ![t] = edge[2]] /\ UNCHANGED <<exec, proc, lost>>
NewExec(t) == [is |-> "queued", task |-> t, grant |-> consent.grant]
Assigns(t) ==
  /\ consent.given /\ work[t] = "ready" /\ NextRun \in TurnRuns
  /\ \A r \in lost : exec[r].task # t
  /\ work' = [work EXCEPT ![t] = "assigned"]
  /\ exec' = [exec EXCEPT ![NextRun] = NewExec(t)]
  /\ UNCHANGED <<proc, lost>>
Sends(r) ==
  /\ exec[r].is = "queued" /\ proc[r] = "none" /\ Authorizes(exec[r].grant)
  /\ proc' = [proc EXCEPT ![r] = "sending"] /\ UNCHANGED <<work, exec, lost>>
Begins(r) ==
  proc[r] = "sending" /\ proc' = [proc EXCEPT ![r] = "alive"] /\ UNCHANGED <<work, exec, lost>>
Runs(r) ==
  /\ exec[r].is = "queued" /\ exec' = [exec EXCEPT ![r].is = "running"]
  /\ work' = [work EXCEPT ![exec[r].task] = "running"]
  /\ UNCHANGED <<proc, lost>>
Leaves2(r) ==
  /\ proc' = [proc EXCEPT ![r] = "gone"] /\ lost' \in {lost, lost \ {r}}
  /\ UNCHANGED <<work, exec>>
Closes(r, phase, to) ==
  /\ exec[r].is \in {"queued", "running"} /\ exec' = [exec EXCEPT ![r].is = phase]
  /\ work' = [work EXCEPT ![exec[r].task] = to]
  /\ proc' = [proc EXCEPT ![r] = "gone"] /\ lost' = lost
Loses(r, to) ==
  /\ exec[r].is \in {"queued", "running"} /\ exec' = [exec EXCEPT ![r].is = "failed"]
  /\ work' = [work EXCEPT ![exec[r].task] = to]
  /\ lost' = lost \cup {r} /\ proc' = proc
Restarts ==
  /\ proc' = [r \in TurnRuns |-> IF proc[r] = "sending" THEN "none" ELSE proc[r]]
  /\ UNCHANGED <<work, exec, lost>>

RunStep ==
  \/ Calm \/ Restarts
  \/ \E t \in TurnTasks : Opens(t) \/ Assigns(t) \/ \E edge \in Shifting : Shifts(t, edge)
  \/ \E r \in TurnRuns :
       \/ Sends(r) \/ Begins(r) \/ Runs(r) \/ Leaves2(r)
       \/ \E phase \in RunTerminal, to \in TaskStatus : Closes(r, phase, to)
       \/ \E to \in {"ready", "blocked"} : Loses(r, to)

LEMMA AssignIs ==
  ASSUME TurnsInv, NEW t \in TurnTasks, NEW k, Assign(t, k), UNCHANGED <<proc, lost>>
  PROVE  Assigns(t)
BY WorkEdges DEF Assign, Move, CasTask, Assigns, NewExec

\* The next step of a discussion is a new turn, its end, or a refusal.
StepAfter == IF talks.turn = NoTurn THEN talks.step ELSE talks.step + 1
TalkAfter(is, k, error) ==
  [is |-> is, step |-> StepAfter, turn |-> k, grant |-> talks.grant, error |-> error]
LEMMA ContinuesIs ==
  ASSUME TurnsInv, AdvanceContinues
  PROVE  /\ talks.is = "running" /\ StepAfter \in 0..Steps
         /\ talks.turn # NoTurn =>
              turn[talks.turn].is = "completed" /\ turn[talks.turn].answered
         /\ UNCHANGED <<work, exec, proc, lost, consent, pump, calls, wd, clean, acts>>
         /\ \/ StepAfter = Steps /\ talks' = TalkAfter("ready", NoTurn, talks.error) /\ turn' = turn
            \/ StepAfter < Steps /\ talks' = TalkAfter("stopping", NoTurn, TRUE) /\ turn' = turn
            \/ /\ StepAfter < Steps /\ Authorizes(talks.grant)
               /\ talks' = TalkAfter("running", PlanTurn(StepAfter), talks.error)
               /\ turn' = [turn EXCEPT ![PlanTurn(StepAfter)] =
                             [is |-> "queued", task |-> 0, run |-> NoTurnRun,
                              grant |-> talks.grant, answered |-> FALSE]]
         /\ \E entry : Finishes("worker", entry) /\ talks' = entry
<1> DEFINE step == IF talks.turn = NoTurn THEN talks.step ELSE talks.step + 1
           next == [talks EXCEPT !.step = step, !.turn = NoTurn]
<1>1. talks = [is |-> talks.is, step |-> talks.step, turn |-> talks.turn,
               grant |-> talks.grant, error |-> talks.error] /\ talks \in TalkRows
  BY DEF TurnsInv, TurnsTypeOK, TalkRows
<1>2. step \in 0..Steps /\ Steps \in Nat /\ step = StepAfter
  BY <1>1, TurnsAssumption DEF TalkRows, TurnsInv, TalkKnows, StepAfter
<1>3. PICK is0, step0, turn0, grant0, error0 :
         talks = [is |-> is0, step |-> step0, turn |-> turn0, grant |-> grant0, error |-> error0]
  BY <1>1
<1>4. next = [is |-> talks.is, step |-> step, turn |-> NoTurn, grant |-> talks.grant,
              error |-> talks.error]
  <2> HIDE DEF step
  <2> DEFINE one == [talks EXCEPT !.step = step]
  <2>1. one = [is |-> is0, step |-> step, turn |-> turn0, grant |-> grant0, error |-> error0]
    BY <1>3
  <2> HIDE DEF one
  <2>2. [one EXCEPT !.turn = NoTurn]
        = [is |-> is0, step |-> step, turn |-> NoTurn, grant |-> grant0, error |-> error0]
    BY <2>1
  <2>3. next = [one EXCEPT !.turn = NoTurn]
    BY DEF one
  <2> QED
    BY <1>3, <2>2, <2>3
<1>5. /\ talks.is = "running"
      /\ talks.turn # NoTurn => turn[talks.turn].is = "completed" /\ turn[talks.turn].answered
      /\ \/ step = Steps /\ Advances([next EXCEPT !.is = "ready"]) /\ UNCHANGED turn
         \/ /\ step < Steps /\ Advances([next EXCEPT !.is = "stopping", !.error = TRUE])
            /\ UNCHANGED turn
         \/ /\ step < Steps /\ Authorizes(talks.grant)
            /\ Advances([next EXCEPT !.turn = PlanTurn(step)])
            /\ turn' = [turn EXCEPT ![PlanTurn(step)] =
                          [NoRow EXCEPT !.is = "queued", !.grant = talks.grant]]
  <2>1. step = Steps \/ step < Steps
    BY <1>2
  <2> HIDE DEF step, next
  <2>2. talks.is = "running"
        /\ (talks.turn # NoTurn => turn[talks.turn].is = "completed" /\ turn[talks.turn].answered)
        /\ (CASE step = Steps -> Advances([next EXCEPT !.is = "ready"]) /\ UNCHANGED turn
              [] step < Steps /\ ~Authorizes(talks.grant) ->
                   Advances([next EXCEPT !.is = "stopping", !.error = TRUE]) /\ UNCHANGED turn
              [] step < Steps /\ Authorizes(talks.grant) ->
                   /\ Advances([next EXCEPT !.turn = PlanTurn(step)])
                   /\ turn' = [turn EXCEPT ![PlanTurn(step)] =
                                 [NoRow EXCEPT !.is = "queued", !.grant = talks.grant]])
    BY DEF AdvanceContinues, step, next
  <2>3. CASE step = Steps
    BY <1>2, <2>2, <2>3
  <2>4. CASE step < Steps /\ ~Authorizes(talks.grant)
    BY <1>2, <2>2, <2>4
  <2>5. CASE step < Steps /\ Authorizes(talks.grant)
    BY <1>2, <2>2, <2>5
  <2> QED
    BY <2>1, <2>3, <2>4, <2>5
<1> HIDE DEF step, next
<1>6. [next EXCEPT !.is = "ready"] = TalkAfter("ready", NoTurn, talks.error)
  BY <1>2, <1>4 DEF TalkAfter
<1>7. [next EXCEPT !.is = "stopping", !.error = TRUE] = TalkAfter("stopping", NoTurn, TRUE)
  <2> DEFINE one == [next EXCEPT !.is = "stopping"]
  <2>1. one = [is |-> "stopping", step |-> step, turn |-> NoTurn, grant |-> grant0, error |-> error0]
    BY <1>3, <1>4
  <2>2. PICK yes : yes = TRUE
    OBVIOUS
  <2> HIDE DEF one
  <2>3. [one EXCEPT !.error = yes]
        = [is |-> "stopping", step |-> step, turn |-> NoTurn, grant |-> grant0, error |-> yes]
    BY <2>1
  <2>4. [next EXCEPT !.is = "stopping", !.error = yes] = [one EXCEPT !.error = yes]
    BY DEF one
  <2>5. TalkAfter("stopping", NoTurn, yes)
        = [is |-> "stopping", step |-> step, turn |-> NoTurn, grant |-> grant0, error |-> yes]
    BY <1>2, <1>3 DEF TalkAfter
  <2> QED
    BY <2>2, <2>3, <2>4, <2>5
<1>8. [next EXCEPT !.turn = PlanTurn(step)] = TalkAfter("running", PlanTurn(StepAfter), talks.error)
  BY <1>2, <1>4, <1>5 DEF TalkAfter
<1>9. [NoRow EXCEPT !.is = "queued", !.grant = talks.grant]
      = [is |-> "queued", task |-> 0, run |-> NoTurnRun, grant |-> talks.grant, answered |-> FALSE]
  <2>1. PICK no : no = FALSE
    OBVIOUS
  <2>2. NoRow = [is |-> "none", task |-> 0, run |-> NoTurnRun, grant |-> 0, answered |-> no]
    BY <2>1 DEF NoRow
  <2> DEFINE one == [NoRow EXCEPT !.is = "queued"]
  <2>3. one = [is |-> "queued", task |-> 0, run |-> NoTurnRun, grant |-> 0, answered |-> no]
    BY <2>2
  <2> HIDE DEF one
  <2>4. [one EXCEPT !.grant = talks.grant]
        = [is |-> "queued", task |-> 0, run |-> NoTurnRun, grant |-> talks.grant, answered |-> no]
    BY <2>3
  <2> QED
    BY <2>1, <2>4 DEF one
<1>10. \A entry : Advances(entry) =>
         /\ talks' = entry /\ Finishes("worker", entry)
         /\ UNCHANGED <<work, exec, proc, lost, consent, pump, calls, wd, clean, acts>>
  BY DEF Advances
<1>11. CASE step = Steps /\ Advances([next EXCEPT !.is = "ready"]) /\ UNCHANGED turn
  BY <1>6, <1>11, <1>2, <1>5, <1>10
<1>12. CASE step < Steps /\ Advances([next EXCEPT !.is = "stopping", !.error = TRUE]) /\ UNCHANGED turn
  BY <1>7, <1>12, <1>2, <1>5, <1>10
<1>13. CASE /\ step < Steps /\ Authorizes(talks.grant)
            /\ Advances([next EXCEPT !.turn = PlanTurn(step)])
            /\ turn' = [turn EXCEPT ![PlanTurn(step)] =
                          [NoRow EXCEPT !.is = "queued", !.grant = talks.grant]]
  BY <1>8, <1>13, <1>2, <1>9, <1>5, <1>10
<1> QED
  BY <1>5, <1>11, <1>12, <1>13

LEMMA MovesAre ==
  ASSUME TurnsInv, TurnsNext
  PROVE  RunStep
<1> USE DEF TurnsInv
<1>a. /\ work \in [TurnTasks -> TaskStatus \cup {"none"}] /\ turn \in [TurnIds -> TurnRows]
      /\ exec \in [TurnRuns -> ExecRows] /\ lost \subseteq TurnRuns /\ calls \subseteq StopCalls
      /\ fin \in [Finishers -> Fins] /\ pump \in Pumps
  BY DEF TurnsTypeOK
<1>b. \A r \in TurnRuns : exec[r].task \in TurnTasks
  BY <1>a DEF ExecRows
<1>c. 0 \in TurnTasks
  BY TurnsAssumption DEF TurnTasks
<1>1. ASSUME NEW k \in TurnIds, Enqueue(k) PROVE RunStep
  <2> DEFINE before == IF k = 1 THEN 0 ELSE turn[k - 1].task
             t == IF before = 0 \/ work[before] \in TaskTerminal THEN before + 1 ELSE before
  <2>1. k \in 1..Talk /\ turn[k] = NoRow /\ (k > 1 => turn[k - 1] # NoRow) /\ t \in TurnTasks
        /\ work' = (IF t = before THEN work ELSE [work EXCEPT ![t] = "backlog"])
        /\ UNCHANGED <<exec, proc, lost>>
    BY <1>1 DEF Enqueue
  <2>2. CASE t = before
    BY <2>1, <2>2 DEF RunStep, Calm
  <2>3. CASE t # before
    <3>1. ~Made(k) /\ (k > 1 => Made(k - 1)) /\ before = Before(k)
      BY <2>1, TurnsAssumption DEF TurnIds, Made, NoRow, Before, TurnAndRun
    <3>2. \A s \in 1..TalkTasks : work[s] # "none" <=> s <= before
      BY <3>1, <2>1 DEF TasksInOrder
    <3>3. before \in Nat
      BY <2>1, TurnsAssumption, <1>a DEF TurnIds, TurnRows, TurnTasks
    <3>4. work[t] = "none"
      <4> HIDE DEF before
      <4>1. t = before + 1
        BY <2>3
      <4>2. t \in 1..TalkTasks
        BY <4>1, <2>1, <3>3, TurnsAssumption DEF TurnTasks
      <4> QED
        BY <4>1, <4>2, <3>2, <3>3
    <3>5. t # 0
      <4> HIDE DEF before
      <4> QED
        BY <2>3, <3>3
    <3> HIDE DEF t
    <3> QED
      BY <1>1, <2>1, <2>3, <3>4, <3>5 DEF RunStep, Opens
  <2> QED
    BY <2>2, <2>3
<1>2. ASSUME NEW t \in TurnTasks, UserAssigns(t) PROVE RunStep
  BY <1>2, AssignIs DEF UserAssigns, RunStep
<1>3. CASE PumpAssigns
  BY <1>a, <1>3, AssignIs DEF TurnRows, PumpAssigns, RunStep, PumpKnows, PumpDoes, Pumps
<1>4. ASSUME NEW t \in TurnTasks, UserMoves(t) PROVE RunStep
  <2>1. PICK e \in Shifting : work[t] = e[1] /\ work' = [work EXCEPT ![t] = e[2]]
    BY <1>4, <1>a, WorkEdges DEF UserMoves, Move, CasTask, Shifting
  <2> QED
    BY <2>1, <1>4 DEF UserMoves, RunStep, Shifts
<1>5. CASE PumpPrepares
  <2> DEFINE t == turn[pump.turn].task
  <2>1. t \in TurnTasks
    BY <1>5, <1>a DEF PumpPrepares, PumpKnows, PumpDoes, Pumps, TurnRows
  <2>2. pump.at \in {"triage", "retry", "request_changes"} /\ UNCHANGED <<exec, proc, lost>>
        /\ work' = (IF CanTransitionTask(work[t], pump.at)
                      THEN [work EXCEPT ![t] = ApplyTaskTransition(@, pump.at)] ELSE work)
    BY <1>5 DEF PumpPrepares
  <2>3. work[t] \in TaskStatus \cup {"none"}
    BY <2>1, <1>a
  <2> HIDE DEF t
  <2>4. CASE CanTransitionTask(work[t], pump.at)
    <3>1. PICK e \in Shifting : work[t] = e[1] /\ work' = [work EXCEPT ![t] = e[2]]
      BY <2>2, <2>3, <2>4, WorkEdges DEF Shifting
    <3> QED
      BY <2>1, <2>2, <3>1 DEF RunStep, Shifts
  <2>5. CASE ~CanTransitionTask(work[t], pump.at)
    BY <2>2, <2>5 DEF RunStep, Calm
  <2> QED
    BY <2>4, <2>5
<1>6. ASSUME NEW r \in TurnRuns, Authorize(r) \/ Launch(r) PROVE RunStep
  BY <1>6 DEF Authorize, Launch, RunStep, Sends, Begins
<1>7. ASSUME NEW r \in TurnRuns, Starts(r) PROVE RunStep
  BY <1>7, WorkEdges DEF Starts, Move, CasTask, RunKeepsTask, RunStep, Runs
<1>8. ASSUME NEW r \in TurnRuns, NEW phase \in RunTerminal, Ends(r, phase) PROVE RunStep
  <2>1. CASE r \in lost
    BY <1>8, <2>1 DEF Ends, RunStep, Leaves2
  <2>2. CASE r \notin lost
    <3>1. exec[r].is = "running" /\ work[exec[r].task] = "running" /\ lost' = lost
          /\ exec' = [exec EXCEPT ![r].is = phase] /\ proc' = [proc EXCEPT ![r] = "gone"]
      BY <1>8, <2>2 DEF Ends, RunKeepsTask
    <3>2. PICK to \in TaskStatus : work' = [work EXCEPT ![exec[r].task] = to]
      BY <1>8, <2>2, <3>1, <1>b, WorkEdges
         DEF Ends, Move, CasTask, Cancelled, RunTerminal, TaskStatus, TaskTerminal
    <3> QED
      BY <3>1, <3>2 DEF RunStep, Closes
  <2> QED
    BY <2>1, <2>2
<1>9. ASSUME NEW r \in TurnRuns, Refused(r) PROVE RunStep
  <2>1. work' = [work EXCEPT ![exec[r].task] = "ready"] /\ "ready" \in TaskStatus /\ "failed" \in RunTerminal
    BY <1>9, WorkEdges DEF Refused, Move, CasTask, RunKeepsTask, TaskStatus, RunTerminal
  <2> QED
    BY <1>9, <2>1 DEF Refused, RunStep, Closes
<1>10. ASSUME NEW r \in TurnRuns, LosesNode(r) PROVE RunStep
  <2>1. PICK to \in {"ready", "blocked"} : work' = [work EXCEPT ![exec[r].task] = to]
    BY <1>10, WorkEdges DEF LosesNode, Move, CasTask, RunKeepsTask
  <2> QED
    BY <1>10, <2>1 DEF LosesNode, RunStep, Loses
<1>11. ASSUME NEW r \in TurnRuns, NodeConfirms(r) PROVE RunStep
  BY <1>11 DEF NodeConfirms, Stopped, RunStep, Leaves2
<1>12. ASSUME NEW c \in calls, StopConfirms(c) PROVE RunStep
  BY <1>12, <1>a DEF StopConfirms, CallsKnow, StopCalls, Stopped, RunStep, Leaves2
<1>13. ASSUME NEW a \in Finishers, FinishStops(a) PROVE RunStep
  <2>1. CASE UNCHANGED <<proc, lost>>
    BY <1>13, <2>1 DEF FinishStops, RunStep, Calm
  <2>2. CASE ~UNCHANGED <<proc, lost>>
    <3>1. PICK r \in fin[a].left : Stopped(r) /\ lost' = lost \ {r}
      BY <1>13, <2>2 DEF FinishStops
    <3>2. r \in TurnRuns
      BY <3>1, <1>a DEF Fins
    <3> QED
      BY <1>13, <3>1, <3>2 DEF FinishStops, Stopped, RunStep, Leaves2
  <2> QED
    BY <2>1, <2>2
<1>14. ASSUME NEW c \in calls, StopReturns(c) PROVE RunStep
  <2>1. c.run \in TurnRuns /\ Started(c.run)
    BY <1>14, <1>a DEF StopReturns, CallsKnow, StopCalls
  <2>2. proc' = [proc EXCEPT ![c.run] = "gone"] /\ lost' = lost
    BY <1>14 DEF StopReturns, Stopped
  <2>3. CASE exec[c.run].is \in {"completed", "failed"}
    BY <1>14, <2>1, <2>2, <2>3 DEF StopReturns, RunStep, Leaves2
  <2>4. CASE exec[c.run].is = "cancelled"
    <3>1. exec' = [exec EXCEPT ![c.run].is = "cancelled"] /\ work' = work
      BY <1>14, <2>4 DEF StopReturns
    <3>2. exec' = exec
      BY <3>1, <2>1, <2>4, <1>a DEF ExecRows
    <3> QED
      BY <2>1, <2>2, <3>1, <3>2 DEF RunStep, Leaves2
  <2>5. CASE exec[c.run].is \in {"queued", "running"}
    <3>1. exec' = [exec EXCEPT ![c.run].is = "cancelled"] /\ work' = Cancelled(exec[c.run].task)
      BY <1>14, <2>5 DEF StopReturns
    <3>2. work[exec[c.run].task] \in {"assigned", "running"}
      BY <2>1, <2>5 DEF RunKeepsTask
    <3>3. work' = [work EXCEPT ![exec[c.run].task] = "cancelled"]
      BY <3>1, <3>2, WorkEdges DEF Cancelled, TaskStatus, TaskTerminal
    <3>4. "cancelled" \in TaskStatus /\ "cancelled" \in RunTerminal
      BY DEF TaskStatus, RunTerminal
    <3> QED
      BY <2>1, <2>2, <2>5, <3>1, <3>3, <3>4 DEF RunStep, Closes
  <2> QED
    BY <2>1, <2>3, <2>4, <2>5, <1>a DEF ExecRows, Started
<1>15. CASE StartDiscussion
  BY <1>15, <1>c DEF StartDiscussion, TalkKnows, RunStep, Opens
<1>16. CASE RestartServer
  BY <1>16 DEF RestartServer, RunStep, Restarts
<1>17. CASE Calm
  BY <1>17 DEF RunStep
<1> QED
  <2>1. CASE \E k \in TurnIds : Retry(k)
    BY <2>1, <1>17 DEF Retry, Calm
  <2>2. CASE Pump \/ PumpPicks \/ PumpChanges \/ PumpFails \/ UserCancels
    BY <2>2, <1>17 DEF Pump, PumpPicks, PumpChanges, PumpFails, UserCancels, Calm, storeTurnVars
  <2>3. CASE \E r \in TurnRuns : Answer(r)
    BY <2>3, <1>17 DEF Answer, Calm
  <2>4. CASE \E c \in calls : StopFails(c) \/ CommitCancel(c)
    BY <2>4, <1>17 DEF StopFails, CommitCancel, Calm, storeTurnVars
  <2>5. CASE AdvanceExpires \/ AdvanceStops \/ AdvanceFails \/ AdvanceContinues
    BY <1>17, ContinuesIs, <2>5 DEF Calm, AdvanceExpires, AdvanceStops, AdvanceFails, Advances
  <2>6. CASE CancelDiscussion \/ \E a \in Finishers : FinishReads(a) \/ FinishLooks(a) \/ FinishCloses(a)
    BY <2>6, <1>17 DEF CancelDiscussion, FinishReads, FinishLooks, FinishCloses, Calm, storeTurnVars
  <2>7. CASE GrantConsent \/ Revoke \/ ListWork \/ WithdrawDiscussion \/ WithdrawSeesDiscussion
             \/ WithdrawCancels \/ WithdrawAnswers
    BY <2>7, <1>17 DEF GrantConsent, Revoke, ListWork, WithdrawDiscussion,
       WithdrawSeesDiscussion, WithdrawCancels, WithdrawAnswers, Calm, storeTurnVars
  <2> QED
    BY <1>1, <1>2, <1>3, <1>4, <1>5, <1>6, <1>7, <1>8, <1>9, <1>10, <1>11, <1>12, <1>13,
       <1>14, <1>15, <1>16, <2>1, <2>2, <2>3, <2>4, <2>5, <2>6, <2>7 DEF TurnsNext

-------------------------------------------------------------------------------
(* Turns: what a step does to the turns *)

Row(task, grant) ==
  [is |-> "queued", task |-> task, run |-> NoTurnRun, grant |-> grant, answered |-> FALSE]
StillRuns == UNCHANGED <<exec, proc, lost>>

Queues(k, t) ==
  /\ Enqueue(k) /\ k \in 1..Talk /\ ~Made(k) /\ t # 0 /\ consent.given
  /\ turn' = [turn EXCEPT ![k] = Row(t, consent.grant)] /\ StillRuns
Resets(k) ==
  /\ turn[k].is \in {"waiting", "failed"} /\ (turn[k].run # NoTurnRun => Over(turn[k].run))
  /\ consent.given
  /\ turn' = [turn EXCEPT ![k] = Row(turn[k].task, consent.grant)] /\ StillRuns
Links(k) ==
  /\ turn[k].is \in {"queued", "waiting"} /\ turn[k].run = NoTurnRun
  /\ Assigns(turn[k].task) /\ Authorizes(turn[k].grant)
  /\ turn' = [turn EXCEPT ![k] = [is |-> "running", task |-> turn[k].task, run |-> NextRun,
                                  grant |-> turn[k].grant, answered |-> turn[k].answered]]
Changes(k, s) ==
  /\ turn[k].is \in PendingTurn /\ turn' = [turn EXCEPT ![k].is = s] /\ StillRuns
  /\ \/ turn[k].run = NoTurnRun /\ s \in {"waiting", "failed", "cancelled"}
     \/ /\ turn[k].run # NoTurnRun /\ Over(turn[k].run)
        /\ s \in {"completed", "failed", "cancelled"}
        /\ s = "completed" => turn[k].answered /\ exec[turn[k].run].is = "completed"
        /\ s = "cancelled" <=> exec[turn[k].run].is = "cancelled"
Answers2(k) ==
  turn[k].run # NoTurnRun /\ turn' = [turn EXCEPT ![k].answered = TRUE] /\ StillRuns
PlansNext(k) ==
  /\ AdvanceContinues /\ k = PlanTurn(StepAfter) /\ StepAfter < Steps /\ ~Made(k) /\ Authorizes(talks.grant)
  /\ turn' = [turn EXCEPT ![k] = Row(0, talks.grant)] /\ StillRuns

TurnStep ==
  \/ turn' = turn
  \/ \E k \in TurnIds :
       \/ Resets(k) \/ Links(k) \/ Answers2(k) \/ PlansNext(k)
       \/ \E t \in TurnTasks : Queues(k, t)
       \/ \E s \in TurnStates : Changes(k, s)

LEMMA RowIs ==
  ASSUME NEW task, NEW grant
  PROVE  [NoRow EXCEPT !.is = "queued", !.task = task, !.grant = grant] = Row(task, grant)
<1>1. PICK no : no = FALSE
  OBVIOUS
<1>2. NoRow = [is |-> "none", task |-> 0, run |-> NoTurnRun, grant |-> 0, answered |-> no]
  BY <1>1 DEF NoRow
<1> DEFINE one == [NoRow EXCEPT !.is = "queued"]
           two == [one EXCEPT !.task = task]
<1>3. one = [is |-> "queued", task |-> 0, run |-> NoTurnRun, grant |-> 0, answered |-> no]
  BY <1>2
<1>4. two = [is |-> "queued", task |-> task, run |-> NoTurnRun, grant |-> 0, answered |-> no]
  <2> HIDE DEF one
  <2> QED
    BY <1>3
<1>5. [two EXCEPT !.grant = grant]
      = [is |-> "queued", task |-> task, run |-> NoTurnRun, grant |-> grant, answered |-> no]
  <2> HIDE DEF two
  <2> QED
    BY <1>4
<1> QED
  BY <1>1, <1>5 DEF Row

LEMMA ChangeIs ==
  ASSUME TurnsInv, NEW k \in TurnIds, NEW s \in {"waiting", "failed", "cancelled"},
         turn' = Change(k, s, NoTurnRun), StillRuns
  PROVE  TurnStep
BY DEF Change, TurnStates, TurnStep, Changes

LEMMA LinkIs ==
  ASSUME TurnsInv, NEW k \in TurnIds, NEW t, turn[k].task = t, Assign(t, k), UNCHANGED <<proc, lost>>
  PROVE  Links(k)
<1>1. turn[k] \in TurnRows /\ t \in TurnTasks /\ k # NoTurn
  BY DEF TurnsInv, TurnsTypeOK, TurnRows, TurnIds, NoTurn
<1>2. Assigns(t)
  BY <1>1, AssignIs
<1>3. turn' = [turn EXCEPT ![k].is = "running", ![k].run = NextRun]
      /\ turn[k].is \in {"queued", "waiting"} /\ turn[k].run = NoTurnRun /\ Authorizes(turn[k].grant)
  BY <1>1 DEF Assign
<1>4. PICK is0, task0, run0, grant0, answered0 :
         turn[k] = [is |-> is0, task |-> task0, run |-> run0, grant |-> grant0, answered |-> answered0]
  BY <1>1 DEF TurnRows
<1> DEFINE one == [turn EXCEPT ![k].is = "running"]
<1>5. one = [turn EXCEPT ![k] = [is |-> "running", task |-> task0, run |-> run0, grant |-> grant0,
                                 answered |-> answered0]]
  <2>1. [turn[k] EXCEPT !.is = "running"]
        = [is |-> "running", task |-> task0, run |-> run0, grant |-> grant0, answered |-> answered0]
    BY <1>4
  <2> QED
    BY <2>1
<1> HIDE DEF one
<1>6. [one EXCEPT ![k].run = NextRun]
      = [turn EXCEPT ![k] = [is |-> "running", task |-> task0, run |-> NextRun, grant |-> grant0,
                             answered |-> answered0]]
  <2>1. DOMAIN turn = TurnIds
    BY DEF TurnsInv, TurnsTypeOK
  <2>2. one[k] = [is |-> "running", task |-> task0, run |-> run0, grant |-> grant0, answered |-> answered0]
    BY <1>5, <2>1
  <2>3. [one[k] EXCEPT !.run = NextRun]
        = [is |-> "running", task |-> task0, run |-> NextRun, grant |-> grant0, answered |-> answered0]
    BY <2>2
  <2> QED
    BY <1>5, <2>3
<1>7. turn' = [one EXCEPT ![k].run = NextRun]
  BY <1>3 DEF one
<1>8. turn' = [turn EXCEPT ![k] = [is |-> "running", task |-> turn[k].task, run |-> NextRun,
                                  grant |-> turn[k].grant, answered |-> turn[k].answered]]
  BY <1>4, <1>6, <1>7
<1> QED
  BY <1>2, <1>3, <1>8 DEF Links

LEMMA TurnMovesAre ==
  ASSUME TurnsInv, TurnsNext
  PROVE  TurnStep
<1> USE DEF TurnsInv
<1>a. /\ turn \in [TurnIds -> TurnRows] /\ exec \in [TurnRuns -> ExecRows]
      /\ calls \subseteq StopCalls /\ pump \in Pumps /\ work \in [TurnTasks -> TaskStatus \cup {"none"}]
  BY DEF TurnsTypeOK
<1>b. \A k \in 1..Talk : k \in TurnIds /\ (k > 1 => k - 1 \in TurnIds)
  BY TurnsAssumption DEF TurnIds
<1>1. ASSUME NEW k \in TurnIds, Enqueue(k) PROVE TurnStep
  <2> DEFINE before == IF k = 1 THEN 0 ELSE turn[k - 1].task
             t == IF before = 0 \/ work[before] \in TaskTerminal THEN before + 1 ELSE before
  <2>1. k \in 1..Talk /\ turn[k] = NoRow /\ (k > 1 => turn[k - 1] # NoRow) /\ t \in TurnTasks
        /\ consent.given /\ StillRuns
        /\ turn' = [turn EXCEPT ![k] = [NoRow EXCEPT !.is = "queued", !.task = t, !.grant = consent.grant]]
    BY <1>1 DEF Enqueue, StillRuns
  <2>2. before \in Nat
    BY <1>a, <1>b, <2>1, TurnsAssumption DEF TurnRows, TurnTasks
  <2>3. t # 0
    <3> HIDE DEF before
    <3> QED
      BY <2>2
  <2> HIDE DEF t
  <2>4. [NoRow EXCEPT !.is = "queued", !.task = t, !.grant = consent.grant] = Row(t, consent.grant)
    BY RowIs
  <2>5. turn' = [turn EXCEPT ![k] = Row(t, consent.grant)]
    BY <2>1, <2>4
  <2>6. ~Made(k)
    BY <2>1 DEF Made, NoRow
  <2>7. Queues(k, t)
    BY <1>1, <2>1, <2>3, <2>5, <2>6 DEF Queues
  <2> QED
    BY <2>1, <2>7 DEF TurnStep
<1>2. ASSUME NEW k \in TurnIds, Retry(k) PROVE TurnStep
  BY RowIs, <1>2 DEF Retry, TurnStep, Resets, StillRuns
<1>3. ASSUME NEW t \in TurnTasks, UserAssigns(t) PROVE TurnStep
  BY <1>3 DEF UserAssigns, Assign, TurnStep
<1>4. CASE PumpAssigns
  BY <1>4, <1>a, LinkIs DEF PumpAssigns, PumpKnows, PumpDoes, Pumps, TurnStep
<1>5. CASE PumpChanges
  <2>1. pump.turn \in TurnIds /\ StillRuns
    BY <1>5, <1>a DEF PumpChanges, PumpKnows, PumpDoes, Pumps, StillRuns
  <2>2. CASE pump.at = "settle"
    <3>1. pump.run \in TurnRuns /\ Over(pump.run) /\ pump.run # NoTurnRun
      BY <2>2, <1>a DEF PumpKnows, Pumps
    <3>2. turn' = Change(pump.turn, exec[pump.run].is, pump.run)
      BY <1>5, <2>2 DEF PumpChanges
    <3>3. CASE turn[pump.turn].is \in PendingTurn /\ turn[pump.turn].run = pump.run
      <4> DEFINE s == IF exec[pump.run].is = "completed" /\ ~turn[pump.turn].answered
                        THEN "failed" ELSE exec[pump.run].is
      <4>1. turn' = [turn EXCEPT ![pump.turn].is = s]
        BY <3>2, <3>3 DEF Change
      <4>2. s \in {"completed", "failed", "cancelled"} /\ s \in TurnStates
            /\ (s = "completed" => turn[pump.turn].answered /\ exec[pump.run].is = "completed")
            /\ (s = "cancelled" <=> exec[pump.run].is = "cancelled")
        BY <3>1 DEF Over, RunTerminal, TurnStates
      <4> HIDE DEF s
      <4>3. Changes(pump.turn, s)
        BY <2>1, <3>1, <3>3, <4>1, <4>2 DEF Changes
      <4> QED
        BY <2>1, <4>2, <4>3 DEF TurnStep
    <3>4. CASE ~(turn[pump.turn].is \in PendingTurn /\ turn[pump.turn].run = pump.run)
      BY <3>2, <3>4 DEF Change, TurnStep
    <3> QED
      BY <3>3, <3>4
  <2>3. CASE pump.at = "wait"
    BY <1>5, <2>3, <2>1, ChangeIs DEF PumpChanges
  <2>4. CASE pump.at = "close"
    BY <1>5, <2>4, <2>1, ChangeIs DEF PumpChanges
  <2> QED
    BY <1>5, <2>2, <2>3, <2>4 DEF PumpChanges
<1>6. CASE PumpFails
  BY <1>6, <1>a, ChangeIs DEF PumpFails, PumpKnows, PumpDoes, Pumps, StillRuns
<1>7. ASSUME NEW r \in TurnRuns, Answer(r) PROVE TurnStep
  <2>1. r # NoTurnRun
    BY DEF TurnRuns, NoTurnRun
  <2> QED
    BY <1>7, <2>1 DEF Answer, TurnStep, Answers2, StillRuns
<1>8. ASSUME NEW c \in calls, CommitCancel(c) PROVE TurnStep
  <2> DEFINE k == c.item[2]
  <2>1. c \in StopCalls /\ c.at = "commit" /\ c.item \in TurnItems
    BY <1>8, <1>a DEF CommitCancel, CallsKnow, StopCalls
  <2>2. k \in TurnIds
    BY <2>1 DEF TurnItems, TurnItem
  <2>3. turn' = (IF (turn[k].run # NoTurnRun /\ c.run = NoTurnRun) \/ turn[k].is \notin PendingTurn
                   THEN turn ELSE [turn EXCEPT ![k].is = "cancelled"])
        /\ StillRuns
    BY <1>8 DEF CommitCancel, StillRuns
  <2>4. c.run # NoTurnRun => exec[c.run].is = "cancelled" /\ turn[k].run = c.run
    BY <2>1 DEF CallsKnow
  <2> HIDE DEF k
  <2>5. CASE turn' = turn
    BY <2>5 DEF TurnStep
  <2>6. CASE turn' # turn
    BY <2>3, <2>6, <2>4, <2>2 DEF Over, RunTerminal, Changes, TurnStates, TurnStep
  <2> QED
    BY <2>5, <2>6
<1>9. CASE AdvanceContinues
  <2>1. CASE turn' = turn
    BY <2>1 DEF TurnStep
  <2>2. CASE turn' # turn
    <3>1. /\ StepAfter < Steps /\ Authorizes(talks.grant) /\ StepAfter \in 0..Steps
          /\ turn' = [turn EXCEPT ![PlanTurn(StepAfter)] = Row(0, talks.grant)]
      BY <1>9, <2>2, ContinuesIs DEF Row
    <3>2. StillRuns
      BY <1>9, ContinuesIs DEF StillRuns
    <3>3. PlanTurn(StepAfter) \in TurnIds
      BY <3>1, TurnsAssumption DEF PlanTurn, TurnIds
    <3>4. ~Made(PlanTurn(StepAfter))
      <4>1. StepAfter >= talks.step /\ talks.turn # PlanTurn(StepAfter) /\ StepAfter \in 0..(Steps - 1)
        <5>1. talks.step \in 0..Steps
          BY DEF TurnsTypeOK, TalkRows
        <5>2. CASE talks.turn = NoTurn
          BY <5>1, <5>2, <3>1, <3>3, TurnsAssumption DEF StepAfter, TurnIds, NoTurn
        <5>3. CASE talks.turn # NoTurn
          BY <5>1, <5>3, <3>1, TurnsAssumption DEF StepAfter, TalkKnows, PlanTurn
        <5> QED
          BY <5>2, <5>3
      <4>2. turn[PlanTurn(StepAfter)] = NoRow
        BY <4>1 DEF DiscussionFollowsAnswers
      <4> QED
        BY <4>2 DEF Made, NoRow
    <3> QED
      BY <1>9, <3>1, <3>2, <3>3, <3>4 DEF TurnStep, PlansNext
  <2> QED
    BY <2>1, <2>2
<1>10. CASE turn' = turn
  BY <1>10 DEF TurnStep
<1> QED
  <2>1. CASE \E t \in TurnTasks : UserMoves(t)
    BY <2>1, <1>10 DEF UserMoves
  <2>2. CASE Pump \/ PumpPicks \/ PumpPrepares \/ UserCancels
    BY <2>2, <1>10 DEF Pump, PumpPicks, PumpPrepares, UserCancels, storeTurnVars
  <2>3. CASE \E r \in TurnRuns : Authorize(r) \/ Launch(r) \/ Starts(r) \/ Refused(r)
                                \/ LosesNode(r) \/ NodeConfirms(r)
    BY <2>3, <1>10 DEF Authorize, Launch, Starts, Refused, LosesNode, NodeConfirms
  <2>a. CASE \E r \in TurnRuns : \E phase \in RunTerminal : Ends(r, phase)
    BY <2>a, <1>10 DEF Ends
  <2>4. CASE \E c \in calls : StopFails(c) \/ StopReturns(c) \/ StopConfirms(c)
    BY <2>4, <1>10 DEF StopFails, StopReturns, StopConfirms, storeTurnVars
  <2>5. CASE StartDiscussion \/ AdvanceExpires \/ AdvanceStops \/ AdvanceFails
    BY <2>5, <1>10 DEF StartDiscussion, AdvanceExpires, AdvanceStops, AdvanceFails
  <2>6. CASE CancelDiscussion
             \/ \E a \in Finishers : FinishReads(a) \/ FinishStops(a) \/ FinishLooks(a) \/ FinishCloses(a)
    BY <2>6, <1>10 DEF CancelDiscussion, FinishReads, FinishStops, FinishLooks, FinishCloses, storeTurnVars
  <2>7. CASE GrantConsent \/ Revoke \/ ListWork \/ WithdrawDiscussion \/ WithdrawSeesDiscussion
             \/ WithdrawCancels \/ WithdrawAnswers \/ RestartServer
    BY <2>7, <1>10 DEF GrantConsent, Revoke, ListWork, WithdrawDiscussion,
       WithdrawSeesDiscussion, WithdrawCancels, WithdrawAnswers, RestartServer, storeTurnVars
  <2> QED
    BY <1>1, <1>2, <1>3, <1>4, <1>5, <1>6, <1>7, <1>8, <1>9,
       <2>1, <2>2, <2>3, <2>a, <2>4, <2>5, <2>6, <2>7 DEF TurnsNext

-------------------------------------------------------------------------------
(* Turns: the invariants of runs and tasks are kept *)

RunTypes ==
  /\ work \in [TurnTasks -> TaskStatus \cup {"none"}] /\ exec \in [TurnRuns -> ExecRows]
  /\ proc \in [TurnRuns -> {"none", "sending", "alive", "gone"}] /\ lost \subseteq TurnRuns

\* What a step keeps of a run.
KeepsRun(r) ==
  /\ Started(r) => Started(r)' /\ exec'[r].grant = exec[r].grant /\ exec'[r].task = exec[r].task
  /\ Over(r) => exec'[r].is = exec[r].is
  /\ exec'[r].is = "completed" \/ exec'[r].is = "failed" => Started(r)
  /\ Settled(r) => Settled(r)'
  /\ exec'[r].grant = exec[r].grant \/ Authorizes(exec'[r].grant)
RunsKept == RunTypes' /\ RunsInOrder' /\ RunKeepsTask' /\ \A r \in TurnRuns : KeepsRun(r)

\* A step that moves tasks, and none of a run that is held.
LEMMA WorkKept ==
  ASSUME TurnsInv, StillRuns, work' \in [TurnTasks -> TaskStatus \cup {"none"}],
         \A t \in TurnTasks : /\ work[t] \in {"assigned", "running"} => work'[t] = work[t]
                              /\ work[t] \in {"ready", "blocked"} => work'[t] \in {"ready", "blocked"}
  PROVE  RunsKept
<1>1. \A r \in TurnRuns : exec[r].task \in TurnTasks
  BY DEF TurnsInv, TurnsTypeOK, ExecRows
<1>2. RunTypes'
  BY DEF TurnsInv, TurnsTypeOK, RunTypes, StillRuns
<1>3. RunsInOrder'
  BY DEF TurnsInv, RunsInOrder, Started, StillRuns
<1>4. RunKeepsTask'
  BY <1>1 DEF TurnsInv, RunKeepsTask, Held, Working, StillRuns
<1>5. \A r \in TurnRuns : KeepsRun(r)
  BY DEF KeepsRun, StillRuns, Started, Over, RunTerminal, Settled, Working
<1> QED
  BY <1>2, <1>3, <1>4, <1>5 DEF RunsKept

LEMMA AssignKept ==
  ASSUME TurnsInv, NEW t \in TurnTasks, Assigns(t)
  PROVE  RunsKept
<1> DEFINE n == NextRun
<1>1. n \in TurnRuns /\ ~Started(n) /\ \A r \in TurnRuns : Started(r) \/ r = n <=> r <= n
  BY NextRunIsNew DEF Assigns
<1>2. /\ exec' = [exec EXCEPT ![n] = NewExec(t)] /\ work' = [work EXCEPT ![t] = "assigned"]
      /\ work[t] = "ready" /\ (\A r \in lost : exec[r].task # t) /\ UNCHANGED <<proc, lost>>
  BY DEF Assigns
<1> HIDE DEF n
<1>3. TurnsTypeOK /\ RunKeepsTask /\ RunsInOrder
  BY DEF TurnsInv
<1>4. exec'[n] = NewExec(t) /\ NewExec(t) \in ExecRows /\ \A r \in TurnRuns : r # n => exec'[r] = exec[r]
  BY <1>1, <1>2, <1>3 DEF TurnsTypeOK, NewExec, ExecRows
<1>5. exec'[n].is = "queued" /\ exec'[n].task = t /\ exec[n].is = "none"
  BY <1>1, <1>4 DEF NewExec, Started
<1>6. work'[t] = "assigned" /\ \A s \in TurnTasks : s # t => work'[s] = work[s]
  BY <1>2, <1>3 DEF TurnsTypeOK
<1>7. RunTypes'
  BY <1>2, <1>3, <1>4 DEF TurnsTypeOK, RunTypes, TaskStatus
<1>8. RunsInOrder'
  BY <1>1, TurnsAssumption, <1>4, <1>5, <1>3 DEF TurnRuns, Started, RunsInOrder
<1>9. \A r \in TurnRuns : exec[r].task \in TurnTasks
  BY <1>3 DEF TurnsTypeOK, ExecRows
<1>10. ~Held(n) /\ ~Working(n) /\ n \notin lost
  BY <1>1, <1>3, <1>5 DEF RunKeepsTask, Held
<1>11. \A r \in TurnRuns : r # n /\ Held(r) => exec[r].task # t
  BY <1>2, <1>3, <1>10 DEF RunKeepsTask, Held
<1>12. RunKeepsTask'
  <2>1. \A r \in TurnRuns : Held(r)' <=> Held(r) \/ r = n
    BY <1>2, <1>4, <1>5 DEF Held
  <2>2. \A r \in TurnRuns : r # n => exec'[r] = exec[r] /\ (Held(r) => work'[exec[r].task] = work[exec[r].task])
    BY <1>4, <1>6, <1>9, <1>11
  <2>3. \A r \in TurnRuns : Working(r)' <=> Working(r)
    BY <1>2 DEF Working
  <2>4. ASSUME NEW r \in TurnRuns
        PROVE  /\ exec'[r].is = "queued" => work'[exec'[r].task] = "assigned"
               /\ exec'[r].is = "running" => work'[exec'[r].task] = "running"
               /\ r \in lost' => exec'[r].is = "failed" /\ work'[exec'[r].task] \in {"ready", "blocked"}
               /\ Working(r)' => Held(r)'
    BY <1>2, <1>5, <1>6, <1>10, <2>1, <1>3, <2>2, <2>3 DEF RunKeepsTask, Held
  <2>5. ASSUME NEW r \in TurnRuns, NEW s \in TurnRuns, Held(r)', Held(s)', exec'[r].task = exec'[s].task
        PROVE  r = s
    BY <2>5, <1>4, <1>5, <1>11, <2>1, <1>3 DEF RunKeepsTask
  <2> QED
    BY <2>4, <2>5 DEF RunKeepsTask
<1>13. ASSUME NEW r \in TurnRuns PROVE KeepsRun(r)
  <2>1. CASE r = n
    <3>1. Authorizes(exec'[r].grant)
      BY <2>1, <1>4 DEF NewExec, Authorizes, Assigns
    <3> QED
      BY <2>1, <3>1, <1>1, <1>5 DEF KeepsRun, Settled, Over, RunTerminal, Started
  <2>2. CASE r # n
    BY <2>2, <1>2, <1>3, <1>4 DEF KeepsRun, Settled, Over, Started, Working, RunTerminal
  <2> QED
    BY <2>1, <2>2
<1> QED
  BY <1>7, <1>8, <1>12, <1>13 DEF RunsKept

\* A step of one run, after which it is held no more than before.
LEMMA OneRunKept ==
  ASSUME TurnsInv, NEW r \in TurnRuns, RunTypes',
         Started(r), exec'[r].is # "none", exec'[r].task = exec[r].task, exec'[r].grant = exec[r].grant,
         \A s \in TurnRuns : s # r => exec'[s] = exec[s] /\ proc'[s] = proc[s] /\ (s \in lost' <=> s \in lost),
         \A t \in TurnTasks : t # exec[r].task => work'[t] = work[t],
         Held(r) \/ work' = work,
         Held(r)' => Held(r),
         exec'[r].is = "queued" => work'[exec[r].task] = "assigned",
         exec'[r].is = "running" => work'[exec[r].task] = "running",
         r \in lost' => exec'[r].is = "failed" /\ work'[exec[r].task] \in {"ready", "blocked"},
         Working(r)' => Held(r)',
         Over(r) => exec'[r].is = exec[r].is,
         Settled(r) => Settled(r)'
  PROVE  RunsKept
<1>1. RunKeepsTask /\ TurnsTypeOK /\ RunsInOrder
  BY DEF TurnsInv
<1>2. \A s \in TurnRuns : exec[s].task \in TurnTasks
  BY <1>1 DEF TurnsTypeOK, ExecRows
<1>3. RunsInOrder'
  BY <1>1 DEF Started, RunsInOrder
<1>4. RunKeepsTask'
  <2>1. \A s \in TurnRuns : s # r => (Held(s)' <=> Held(s)) /\ (Working(s)' <=> Working(s))
    BY DEF Held, Working
  <2>2. \A s \in TurnRuns : s # r /\ Held(s) => work'[exec[s].task] = work[exec[s].task]
    BY <1>1, <1>2 DEF RunKeepsTask
  <2>3. ASSUME NEW s \in TurnRuns
        PROVE  /\ exec'[s].is = "queued" => work'[exec'[s].task] = "assigned"
               /\ exec'[s].is = "running" => work'[exec'[s].task] = "running"
               /\ s \in lost' => exec'[s].is = "failed" /\ work'[exec'[s].task] \in {"ready", "blocked"}
               /\ Working(s)' => Held(s)'
    BY <1>1, <2>1, <2>2 DEF RunKeepsTask, Held
  <2>4. ASSUME NEW s \in TurnRuns, NEW q \in TurnRuns, Held(s)', Held(q)', exec'[s].task = exec'[q].task
        PROVE  s = q
    BY <2>1, <2>4, <1>1 DEF RunKeepsTask
  <2> QED
    BY <2>3, <2>4 DEF RunKeepsTask
<1>5. ASSUME NEW s \in TurnRuns PROVE KeepsRun(s)
  BY DEF KeepsRun, Started, Over, Settled, Working
<1> QED
  BY <1>3, <1>4, <1>5 DEF RunsKept

LEMMA RunStepKept ==
  ASSUME TurnsInv, RunStep
  PROVE  RunsKept
<1>1. RunKeepsTask /\ TurnsTypeOK /\ RunsInOrder
  BY DEF TurnsInv
<1>2. /\ work \in [TurnTasks -> TaskStatus \cup {"none"}] /\ exec \in [TurnRuns -> ExecRows]
      /\ proc \in [TurnRuns -> {"none", "sending", "alive", "gone"}] /\ lost \subseteq TurnRuns
  BY <1>1 DEF TurnsTypeOK
<1>3. \A r \in TurnRuns : exec[r].task \in TurnTasks
  BY <1>2 DEF ExecRows
<1>4. \A s \in {"assigned", "running", "ready", "blocked", "backlog", "done"} : s \in TaskStatus
  BY DEF TaskStatus
<1>5. CASE Calm
  BY <1>2, <1>5, WorkKept DEF Calm, StillRuns
<1>6. ASSUME NEW t \in TurnTasks, Opens(t) PROVE RunsKept
  BY <1>2, <1>4, <1>6, WorkKept DEF Opens, StillRuns
<1>7. ASSUME NEW t \in TurnTasks, NEW edge \in Shifting, Shifts(t, edge) PROVE RunsKept
  BY <1>4, <1>2, <1>7, WorkKept DEF Shifting, Shifts, StillRuns
<1>8. CASE Restarts
  <2>1. \A r \in TurnRuns : proc'[r] = proc[r] \/ (proc[r] = "sending" /\ proc'[r] = "none")
    BY <1>8 DEF Restarts
  <2>2. RunTypes'
    BY <1>2, <1>8 DEF Restarts, RunTypes
  <2>3. RunsInOrder' /\ RunKeepsTask'
    BY <1>1, <1>8, <2>1 DEF Restarts, RunsInOrder, Started, RunKeepsTask, Held, Working
  <2>4. \A r \in TurnRuns : KeepsRun(r)
    BY <1>8, <2>1 DEF Restarts, KeepsRun, Started, Over, RunTerminal, Settled, Working
  <2> QED
    BY <2>2, <2>3, <2>4 DEF RunsKept
<1>9. ASSUME NEW r \in TurnRuns, Sends(r) PROVE RunsKept
  <2>1. /\ exec[r].is = "queued" /\ proc'[r] = "sending" /\ UNCHANGED <<work, exec, lost>>
        /\ \A s \in TurnRuns : s # r => proc'[s] = proc[s]
    BY <1>2, <1>9 DEF Sends
  <2>2. RunTypes'
    BY <1>2, <1>9 DEF Sends, RunTypes
  <2>3. Started(r) /\ Held(r) /\ Held(r)' /\ ~Settled(r) /\ exec'[r] = exec[r]
    BY <2>1 DEF Started, Held, Settled, Over, RunTerminal
  <2> QED
    BY <1>1, <2>1, <2>2, <2>3, OneRunKept DEF RunKeepsTask
<1>10. ASSUME NEW r \in TurnRuns, Begins(r) PROVE RunsKept
  <2>1. /\ proc[r] = "sending" /\ proc'[r] = "alive" /\ UNCHANGED <<work, exec, lost>>
        /\ \A s \in TurnRuns : s # r => proc'[s] = proc[s]
    BY <1>2, <1>10 DEF Begins
  <2>2. RunTypes'
    BY <1>2, <1>10 DEF Begins, RunTypes
  <2>3. Held(r) /\ Held(r)' /\ Started(r) /\ ~Settled(r)
    BY <1>1, <2>1 DEF RunKeepsTask, Working, Held, Settled, Started
  <2>4. /\ exec'[r].is # "none" /\ exec'[r] = exec[r]
        /\ exec'[r].is = "queued" => work'[exec[r].task] = "assigned"
        /\ exec'[r].is = "running" => work'[exec[r].task] = "running"
        /\ r \in lost' => exec'[r].is = "failed" /\ work'[exec[r].task] \in {"ready", "blocked"}
    BY <1>1, <2>1, <2>3 DEF RunKeepsTask, Started
  <2> QED
    BY <2>1, <2>2, <2>3, <2>4, OneRunKept
<1>11. ASSUME NEW r \in TurnRuns, Runs(r) PROVE RunsKept
  <2>1. /\ exec[r].is = "queued" /\ exec'[r].is = "running" /\ UNCHANGED <<proc, lost>>
        /\ exec'[r].task = exec[r].task /\ exec'[r].grant = exec[r].grant
        /\ exec' \in [TurnRuns -> ExecRows] /\ \A s \in TurnRuns : s # r => exec'[s] = exec[s]
    BY <1>2, <1>11 DEF Runs, ExecRows
  <2>2. /\ work' \in [TurnTasks -> TaskStatus \cup {"none"}] /\ work'[exec[r].task] = "running"
        /\ \A t \in TurnTasks : t # exec[r].task => work'[t] = work[t]
    BY <1>2, <1>3, <1>4, <1>11 DEF Runs
  <2>3. RunTypes'
    BY <1>2, <2>1, <2>2 DEF RunTypes
  <2>4. Held(r) /\ Held(r)' /\ Started(r) /\ ~Settled(r) /\ ~Over(r) /\ r \notin lost
    BY <1>1, <2>1 DEF RunKeepsTask, Held, Settled, Started, Over, RunTerminal
  <2> QED
    BY <2>1, <2>2, <2>3, <2>4, OneRunKept
<1>12. ASSUME NEW r \in TurnRuns, Leaves2(r) PROVE RunsKept
  <2>1. /\ proc'[r] = "gone" /\ UNCHANGED <<work, exec>> /\ lost' \subseteq lost
        /\ \A s \in TurnRuns : s # r => proc'[s] = proc[s] /\ (s \in lost' <=> s \in lost)
    BY <1>2, <1>12 DEF Leaves2
  <2>2. RunTypes'
    BY <1>2, <1>12 DEF Leaves2, RunTypes
  <2>3. RunsInOrder'
    BY <1>1, <2>1 DEF RunsInOrder, Started
  <2>4. RunKeepsTask'
    BY <2>1, <1>1 DEF Held, Working, RunKeepsTask
  <2>5. \A s \in TurnRuns : KeepsRun(s)
    BY <2>1 DEF KeepsRun, Started, Over, RunTerminal, Settled, Working
  <2> QED
    BY <2>2, <2>3, <2>4, <2>5 DEF RunsKept
<1>13. ASSUME NEW r \in TurnRuns, NEW phase \in RunTerminal, NEW to \in TaskStatus, Closes(r, phase, to)
       PROVE  RunsKept
  <2>1. /\ exec[r].is \in {"queued", "running"} /\ exec'[r].is = phase /\ lost' = lost
        /\ exec'[r].task = exec[r].task /\ exec'[r].grant = exec[r].grant
        /\ exec' \in [TurnRuns -> ExecRows] /\ \A s \in TurnRuns : s # r => exec'[s] = exec[s]
    BY <1>2, <1>13 DEF Closes, ExecRows, RunTerminal
  <2>2. /\ work' \in [TurnTasks -> TaskStatus \cup {"none"}]
        /\ \A t \in TurnTasks : t # exec[r].task => work'[t] = work[t]
    BY <1>2, <1>3, <1>13 DEF Closes
  <2>3. /\ proc' \in [TurnRuns -> {"none", "sending", "alive", "gone"}] /\ proc'[r] = "gone"
        /\ \A s \in TurnRuns : s # r => proc'[s] = proc[s]
    BY <1>2, <1>13 DEF Closes
  <2>4. RunTypes'
    BY <1>2, <2>1, <2>2, <2>3 DEF RunTypes
  <2>5. Held(r) /\ Started(r) /\ ~Settled(r) /\ ~Over(r) /\ r \notin lost /\ ~Working(r)'
    BY <1>1, <2>1, <2>3 DEF RunKeepsTask, Held, Settled, Started, Over, RunTerminal, Working
  <2>6. exec'[r].is \notin {"none", "queued", "running"}
    BY <2>1 DEF RunTerminal
  <2> QED
    BY <2>1, <2>2, <2>3, <2>4, <2>5, <2>6, OneRunKept
<1>14. ASSUME NEW r \in TurnRuns, NEW to \in {"ready", "blocked"}, Loses(r, to) PROVE RunsKept
  <2>1. /\ exec[r].is \in {"queued", "running"} /\ exec'[r].is = "failed" /\ proc' = proc
        /\ exec'[r].task = exec[r].task /\ exec'[r].grant = exec[r].grant
        /\ exec' \in [TurnRuns -> ExecRows] /\ \A s \in TurnRuns : s # r => exec'[s] = exec[s]
        /\ lost' = lost \cup {r}
    BY <1>2, <1>14 DEF Loses, ExecRows
  <2>2. /\ work' \in [TurnTasks -> TaskStatus \cup {"none"}] /\ work'[exec[r].task] = to
        /\ \A t \in TurnTasks : t # exec[r].task => work'[t] = work[t]
    BY <1>2, <1>3, <1>4, <1>14 DEF Loses
  <2>3. RunTypes'
    BY <1>2, <2>1, <2>2 DEF RunTypes
  <2>4. Held(r) /\ Held(r)' /\ Started(r) /\ ~Settled(r) /\ ~Over(r)
    BY <2>1 DEF Held, Settled, Started, Over, RunTerminal
  <2> QED
    BY <2>1, <2>2, <2>3, <2>4, OneRunKept
<1> QED
  BY <1>5, <1>6, <1>7, <1>8, <1>9, <1>10, <1>11, <1>12, <1>13, <1>14, AssignKept DEF RunStep

\* A task that is closed stays closed, and one that exists stays.
LEMMA WorkGoesOn ==
  ASSUME TurnsInv, RunStep, NEW t \in TurnTasks
  PROVE  /\ work[t] \in TaskTerminal => work'[t] = work[t]
         /\ work[t] # "none" => work'[t] # "none"
         /\ work[t] = "none" /\ work'[t] # "none" => Opens(t)
<1>1. work \in [TurnTasks -> TaskStatus \cup {"none"}]
  BY DEF TurnsInv, TurnsTypeOK
<1>2. \A r \in TurnRuns : exec[r].is \in {"queued", "running"} => work[exec[r].task] \in {"assigned", "running"}
  BY DEF TurnsInv, RunKeepsTask
<1>3. "none" \notin TaskStatus
  BY DEF TaskStatus
<1>4. CASE Calm \/ Restarts
  BY <1>4 DEF Calm, Restarts
<1>5. ASSUME NEW s \in TurnTasks, Opens(s)
      PROVE  /\ work[t] \in TaskTerminal => work'[t] = work[t]
             /\ work[t] # "none" => work'[t] # "none"
             /\ work[t] = "none" /\ work'[t] # "none" => Opens(t)
  BY <1>1, <1>5 DEF Opens, TaskTerminal
<1>6. ASSUME NEW s \in TurnTasks, Assigns(s) \/ \E edge \in Shifting : Shifts(s, edge)
      PROVE  /\ work[t] \in TaskTerminal => work'[t] = work[t]
             /\ work[t] # "none" => work'[t] # "none"
             /\ work[t] = "none" /\ work'[t] # "none" => Opens(t)
  BY <1>6, <1>1 DEF Assigns, Shifts, Shifting, TaskTerminal
<1>7. ASSUME NEW r \in TurnRuns,
             Runs(r) \/ (\E phase \in RunTerminal, to \in TaskStatus : Closes(r, phase, to))
             \/ \E to \in {"ready", "blocked"} : Loses(r, to)
      PROVE  /\ work[t] \in TaskTerminal => work'[t] = work[t]
             /\ work[t] # "none" => work'[t] # "none"
             /\ work[t] = "none" /\ work'[t] # "none" => Opens(t)
  BY <1>3, <1>7, <1>2, <1>1 DEF Runs, Closes, Loses, TaskTerminal
<1>8. CASE work' = work
  BY <1>8
<1> QED
  BY <1>4, <1>5, <1>6, <1>7, <1>8 DEF RunStep, Sends, Begins, Leaves2

-------------------------------------------------------------------------------
(* Turns: the invariants of turns are kept *)

TurnOf(k) ==
  LET t == turn[k] IN
  /\ t.is = "none" => t = NoRow
  /\ t.is \in {"queued", "waiting"} => t.run = NoTurnRun
  /\ t.is = "running" => t.run # NoTurnRun
  /\ t.run # NoTurnRun => Started(t.run)
  /\ t.is = "completed" => t.run # NoTurnRun /\ t.answered /\ exec[t.run].is = "completed"
  /\ t.run # NoTurnRun /\ exec[t.run].is \notin {"completed", "failed"} =>
       t.is \in {"running", "cancelled"}
  /\ t.is = "cancelled" /\ t.run # NoTurnRun => exec[t.run].is = "cancelled"

\* What a step keeps of a turn.
KeepsTurn(k) ==
  /\ Made(k) => Made(k)' /\ turn'[k].task = turn[k].task
  /\ ~Made(k) /\ Made(k)' => \/ \E t \in TurnTasks : Queues(k, t)
                             \/ PlansNext(k)
  /\ turn[k].is = "completed" =>
       turn'[k].is = "completed" /\ turn'[k].run = turn[k].run /\ turn'[k].answered
  /\ turn[k].run # NoTurnRun =>
       turn'[k].run = turn[k].run \/ exec[turn[k].run].is \in {"completed", "failed"}
  /\ turn'[k].is \in PendingTurn =>
       \/ turn[k].is \in PendingTurn /\ turn'[k].grant = turn[k].grant
       \/ Authorizes(turn'[k].grant)

TurnsKept == turn' \in [TurnIds -> TurnRows] /\ \A k \in TurnIds : TurnOf(k)' /\ KeepsTurn(k)

\* A turn the step does not change.
LEMMA SameTurn ==
  ASSUME TurnsInv, RunsKept, NEW k \in TurnIds, turn'[k] = turn[k]
  PROVE  TurnOf(k)' /\ KeepsTurn(k)
<1>1. TurnOf(k) /\ turn[k] \in TurnRows
  BY DEF TurnsInv, TurnAndRun, TurnOf, TurnsTypeOK
<1>2. turn[k].run # NoTurnRun => KeepsRun(turn[k].run)
  BY <1>1 DEF RunsKept, TurnRows
<1>3. KeepsTurn(k)
  BY <1>1 DEF Made, TurnOf, KeepsTurn
<1>4. TurnOf(k)'
  BY <1>1, <1>2 DEF TurnOf, KeepsRun, Over, RunTerminal, Started
<1> QED
  BY <1>3, <1>4

\* One turn changes.
LEMMA OneTurn ==
  ASSUME TurnsInv, RunsKept, NEW k \in TurnIds, NEW entry \in TurnRows,
         turn' = [turn EXCEPT ![k] = entry], TurnOf(k)', KeepsTurn(k)
  PROVE  TurnsKept
BY SameTurn DEF TurnsInv, TurnsTypeOK, TurnsKept

LEMMA RowFacts ==
  ASSUME NEW task \in TurnTasks, NEW grant \in Nat
  PROVE  /\ Row(task, grant) \in TurnRows /\ Row(task, grant).is = "queued"
         /\ Row(task, grant).run = NoTurnRun /\ Row(task, grant).task = task
         /\ Row(task, grant).grant = grant
<1>1. PICK no \in BOOLEAN : Row(task, grant) =
           [is |-> "queued", task |-> task, run |-> NoTurnRun, grant |-> grant, answered |-> no]
  BY DEF Row
<1>2. "queued" \in TurnStates
  BY DEF TurnStates
<1> QED
  BY <1>1, <1>2 DEF TurnRows

LEMMA TurnStepKept ==
  ASSUME TurnsInv, RunsKept, TurnStep
  PROVE  TurnsKept
<1>1. /\ turn \in [TurnIds -> TurnRows] /\ consent.grant \in Nat /\ talks.grant \in Nat
      /\ \A k \in TurnIds : TurnOf(k) /\ turn[k] \in TurnRows
  BY DEF TurnsInv, TurnsTypeOK, TurnAndRun, TurnOf, TalkRows
<1>2. CASE turn' = turn
  BY <1>1, <1>2, SameTurn DEF TurnsKept
<1>3. ASSUME NEW k \in TurnIds, NEW t \in TurnTasks, Queues(k, t) PROVE TurnsKept
  <2>1. Row(t, consent.grant) \in TurnRows /\ turn'[k] = Row(t, consent.grant)
        /\ turn' = [turn EXCEPT ![k] = Row(t, consent.grant)]
    BY <1>1, <1>3, RowFacts DEF Queues
  <2>2. turn'[k].is = "queued" /\ turn'[k].run = NoTurnRun /\ turn'[k].grant = consent.grant
    BY <1>1, <2>1, RowFacts
  <2>3. TurnOf(k)'
    BY <2>2 DEF TurnOf
  <2>4. turn[k].is = "none" /\ turn[k] = NoRow /\ turn[k].run = NoTurnRun
    BY <1>1, <1>3 DEF Queues, Made, TurnOf, NoRow
  <2>5. KeepsTurn(k)
    BY <1>3, <2>2, <2>4 DEF KeepsTurn, Queues, Made, Authorizes
  <2> QED
    BY <2>1, <2>3, <2>5, OneTurn
<1>4. ASSUME NEW k \in TurnIds, Resets(k) PROVE TurnsKept
  <2> DEFINE t == turn[k].task
  <2>a. t \in TurnTasks
    BY <1>1 DEF TurnRows
  <2>1. Row(t, consent.grant) \in TurnRows /\ turn'[k] = Row(t, consent.grant)
        /\ turn' = [turn EXCEPT ![k] = Row(t, consent.grant)]
    BY <1>1, <1>4, <2>a, RowFacts DEF Resets
  <2>2. turn'[k].is = "queued" /\ turn'[k].run = NoTurnRun /\ turn'[k].grant = consent.grant
        /\ turn'[k].task = t
    BY <1>1, <2>a, <2>1, RowFacts
  <2>3. TurnOf(k)'
    BY <2>2 DEF TurnOf
  <2>4. turn[k].is \in {"waiting", "failed"} /\ consent.given
        /\ (turn[k].run # NoTurnRun => exec[turn[k].run].is \in {"completed", "failed"})
    BY <1>1, <1>4 DEF Resets, TurnOf
  <2>5. KeepsTurn(k)
    BY <2>2, <2>4 DEF KeepsTurn, Made, Authorizes
  <2> QED
    BY <2>1, <2>3, <2>5, OneTurn
<1>5. ASSUME NEW k \in TurnIds, PlansNext(k) PROVE TurnsKept
  <2>a. 0 \in TurnTasks
    BY TurnsAssumption DEF TurnTasks
  <2>1. Row(0, talks.grant) \in TurnRows /\ turn'[k] = Row(0, talks.grant)
        /\ turn' = [turn EXCEPT ![k] = Row(0, talks.grant)]
    BY <1>1, <1>5, <2>a, RowFacts DEF PlansNext
  <2>2. turn'[k].is = "queued" /\ turn'[k].run = NoTurnRun /\ turn'[k].grant = talks.grant
    BY <1>1, <2>a, <2>1, RowFacts
  <2>3. TurnOf(k)'
    BY <2>2 DEF TurnOf
  <2>4. turn[k].is = "none" /\ turn[k].run = NoTurnRun
    BY <1>1, <1>5 DEF PlansNext, Made, TurnOf, NoRow
  <2>5. KeepsTurn(k)
    BY <1>5, <2>2, <2>4 DEF KeepsTurn, PlansNext, Made
  <2> QED
    BY <2>1, <2>3, <2>5, OneTurn
<1>6. ASSUME NEW k \in TurnIds, Links(k) PROVE TurnsKept
  <2> DEFINE entry == [is |-> "running", task |-> turn[k].task, run |-> NextRun,
                     grant |-> turn[k].grant, answered |-> turn[k].answered]
  <2>1. NextRun \in TurnRuns /\ ~Started(NextRun) /\ NextRun # NoTurnRun
    BY <1>6, NextRunIsNew DEF Links, Assigns, TurnRuns, NoTurnRun
  <2>2. entry \in TurnRows
    BY <1>1, <2>1 DEF TurnRows, TurnStates
  <2>3. turn' = [turn EXCEPT ![k] = entry] /\ turn'[k] = entry
    BY <1>1, <1>6 DEF Links
  <2>4. exec'[NextRun].is = "queued"
    BY <1>6, <2>1 DEF Links, Assigns, TurnsInv, TurnsTypeOK, NewExec
  <2>5. TurnOf(k)'
    BY <2>3, <2>4, <2>1 DEF Started, TurnOf
  <2>6. KeepsTurn(k)
    BY <1>6, <2>3 DEF Links, KeepsTurn, Made, PendingTurn
  <2> QED
    BY <2>2, <2>3, <2>5, <2>6, OneTurn
<1>7. ASSUME NEW k \in TurnIds, NEW s \in TurnStates, Changes(k, s) PROVE TurnsKept
  <2> DEFINE entry == [turn[k] EXCEPT !.is = s]
  <2>1. entry \in TurnRows /\ entry.is = s /\ entry.run = turn[k].run /\ entry.task = turn[k].task
        /\ entry.grant = turn[k].grant /\ entry.answered = turn[k].answered
    BY <1>1 DEF TurnRows
  <2>2. turn' = [turn EXCEPT ![k] = entry] /\ turn'[k] = entry
    BY <1>1, <1>7 DEF Changes
  <2> HIDE DEF entry
  <2>3. turn[k].is \in PendingTurn /\ exec' = exec
    BY <1>7 DEF Changes, StillRuns
  <2>4. TurnOf(k) /\ s # "none" /\ s # "queued" /\ s # "running"
    BY <1>1, <1>7 DEF Changes
  <2>5. CASE turn[k].run = NoTurnRun /\ s \in {"waiting", "failed", "cancelled"}
    BY <2>1, <2>2, <2>5, <2>3, OneTurn DEF TurnOf, KeepsTurn, Made, PendingTurn
  <2>6. CASE /\ turn[k].run # NoTurnRun /\ Over(turn[k].run)
             /\ s \in {"completed", "failed", "cancelled"}
             /\ s = "completed" => turn[k].answered /\ exec[turn[k].run].is = "completed"
             /\ s = "cancelled" <=> exec[turn[k].run].is = "cancelled"
    <3>1. TurnOf(k)'
      BY <2>1, <2>2, <2>6, <2>3 DEF Over, RunTerminal, Started, TurnOf
    <3>2. KeepsTurn(k)
      BY <2>1, <2>2, <2>3, <2>6 DEF KeepsTurn, Made, PendingTurn
    <3> QED
      BY <2>1, <2>2, <3>1, <3>2, OneTurn
  <2> QED
    BY <1>7, <2>5, <2>6 DEF Changes
<1>8. ASSUME NEW k \in TurnIds, Answers2(k) PROVE TurnsKept
  <2> DEFINE entry == [turn[k] EXCEPT !.answered = TRUE]
  <2>1. entry \in TurnRows /\ entry.is = turn[k].is /\ entry.run = turn[k].run /\ entry.task = turn[k].task
        /\ entry.grant = turn[k].grant /\ entry.answered = TRUE
    BY <1>1 DEF TurnRows
  <2>2. turn' = [turn EXCEPT ![k] = entry] /\ turn'[k] = entry
    BY <1>1, <1>8 DEF Answers2
  <2> HIDE DEF entry
  <2>3. turn[k].run # NoTurnRun /\ exec' = exec /\ TurnOf(k)
    BY <1>1, <1>8 DEF Answers2, StillRuns
  <2>4. turn[k].is # "none"
    BY <2>3 DEF TurnOf, NoRow
  <2>5. TurnOf(k)'
    BY <2>1, <2>2, <2>3, <2>4 DEF TurnOf, Started
  <2>6. KeepsTurn(k)
    BY <2>1, <2>2, <2>3, <2>4 DEF KeepsTurn, Made
  <2> QED
    BY <2>1, <2>2, <2>5, <2>6, OneTurn
<1> QED
  BY <1>2, <1>3, <1>4, <1>5, <1>6, <1>7, <1>8 DEF TurnStep

LEMMA TurnAndRunKept == ASSUME TurnsKept PROVE TurnAndRun'
  BY DEF TurnsKept, TurnOf, TurnAndRun

-------------------------------------------------------------------------------
(* Turns: the tasks of the conversation *)

\* The next turn goes on with the last task, or opens the one after it.
LEMMA EnqueueIs ==
  ASSUME TurnsInv, NEW k \in TurnIds, Enqueue(k)
  PROVE  /\ k \in 1..Talk /\ ~Made(k) /\ (k > 1 => Made(k - 1)) /\ Before(k) \in TurnTasks
         /\ \E t \in TurnTasks :
              /\ t # 0
              /\ \/ t = Before(k) /\ work' = work
                 \/ /\ t = Before(k) + 1 /\ (Before(k) # 0 => work[Before(k)] \in TaskTerminal)
                    /\ work' = [work EXCEPT ![t] = "backlog"]
              /\ turn' = [turn EXCEPT ![k] = Row(t, consent.grant)]
<1> DEFINE before == IF k = 1 THEN 0 ELSE turn[k - 1].task
           t == IF before = 0 \/ work[before] \in TaskTerminal THEN before + 1 ELSE before
<1>1. k \in 1..Talk /\ turn[k] = NoRow /\ (k > 1 => turn[k - 1] # NoRow) /\ t \in TurnTasks
      /\ work' = (IF t = before THEN work ELSE [work EXCEPT ![t] = "backlog"])
      /\ turn' = [turn EXCEPT ![k] = [NoRow EXCEPT !.is = "queued", !.task = t, !.grant = consent.grant]]
  BY DEF Enqueue
<1>2. before = Before(k)
  BY DEF Before
<1>3. k > 1 => k - 1 \in TurnIds
  BY <1>1, TurnsAssumption DEF TurnIds
<1>4. before \in TurnTasks /\ before \in Nat
  BY <1>1, <1>3, TurnsAssumption DEF TurnsInv, TurnsTypeOK, TurnRows, TurnTasks
<1>5. ~Made(k) /\ (k > 1 => Made(k - 1))
  BY <1>1, <1>3 DEF Made, NoRow, TurnsInv, TurnAndRun
<1> HIDE DEF before
<1>6. t # 0 /\ (t = before \/ (t = before + 1 /\ (before # 0 => work[before] \in TaskTerminal)))
      /\ before + 1 # before
  <2>1. CASE before = 0 \/ work[before] \in TaskTerminal
    <3>1. t = before + 1
      BY <2>1
    <3> HIDE DEF t
    <3> QED
      BY <1>4, <2>1, <3>1
  <2>2. CASE ~(before = 0 \/ work[before] \in TaskTerminal)
    <3>1. t = before
      BY <2>2
    <3> HIDE DEF t
    <3> QED
      BY <1>4, <2>2, <3>1
  <2> QED
    BY <2>1, <2>2
<1> HIDE DEF t
<1>7. turn' = [turn EXCEPT ![k] = Row(t, consent.grant)]
  BY <1>1, RowIs
<1>8. \/ t = Before(k) /\ work' = work
      \/ /\ t = Before(k) + 1 /\ (Before(k) # 0 => work[Before(k)] \in TaskTerminal)
         /\ work' = [work EXCEPT ![t] = "backlog"]
  BY <1>1, <1>2, <1>6
<1> QED
  BY <1>1, <1>2, <1>4, <1>5, <1>6, <1>7, <1>8

LEMMA TasksInOrderKept ==
  ASSUME TurnsInv, RunStep, RunsKept, TurnsKept
  PROVE  TasksInOrder'
<1>1. TasksInOrder /\ TurnsTypeOK
  BY DEF TurnsInv
<1>2. /\ work \in [TurnTasks -> TaskStatus \cup {"none"}] /\ work' \in [TurnTasks -> TaskStatus \cup {"none"}]
      /\ turn \in [TurnIds -> TurnRows] /\ turn' \in [TurnIds -> TurnRows]
  BY <1>1 DEF TurnsTypeOK, RunsKept, RunTypes, TurnsKept
<1>3. /\ \A t \in 1..TalkTasks : t \in TurnTasks /\ t # 0 /\ t \in Nat
      /\ \A k \in 1..Talk : k \in TurnIds /\ (k > 1 => k - 1 \in TurnIds /\ k - 1 \in 1..Talk)
      /\ \A k \in 1..Talk : \A j \in 1..k : j \in 1..Talk
      /\ \A s \in Nat : PlanTurn(s) \notin 1..Talk
  BY TurnsAssumption DEF TurnTasks, TurnIds, PlanTurn
<1>4. "none" \notin TaskTerminal /\ "backlog" \notin TaskTerminal
  BY DEF TaskTerminal
<1>5. CASE \E k \in TurnIds : Enqueue(k)
  <2>1. PICK k \in 1..Talk : k \in TurnIds /\ ~Made(k) /\ (k > 1 => Made(k - 1)) /\ Before(k) \in TurnTasks /\ Enqueue(k)
    BY <1>5, EnqueueIs
  <2>2. PICK t \in TurnTasks :
              /\ t # 0
              /\ \/ t = Before(k) /\ work' = work
                 \/ /\ t = Before(k) + 1 /\ (Before(k) # 0 => work[Before(k)] \in TaskTerminal)
                    /\ work' = [work EXCEPT ![t] = "backlog"]
              /\ turn' = [turn EXCEPT ![k] = Row(t, consent.grant)]
    BY <2>1, EnqueueIs
  <2> DEFINE b == Before(k)
  <2>3. b \in Nat /\ t \in Nat /\ b <= TalkTasks
    BY <2>1, TurnsAssumption DEF TurnTasks
  <2>4. \A u \in 1..TalkTasks : work[u] # "none" <=> u <= b
    BY <1>1, <2>1 DEF TasksInOrder
  <2> HIDE DEF b
  <2>5. b # 0 /\ t = b + 1 => work[b] \in TaskTerminal
    BY <2>2, <2>3 DEF b
  <2>6. /\ t = b \/ t = b + 1
        /\ work' = IF t = b THEN work ELSE [work EXCEPT ![t] = "backlog"]
    BY <2>2, <2>3 DEF b
  <2>7. \A u \in 1..TalkTasks : u # t => work'[u] = work[u]
    BY <1>2, <1>3, <2>6
  <2>8. \A u \in 1..TalkTasks : work'[u] # "none" <=> u <= t
    BY <2>4, <2>6, <1>2, <2>3, <2>7
  <2>9. \A s, u \in 1..TalkTasks : s < u /\ work'[u] # "none" => work'[s] \in TaskTerminal
    <3> SUFFICES ASSUME NEW s \in 1..TalkTasks, NEW u \in 1..TalkTasks, s < u, work'[u] # "none"
                 PROVE  work'[s] \in TaskTerminal
      OBVIOUS
    <3>1. u <= t /\ s < t /\ work'[s] = work[s] /\ s \in Nat /\ u \in Nat
      BY <2>3, <2>7, <2>8
    <3>2. s <= b /\ (s = b => t = b + 1)
      BY <3>1, <2>3, <2>6
    <3>3. CASE s = b
      BY <3>1, <3>2, <3>3, <2>5
    <3>4. CASE s # b
      BY <3>1, <3>2, <3>4, <2>3, <2>4, <1>1 DEF TasksInOrder
    <3> QED
      BY <3>3, <3>4
  <2>10. /\ turn'[k].task = t /\ Made(k)' /\ \A j \in TurnIds : j # k => turn'[j] = turn[j]
    <3>1. consent.grant \in Nat
      BY <1>1 DEF TurnsTypeOK
    <3>2. turn'[k] = Row(t, consent.grant) /\ \A j \in TurnIds : j # k => turn'[j] = turn[j]
      BY <1>2, <2>1, <2>2
    <3>3. Row(t, consent.grant).task = t /\ Row(t, consent.grant).is = "queued"
      BY <3>1, RowFacts
    <3>4. turn'[k].is = "queued" /\ turn'[k].task = t
      BY <3>2, <3>3
    <3>5. Made(k)'
      BY <3>4 DEF Made
    <3> QED
      BY <3>2, <3>4, <3>5
  <2>11. \A j \in TurnIds : j # k => (Made(j)' <=> Made(j)) /\ turn'[j].task = turn[j].task
    BY <2>10 DEF Made
  <2>12. \A j \in 1..k : j # k => Made(j)
    BY <2>1, TurnsAssumption, <1>1 DEF TasksInOrder
  <2>13. \A j \in 1..Talk : Made(j)' => turn'[j].task # 0 /\ \A i \in 1..j : Made(i)'
    <3> SUFFICES ASSUME NEW j \in 1..Talk, Made(j)'
                 PROVE  turn'[j].task # 0 /\ \A i \in 1..j : Made(i)'
      OBVIOUS
    <3>1. CASE j = k
      BY <1>3, <3>1, <2>2, <2>10, <2>11, <2>12
    <3>2. CASE j # k
      BY <1>3, <2>11, <3>2, <1>1, <2>10 DEF TasksInOrder
    <3> QED
      BY <3>1, <3>2
  <2>14. ASSUME NEW j \in 1..Talk, ~Made(j)', j > 1 => Made(j - 1)'
         PROVE  j = k + 1
    <3>1. j # k /\ ~Made(j) /\ j \in TurnIds
      BY <1>3, <2>10, <2>11, <2>14
    <3>2. ~(j < k)
      BY <3>1, <2>12, TurnsAssumption
    <3>3. ~(j > k + 1)
      <4> SUFFICES ASSUME j > k + 1 PROVE FALSE
        OBVIOUS
      <4>1. j > 1 /\ j - 1 # k /\ j - 1 \in TurnIds /\ j - 1 \in 1..Talk /\ k \in 1..(j - 1)
        BY <1>3, TurnsAssumption
      <4>2. Made(j - 1)
        BY <4>1, <2>11, <2>14
      <4> QED
        BY <1>1, <2>1, <4>1, <4>2 DEF TasksInOrder
    <3> QED
      BY <3>1, <3>2, <3>3, TurnsAssumption
  <2>15. \A j \in 1..Talk : ~Made(j)' /\ (j > 1 => Made(j - 1)') =>
           \A u \in 1..TalkTasks : work'[u] # "none" <=> u <= Before(j)'
    <3> SUFFICES ASSUME NEW j \in 1..Talk, ~Made(j)', j > 1 => Made(j - 1)'
                 PROVE  \A u \in 1..TalkTasks : work'[u] # "none" <=> u <= Before(j)'
      OBVIOUS
    <3>1. j = k + 1
      BY <2>14
    <3>2. Before(j)' = t
      BY <3>1, <2>10 DEF Before
    <3> QED
      BY <3>2, <2>8
  <2> QED
    BY <2>9, <2>13, <2>15 DEF TasksInOrder
<1>6. CASE ~\E k \in TurnIds : Enqueue(k)
  <2>1. \A t \in 1..TalkTasks : /\ work'[t] # "none" <=> work[t] # "none"
                                /\ work[t] \in TaskTerminal => work'[t] \in TaskTerminal
    <3> SUFFICES ASSUME NEW t \in 1..TalkTasks
                 PROVE  /\ work'[t] # "none" <=> work[t] # "none"
                        /\ work[t] \in TaskTerminal => work'[t] \in TaskTerminal
      OBVIOUS
    <3>1. /\ work[t] \in TaskTerminal => work'[t] = work[t]
          /\ work[t] # "none" => work'[t] # "none"
          /\ work[t] = "none" /\ work'[t] # "none" => Opens(t)
      BY <1>3, WorkGoesOn
    <3> QED
      BY <1>3, <1>6, <3>1 DEF Opens
  <2>2. \A k \in 1..Talk : (Made(k)' <=> Made(k)) /\ (Made(k) => turn'[k].task = turn[k].task)
    <3>1. \A k \in 1..Talk : KeepsTurn(k)
      BY <1>3 DEF TurnsKept
    <3>2. StepAfter \in 0..Steps \/ ~AdvanceContinues
      BY ContinuesIs
    <3>3. \A k \in 1..Talk : ~PlansNext(k)
      BY <1>3, <3>2, TurnsAssumption DEF PlansNext
    <3>4. \A k \in 1..Talk : \A t \in TurnTasks : ~Queues(k, t)
      BY <1>3, <1>6 DEF Queues
    <3> QED
      BY <3>1, <3>3, <3>4 DEF KeepsTurn
  <2>3. \A s, u \in 1..TalkTasks : s < u /\ work'[u] # "none" => work'[s] \in TaskTerminal
    BY <1>1, <2>1 DEF TasksInOrder
  <2>4. \A k \in 1..Talk : Made(k)' => turn'[k].task # 0 /\ \A j \in 1..k : Made(j)'
    BY <1>1, <1>3, <2>2 DEF TasksInOrder
  <2>5. \A k \in 1..Talk : ~Made(k)' /\ (k > 1 => Made(k - 1)') =>
          \A t \in 1..TalkTasks : work'[t] # "none" <=> t <= Before(k)'
    <3> SUFFICES ASSUME NEW k \in 1..Talk, ~Made(k)', k > 1 => Made(k - 1)'
                 PROVE  \A t \in 1..TalkTasks : work'[t] # "none" <=> t <= Before(k)'
      OBVIOUS
    <3>1. ~Made(k) /\ (k > 1 => Made(k - 1) /\ turn'[k - 1].task = turn[k - 1].task)
      BY <1>3, <2>2
    <3>2. Before(k)' = Before(k)
      BY <3>1, TurnsAssumption DEF Before
    <3>3. \A t \in 1..TalkTasks : work[t] # "none" <=> t <= Before(k)
      BY <1>1, <3>1 DEF TasksInOrder
    <3> QED
      BY <2>1, <3>2, <3>3
  <2> QED
    BY <2>3, <2>4, <2>5 DEF TasksInOrder
<1> QED
  BY <1>5, <1>6

-------------------------------------------------------------------------------
(* Turns: the pump *)

\* A snapshot of turns has a first one.
LEMMA FirstTurn ==
  ASSUME NEW todo \in SUBSET TurnIds, todo # {}
  PROVE  (CHOOSE j \in todo : \A i \in todo : j <= i) \in todo
<1>1. todo \subseteq Nat
  BY TurnsAssumption DEF TurnIds
<1> DEFINE R == {ss \in Nat \X Nat : ss[1] < ss[2]}
<1>2. IsWellFoundedOn(R, Nat)
  BY NatLessThanWellFounded DEF OpToRel
<1> HIDE DEF R
<1>3. PICK j \in todo : \A i \in todo : ~(<<i, j>> \in R)
  BY <1>1, <1>2, WFMin
<1>4. \A i \in todo : ~(i < j)
  BY <1>1, <1>3 DEF R
<1>5. \A i \in todo : j <= i
  BY <1>1, <1>4
<1> QED
  BY <1>5

PumpOK == pump \in Pumps /\ PumpKnows

LEMMA PumpLeavesOK ==
  ASSUME NEW todo \in SUBSET TurnIds, pump' = PumpLeaves(todo)
  PROVE  PumpOK'
<1>1. CASE todo = {}
  BY <1>1 DEF PumpLeaves, IdlePump, PumpOK, PumpKnows, Pumps, PumpDoes
<1>2. CASE todo # {}
  <2>1. pump' = [at |-> "pick", todo |-> todo, turn |-> NoTurn, run |-> NoTurnRun]
    <3>1. [IdlePump EXCEPT !.at = "pick"] = [at |-> "pick", todo |-> {}, turn |-> NoTurn, run |-> NoTurnRun]
      BY DEF IdlePump
    <3> DEFINE one == [IdlePump EXCEPT !.at = "pick"]
    <3>2. pump' = [one EXCEPT !.todo = todo]
      BY <1>2 DEF PumpLeaves
    <3> HIDE DEF one
    <3>3. one = [at |-> "pick", todo |-> {}, turn |-> NoTurn, run |-> NoTurnRun]
      BY <3>1 DEF one
    <3> QED
      BY <3>2, <3>3
  <2> QED
    BY <1>2, <2>1 DEF PumpOK, PumpKnows, Pumps, PumpDoes
<1> QED
  BY <1>1, <1>2

LEMMA PumpKept ==
  ASSUME TurnsInv, RunsKept, TurnsNext
  PROVE  PumpOK'
<1>1. pump \in Pumps /\ PumpKnows /\ turn \in [TurnIds -> TurnRows] /\ work \in [TurnTasks -> TaskStatus \cup {"none"}]
  BY DEF TurnsInv, TurnsTypeOK
<1>2. CASE pump' = pump
  BY <1>1, <1>2 DEF RunsKept, KeepsRun, Over, Pumps, PumpOK, PumpKnows
<1>3. CASE Pump
  <2> DEFINE todo == {k \in TurnIds : turn[k].is \in PendingTurn}
  <2>1. todo # {} /\ pump' = [IdlePump EXCEPT !.at = "pick", !.todo = todo] /\ todo \in SUBSET TurnIds
    BY <1>3 DEF Pump
  <2> HIDE DEF todo
  <2>2. pump' = PumpLeaves(todo)
    BY <2>1 DEF PumpLeaves
  <2> QED
    BY <2>1, <2>2, PumpLeavesOK
<1>4. CASE PumpPicks
  <2> DEFINE k == CHOOSE j \in pump.todo : \A i \in pump.todo : j <= i
             others == {j \in pump.todo : Thread(j) # Thread(k)}
  <2>1. pump.todo \in SUBSET TurnIds /\ pump.todo # {}
    BY <1>1, <1>4 DEF PumpPicks, PumpKnows, Pumps
  <2>2. k \in pump.todo /\ k \in TurnIds
    BY <2>1, FirstTurn
  <2>3. pump' = (IF turn[k].is \notin PendingTurn THEN PumpLeaves(pump.todo \ {k})
                 ELSE IF PumpPlan(k) = "skip" THEN PumpLeaves(others)
                 ELSE [at |-> PumpPlan(k), todo |-> others, turn |-> k, run |-> turn[k].run])
        /\ UNCHANGED <<exec, turn, work>>
    BY <1>4 DEF PumpPicks, storeTurnVars
  <2>4. others \in SUBSET TurnIds /\ pump.todo \ {k} \in SUBSET TurnIds
    BY <2>1
  <2> HIDE DEF k, others
  <2>5. CASE turn[k].is \notin PendingTurn
    BY <2>3, <2>4, <2>5, PumpLeavesOK
  <2>6. CASE turn[k].is \in PendingTurn /\ PumpPlan(k) = "skip"
    BY <2>3, <2>4, <2>6, PumpLeavesOK
  <2>7. CASE turn[k].is \in PendingTurn /\ PumpPlan(k) # "skip"
    <3>1. pump' = [at |-> PumpPlan(k), todo |-> others, turn |-> k, run |-> turn[k].run]
      BY <2>3, <2>7
    <3>2. turn[k].run \in TurnRuns \cup {NoTurnRun} /\ k # NoTurn
      BY <1>1, <2>2 DEF TurnRows, TurnIds, NoTurn
    <3>3. PumpPlan(k) \in PumpDoes /\ (PumpPlan(k) = "settle" => turn[k].run # NoTurnRun /\ Over(turn[k].run))
      BY <2>7 DEF PumpPlan, PumpDoes
    <3>4. PumpPlan(k) # "pick"
      BY <3>3 DEF PumpDoes
    <3>5. pump' \in Pumps
      BY <2>2, <2>4, <3>1, <3>2, <3>3 DEF Pumps
    <3>6. Over(turn[k].run) => exec'[turn[k].run].is \in RunTerminal
      BY <2>3 DEF Over
    <3>7. PumpKnows'
      BY <3>1, <3>2, <3>3, <3>4, <3>6 DEF PumpKnows, Over
    <3> QED
      BY <3>5, <3>7 DEF PumpOK
  <2> QED
    BY <2>5, <2>6, <2>7
<1>5. CASE PumpChanges \/ PumpAssigns \/ PumpFails
  BY <1>1, <1>5, PumpLeavesOK DEF PumpChanges, PumpAssigns, PumpFails, Pumps
<1>6. CASE PumpPrepares
  <2>1. PICK at \in {"assign", "error"} : pump' = [pump EXCEPT !.at = at]
    BY <1>6 DEF PumpPrepares
  <2>2. pump' \in Pumps /\ pump'.at = at /\ pump'.turn = pump.turn
    BY <1>1, <2>1 DEF Pumps, PumpDoes
  <2>3. pump.turn # NoTurn
    BY <1>1, <1>6 DEF PumpPrepares, PumpKnows, PumpDoes
  <2> QED
    BY <2>2, <2>3 DEF PumpOK, PumpKnows
<1>7. CASE RestartServer
  BY <1>7 DEF RestartServer, IdlePump, PumpOK, PumpKnows, Pumps, PumpDoes
<1> QED
  <2>1. CASE \E k \in TurnIds : Enqueue(k) \/ Retry(k)
    BY <2>1, <1>2 DEF Enqueue, Retry, serverVars
  <2>2. CASE \E t \in TurnTasks : UserAssigns(t) \/ UserMoves(t)
    BY <2>2, <1>2 DEF UserAssigns, UserMoves, serverVars
  <2>3. CASE \E r \in TurnRuns :
               \/ Authorize(r) \/ Launch(r) \/ Starts(r) \/ Answer(r) \/ Refused(r)
               \/ LosesNode(r) \/ NodeConfirms(r)
    BY <2>3, <1>2 DEF Authorize, Launch, Starts, Answer, Refused, LosesNode, NodeConfirms, serverVars
  <2>a. CASE \E r \in TurnRuns : \E phase \in RunTerminal : Ends(r, phase)
    BY <2>a, <1>2 DEF Ends, serverVars
  <2>4. CASE UserCancels \/ \E c \in calls : StopFails(c) \/ StopReturns(c) \/ StopConfirms(c) \/ CommitCancel(c)
    BY <2>4, <1>2 DEF UserCancels, StopFails, StopReturns, StopConfirms, CommitCancel
  <2>5. CASE StartDiscussion \/ AdvanceExpires \/ AdvanceStops \/ AdvanceFails \/ AdvanceContinues \/ CancelDiscussion
    <3>1. CASE AdvanceContinues
      BY <3>1, <1>2, ContinuesIs
    <3> QED
      BY <2>5, <3>1, <1>2 DEF StartDiscussion, AdvanceExpires, AdvanceStops, AdvanceFails, Advances, CancelDiscussion, serverVars
  <2>6. CASE \E a \in Finishers : FinishReads(a) \/ FinishStops(a) \/ FinishLooks(a) \/ FinishCloses(a)
    BY <2>6, <1>2 DEF FinishReads, FinishStops, FinishLooks, FinishCloses
  <2>7. CASE GrantConsent \/ Revoke \/ ListWork \/ WithdrawDiscussion \/ WithdrawSeesDiscussion
             \/ WithdrawCancels \/ WithdrawAnswers
    BY <2>7, <1>2 DEF GrantConsent, Revoke, ListWork, WithdrawDiscussion,
       WithdrawSeesDiscussion, WithdrawCancels, WithdrawAnswers, serverVars
  <2> QED
    BY <1>3, <1>4, <1>5, <1>6, <1>7, <2>1, <2>2, <2>3, <2>a, <2>4, <2>5, <2>6, <2>7 DEF TurnsNext

-------------------------------------------------------------------------------
(* Turns: cancellations under way *)

CallOK(c) ==
  /\ c.item \in RunItems => c.at # "commit" /\ c.run = c.item[2]
  /\ c.item \in TurnItems => c.at # "confirm"
  /\ c.at # "commit" => c.run # NoTurnRun
  /\ c.run # NoTurnRun => Started(c.run)
  /\ c.at = "confirm" => Over(c.run)
  /\ c.item \in TurnItems /\ c.run # NoTurnRun =>
       \/ turn[c.item[2]].run = c.run
       \/ exec[c.run].is \in {"completed", "failed"}
  /\ c.at = "commit" /\ c.run # NoTurnRun => exec[c.run].is = "cancelled"

LEMMA CallFields ==
  ASSUME NEW c \in StopCalls
  PROVE  /\ c.run \in TurnRuns \cup {NoTurnRun} /\ c.item \in TurnItems \cup RunItems
         /\ c.at \in {"stop", "confirm", "commit"} /\ c.by \in {"user", "item"} \cup Finishers
         /\ c.item \in TurnItems => c.item[2] \in TurnIds /\ c.item = TurnItem(c.item[2])
         /\ c.item \in RunItems => c.item[2] \in TurnRuns /\ c.item = RunItem(c.item[2])
         /\ c.item[1] = "turn" <=> c.item \in TurnItems
  BY DEF StopCalls, TurnItems, RunItems, TurnItem, RunItem

\* A call that goes on with what it knows.
LEMMA CallKept ==
  ASSUME TurnsInv, RunsKept, TurnsKept, NEW c \in StopCalls, CallOK(c)
  PROVE  CallOK(c)'
<1>1. c.run # NoTurnRun => KeepsRun(c.run) /\ Started(c.run) /\ c.run \in TurnRuns
  BY CallFields DEF RunsKept, CallOK
<1>2. c.item \in TurnItems => KeepsTurn(c.item[2])
  BY CallFields DEF TurnsKept
<1>3. c.run # NoTurnRun => /\ Started(c.run)' /\ (Over(c.run) => Over(c.run)')
                           /\ exec[c.run].is \in {"completed", "failed", "cancelled"} =>
                                exec'[c.run].is = exec[c.run].is
  BY <1>1 DEF KeepsRun, Over, RunTerminal
<1>4. c.item \in TurnItems /\ c.run # NoTurnRun =>
       \/ turn'[c.item[2]].run = c.run
       \/ exec'[c.run].is \in {"completed", "failed"}
  BY <1>2, <1>3 DEF CallOK, KeepsTurn
<1>5. c.at = "confirm" => c.run # NoTurnRun
  BY DEF CallOK
<1> QED
  BY <1>3, <1>4, <1>5 DEF CallOK

LEMMA NewTurnCall ==
  ASSUME TurnsInv, NEW by \in {"user", "item"} \cup Finishers, UNCHANGED <<turn, exec>>,
         NEW k \in TurnIds, CancelFinds(k) \notin {"ok", "error"},
         NEW c, c = Call(by, TurnItem(k), turn[k].run, CancelFinds(k))
  PROVE  c \in StopCalls /\ CallOK(c)'
<1> DEFINE item == TurnItem(k)
           r == turn[k].run
           finds == CancelFinds(k)
<1>1. item \in TurnItems /\ item \notin RunItems /\ item[2] = k
  BY DEF TurnItems, RunItems, TurnItem, RunItem
<1>2. r \in TurnRuns \cup {NoTurnRun} /\ (r # NoTurnRun => Started(r))
  BY DEF TurnsInv, TurnsTypeOK, TurnRows, TurnAndRun
<1>3. /\ finds \in {"stop", "commit"} /\ (finds = "stop" => r # NoTurnRun)
      /\ finds = "commit" /\ r # NoTurnRun => exec[r].is = "cancelled"
  BY DEF CancelFinds, PendingTurn
<1> HIDE DEF item, finds
<1>4. c = [by |-> by, item |-> item, run |-> r, at |-> finds]
  BY DEF Call, item, finds
<1>5. c \in StopCalls
  BY <1>1, <1>2, <1>3, <1>4 DEF StopCalls
<1>6. c.item = item /\ c.run = r /\ c.at = finds /\ c.item[2] = k
  BY <1>1, <1>4
<1>7. turn'[k].run = c.run /\ exec' = exec
  BY <1>6
<1> HIDE DEF r
<1>8. CallOK(c)'
  BY <1>1, <1>2, <1>3, <1>6, <1>7 DEF CallOK, Started
<1> QED
  BY <1>5, <1>8

LEMMA NewRunCall ==
  ASSUME TurnsInv, NEW by \in {"user", "item"} \cup Finishers, UNCHANGED <<turn, exec>>,
         NEW r \in TurnRuns, NEW finds \in {"stop", "confirm"},
         Started(r), finds = "confirm" => Over(r),
         NEW c, c = Call(by, RunItem(r), r, finds)
  PROVE  c \in StopCalls /\ CallOK(c)'
<1> DEFINE item == RunItem(r)
<1>1. item \in RunItems /\ item \notin TurnItems /\ item[2] = r /\ r # NoTurnRun
  BY DEF TurnItems, RunItems, TurnItem, RunItem, TurnRuns, NoTurnRun
<1> HIDE DEF item
<1>2. c = [by |-> by, item |-> item, run |-> r, at |-> finds]
  BY DEF Call, item
<1>3. c \in StopCalls
  BY <1>1, <1>2 DEF StopCalls
<1>4. c.item = item /\ c.run = r /\ c.at = finds
  BY <1>2
<1>5. CallOK(c)'
  BY <1>1, <1>4 DEF CallOK, Started, Over
<1> QED
  BY <1>3, <1>5

LEMMA CallsKept ==
  ASSUME TurnsInv, RunsKept, TurnsKept, TurnsNext
  PROVE  calls' \subseteq StopCalls /\ CallsKnow'
<1> DEFINE New(c) == c \in StopCalls /\ CallOK(c)'
<1>1. /\ calls \subseteq StopCalls /\ turn \in [TurnIds -> TurnRows] /\ exec \in [TurnRuns -> ExecRows]
      /\ talks \in TalkRows /\ wd \in Withdrawals
  BY DEF TurnsInv, TurnsTypeOK
<1>2. \A c \in calls : New(c)
  BY <1>1, CallKept DEF TurnsInv, CallsKnow, CallOK
<1>3. SUFFICES \A c \in calls' : c \notin calls => New(c)
  <2>1. \A c \in calls' : New(c)
    BY <1>2, <1>3
  <2> HIDE DEF New
  <2>2. \A c \in calls' : c \in StopCalls /\ CallOK(c)'
    BY <2>1 DEF New
  <2> QED
    BY <2>2 DEF CallsKnow, CallOK
<1> HIDE DEF New
<1>4. CASE calls' \subseteq calls
  BY <1>4
<1>5. CASE UserCancels
  BY <1>5, NewTurnCall, NewRunCall DEF UserCancels, storeTurnVars, Begin, New
<1>6. CASE WithdrawCancels
  <2>1. UNCHANGED <<turn, exec>>
    BY <1>6 DEF WithdrawCancels, storeTurnVars
  <2>2. ASSUME NEW k \in TurnIds,
               Begin("item", TurnItem(k), turn[k].run, CancelFinds(k)), NEW c \in calls', c \notin calls
        PROVE  New(c)
    BY <2>2, <2>1, NewTurnCall DEF Begin, New
  <2>3. ASSUME NEW r \in TurnRuns, RunItem(r) \in wd.todo, Begin("item", RunItem(r), r, RunFinds(r)),
               NEW c \in calls', c \notin calls
        PROVE  New(c)
    BY <2>3, <2>1, NewRunCall DEF Begin, RunFinds, TurnsInv, WithdrawalKnows, New
  <2> QED
    BY <1>6, <2>2, <2>3 DEF WithdrawCancels
<1>7. ASSUME NEW a \in Finishers, FinishLooks(a) PROVE \A c \in calls' : c \notin calls => New(c)
  <2> DEFINE k == talks.turn
             r == turn[k].run
             ended == turn[k].is \notin PendingTurn \/ (r # NoTurnRun /\ Over(r))
  <2>1. /\ fin[a].at = "stops" /\ UNCHANGED <<turn, exec>>
        /\ calls' = IF ended THEN calls
                    ELSE calls \cup {Call(a, TurnItem(k), r, CancelFinds(k))}
    BY <1>7 DEF FinishLooks, storeTurnVars
  <2>2. k \in TurnIds
    BY <1>1, <2>1 DEF TurnsInv, TalkKnows, TalkRows
  <2>3. ASSUME NEW c \in calls', c \notin calls PROVE New(c)
    BY <2>1, <2>3, <2>2, NewTurnCall DEF CancelFinds, PendingTurn, New
  <2> QED
    BY <2>3
<1>8. ASSUME NEW d \in calls, StopReturns(d) PROVE \A c \in calls' : c \notin calls => New(c)
  <2> DEFINE r == d.run
             settled == exec[r].is \in {"completed", "failed"}
  <2>1. CASE ~(d.item[1] = "turn" /\ ~settled)
    BY <1>8, <2>1 DEF StopReturns
  <2>2. CASE d.item[1] = "turn" /\ ~settled
    <3>1. /\ calls' = (calls \ {d}) \cup {[d EXCEPT !.at = "commit"]} /\ turn' = turn
          /\ exec' = [exec EXCEPT ![r].is = "cancelled"] /\ d.at = "stop"
      BY <1>8, <2>2 DEF StopReturns
    <3>2. /\ d \in StopCalls /\ d.item \in TurnItems /\ d.item \notin RunItems
          /\ r \in TurnRuns /\ Started(r) /\ turn[d.item[2]].run = r
      BY <1>1, <2>2, <3>1, CallFields DEF TurnsInv, CallsKnow, TurnItems, RunItems, TurnItem, RunItem
    <3>3. exec'[r].is = "cancelled"
      BY <1>1, <3>1, <3>2 DEF ExecRows
    <3>4. ASSUME NEW c, c = [d EXCEPT !.at = "commit"] PROVE New(c)
      BY <3>2, <3>4, <3>1, <3>3 DEF StopCalls, CallOK, Started, New
    <3> QED
      BY <3>1, <3>4
  <2> QED
    BY <2>1, <2>2
<1> QED
  <2>1. CASE \E k \in TurnIds : Enqueue(k) \/ Retry(k)
    BY <2>1, <1>4 DEF Enqueue, Retry, serverVars
  <2>2. CASE \E t \in TurnTasks : UserAssigns(t) \/ UserMoves(t)
    BY <2>2, <1>4 DEF UserAssigns, UserMoves, serverVars
  <2>3. CASE \E r \in TurnRuns :
               \/ Authorize(r) \/ Launch(r) \/ Starts(r) \/ Answer(r) \/ Refused(r)
               \/ LosesNode(r) \/ NodeConfirms(r)
    BY <2>3, <1>4 DEF Authorize, Launch, Starts, Answer, Refused, LosesNode, NodeConfirms, serverVars
  <2>a. CASE \E r \in TurnRuns : \E phase \in RunTerminal : Ends(r, phase)
    BY <2>a, <1>4 DEF Ends, serverVars
  <2>b. CASE Pump \/ PumpPicks \/ PumpChanges \/ PumpPrepares \/ PumpAssigns \/ PumpFails
    BY <2>b, <1>4 DEF Pump, PumpPicks, PumpChanges, PumpPrepares, PumpAssigns, PumpFails
  <2>4. CASE \E c \in calls : StopFails(c) \/ StopConfirms(c) \/ CommitCancel(c)
    BY <2>4, <1>4 DEF StopFails, StopConfirms, CommitCancel
  <2>5. CASE StartDiscussion \/ AdvanceExpires \/ AdvanceStops \/ AdvanceFails \/ AdvanceContinues \/ CancelDiscussion
    <3>1. CASE AdvanceContinues
      BY <3>1, <1>4, ContinuesIs
    <3> QED
      BY <2>5, <3>1, <1>4 DEF StartDiscussion, AdvanceExpires, AdvanceStops, AdvanceFails, Advances, CancelDiscussion, serverVars
  <2>6. CASE \E a \in Finishers : FinishReads(a) \/ FinishStops(a) \/ FinishCloses(a)
    BY <2>6, <1>4 DEF FinishReads, FinishStops, FinishCloses
  <2>7. CASE GrantConsent \/ Revoke \/ ListWork \/ WithdrawDiscussion \/ WithdrawSeesDiscussion
             \/ WithdrawAnswers \/ RestartServer
    BY <2>7, <1>4 DEF GrantConsent, Revoke, ListWork, WithdrawDiscussion,
       WithdrawSeesDiscussion, WithdrawAnswers, RestartServer, serverVars
  <2> QED
    BY <1>5, <1>6, <1>7, <1>8, <2>1, <2>2, <2>3, <2>a, <2>b, <2>4, <2>5, <2>6, <2>7 DEF TurnsNext

-------------------------------------------------------------------------------
(* Turns: the discussion *)

Stops(is, error) ==
  /\ talks.is \in OpenDiscussion /\ (is = "stopping" => talks.is = "running")
  /\ talks' = [is |-> is, step |-> talks.step, turn |-> talks.turn, grant |-> talks.grant,
               error |-> error]
Begun ==
  /\ StartDiscussion /\ talks.is = "none" /\ consent.given
  /\ talks' = [is |-> "running", step |-> talks.step, turn |-> talks.turn, grant |-> consent.grant,
               error |-> talks.error]
TalkStep ==
  \/ talks' = talks \/ Begun \/ AdvanceContinues
  \/ \E is \in {"stopping", "failed", "cancelled"}, error \in BOOLEAN : Stops(is, error)

LEMMA TalkFields ==
  ASSUME talks \in TalkRows
  PROVE  /\ \A is, error : [talks EXCEPT !.is = is, !.error = error] =
              [is |-> is, step |-> talks.step, turn |-> talks.turn, grant |-> talks.grant,
               error |-> error]
         /\ \A is : [talks EXCEPT !.is = is] =
              [is |-> is, step |-> talks.step, turn |-> talks.turn, grant |-> talks.grant,
               error |-> talks.error]
<1>1. PICK is0, step0, turn0, grant0, error0 :
        talks = [is |-> is0, step |-> step0, turn |-> turn0, grant |-> grant0, error |-> error0]
  BY DEF TalkRows
<1>2. ASSUME NEW is PROVE [talks EXCEPT !.is = is] =
        [is |-> is, step |-> step0, turn |-> turn0, grant |-> grant0, error |-> error0]
  BY <1>1
<1>3. ASSUME NEW is, NEW error PROVE [talks EXCEPT !.is = is, !.error = error] =
        [is |-> is, step |-> step0, turn |-> turn0, grant |-> grant0, error |-> error]
  <2> DEFINE one == [talks EXCEPT !.is = is]
  <2>1. one = [is |-> is, step |-> step0, turn |-> turn0, grant |-> grant0, error |-> error0]
    BY <1>2
  <2>2. [talks EXCEPT !.is = is, !.error = error] = [one EXCEPT !.error = error]
    OBVIOUS
  <2> HIDE DEF one
  <2> QED
    BY <2>1, <2>2
<1> QED
  BY <1>1, <1>2, <1>3

LEMMA ClosedIs ==
  ASSUME talks \in TalkRows
  PROVE  /\ \E is \in {"failed", "cancelled"} : Closed(talks) = [talks EXCEPT !.is = is]
         /\ \A is, error : \E to \in {"failed", "cancelled"} :
              Closed([talks EXCEPT !.is = is, !.error = error]) = [talks EXCEPT !.is = to, !.error = error]
<1>1. \E is \in {"failed", "cancelled"} : Closed(talks) = [talks EXCEPT !.is = is]
  BY DEF Closed
<1>2. ASSUME NEW is, NEW error
      PROVE  \E to \in {"failed", "cancelled"} :
              Closed([talks EXCEPT !.is = is, !.error = error]) = [talks EXCEPT !.is = to, !.error = error]
  <2> DEFINE entry == [talks EXCEPT !.is = is, !.error = error]
  <2>1. entry = [is |-> is, step |-> talks.step, turn |-> talks.turn, grant |-> talks.grant, error |-> error]
    BY TalkFields
  <2>2. PICK to \in {"failed", "cancelled"} : Closed(entry) = [entry EXCEPT !.is = to]
    BY DEF Closed
  <2> HIDE DEF entry
  <2>3. [entry EXCEPT !.is = to] =
          [is |-> to, step |-> talks.step, turn |-> talks.turn, grant |-> talks.grant, error |-> error]
    BY <2>1
  <2>4. [entry EXCEPT !.is = to] = [talks EXCEPT !.is = to, !.error = error]
    BY <2>3, TalkFields
  <2> QED
    BY <2>2, <2>4 DEF entry
<1> QED
  BY <1>1, <1>2

LEMMA FenceIs ==
  ASSUME TurnsInv, NEW a \in Finishers, Fence(a)
  PROVE  TalkStep
<1>1. talks \in TalkRows
  BY DEF TurnsInv, TurnsTypeOK
<1>2. CASE talks.is = "running"
  <2>1. PICK no \in BOOLEAN : talks' = [talks EXCEPT !.is = "stopping", !.error = no]
    BY <1>2 DEF Fence
  <2>2. Stops("stopping", no)
    BY <1>1, <1>2, <2>1, TalkFields DEF Stops, OpenDiscussion
  <2> QED
    BY <2>2 DEF TalkStep
<1>3. CASE talks.is # "running"
  BY <1>3 DEF Fence, TalkStep
<1> QED
  BY <1>2, <1>3

LEMMA TalkMovesAre ==
  ASSUME TurnsInv, TurnsNext
  PROVE  TalkStep
<1>1. talks \in TalkRows
  BY DEF TurnsInv, TurnsTypeOK
<1>2. CASE talks' = talks
  BY <1>2 DEF TalkStep
<1>3. CASE StartDiscussion
  <2> DEFINE one == [talks EXCEPT !.is = "running"]
  <2>1. one = [is |-> "running", step |-> talks.step, turn |-> talks.turn, grant |-> talks.grant,
               error |-> talks.error]
    BY <1>1, TalkFields
  <2>2. talks' = [one EXCEPT !.grant = consent.grant]
    BY <1>3 DEF StartDiscussion
  <2> HIDE DEF one
  <2>3. PICK step0, turn0, grant0, error0 :
          one = [is |-> "running", step |-> step0, turn |-> turn0, grant |-> grant0, error |-> error0]
          /\ step0 = talks.step /\ turn0 = talks.turn /\ error0 = talks.error
    BY <2>1
  <2>4. talks' = [is |-> "running", step |-> step0, turn |-> turn0, grant |-> consent.grant, error |-> error0]
    BY <2>2, <2>3
  <2> QED
    BY <1>3, <2>3, <2>4 DEF TalkStep, Begun, StartDiscussion
<1>4. CASE AdvanceExpires
  <2>1. PICK yes \in BOOLEAN : yes = TRUE
    OBVIOUS
  <2>2. PICK to \in {"failed", "cancelled"} :
          Closed([talks EXCEPT !.is = "stopping", !.error = yes]) = [talks EXCEPT !.is = to, !.error = yes]
    BY <1>1, ClosedIs
  <2>3. talks.is = "running" /\ \E is \in {"stopping", to} : talks' = [talks EXCEPT !.is = is, !.error = yes]
    BY <1>4, <2>1, <2>2 DEF AdvanceExpires, Advances
  <2>4. PICK is \in {"stopping", "failed", "cancelled"} : talks' = [talks EXCEPT !.is = is, !.error = yes]
    BY <2>3
  <2>5. Stops(is, yes)
    BY <1>1, <2>3, <2>4, TalkFields DEF Stops, OpenDiscussion
  <2> QED
    BY <2>4, <2>5 DEF TalkStep
<1>5. ASSUME talks.is = "stopping", talks' = Closed(talks) PROVE TalkStep
  <2>1. PICK is \in {"failed", "cancelled"} : talks' = [talks EXCEPT !.is = is]
    BY <1>1, <1>5, ClosedIs
  <2>2. Stops(is, talks.error) /\ talks.error \in BOOLEAN
    BY <1>1, <1>5, <2>1, TalkFields DEF Stops, OpenDiscussion, TalkRows
  <2> QED
    BY <2>1, <2>2 DEF TalkStep
<1>6. CASE AdvanceStops
  BY <1>2, <1>5, <1>6 DEF AdvanceStops, Advances
<1>7. CASE AdvanceFails
  <2>1. PICK yes \in BOOLEAN : talks' = [talks EXCEPT !.is = "stopping", !.error = yes]
    BY <1>7 DEF AdvanceFails, Advances
  <2>2. Stops("stopping", yes)
    BY <1>1, <1>7, <2>1, TalkFields DEF Stops, OpenDiscussion, AdvanceFails
  <2> QED
    BY <2>2 DEF TalkStep
<1>8. CASE AdvanceContinues
  BY <1>8 DEF TalkStep
<1>9. CASE CancelDiscussion \/ WithdrawDiscussion
  BY <1>9, FenceIs DEF CancelDiscussion, WithdrawDiscussion, Finishers
<1>10. ASSUME NEW a \in Finishers, FinishCloses(a) PROVE TalkStep
  BY <1>2, <1>5, <1>10 DEF FinishCloses
<1> QED
  <2>1. CASE \E k \in TurnIds : Enqueue(k) \/ Retry(k)
    BY <2>1, <1>2 DEF Enqueue, Retry
  <2>2. CASE \E t \in TurnTasks : UserAssigns(t) \/ UserMoves(t)
    BY <2>2, <1>2 DEF UserAssigns, UserMoves
  <2>3. CASE \E r \in TurnRuns :
               \/ Authorize(r) \/ Launch(r) \/ Starts(r) \/ Answer(r) \/ Refused(r)
               \/ LosesNode(r) \/ NodeConfirms(r)
    BY <2>3, <1>2 DEF Authorize, Launch, Starts, Answer, Refused, LosesNode, NodeConfirms
  <2>a. CASE \E r \in TurnRuns : \E phase \in RunTerminal : Ends(r, phase)
    BY <2>a, <1>2 DEF Ends
  <2>b. CASE Pump \/ PumpPicks \/ PumpChanges \/ PumpPrepares \/ PumpAssigns \/ PumpFails
    BY <2>b, <1>2 DEF Pump, PumpPicks, PumpChanges, PumpPrepares, PumpAssigns, PumpFails
  <2>4. CASE UserCancels \/ \E c \in calls : StopFails(c) \/ StopReturns(c) \/ StopConfirms(c) \/ CommitCancel(c)
    BY <2>4, <1>2 DEF UserCancels, StopFails, StopReturns, StopConfirms, CommitCancel
  <2>6. CASE \E a \in Finishers : FinishReads(a) \/ FinishStops(a) \/ FinishLooks(a)
    BY <2>6, <1>2 DEF FinishReads, FinishStops, FinishLooks
  <2>7. CASE GrantConsent \/ Revoke \/ ListWork \/ WithdrawSeesDiscussion
             \/ WithdrawCancels \/ WithdrawAnswers \/ RestartServer
    BY <2>7, <1>2 DEF GrantConsent, Revoke, ListWork,
       WithdrawSeesDiscussion, WithdrawCancels, WithdrawAnswers, RestartServer
  <2> QED
    BY <1>3, <1>4, <1>6, <1>7, <1>8, <1>9, <1>10, <2>1, <2>2, <2>3, <2>a, <2>b, <2>4, <2>6, <2>7
       DEF TurnsNext

\* What a step does to a finishStopping under way.
FinStep ==
  /\ fin' \in [Finishers -> Fins]
  /\ \A a \in Finishers : fin'[a].at \in {"lost", "stops"} =>
       \/ fin[a].at \in {"lost", "stops"}
       \/ talks'.is = "stopping" /\ talks'.turn # NoTurn

LEMMA FinOne ==
  ASSUME TurnsInv, NEW a \in Finishers, NEW entry \in Fins, fin' = [fin EXCEPT ![a] = entry],
         entry.at \in {"lost", "stops"} =>
           \/ fin[a].at \in {"lost", "stops"}
           \/ talks'.is = "stopping" /\ talks'.turn # NoTurn
  PROVE  FinStep
BY DEF TurnsInv, TurnsTypeOK, FinStep

LEMMA FinishesOK ==
  ASSUME TurnsInv, NEW a \in Finishers, NEW entry, Finishes(a, entry), talks' = entry
  PROVE  FinStep
<1>1. fin \in [Finishers -> Fins]
  BY DEF TurnsInv, TurnsTypeOK
<1>2. PICK at \in {"lost", "idle"} : fin' = [fin EXCEPT ![a].at = at]
        /\ (at = "lost" => talks'.is = "stopping" /\ talks'.turn # NoTurn)
  BY DEF Finishes
<1>3. [fin[a] EXCEPT !.at = at] \in Fins /\ [fin[a] EXCEPT !.at = at].at = at
  BY <1>1 DEF Fins
<1> QED
  BY <1>2, <1>3, FinOne

LEMMA ReportFin ==
  ASSUME TurnsInv, NEW c, NEW ok \in BOOLEAN, Report(c, ok)
  PROVE  FinStep
<1>1. fin \in [Finishers -> Fins]
  BY DEF TurnsInv, TurnsTypeOK
<1>2. CASE c.by \in Finishers
  <2>1. PICK at \in {"close", "idle"} : fin' = [fin EXCEPT ![c.by] = [IdleFin EXCEPT !.at = at]]
    BY <1>2 DEF Report
  <2>2. [IdleFin EXCEPT !.at = at] = [at |-> at, left |-> {}]
    BY DEF IdleFin
  <2>3. [IdleFin EXCEPT !.at = at] \in Fins /\ [IdleFin EXCEPT !.at = at].at = at
    BY <2>2 DEF Fins
  <2> QED
    BY <1>2, <2>1, <2>3, FinOne
<1>3. CASE c.by \notin Finishers
  BY <1>1, <1>3 DEF Report, FinStep
<1> QED
  BY <1>2, <1>3

LEMMA FinMovesAre ==
  ASSUME TurnsInv, TurnsNext
  PROVE  FinStep
<1>1. fin \in [Finishers -> Fins] /\ lost \subseteq TurnRuns
  BY DEF TurnsInv, TurnsTypeOK
<1>2. CASE fin' = fin
  BY <1>1, <1>2 DEF FinStep
<1>3. ASSUME NEW by, NEW item, NEW run, NEW finds, Begin(by, item, run, finds) PROVE FinStep
  BY <1>2, <1>3, ReportFin DEF Begin
<1>4. CASE UserCancels \/ WithdrawCancels
  BY <1>3, <1>4 DEF UserCancels, WithdrawCancels
<1>5. ASSUME NEW c \in calls, StopFails(c) \/ StopConfirms(c) PROVE FinStep
  BY <1>5, ReportFin DEF StopFails, StopConfirms
<1>6. ASSUME NEW c \in calls, StopReturns(c) PROVE FinStep
  BY <1>2, <1>6, ReportFin DEF StopReturns
<1>7. ASSUME NEW c \in calls, CommitCancel(c) PROVE FinStep
  BY <1>7, ReportFin DEF CommitCancel
<1>8. CASE AdvanceExpires \/ AdvanceFails \/ AdvanceStops
  <2>1. ASSUME NEW entry, Advances(entry) PROVE FinStep
    BY <2>1, FinishesOK DEF Advances, Finishers
  <2>2. CASE AdvanceExpires
    BY <2>1, <2>2 DEF AdvanceExpires
  <2>3. CASE AdvanceFails
    BY <2>1, <2>3 DEF AdvanceFails
  <2>4. CASE AdvanceStops
    BY <2>4, <2>1, FinishesOK DEF AdvanceStops, Finishers
  <2> QED
    BY <1>8, <2>2, <2>3, <2>4
<1>9. CASE AdvanceContinues
  BY <1>9, ContinuesIs, FinishesOK DEF Finishers
<1>10. CASE CancelDiscussion \/ WithdrawDiscussion
  BY FinishesOK, <1>10 DEF Finishers, CancelDiscussion, WithdrawDiscussion, Fence
<1>11. ASSUME NEW a \in Finishers, FinishReads(a) PROVE FinStep
  <2> DEFINE entry == [at |-> "stops", left |-> {r \in lost : exec[r].task = 0}]
  <2>1. entry \in Fins
    BY <1>1 DEF Fins
  <2> QED
    BY <1>11, <2>1, FinOne DEF FinishReads
<1>12. ASSUME NEW a \in Finishers, FinishStops(a) PROVE FinStep
  <2>1. PICK r : \/ fin' = [fin EXCEPT ![a].left = @ \ {r}]
                 \/ fin' = [fin EXCEPT ![a] = IdleFin]
    BY <1>12 DEF FinishStops
  <2>2. fin[a].at = "stops"
    BY <1>12 DEF FinishStops
  <2>3. CASE fin' = [fin EXCEPT ![a].left = @ \ {r}]
    BY <1>1, <2>2, <2>3, FinOne DEF Fins
  <2>4. CASE fin' = [fin EXCEPT ![a] = IdleFin]
    BY <2>2, <2>4, FinOne DEF Fins, IdleFin
  <2> QED
    BY <2>1, <2>3, <2>4
<1>13. ASSUME NEW a \in Finishers, FinishLooks(a) PROVE FinStep
  <2>1. PICK at \in {"close", "cancel"} : fin' = [fin EXCEPT ![a].at = at]
    BY <1>13 DEF FinishLooks
  <2>2. [fin[a] EXCEPT !.at = at] \in Fins /\ [fin[a] EXCEPT !.at = at].at = at
    BY <1>1 DEF Fins
  <2> QED
    BY <2>1, <2>2, FinOne
<1>14. ASSUME NEW a \in Finishers, FinishCloses(a) PROVE FinStep
  BY <1>14, FinOne DEF Fins, IdleFin, FinishCloses
<1>15. CASE RestartServer
  BY <1>15 DEF Fins, IdleFin, RestartServer, FinStep
<1> QED
  <2>1. CASE \E k \in TurnIds : Enqueue(k) \/ Retry(k)
    BY <2>1, <1>2 DEF Enqueue, Retry, serverVars
  <2>2. CASE \E t \in TurnTasks : UserAssigns(t) \/ UserMoves(t)
    BY <2>2, <1>2 DEF UserAssigns, UserMoves, serverVars
  <2>3. CASE \E r \in TurnRuns :
               \/ Authorize(r) \/ Launch(r) \/ Starts(r) \/ Answer(r) \/ Refused(r)
               \/ LosesNode(r) \/ NodeConfirms(r)
    BY <2>3, <1>2 DEF Authorize, Launch, Starts, Answer, Refused, LosesNode, NodeConfirms, serverVars
  <2>a. CASE \E r \in TurnRuns : \E phase \in RunTerminal : Ends(r, phase)
    BY <2>a, <1>2 DEF Ends, serverVars
  <2>b. CASE Pump \/ PumpPicks \/ PumpChanges \/ PumpPrepares \/ PumpAssigns \/ PumpFails
    BY <2>b, <1>2 DEF Pump, PumpPicks, PumpChanges, PumpPrepares, PumpAssigns, PumpFails
  <2>7. CASE StartDiscussion \/ GrantConsent \/ Revoke \/ ListWork \/ WithdrawSeesDiscussion \/ WithdrawAnswers
    BY <2>7, <1>2 DEF StartDiscussion, GrantConsent, Revoke, ListWork,
       WithdrawSeesDiscussion, WithdrawAnswers, serverVars
  <2> QED
    BY <1>4, <1>5, <1>6, <1>7, <1>8, <1>9, <1>10, <1>11, <1>12, <1>13, <1>14, <1>15,
       <2>1, <2>2, <2>3, <2>a, <2>b, <2>7 DEF TurnsNext

LEMMA TalkKept ==
  ASSUME TurnsInv, RunStep, RunsKept, TurnsKept, TalkStep, FinStep
  PROVE  talks' \in TalkRows /\ TalkKnows' /\ DiscussionFollowsAnswers'
<1>1. /\ talks \in TalkRows /\ TalkKnows /\ DiscussionFollowsAnswers /\ consent.grant \in Nat
      /\ \A k \in TurnIds : turn[k] \in TurnRows
  BY DEF TurnsInv, TurnsTypeOK
<1>2. /\ 0 \in TurnTasks
      /\ \A s \in 0..(Steps - 1) : PlanTurn(s) \in TurnIds /\ PlanTurn(s) # NoTurn
      /\ \A s, u \in 0..(Steps - 1) : PlanTurn(s) = PlanTurn(u) => s = u
  BY TurnsAssumption DEF TurnTasks, TurnIds, PlanTurn, NoTurn
<1>3. /\ talks.is \in {"none", "running", "stopping", "ready", "failed", "cancelled"}
      /\ talks.step \in 0..Steps /\ talks.turn \in TurnIds \cup {NoTurn} /\ talks.grant \in Nat
      /\ talks.error \in BOOLEAN /\ Steps \in Nat
  BY <1>1, TurnsAssumption DEF TalkRows
<1>4. work'[0] # "none" => work[0] # "none" \/ StartDiscussion
  BY <1>2, WorkGoesOn DEF Opens
\* The turns of the steps: an answer stays, and a turn that is not made is made for the next step.
<1>5. ASSUME NEW s \in 0..(Steps - 1)
      PROVE  LET k == PlanTurn(s) IN
             /\ turn[k].is = "completed" =>
                  turn'[k].is = "completed" /\ turn'[k].answered /\ exec'[turn'[k].run].is = "completed"
             /\ turn[k] = NoRow => turn'[k] = NoRow \/ (AdvanceContinues /\ s = StepAfter)
  <2> DEFINE k == PlanTurn(s)
  <2>1. k \in TurnIds /\ KeepsTurn(k) /\ TurnOf(k)' /\ TurnOf(k) /\ k \notin 1..Talk
    BY <1>2, TurnsAssumption DEF TurnsKept, TurnsInv, TurnAndRun, TurnOf, PlanTurn
  <2> HIDE DEF k
  <2>2. turn[k].is = "completed" =>
          turn'[k].is = "completed" /\ turn'[k].answered /\ exec'[turn'[k].run].is = "completed"
    BY <2>1 DEF KeepsTurn, TurnOf
  <2>3. ASSUME turn[k] = NoRow, turn'[k] # NoRow PROVE AdvanceContinues /\ s = StepAfter
    <3>1. ~Made(k) /\ Made(k)'
      BY <2>1, <2>3 DEF Made, NoRow, TurnOf
    <3>2. PlansNext(k)
      BY <2>1, <3>1 DEF KeepsTurn, Queues
    <3>3. AdvanceContinues /\ k = PlanTurn(StepAfter) /\ StepAfter < Steps
      BY <3>2 DEF PlansNext
    <3>4. StepAfter \in 0..Steps
      BY <3>3, ContinuesIs
    <3>5. StepAfter \in 0..(Steps - 1)
      BY <3>3, <3>4, <1>3
    <3> QED
      BY <1>2, <3>3, <3>5 DEF k
  <2> QED
    BY <2>2, <2>3 DEF k
<1>6. CASE ~AdvanceContinues /\ ~Begun
  <2>1. talks' \in TalkRows /\ talks'.step = talks.step /\ talks'.turn = talks.turn
        /\ (talks'.is = "none" => talks.is = "none") /\ (talks'.is = "ready" => talks.is = "ready")
        /\ (talks'.is = "running" => talks.is = "running")
    BY <1>1, <1>3, <1>6 DEF Stops, TalkRows, TalkStep
  <2>2. talks'.is = "none" => work'[0] = "none"
    BY <1>1, <2>1, <1>4 DEF StartDiscussion, TalkRows, TalkKnows
  <2>3. ASSUME NEW a \in Finishers, fin'[a].at \in {"lost", "stops"}
        PROVE  talks'.turn # NoTurn /\ talks'.is \notin {"none", "running", "ready"}
    BY <1>1, <2>1, <2>3 DEF FinStep, TalkKnows
  <2>4. TalkKnows'
    BY <1>1, <2>1, <2>2, <2>3 DEF TalkKnows, PlanTurn
  <2>5. DiscussionFollowsAnswers'
    BY <1>1, <1>5, <2>1, <1>6 DEF DiscussionFollowsAnswers, PlanTurn
  <2> QED
    BY <2>1, <2>4, <2>5
<1>7. CASE Begun
  <2>1. /\ talks' = [is |-> "running", step |-> talks.step, turn |-> talks.turn, grant |-> consent.grant,
               error |-> talks.error]
        /\ talks.is = "none" /\ talks.turn = NoTurn /\ talks.step = 0
    BY <1>1, <1>7 DEF Begun, TalkKnows
  <2>2. talks' \in TalkRows
    BY <1>1, <1>3, <2>1 DEF TalkRows
  <2>3. talks'.is = "running" /\ talks'.step = 0 /\ talks'.turn = NoTurn
    BY <2>1
  <2>4. \A a \in Finishers : fin'[a].at \notin {"lost", "stops"}
    BY <1>1, <2>1, <2>3 DEF FinStep, TalkKnows
  <2>5. TalkKnows'
    BY <2>3, <2>4 DEF TalkKnows
  <2>6. ~AdvanceContinues
    BY <2>1 DEF AdvanceContinues
  <2>7. DiscussionFollowsAnswers'
    BY <1>1, <1>2, <1>5, <2>1, <2>6, <1>3, <2>3 DEF DiscussionFollowsAnswers, PlanTurn
  <2> QED
    BY <2>2, <2>5, <2>7
<1>8. CASE AdvanceContinues
  <2>1. /\ talks.is = "running" /\ StepAfter \in 0..Steps
        /\ talks.turn # NoTurn => turn[talks.turn].is = "completed" /\ turn[talks.turn].answered
        /\ \/ StepAfter = Steps /\ talks' = TalkAfter("ready", NoTurn, talks.error) /\ turn' = turn
           \/ StepAfter < Steps /\ talks' = TalkAfter("stopping", NoTurn, TRUE) /\ turn' = turn
           \/ /\ StepAfter < Steps /\ talks' = TalkAfter("running", PlanTurn(StepAfter), talks.error)
    BY <1>8, ContinuesIs
  <2>2. PICK is \in {"ready", "stopping", "running"}, k \in TurnIds \cup {NoTurn}, error \in BOOLEAN :
          /\ talks' = TalkAfter(is, k, error)
          /\ is = "ready" => StepAfter = Steps
          /\ k # NoTurn => StepAfter < Steps /\ k = PlanTurn(StepAfter)
          /\ k = NoTurn => turn' = turn
          /\ is = "stopping" => k = NoTurn
    <3>1. CASE StepAfter = Steps /\ talks' = TalkAfter("ready", NoTurn, talks.error) /\ turn' = turn
      BY <1>3, <3>1
    <3>2. CASE StepAfter < Steps /\ talks' = TalkAfter("stopping", NoTurn, TRUE) /\ turn' = turn
      <4>1. PICK yes \in BOOLEAN : talks' = TalkAfter("stopping", NoTurn, yes)
        BY <3>2
      <4> QED
        BY <3>2, <4>1
    <3>3. CASE StepAfter < Steps /\ talks' = TalkAfter("running", PlanTurn(StepAfter), talks.error)
      BY <1>3, <2>1, <3>3, <1>2
    <3> QED
      BY <2>1, <3>1, <3>2, <3>3
  <2>3. /\ talks'.is = is /\ talks'.step = StepAfter /\ talks'.turn = k /\ talks'.grant = talks.grant
        /\ talks'.error = error /\ talks' = [is |-> is, step |-> StepAfter, turn |-> k, grant |-> talks.grant, error |-> error]
    BY <2>2 DEF TalkAfter
  <2>4. talks' \in TalkRows
    BY <1>3, <2>1, <2>3 DEF TalkRows
  <2>5. \A a \in Finishers : fin'[a].at \notin {"lost", "stops"}
    BY <1>1, <2>1, <2>2, <2>3 DEF FinStep, TalkKnows
  <2>6. TalkKnows'
    BY <2>2, <2>3, <2>5 DEF TalkKnows, PlanTurn
  <2>7. \/ talks.turn = NoTurn /\ StepAfter = talks.step
        \/ /\ talks.turn # NoTurn /\ StepAfter = talks.step + 1 /\ talks.step < Steps
           /\ talks.turn = PlanTurn(talks.step)
    BY <1>1 DEF StepAfter, TalkKnows
  <2>8. ASSUME NEW s \in 0..(Steps - 1), s < StepAfter
        PROVE  LET t == turn'[PlanTurn(s)] IN t.is = "completed" /\ t.answered /\ exec'[t.run].is = "completed"
    <3>1. turn[PlanTurn(s)].is = "completed"
      BY <1>1, <1>3, <2>7, <2>8, <2>1 DEF DiscussionFollowsAnswers
    <3> QED
      BY <1>5, <3>1
  <2>9. ASSUME NEW s \in 0..(Steps - 1), s >= StepAfter, k # PlanTurn(s)
        PROVE  turn'[PlanTurn(s)] = NoRow
    <3>1. turn[PlanTurn(s)] = NoRow
      <4>1. s >= talks.step /\ talks.turn # PlanTurn(s)
        BY <1>2, <2>7, <2>9, <1>3
      <4> QED
        BY <1>1, <4>1 DEF DiscussionFollowsAnswers
    <3>2. CASE k = NoTurn
      BY <2>2, <3>1, <3>2
    <3>3. CASE k # NoTurn
      BY <1>5, <2>2, <2>9, <3>1, <3>3
    <3> QED
      BY <3>2, <3>3
  <2>10. DiscussionFollowsAnswers'
    BY <2>2, <2>3, <2>8, <2>9 DEF DiscussionFollowsAnswers, PlanTurn
  <2> QED
    BY <2>4, <2>6, <2>10
<1> QED
  BY <1>6, <1>7, <1>8

-------------------------------------------------------------------------------
(* Turns: the withdrawal of the consent *)

\* What leaves the list of a withdrawal without a remark is done.
Dropped(todo, rest) ==
  /\ \A r \in TurnRuns : RunItem(r) \in todo => RunItem(r) \in rest \/ Settled(r)'
  /\ \A k \in TurnIds : TurnItem(k) \in todo => TurnItem(k) \in rest \/ turn'[k].is \notin PendingTurn
  /\ <<"fence", 0>> \in todo =>
       <<"fence", 0>> \in rest \/ (<<"state", 0>> \in rest /\ talks'.is # "running")
  /\ <<"state", 0>> \in todo => <<"state", 0>> \in rest \/ talks'.is # "stopping"

LEMMA StopsKept ==
  ASSUME TurnsInv, RunsKept, TurnsKept, TalkStep, NEW last \in Nat, Passed(last),
         NEW todo, StopsUpTo(last, todo), NEW rest, Dropped(todo, rest)
  PROVE  StopsUpTo(last, rest)'
<1>1. consent.grant \in Nat /\ talks.grant \in Nat
  BY DEF TurnsInv, TurnsTypeOK, TalkRows
<1>2. \A g : Authorizes(g) => g \notin 1..last
  BY <1>1 DEF Authorizes, Passed
<1>3. ASSUME NEW r \in TurnRuns, exec'[r].grant \in 1..last PROVE Settled(r)' \/ RunItem(r) \in rest
  BY <1>2, <1>3 DEF RunsKept, KeepsRun, StopsUpTo, Dropped
<1>4. ASSUME NEW k \in TurnIds, turn'[k].grant \in 1..last
      PROVE  turn'[k].is \notin PendingTurn \/ TurnItem(k) \in rest
  <2>1. KeepsTurn(k)
    BY DEF TurnsKept
  <2> SUFFICES ASSUME turn'[k].is \in PendingTurn PROVE TurnItem(k) \in rest
    OBVIOUS
  <2>2. turn[k].is \in PendingTurn /\ turn[k].grant \in 1..last
    BY <1>2, <1>4, <2>1 DEF KeepsTurn
  <2> QED
    BY <2>2 DEF StopsUpTo, Dropped
<1>5. ASSUME talks'.grant \in 1..last
      PROVE  \/ talks'.is \notin OpenDiscussion \/ <<"fence", 0>> \in rest
             \/ talks'.is = "stopping" /\ <<"state", 0>> \in rest
  <2>1. CASE Begun
    BY <2>1, <1>2, <1>5 DEF Begun, Authorizes
  <2>2. CASE ~Begun
    <3>1. /\ talks'.grant = talks.grant
          /\ talks'.is \in OpenDiscussion => talks.is \in OpenDiscussion
          /\ talks.is = "stopping" => talks'.is # "running"
      BY ContinuesIs, <2>2 DEF TalkAfter, OpenDiscussion, Stops, TalkStep
    <3> QED
      BY <1>5, <3>1 DEF StopsUpTo, Dropped, OpenDiscussion
  <2> QED
    BY <2>1, <2>2
<1> QED
  BY <1>3, <1>4, <1>5 DEF StopsUpTo

WithdrawalGoesOn ==
  /\ wd' \in Withdrawals /\ wd'.at = wd.at /\ wd'.upTo = wd.upTo /\ clean' = clean
  /\ wd'.todo \subseteq wd.todo \cup Fences /\ (wd.todo = {} => wd'.todo = {})
  /\ ~wd'.unconfirmed => ~wd.unconfirmed /\ Dropped(wd.todo, wd'.todo)

LEMMA NothingDropped ==
  ASSUME NEW todo PROVE Dropped(todo, todo)
  BY DEF Dropped

LEMMA WdFields ==
  ASSUME wd \in Withdrawals
  PROVE  \A todo, unconfirmed : [wd EXCEPT !.todo = todo, !.unconfirmed = unconfirmed] =
           [at |-> wd.at, todo |-> todo, upTo |-> wd.upTo, unconfirmed |-> unconfirmed]
<1>1. PICK at0, todo0, last0, u0 : wd = [at |-> at0, todo |-> todo0, upTo |-> last0, unconfirmed |-> u0]
  BY DEF Withdrawals
<1>2. ASSUME NEW todo, NEW unconfirmed
      PROVE  [wd EXCEPT !.todo = todo, !.unconfirmed = unconfirmed] =
               [at |-> at0, todo |-> todo, upTo |-> last0, unconfirmed |-> unconfirmed]
  <2> DEFINE one == [wd EXCEPT !.todo = todo]
  <2>1. one = [at |-> at0, todo |-> todo, upTo |-> last0, unconfirmed |-> u0]
    BY <1>1
  <2>2. [wd EXCEPT !.todo = todo, !.unconfirmed = unconfirmed] = [one EXCEPT !.unconfirmed = unconfirmed]
    OBVIOUS
  <2> HIDE DEF one
  <2> QED
    BY <2>1, <2>2
<1> QED
  BY <1>1, <1>2

\* A call of the withdrawal reports that its item is done.
ItemDone(item) ==
  /\ item \in TurnItems \cup RunItems
  /\ \A r \in TurnRuns : item = RunItem(r) => Settled(r)'
  /\ \A k \in TurnIds : item = TurnItem(k) => turn'[k].is \notin PendingTurn

LEMMA DropsOne ==
  ASSUME TurnsInv, NEW item \in TurnItems \cup RunItems, NEW ok \in BOOLEAN, clean' = clean,
         wd' = [wd EXCEPT !.todo = @ \ {item}, !.unconfirmed = @ \/ ~ok],
         ok => ItemDone(item)
  PROVE  WithdrawalGoesOn
<1>1. wd \in Withdrawals
  BY DEF TurnsInv, TurnsTypeOK
<1>2. PICK unconfirmed \in BOOLEAN : unconfirmed = (wd.unconfirmed \/ ~ok)
  OBVIOUS
<1>3. PICK todo : todo = wd.todo \ {item}
  OBVIOUS
<1>4. wd' = [wd EXCEPT !.todo = todo, !.unconfirmed = unconfirmed]
  <2>1. wd' = [wd EXCEPT !.todo = wd.todo \ {item}, !.unconfirmed = (wd.unconfirmed \/ ~ok)]
    OBVIOUS
  <2>2. wd' = [wd EXCEPT !.todo = wd.todo \ {item}, !.unconfirmed = unconfirmed]
    BY <1>2, <2>1, Zenon
  <2> QED
    BY <1>3, <2>2, Zenon
<1>5. wd' = [at |-> wd.at, todo |-> todo, upTo |-> wd.upTo, unconfirmed |-> unconfirmed]
  BY <1>1, <1>4, WdFields
<1>6. wd'.at = wd.at /\ wd'.upTo = wd.upTo /\ wd'.todo = todo /\ wd'.unconfirmed = unconfirmed
  BY ONLY <1>5
<1>7. wd' \in Withdrawals
  BY <1>1, <1>3, <1>5 DEF Withdrawals
<1>8. item \notin Fences
  BY DEF TurnItems, RunItems, TurnItem, RunItem, Fences
<1>9. ok => Dropped(wd.todo, todo)
  BY <1>3, <1>8 DEF Dropped, ItemDone, Fences
<1> QED
  BY <1>2, <1>3, <1>6, <1>7, <1>9 DEF WithdrawalGoesOn

LEMMA WdStays ==
  ASSUME TurnsInv, wd' = wd, clean' = clean
  PROVE  WithdrawalGoesOn
  BY NothingDropped DEF TurnsInv, TurnsTypeOK, WithdrawalGoesOn

LEMMA ReportGoesOn ==
  ASSUME TurnsInv, NEW c, c.by = "item" => c.item \in TurnItems \cup RunItems,
         NEW ok \in BOOLEAN, Report(c, ok), clean' = clean,
         ok /\ c.by = "item" => ItemDone(c.item)
  PROVE  WithdrawalGoesOn
BY DropsOne, WdStays DEF Report

\* A run that is over, and not one whose exit is open, has no process.
LEMMA OverIsSettled ==
  ASSUME TurnsInv, NEW r \in TurnRuns, Over(r), r \notin lost
  PROVE  Settled(r)
  BY DEF TurnsInv, RunKeepsTask, Held, Settled, Over, RunTerminal

LEMMA StopDone ==
  ASSUME TurnsInv, NEW c \in calls, StopReturns(c), exec[c.run].is \notin {"completed", "failed"}
  PROVE  Settled(c.run)'
<1>1. c.run \in TurnRuns /\ exec \in [TurnRuns -> ExecRows] /\ proc \in [TurnRuns -> {"none", "sending", "alive", "gone"}]
  BY DEF TurnsInv, TurnsTypeOK, CallsKnow, StopReturns, StopCalls
<1>2. c.run \notin lost
  BY <1>1 DEF TurnsInv, RunKeepsTask
<1>3. exec' = [exec EXCEPT ![c.run].is = "cancelled"] /\ lost' = lost /\ proc' = [proc EXCEPT ![c.run] = "gone"]
  BY DEF StopReturns, Stopped
<1>4. exec'[c.run].is = "cancelled" /\ proc'[c.run] = "gone"
  BY <1>1, <1>3 DEF ExecRows
<1> QED
  BY <1>2, <1>3, <1>4 DEF Settled, Over, RunTerminal, Working

LEMMA CallsGoOn ==
  ASSUME TurnsInv, NEW c \in calls,
         StopFails(c) \/ StopReturns(c) \/ StopConfirms(c) \/ CommitCancel(c)
  PROVE  WithdrawalGoesOn
<1>1. /\ c \in StopCalls /\ turn \in [TurnIds -> TurnRows] /\ proc \in [TurnRuns -> {"none", "sending", "alive", "gone"}]
      /\ c.item \in TurnItems \cup RunItems
  BY CallFields DEF TurnsInv, TurnsTypeOK
<1>2. /\ \A r \in TurnRuns : c.item = RunItem(r) => c.item \in RunItems /\ r = c.item[2] /\ c.item[1] # "turn"
      /\ \A k \in TurnIds : c.item = TurnItem(k) => c.item \in TurnItems /\ k = c.item[2] /\ c.item[1] = "turn"
  BY DEF RunItem, TurnItem, TurnItems, RunItems
<1>3. CASE StopFails(c)
  BY <1>3, <1>1, ReportGoesOn DEF StopFails
<1>4. CASE StopReturns(c)
  <2> DEFINE ok == ~(exec[c.run].is \in {"completed", "failed"})
  <2>1. clean' = clean /\ ok \in BOOLEAN
    BY <1>4 DEF StopReturns
  <2>2. CASE c.item[1] = "turn" /\ ok
    BY <1>4, <2>1, <2>2, WdStays DEF StopReturns
  <2>3. CASE ~(c.item[1] = "turn" /\ ok)
    <3>1. Report(c, ok)
      BY <1>4, <2>3 DEF StopReturns
    <3>2. ok => Settled(c.run)' /\ c.item[1] # "turn"
      BY <1>4, <2>3, StopDone
    <3>3. c.item \in RunItems => c.run = c.item[2]
      BY DEF TurnsInv, CallsKnow
    <3> HIDE DEF ok
    <3>4. ok => ItemDone(c.item)
      BY <1>1, <1>2, <3>2, <3>3 DEF ItemDone
    <3> QED
      BY <1>1, <2>1, <3>1, <3>4, ReportGoesOn
  <2> QED
    BY <2>2, <2>3
<1>5. CASE StopConfirms(c)
  <2>1. Report(c, TRUE) /\ clean' = clean /\ TRUE \in BOOLEAN /\ lost' = lost \ {c.run}
        /\ proc' = [proc EXCEPT ![c.run] = "gone"] /\ exec' = exec /\ c.at = "confirm"
    BY <1>5 DEF StopConfirms, Stopped
  <2>2. c.item \in RunItems /\ c.run = c.item[2] /\ Over(c.run) /\ c.run # NoTurnRun /\ c.item \notin TurnItems
    BY <1>1, <2>1 DEF TurnsInv, CallsKnow, RunItems, TurnItems, RunItem, TurnItem
  <2>3. c.run \in TurnRuns
    BY <1>1, <2>2, CallFields
  <2>4. Settled(c.run)'
    BY <1>1, <2>1, <2>2, <2>3 DEF Settled, Over, Working
  <2>5. ItemDone(c.item)
    BY <1>1, <1>2, <2>2, <2>4 DEF ItemDone
  <2> QED
    BY <1>1, <2>1, <2>5, ReportGoesOn
<1>6. CASE CommitCancel(c)
  <2> DEFINE k == c.item[2]
             started == turn[k].run # NoTurnRun /\ c.run = NoTurnRun
  <2>1. /\ Report(c, ~started) /\ clean' = clean /\ (~started) \in BOOLEAN /\ c.at = "commit"
        /\ turn' = IF started \/ turn[k].is \notin PendingTurn THEN turn
                   ELSE [turn EXCEPT ![k].is = "cancelled"]
    BY <1>6 DEF CommitCancel
  <2>2. c.item \in TurnItems /\ c.item \notin RunItems
    BY <1>1, <2>1 DEF TurnsInv, CallsKnow
  <2>3. k \in TurnIds
    BY <1>1, <2>2, CallFields
  <2>4. ~started => turn'[k].is \notin PendingTurn
    BY <2>1, <1>1, <2>3 DEF TurnRows, PendingTurn
  <2>5. ~started => ItemDone(c.item)
    <3> HIDE DEF started
    <3>1. \A j \in TurnIds : c.item = TurnItem(j) => j = k
      BY <1>2
    <3> HIDE DEF k
    <3> QED
      BY <1>1, <1>2, <2>2, <2>4, <3>1 DEF ItemDone
  <2> HIDE DEF started
  <2> QED
    BY <1>1, <2>1, <2>5, ReportGoesOn
<1> QED
  BY <1>3, <1>4, <1>5, <1>6

LEMMA BeginGoesOn ==
  ASSUME TurnsInv, UNCHANGED <<turn, exec, proc, lost, clean>>, NEW by, NEW item \in TurnItems \cup RunItems,
         NEW run, NEW finds, Begin(by, item, run, finds), finds = "ok" => ItemDone(item)
  PROVE  WithdrawalGoesOn
<1> DEFINE c == Call(by, item, run, finds)
<1>1. c.item = item
  BY DEF Call
<1>2. UNCHANGED wd \/ Report(c, finds = "ok")
  BY DEF Begin
<1> HIDE DEF c
<1>3. (finds = "ok") \in BOOLEAN
  OBVIOUS
<1> QED
  BY <1>1, <1>2, <1>3, ReportGoesOn, WdStays

LEMMA StartsOfCallsGoOn ==
  ASSUME TurnsInv, UserCancels \/ WithdrawCancels
  PROVE  WithdrawalGoesOn
<1>1. UNCHANGED <<turn, exec, proc, lost, clean>>
  BY DEF UserCancels, WithdrawCancels, storeTurnVars
<1>2. /\ \A k \in TurnIds : TurnItem(k) \in TurnItems \cup RunItems
      /\ \A r \in TurnRuns : RunItem(r) \in TurnItems \cup RunItems
      /\ \A k, j \in TurnIds : TurnItem(k) = TurnItem(j) => k = j
      /\ \A r, s \in TurnRuns : RunItem(r) = RunItem(s) => r = s
      /\ \A k \in TurnIds, r \in TurnRuns : TurnItem(k) # RunItem(r)
  BY DEF TurnItem, RunItem, TurnItems, RunItems
<1>3. ASSUME NEW k \in TurnIds, NEW by, Begin(by, TurnItem(k), turn[k].run, CancelFinds(k))
      PROVE  WithdrawalGoesOn
  <2>1. CancelFinds(k) = "ok" => turn[k].is = "cancelled"
    <3>1. CASE turn[k].is = "cancelled"
      BY <3>1
    <3>2. CASE turn[k].is \notin PendingTurn \cup {"cancelled"}
      BY <3>2 DEF CancelFinds
    <3>3. CASE turn[k].is \in PendingTurn /\ turn[k].run = NoTurnRun
      BY <3>3 DEF CancelFinds, PendingTurn
    <3>4. CASE turn[k].is \in PendingTurn /\ turn[k].run # NoTurnRun
      BY <3>4 DEF CancelFinds, PendingTurn
    <3> QED
      BY <3>1, <3>2, <3>3, <3>4
  <2>2. CancelFinds(k) = "ok" => ItemDone(TurnItem(k))
    BY <1>1, <1>2, <2>1 DEF ItemDone, PendingTurn
  <2> QED
    BY <1>1, <1>2, <1>3, <2>2, BeginGoesOn
<1>4. ASSUME NEW r \in TurnRuns, NEW by, NEW finds, Begin(by, RunItem(r), r, finds),
             finds = "ok" => Over(r) /\ r \notin lost
      PROVE  WithdrawalGoesOn
  BY <1>4, OverIsSettled, <1>1, <1>2, BeginGoesOn DEF ItemDone, Settled, Over, Working
<1>5. CASE UserCancels
  BY <1>3, <1>4, <1>5 DEF UserCancels
<1>6. CASE WithdrawCancels
  BY <1>3, <1>4, <1>6 DEF WithdrawCancels, RunFinds
<1> QED
  BY <1>5, <1>6

LEMMA DiscussionGoesOn ==
  ASSUME TurnsInv, WithdrawDiscussion \/ WithdrawSeesDiscussion
  PROVE  WithdrawalGoesOn /\ wd.at = "stopping"
<1>1. wd \in Withdrawals /\ wd.todo # {}
  BY DEF TurnsInv, TurnsTypeOK, WithdrawDiscussion, WithdrawSeesDiscussion
<1>2. wd.at = "stopping"
  BY <1>1 DEF TurnsInv, WithdrawalKnows
<1>3. /\ \A r \in TurnRuns : RunItem(r) # <<"fence", 0>> /\ RunItem(r) # <<"state", 0>>
      /\ \A k \in TurnIds : TurnItem(k) # <<"fence", 0>> /\ TurnItem(k) # <<"state", 0>>
      /\ <<"fence", 0>> # <<"state", 0>> /\ <<"fence", 0>> \in Fences /\ <<"state", 0>> \in Fences
  BY DEF RunItem, TurnItem, Fences
<1>4. CASE WithdrawDiscussion
  <2> DEFINE todo == (wd.todo \ {<<"fence", 0>>}) \cup {<<"state", 0>>}
  <2>1. wd' = [wd EXCEPT !.todo = todo] /\ clean' = clean /\ Fence("route")
    BY <1>4 DEF WithdrawDiscussion
  <2>2. todo \subseteq wd.todo \cup Fences /\ todo \subseteq TurnItems \cup RunItems \cup Fences
    BY <1>1, <1>3 DEF Withdrawals
  <2>3. /\ \A r \in TurnRuns : RunItem(r) \in wd.todo => RunItem(r) \in todo
        /\ \A k \in TurnIds : TurnItem(k) \in wd.todo => TurnItem(k) \in todo
        /\ <<"state", 0>> \in todo
    BY <1>3
  <2> HIDE DEF todo
  <2>4. wd' \in Withdrawals /\ wd'.at = wd.at /\ wd'.upTo = wd.upTo /\ wd'.todo = todo
        /\ wd'.unconfirmed = wd.unconfirmed
    BY <1>1, <2>1, <2>2 DEF Withdrawals
  <2>5. talks'.is # "running"
    <3>1. CASE talks.is = "running"
      <4>1. PICK no \in BOOLEAN : talks' = [talks EXCEPT !.is = "stopping", !.error = no]
        BY <2>1, <3>1 DEF Fence
      <4>2. talks' = [is |-> "stopping", step |-> talks.step, turn |-> talks.turn,
                      grant |-> talks.grant, error |-> no]
        BY <4>1, TalkFields DEF TurnsInv, TurnsTypeOK
      <4> QED
        BY ONLY <4>2
    <3>2. CASE talks.is # "running"
      BY <2>1, <3>2 DEF Fence
    <3> QED
      BY <3>1, <3>2
  <2>6. Dropped(wd.todo, todo)
    BY <2>3, <2>5 DEF Dropped
  <2> QED
    BY <1>1, <1>2, <2>1, <2>2, <2>4, <2>6 DEF WithdrawalGoesOn
<1>5. CASE WithdrawSeesDiscussion
  <2>1. PICK todo : todo = wd.todo \ {<<"state", 0>>}
    OBVIOUS
  <2>2. PICK remark \in BOOLEAN : remark = (wd.unconfirmed \/ talks.is = "stopping")
    OBVIOUS
  <2>3. wd' = [wd EXCEPT !.todo = todo, !.unconfirmed = remark]
    <3>1. wd' = [wd EXCEPT !.todo = wd.todo \ {<<"state", 0>>},
                           !.unconfirmed = (wd.unconfirmed \/ talks.is = "stopping")]
      BY <1>5 DEF WithdrawSeesDiscussion
    <3>2. wd' = [wd EXCEPT !.todo = wd.todo \ {<<"state", 0>>}, !.unconfirmed = remark]
      BY <2>2, <3>1, Zenon
    <3> QED
      BY <2>1, <3>2, Zenon
  <2>4. wd' = [at |-> wd.at, todo |-> todo, upTo |-> wd.upTo, unconfirmed |-> remark]
    BY <1>1, <2>3, WdFields
  <2>5. wd'.at = wd.at /\ wd'.upTo = wd.upTo /\ wd'.todo = todo /\ wd'.unconfirmed = remark
    BY ONLY <2>4
  <2>6. wd' \in Withdrawals
    BY <1>1, <2>1, <2>4 DEF Withdrawals
  <2>7. clean' = clean /\ talks' = talks
    BY <1>5 DEF WithdrawSeesDiscussion
  <2>8. ~remark => Dropped(wd.todo, todo)
    BY <1>3, <2>1, <2>2, <2>7 DEF Dropped
  <2> QED
    BY <1>2, <2>1, <2>2, <2>5, <2>6, <2>7, <2>8 DEF WithdrawalGoesOn
<1> QED
  BY <1>2, <1>4, <1>5

WithdrawalStep ==
  \/ WithdrawalGoesOn /\ consent' = consent
  \/ GrantConsent \/ Revoke \/ ListWork \/ WithdrawAnswers \/ RestartServer

LEMMA WithdrawalMovesAre ==
  ASSUME TurnsInv, TurnsNext
  PROVE  WithdrawalStep
<1>1. CASE UNCHANGED <<wd, clean, consent>>
  BY <1>1, WdStays DEF WithdrawalStep
<1>2. CASE UserCancels \/ WithdrawCancels
  BY <1>2, StartsOfCallsGoOn DEF WithdrawalStep, UserCancels, WithdrawCancels
<1>3. ASSUME NEW c \in calls, StopFails(c) \/ StopReturns(c) \/ StopConfirms(c) \/ CommitCancel(c)
      PROVE  WithdrawalStep
  BY <1>3, CallsGoOn DEF WithdrawalStep, StopFails, StopReturns, StopConfirms, CommitCancel
<1>4. CASE WithdrawDiscussion \/ WithdrawSeesDiscussion
  BY <1>4, DiscussionGoesOn DEF WithdrawalStep, WithdrawDiscussion, WithdrawSeesDiscussion
<1>5. CASE GrantConsent \/ Revoke \/ ListWork \/ WithdrawAnswers \/ RestartServer
  BY <1>5 DEF WithdrawalStep
<1> QED
  <2>1. CASE \E k \in TurnIds : Enqueue(k) \/ Retry(k)
    BY <2>1, <1>1 DEF Enqueue, Retry, serverVars
  <2>2. CASE \E t \in TurnTasks : UserAssigns(t) \/ UserMoves(t)
    BY <2>2, <1>1 DEF UserAssigns, UserMoves, serverVars
  <2>3. CASE \E r \in TurnRuns :
               \/ Authorize(r) \/ Launch(r) \/ Starts(r) \/ Answer(r) \/ Refused(r)
               \/ LosesNode(r) \/ NodeConfirms(r)
    BY <2>3, <1>1 DEF Authorize, Launch, Starts, Answer, Refused, LosesNode, NodeConfirms, serverVars
  <2>a. CASE \E r \in TurnRuns : \E phase \in RunTerminal : Ends(r, phase)
    BY <2>a, <1>1 DEF Ends, serverVars
  <2>b. CASE Pump \/ PumpPicks \/ PumpChanges \/ PumpPrepares \/ PumpAssigns \/ PumpFails
    BY <2>b, <1>1 DEF Pump, PumpPicks, PumpChanges, PumpPrepares, PumpAssigns, PumpFails
  <2>5. CASE StartDiscussion \/ AdvanceExpires \/ AdvanceStops \/ AdvanceFails \/ AdvanceContinues \/ CancelDiscussion
    <3>1. CASE AdvanceContinues
      BY <3>1, <1>1, ContinuesIs
    <3> QED
      BY <2>5, <3>1, <1>1 DEF StartDiscussion, AdvanceExpires, AdvanceStops, AdvanceFails, Advances, CancelDiscussion, serverVars
  <2>6. CASE \E a \in Finishers : FinishReads(a) \/ FinishStops(a) \/ FinishLooks(a) \/ FinishCloses(a)
    BY <2>6, <1>1 DEF FinishReads, FinishStops, FinishLooks, FinishCloses
  <2> QED
    BY <1>2, <1>3, <1>4, <1>5, <2>1, <2>2, <2>3, <2>a, <2>b, <2>5, <2>6 DEF TurnsNext

\* A grant that has passed stays so.
LEMMA PassedKept ==
  ASSUME TurnsInv, WithdrawalStep
  PROVE  /\ consent' \in [grant : Nat, given : BOOLEAN]
         /\ \A last \in Nat : Passed(last) => Passed(last)'
<1>1. consent \in [grant : Nat, given : BOOLEAN]
  BY DEF TurnsInv, TurnsTypeOK
<1>2. CASE consent' = consent
  BY <1>1, <1>2 DEF Passed
<1>3. CASE GrantConsent
  <2>1. PICK yes \in BOOLEAN : consent' = [grant |-> consent.grant + 1, given |-> yes]
    BY <1>3 DEF GrantConsent
  <2>2. consent'.grant = consent.grant + 1 /\ consent' \in [grant : Nat, given : BOOLEAN]
    BY <1>1, <2>1
  <2> QED
    BY <1>1, <2>2 DEF Passed
<1>4. CASE Revoke
  <2>1. PICK no \in BOOLEAN : no = FALSE /\ consent' = [consent EXCEPT !.given = no]
    BY <1>4 DEF Revoke
  <2>2. consent'.grant = consent.grant /\ consent' \in [grant : Nat, given : BOOLEAN] /\ ~consent'.given
    BY <1>1, <2>1
  <2> QED
    BY <1>1, <2>2 DEF Passed
<1> QED
  BY <1>2, <1>3, <1>4 DEF WithdrawalStep, ListWork, WithdrawAnswers, RestartServer

LEMMA WithdrawalKept ==
  ASSUME TurnsInv, RunsKept, TurnsKept, TalkStep, WithdrawalStep
  PROVE  wd' \in Withdrawals /\ clean' \in Nat /\ WithdrawalKnows' /\ WithdrawnWorkStopped'
<1>1. /\ wd \in Withdrawals /\ clean \in Nat /\ WithdrawalKnows /\ WithdrawnWorkStopped
      /\ consent \in [grant : Nat, given : BOOLEAN]
  BY DEF TurnsInv, TurnsTypeOK
<1>2. /\ wd.upTo \in Nat /\ consent.grant \in Nat
  BY <1>1 DEF Withdrawals
<1>3. /\ Passed(clean)' \/ clean' # clean
      /\ \A last \in Nat : Passed(last) => Passed(last)'
  BY <1>1, PassedKept DEF WithdrawalKnows, Passed
<1>4. WithdrawnWorkStopped <=> StopsUpTo(clean, {})
  BY DEF WithdrawnWorkStopped, StopsUpTo, Settled
<1>5. WithdrawnWorkStopped' <=> StopsUpTo(clean, {})'
  BY DEF WithdrawnWorkStopped, StopsUpTo, Settled
<1>6. clean' = clean => WithdrawnWorkStopped'
  <2>1. PICK last : last = clean
    OBVIOUS
  <2>2. StopsUpTo(last, {}) /\ Passed(last) /\ last \in Nat
    BY <1>1, <1>4, <2>1 DEF WithdrawalKnows
  <2>3. StopsUpTo(last, {})'
    BY <2>2, StopsKept, NothingDropped
  <2>4. clean' = clean => StopsUpTo(clean, {})'
    BY <2>1, <2>3 DEF StopsUpTo
  <2> QED
    BY <1>5, <2>4
<1>7. \A r \in TurnRuns : Started(r) => Started(r)'
  BY DEF RunsKept, KeepsRun
<1>8. CASE WithdrawalGoesOn
  <2>1. /\ wd' \in Withdrawals /\ wd'.at = wd.at /\ wd'.upTo = wd.upTo /\ clean' = clean
        /\ wd'.todo \subseteq wd.todo \cup Fences /\ (wd.todo = {} => wd'.todo = {})
        /\ ~wd'.unconfirmed => ~wd.unconfirmed /\ Dropped(wd.todo, wd'.todo)
    BY <1>8 DEF WithdrawalGoesOn
  <2>2. \A r \in TurnRuns : RunItem(r) \notin Fences
    BY DEF RunItem, Fences
  <2>3. ASSUME wd'.at = "stopping", ~wd'.unconfirmed PROVE StopsUpTo(wd.upTo, wd.todo)'
    <3>1. PICK last, todo, rest : last = wd.upTo /\ todo = wd.todo /\ rest = wd'.todo
      OBVIOUS
    <3>2. StopsUpTo(last, todo) /\ Passed(last) /\ Dropped(todo, rest)
      BY <1>1, <2>1, <2>3, <3>1 DEF WithdrawalKnows
    <3>3. StopsUpTo(last, rest)'
      BY <1>2, <3>1, <3>2, StopsKept
    <3> QED
      BY <2>1, <3>1, <3>3 DEF StopsUpTo
  <2>4. wd'.at # "idle" => Passed(wd.upTo)'
    <3>1. PICK last : last = wd.upTo
      OBVIOUS
    <3>2. wd'.at # "idle" => Passed(last)'
      BY <1>1, <1>2, <1>3, <2>1, <3>1 DEF WithdrawalKnows
    <3> QED
      BY <2>1, <3>1, <3>2 DEF Passed
  <2>5. WithdrawalKnows'
    BY <1>3, <2>1, <1>1, <1>7, <2>2, <2>3, <2>4 DEF WithdrawalKnows
  <2> QED
    BY <1>1, <1>6, <2>1, <2>5
<1>9. CASE GrantConsent
  <2>1. wd' = wd /\ clean' = clean
    BY <1>9 DEF GrantConsent, serverVars
  <2>2. CASE wd.at = "stopping" /\ ~wd.unconfirmed
    <3>1. PICK last, todo : last = wd.upTo /\ todo = wd.todo
      OBVIOUS
    <3>2. StopsUpTo(last, todo) /\ Passed(last)
      BY <1>1, <2>2, <3>1 DEF WithdrawalKnows
    <3>3. StopsUpTo(last, todo)'
      BY <1>2, <3>1, <3>2, StopsKept, NothingDropped
    <3>4. StopsUpTo(wd.upTo, wd.todo)'
      BY <2>1, <3>1, <3>3 DEF StopsUpTo
    <3>5. WithdrawalKnows'
      BY <1>1, <1>2, <1>3, <1>7, <2>1, <2>2, <3>4 DEF WithdrawalKnows, Passed
    <3> QED
      BY <1>1, <1>6, <2>1, <3>5
  <2>3. CASE ~(wd.at = "stopping" /\ ~wd.unconfirmed)
    BY <1>1, <1>2, <1>3, <1>7, <2>1, <2>3, <1>6 DEF WithdrawalKnows, Passed
  <2> QED
    BY <2>2, <2>3
<1>10. CASE Revoke
  <2>1. clean' = clean /\ \E no \in BOOLEAN :
          wd' = [at |-> "revoked", todo |-> {}, upTo |-> consent.grant, unconfirmed |-> no]
    <3>1. PICK no \in BOOLEAN : no = FALSE
      OBVIOUS
    <3>2. IdleWithdrawal = [at |-> "idle", todo |-> {}, upTo |-> 0, unconfirmed |-> no]
      BY <3>1 DEF IdleWithdrawal
    <3> DEFINE one == [IdleWithdrawal EXCEPT !.at = "revoked"]
    <3>3. one = [at |-> "revoked", todo |-> {}, upTo |-> 0, unconfirmed |-> no]
      BY <3>2
    <3>4. wd' = [one EXCEPT !.upTo = consent.grant] /\ clean' = clean
      BY <1>10 DEF Revoke
    <3> HIDE DEF one
    <3> QED
      BY <3>3, <3>4
  <2>2. wd' \in Withdrawals /\ wd'.at = "revoked" /\ wd'.todo = {} /\ wd'.upTo = consent.grant
    BY <1>2, <2>1 DEF Withdrawals
  <2>3. consent'.grant = consent.grant /\ ~consent'.given
    <3>1. PICK no \in BOOLEAN : no = FALSE /\ consent' = [consent EXCEPT !.given = no]
      BY <1>10 DEF Revoke
    <3> QED
      BY <1>1, <3>1
  <2>4. WithdrawalKnows'
    BY <1>1, <1>2, <1>3, <2>1, <2>2, <2>3 DEF WithdrawalKnows, Passed
  <2> QED
    BY <1>1, <1>6, <2>1, <2>2, <2>4
<1>11. CASE ListWork
  <2> DEFINE talksTo == {<<"fence", 0>> : x \in {y \in {talks} : y.is \in OpenDiscussion /\ IsWithdrawn(y.grant)}}
             turnsTo == {TurnItem(k) : k \in {j \in TurnIds : turn[j].is \in PendingTurn
                                                    /\ IsWithdrawn(turn[j].grant)}}
             runsTo == {RunItem(r) : r \in {q \in TurnRuns : IsWithdrawn(exec[q].grant)
                                                    /\ (~Over(q) \/ q \in lost)}}
             todo == talksTo \cup turnsTo \cup runsTo
  <2>1. /\ wd.at = "revoked" /\ UNCHANGED <<turn, exec, proc, lost, talks, consent, clean>>
        /\ wd' = [wd EXCEPT !.at = "stopping", !.todo = todo]
    BY <1>11 DEF ListWork, storeTurnVars
  <2>2. /\ talksTo \subseteq Fences /\ turnsTo \subseteq TurnItems /\ runsTo \subseteq RunItems
    BY DEF Fences, TurnItems, RunItems
  <2>3. \A r \in TurnRuns : RunItem(r) \in runsTo <=> IsWithdrawn(exec[r].grant) /\ (~Over(r) \/ r \in lost)
    BY DEF RunItem
  <2>4. \A k \in TurnIds : turn[k].is \in PendingTurn /\ IsWithdrawn(turn[k].grant) => TurnItem(k) \in turnsTo
    OBVIOUS
  <2>5. talks.is \in OpenDiscussion /\ IsWithdrawn(talks.grant) => <<"fence", 0>> \in talksTo
    OBVIOUS
  <2>6. \A r \in TurnRuns : RunItem(r) \in todo => RunItem(r) \in runsTo
    BY <2>2 DEF RunItem, Fences, TurnItem, TurnItems
  <2> HIDE DEF talksTo, turnsTo, runsTo
  <2>7. todo \subseteq TurnItems \cup RunItems \cup Fences
    BY <2>2
  <2> HIDE DEF todo
  <2>8. /\ wd' \in Withdrawals /\ wd'.at = "stopping" /\ wd'.todo = todo /\ wd'.upTo = wd.upTo
    <3>1. PICK todo0 : todo0 = todo
      OBVIOUS
    <3>2. PICK at0, w0, last0, u0 : wd = [at |-> at0, todo |-> w0, upTo |-> last0, unconfirmed |-> u0]
      BY <1>1 DEF Withdrawals
    <3> DEFINE one == [wd EXCEPT !.at = "stopping"]
    <3>3. one = [at |-> "stopping", todo |-> w0, upTo |-> last0, unconfirmed |-> u0]
      BY <3>2
    <3>4. wd' = [one EXCEPT !.todo = todo0]
      BY <2>1, <3>1
    <3> HIDE DEF one
    <3>5. wd' = [at |-> "stopping", todo |-> todo0, upTo |-> last0, unconfirmed |-> u0]
      BY <3>3, <3>4
    <3>6. wd' \in Withdrawals /\ wd'.at = "stopping" /\ wd'.todo = todo0 /\ wd'.upTo = wd.upTo
      BY <1>1, <2>7, <3>1, <3>2, <3>5 DEF Withdrawals
    <3> QED
      BY <3>1, <3>6
  <2>9. Passed(wd.upTo) /\ \A g \in 1..wd.upTo : IsWithdrawn(g)
    BY <1>1, <1>2, <2>1 DEF WithdrawalKnows, Passed, IsWithdrawn, Authorizes
  <2>10. StopsUpTo(wd.upTo, todo)
    BY <2>3, <2>9, OverIsSettled, <2>4, <2>5 DEF todo, StopsUpTo
  <2>11. StopsUpTo(wd.upTo, wd.todo)'
    BY <2>1, <2>8, <2>10 DEF StopsUpTo, Settled, Over, Working
  <2>12. \A r \in TurnRuns : RunItem(r) \in wd'.todo => Started(r)'
    BY <2>3, <2>6, <2>8, <1>7 DEF IsWithdrawn, TurnsInv, RunsInOrder
  <2>13. WithdrawalKnows'
    BY <1>1, <1>2, <1>3, <2>1, <2>8, <2>9, <2>11, <2>12 DEF WithdrawalKnows, Passed
  <2> QED
    BY <1>1, <1>6, <2>1, <2>8, <2>13
<1>12. ASSUME wd' = IdleWithdrawal, clean' \in Nat, Passed(clean)', WithdrawnWorkStopped'
       PROVE  wd' \in Withdrawals /\ clean' \in Nat /\ WithdrawalKnows' /\ WithdrawnWorkStopped'
  <2>1. PICK no \in BOOLEAN : no = FALSE
    OBVIOUS
  <2>2. wd' = [at |-> "idle", todo |-> {}, upTo |-> 0, unconfirmed |-> no]
    BY <1>12, <2>1 DEF IdleWithdrawal
  <2>3. wd' \in Withdrawals /\ wd'.at = "idle" /\ wd'.todo = {}
    BY <2>2 DEF Withdrawals
  <2> QED
    BY <1>12, <2>3 DEF WithdrawalKnows
<1>13. CASE WithdrawAnswers
  <2>1. /\ wd.at = "stopping" /\ wd.todo = {} /\ wd' = IdleWithdrawal
        /\ clean' = IF wd.unconfirmed \/ wd.upTo < clean THEN clean ELSE wd.upTo
    BY <1>13 DEF WithdrawAnswers
  <2>2. CASE clean' = clean
    BY <1>1, <1>3, <1>6, <1>12, <2>1, <2>2
  <2>3. CASE ~wd.unconfirmed /\ clean' = wd.upTo
    <3>1. PICK last : last = wd.upTo
      OBVIOUS
    <3>2. StopsUpTo(last, {}) /\ Passed(last) /\ last \in Nat
      BY <1>1, <1>2, <2>1, <2>3, <3>1 DEF WithdrawalKnows
    <3>3. StopsUpTo(last, {})' /\ Passed(last)'
      BY <1>3, <3>2, StopsKept, NothingDropped
    <3>4. StopsUpTo(clean, {})' /\ Passed(clean)'
      BY <2>3, <3>1, <3>3 DEF StopsUpTo, Passed
    <3> QED
      BY <1>2, <1>5, <1>12, <2>1, <2>3, <3>4
  <2> QED
    BY <2>1, <2>2, <2>3
<1>14. CASE RestartServer
  BY <1>1, <1>3, <1>6, <1>12, <1>14 DEF RestartServer
<1> QED
  BY <1>8, <1>9, <1>10, <1>11, <1>13, <1>14 DEF WithdrawalStep

-------------------------------------------------------------------------------
(* Turns: the theorems *)

LEMMA TurnsInitInv ==
  ASSUME TurnsInit
  PROVE  TurnsInv
<1> USE TurnsAssumption DEF TurnsInit
<1>1. /\ \A k \in TurnIds : turn[k] = NoRow
      /\ \A r \in TurnRuns : exec[r].is = "none" /\ exec[r].task = 0 /\ exec[r].grant = 0 /\ proc[r] = "none"
      /\ \A t \in TurnTasks : work[t] = "none"
      /\ 0 \in TurnTasks
  BY DEF TurnTasks
<1>2. NoRow.is = "none" /\ NoRow.run = NoTurnRun /\ NoRow.grant = 0
  BY DEF NoRow
<1>3. TurnsTypeOK
  <2>1. PICK no \in BOOLEAN, yes \in BOOLEAN : no = FALSE /\ yes = TRUE
    OBVIOUS
  <2>2. NoRow \in TurnRows
    BY <1>1, <2>1 DEF NoRow, TurnRows, TurnStates
  <2>3. talks = [is |-> "none", step |-> 0, turn |-> NoTurn, grant |-> 0, error |-> no]
    BY <2>1
  <2>4. talks \in TalkRows
    BY <2>3 DEF TalkRows
  <2>5. IdleWithdrawal = [at |-> "idle", todo |-> {}, upTo |-> 0, unconfirmed |-> no]
    BY <2>1 DEF IdleWithdrawal
  <2>6. IdleWithdrawal \in Withdrawals
    BY <2>5 DEF Withdrawals
  <2>7. IdleFin \in Fins /\ IdlePump \in Pumps
    BY DEF IdleFin, Fins, IdlePump, Pumps
  <2>8. consent = [grant |-> 1, given |-> yes]
    BY <2>1
  <2>9. consent \in [grant : Nat, given : BOOLEAN]
    BY <2>8
  <2>10. exec \in [TurnRuns -> ExecRows]
    BY <1>1 DEF ExecRows
  <2> QED
    BY <2>2, <2>4, <2>6, <2>7, <2>9, <2>10 DEF TurnsTypeOK
<1>4. RunsInOrder
  BY <1>1 DEF Started, TurnRuns, RunsInOrder
<1>5. RunKeepsTask
  BY <1>1 DEF RunKeepsTask, Held, Working
<1>6. TasksInOrder
  BY <1>1, <1>2 DEF Made, TurnIds, TurnTasks, Before, TasksInOrder
<1>7. TurnAndRun
  BY <1>1, <1>2 DEF TurnAndRun
<1>8. PumpKnows
  BY DEF PumpKnows, IdlePump, PumpDoes
<1>9. CallsKnow
  BY DEF CallsKnow
<1>10. TalkKnows
  BY <1>1 DEF TalkKnows, IdleFin
<1>11. DiscussionFollowsAnswers
  BY <1>1 DEF PlanTurn, TurnIds, DiscussionFollowsAnswers
<1>12. WithdrawalKnows
  BY DEF WithdrawalKnows, IdleWithdrawal, Passed
<1>13. WithdrawnWorkStopped
  BY <1>1, <1>2 DEF WithdrawnWorkStopped
<1> QED
  BY <1>3, <1>4, <1>5, <1>6, <1>7, <1>8, <1>9, <1>10, <1>11, <1>12, <1>13 DEF TurnsInv

LEMMA ActsKept ==
  ASSUME TurnsInv, TurnsNext
  PROVE  acts' \in Nat
<1>1. acts \in Nat
  BY DEF TurnsInv, TurnsTypeOK
<1>2. CASE acts' = acts
  BY <1>1, <1>2
<1>3. CASE Intervenes
  BY <1>1, <1>3 DEF Intervenes
<1> QED
  <2>1. CASE \E k \in TurnIds : Enqueue(k) \/ Retry(k)
    BY <2>1, <1>2, <1>3 DEF Enqueue, Retry
  <2>2. CASE \E t \in TurnTasks : UserAssigns(t) \/ UserMoves(t)
    BY <2>2, <1>3 DEF UserAssigns, UserMoves
  <2>3. CASE \E r \in TurnRuns :
               \/ Authorize(r) \/ Launch(r) \/ Starts(r) \/ Answer(r) \/ Refused(r)
               \/ LosesNode(r) \/ NodeConfirms(r)
    BY <2>3, <1>2 DEF Authorize, Launch, Starts, Answer, Refused, LosesNode, NodeConfirms
  <2>a. CASE \E r \in TurnRuns : \E phase \in RunTerminal : Ends(r, phase)
    BY <2>a, <1>2 DEF Ends
  <2>b. CASE Pump \/ PumpPicks \/ PumpChanges \/ PumpPrepares \/ PumpAssigns \/ PumpFails
    BY <2>b, <1>2 DEF Pump, PumpPicks, PumpChanges, PumpPrepares, PumpAssigns, PumpFails
  <2>4. CASE UserCancels \/ \E c \in calls : StopFails(c) \/ StopReturns(c) \/ StopConfirms(c) \/ CommitCancel(c)
    BY <2>4, <1>2, <1>3 DEF UserCancels, StopFails, StopReturns, StopConfirms, CommitCancel
  <2>5. CASE StartDiscussion \/ AdvanceExpires \/ AdvanceStops \/ AdvanceFails \/ AdvanceContinues \/ CancelDiscussion
    <3>1. CASE AdvanceContinues
      BY <3>1, <1>2, ContinuesIs
    <3> QED
      BY <2>5, <3>1, <1>2, <1>3 DEF StartDiscussion, AdvanceExpires, AdvanceStops, AdvanceFails, Advances, CancelDiscussion
  <2>6. CASE \E a \in Finishers : FinishReads(a) \/ FinishStops(a) \/ FinishLooks(a) \/ FinishCloses(a)
    BY <2>6, <1>2 DEF FinishReads, FinishStops, FinishLooks, FinishCloses
  <2>7. CASE GrantConsent \/ Revoke \/ ListWork \/ WithdrawDiscussion \/ WithdrawSeesDiscussion
             \/ WithdrawCancels \/ WithdrawAnswers \/ RestartServer
    BY <2>7, <1>2, <1>3 DEF GrantConsent, Revoke, ListWork, WithdrawDiscussion,
       WithdrawSeesDiscussion, WithdrawCancels, WithdrawAnswers, RestartServer
  <2> QED
    BY <2>1, <2>2, <2>3, <2>a, <2>b, <2>4, <2>5, <2>6, <2>7 DEF TurnsNext

LEMMA TurnsInvStep ==
  ASSUME TurnsInv, [TurnsNext]_turnVars
  PROVE  TurnsInv'
<1>1. CASE TurnsNext
  <2>1. RunStep /\ TurnStep /\ TalkStep /\ FinStep /\ WithdrawalStep
    BY <1>1, MovesAre, TurnMovesAre, TalkMovesAre, FinMovesAre, WithdrawalMovesAre
  <2>2. RunsKept
    BY <2>1, RunStepKept
  <2>3. TurnsKept
    BY <2>1, <2>2, TurnStepKept
  <2>4. PumpOK' /\ calls' \subseteq StopCalls /\ CallsKnow' /\ acts' \in Nat
    BY <1>1, <2>2, <2>3, PumpKept, CallsKept, ActsKept
  <2>5. TasksInOrder' /\ TurnAndRun'
    BY <2>1, <2>2, <2>3, TasksInOrderKept, TurnAndRunKept
  <2>6. talks' \in TalkRows /\ TalkKnows' /\ DiscussionFollowsAnswers'
    BY <2>1, <2>2, <2>3, TalkKept
  <2>7. wd' \in Withdrawals /\ clean' \in Nat /\ WithdrawalKnows' /\ WithdrawnWorkStopped'
    BY <2>1, <2>2, <2>3, WithdrawalKept
  <2>8. consent' \in [grant : Nat, given : BOOLEAN]
    BY <2>1, PassedKept
  <2>9. TurnsTypeOK'
    BY <2>1, <2>2, <2>3, <2>4, <2>6, <2>7, <2>8
       DEF TurnsTypeOK, RunsKept, RunTypes, TurnsKept, PumpOK, FinStep
  <2> QED
    BY <2>2, <2>4, <2>5, <2>6, <2>7, <2>9 DEF TurnsInv, RunsKept, PumpOK
<1>2. CASE UNCHANGED turnVars
  <2>1. UNCHANGED <<work, turn, exec, proc, lost, consent, talks, pump, calls, fin, wd, clean, acts>>
    BY <1>2 DEF turnVars, storeTurnVars, serverVars
  <2>2. TurnsTypeOK' /\ RunsInOrder' /\ PumpKnows'
    BY <2>1 DEF TurnsInv, TurnsTypeOK, RunsInOrder, Started, PumpKnows, Over
  <2>3. RunKeepsTask' /\ TasksInOrder'
    BY <2>1 DEF TurnsInv, RunKeepsTask, Started, Held, Working, TasksInOrder, Made, Before
  <2>4. TurnAndRun' /\ CallsKnow'
    BY <2>1 DEF TurnsInv, TurnAndRun, CallsKnow, Started, Over
  <2>5. TalkKnows' /\ DiscussionFollowsAnswers'
    BY <2>1 DEF TurnsInv, TalkKnows, DiscussionFollowsAnswers, PlanTurn
  <2>6. WithdrawalKnows' /\ WithdrawnWorkStopped'
    BY <2>1 DEF TurnsInv, WithdrawalKnows, Passed, Started, StopsUpTo, WithdrawnWorkStopped,
       Settled, Over, Working
  <2> QED
    BY <2>2, <2>3, <2>4, <2>5, <2>6 DEF TurnsInv
<1> QED
  BY <1>1, <1>2

LEMMA TurnsInvHolds == ASSUME TurnsInv PROVE TurnsHold
<1>1. /\ exec \in [TurnRuns -> ExecRows] /\ RunKeepsTask /\ TasksInOrder
  BY DEF TurnsInv, TurnsTypeOK
<1>2. \A r \in TurnRuns : exec[r].task \in TurnTasks
  BY <1>1 DEF ExecRows
<1>3. ASSUME NEW r \in TurnRuns, NEW s \in TurnRuns, Working(r), Working(s), SameTalk(r, s)
      PROVE  r = s
  <2> DEFINE t == exec[r].task
             u == exec[s].task
  <2>1. Held(r) /\ Held(s)
    BY <1>1, <1>3 DEF RunKeepsTask
  <2>2. work[t] \notin TaskTerminal \cup {"none"} /\ work[u] \notin TaskTerminal \cup {"none"}
    BY <1>1, <2>1 DEF RunKeepsTask, Held, TaskTerminal
  <2>3. (t = 0) = (u = 0) /\ t \in TurnTasks /\ u \in TurnTasks
    BY <1>2, <1>3 DEF SameTalk
  <2> HIDE DEF t, u
  <2>4. t = u
    BY <2>3, TurnsAssumption, <1>1, <2>2 DEF TurnTasks, TasksInOrder
  <2> QED
    BY <1>1, <2>1, <2>4 DEF RunKeepsTask, t, u
<1>4. OneAgentPerConversation
  BY <1>3 DEF OneAgentPerConversation
<1>5. ASSUME NEW k \in TurnIds, turn[k].is = "cancelled", turn[k].run # NoTurnRun
      PROVE  exec[turn[k].run].is = "cancelled" /\ ~Working(turn[k].run)
  <2> DEFINE r == turn[k].run
  <2>1. exec[r].is = "cancelled"
    BY <1>5 DEF TurnsInv, TurnAndRun
  <2>2. r \in TurnRuns
    BY <1>5 DEF TurnsInv, TurnsTypeOK, TurnRows
  <2>3. ~Working(r)
    BY <1>1, <2>1, <2>2 DEF RunKeepsTask, Held
  <2> QED
    BY <2>1, <2>3
<1>6. CancelledTurnIsStopped
  BY <1>5 DEF CancelledTurnIsStopped
<1> QED
  BY <1>4, <1>6 DEF TurnsHold, TurnsInv

\* The rows of turns, runs and discussions, what the node has of a run, and what the
\* server's calls know keep their types.
THEOREM TurnsTypeCorrect == TurnsSpec => []TurnsTypeOK
<1>1. TurnsInit => TurnsInv
  BY TurnsInitInv
<1>2. TurnsInv /\ [TurnsNext]_turnVars => TurnsInv'
  BY TurnsInvStep
<1>3. TurnsInv => TurnsTypeOK
  BY DEF TurnsInv
<1> QED
  BY <1>1, <1>2, <1>3, PTL DEF TurnsSpec

\* However many turns, steps, runs, grants and interventions there are: at most one
\* agent works on a conversation, a cancelled turn has no process, and a discussion has
\* gone through as many steps as it has answers (assistant-service.ts, discussion-service.ts).
THEOREM TurnsAreOrdered == TurnsSpec => []TurnsHold
<1>1. TurnsInit => TurnsInv
  BY TurnsInitInv
<1>2. TurnsInv /\ [TurnsNext]_turnVars => TurnsInv'
  BY TurnsInvStep
<1>3. TurnsInv => TurnsHold
  BY TurnsInvHolds
<1> QED
  BY <1>1, <1>2, <1>3, PTL DEF TurnsSpec

\* A withdrawal of the consent that is answered without unconfirmed stops has stopped all
\* there was under the grant, and nothing begins under it again (ai-data-sharing-routes.ts).
THEOREM WithdrawalsStopWork == TurnsSpec => []WithdrawnWorkStopped
<1>1. TurnsInit => TurnsInv
  BY TurnsInitInv
<1>2. TurnsInv /\ [TurnsNext]_turnVars => TurnsInv'
  BY TurnsInvStep
<1>3. TurnsInv => WithdrawnWorkStopped
  BY DEF TurnsInv
<1> QED
  BY <1>1, <1>2, <1>3, PTL DEF TurnsSpec
=============================================================================
