------------------------------ MODULE FileLeases ------------------------------
(***************************************************************************)
(* The leases on paths of one project: lease-service.ts with the path      *)
(* semantics of packages/domain/src/lease.ts.  Leases are taken by hand    *)
(* over HTTP, with or without an expiry, and by assignments for the write  *)
(* paths of a run.  A step is a transaction of the server or time passing. *)
(*                                                                         *)
(* A path is the sequence of its segments.  An owner stands for the task,  *)
(* run and holder named by a request: they are only compared as a whole,   *)
(* except for the run an owner names as its holder.                        *)
(***************************************************************************)
EXTENDS FiniteSets, Integers, Sequences, SequencesExt

CONSTANTS Leases,       \* rows that may be created
          Owners,       \* who asks by hand
          HolderRun,    \* HolderRun[o]: the run named as holder, or NoRun
          LeaseRuns,    \* runs with write paths
          RunOwner,     \* RunOwner[r]: the owner in whose name a run reserves
          WritePaths,   \* WritePaths[r]: raw write paths of a run
          RawPaths,     \* raw paths users send
          WorkFiles,    \* files of the workspace, as segments in lower case
          LowerCase,    \* LowerCase[s]: a segment in lower case
          MaxTime,      \* bound: the last instant
          NoRun

VARIABLES lease,        \* lease[l]: a row, or NoLease
          clock,
          runPhase,     \* "new", "active", "settled"
          freed         \* ghost: runs of which a user released a lease by hand

leaseVars == <<lease, clock, runPhase, freed>>

Forever == MaxTime + 1   \* no expires_at
NoLease == [status |-> "none"]
Rejected == <<"..">>     \* no normalised path has this form

LeaseInit ==
  /\ lease = [l \in Leases |-> NoLease]
  /\ clock = 0
  /\ runPhase = [r \in LeaseRuns |-> "new"]
  /\ freed = {}

----------------------------------------------------------------------------
(* domain/lease.ts *)

\* Mutant: segments keep their case.
MutNextPath(path, seg) ==
  CASE seg = "." \/ path = Rejected -> path
    [] seg = ".." /\ path = <<>> -> Rejected
    [] seg = ".." /\ path \notin {<<>>, Rejected} -> Front(path)
    [] OTHER -> Append(path, seg)

\* "." goes, ".." takes back a segment or is refused at the root.
NextPath(path, seg) ==
  CASE seg = "." \/ path = Rejected -> path
    [] seg = ".." /\ path = <<>> -> Rejected
    [] seg = ".." /\ path \notin {<<>>, Rejected} -> Front(path)
    [] OTHER -> Append(path, LowerCase[seg])

\* normalizeLeasePath with an empty root.
NormalizePath(raw) ==
  LET path[n \in 0 .. Len(raw)] ==
        IF n = 0 THEN <<>> ELSE NextPath(path[n - 1], raw[n])
  IN  IF raw = <<>> THEN Rejected ELSE path[Len(raw)]

AllPaths == RawPaths \cup UNION {WritePaths[r] : r \in LeaseRuns}
Normal == [raw \in AllPaths |-> NormalizePath(raw)]

\* Every segment of a path can be folded; an owner that a run reserves
\* for names it as the holder.
ASSUME LeaseAssumption ==
  /\ AllPaths \subseteq Seq({".", ".."} \cup DOMAIN LowerCase)
  /\ WorkFiles \subseteq Seq(STRING)
  /\ IsFiniteSet(Leases) /\ \A r \in LeaseRuns : IsFiniteSet(WritePaths[r])
  /\ NoRun \notin LeaseRuns
  /\ HolderRun \in [Owners \cup {RunOwner[r] : r \in LeaseRuns} -> LeaseRuns \cup {NoRun}]
  /\ \A r \in LeaseRuns : HolderRun[RunOwner[r]] = r
  /\ MaxTime \in Nat

PathsOverlap(p, q) == IsPrefix(p, q) \/ IsPrefix(q, p)

ScopesConflict(a, b) ==
  PathsOverlap(a.path, b.path) /\ "write" \in {a.mode, b.mode}

----------------------------------------------------------------------------
(* lease-service.ts *)

Held == {l \in Leases : lease[l].status = "held"}
PastExpiry(l) == lease[l].expires <= clock
IsActive(l) == l \in Held /\ ~PastExpiry(l)

\* expireStaleLeases
Expired == [l \in Leases |-> IF l \in Held /\ PastExpiry(l)
                             THEN [lease[l] EXCEPT !.status = "expired"]
                             ELSE lease[l]]

NewLease(owner, raw, mode, expires) ==
  [owner |-> owner, run |-> HolderRun[owner], path |-> Normal[raw],
   raw |-> raw, mode |-> mode, expires |-> expires, status |-> "held"]

Unused == {l \in Leases : lease[l] = NoLease}
NextRow == CHOOSE l \in Unused : TRUE

NextRows(keys) == CHOOSE rows \in [keys -> Unused] :
                    \A j, k \in keys : rows[j] = rows[k] => j = k

\* acquireLease.  A conflict throws: the expiries found on the way are rolled
\* back with the transaction.  Only a run that exists can be named.
AcquireLease(owner, raw, mode, expires) ==
  LET row == NewLease(owner, raw, mode, expires)
      same(l) == /\ IsActive(l)
                 /\ lease[l].owner = owner
                 /\ lease[l].path = row.path
                 /\ lease[l].mode = mode
  IN  /\ row.path # Rejected
      /\ row.run # NoRun => runPhase[row.run] # "new"
      /\ IF \E l \in Leases : same(l)
           THEN lease' = Expired
           ELSE /\ \A l \in Leases : IsActive(l) => ~ScopesConflict(row, lease[l])
                /\ Unused # {}
                /\ lease' = [Expired EXCEPT ![NextRow] = row]
      /\ UNCHANGED <<clock, runPhase, freed>>

\* releaseLease: any held row, a run's and a stale one included.
ReleaseLease(l) ==
  /\ l \in Held
  /\ lease' = [lease EXCEPT ![l].status = "released"]
  /\ freed' = IF lease[l].run # NoRun THEN freed \cup {lease[l].run} ELSE freed
  /\ UNCHANGED <<clock, runPhase>>

\* listLeases
ListLeases ==
  /\ lease' = Expired
  /\ UNCHANGED <<clock, runPhase, freed>>

\* reserveRunLeases inside an assignment: paths that normalise alike are one,
\* the run's own rows are no conflict, and a rejected or conflicting path aborts
\* everything.
Assigned(r, keys, rows) ==
  LET row(k) == [NewLease(RunOwner[r], CHOOSE w \in WritePaths[r] : TRUE, "write", Forever)
                 EXCEPT !.path = k,
                        !.raw = CHOOSE w \in WritePaths[r] : Normal[w] = k]
  IN  [l \in Leases |-> IF \E k \in keys : rows[k] = l
                        THEN row(CHOOSE k \in keys : rows[k] = l)
                        ELSE Expired[l]]

ReserveLeases(r) ==
  LET keys == {Normal[w] : w \in WritePaths[r]}
      foreign(l) == IsActive(l) /\ lease[l].run # r
  IN  /\ runPhase[r] = "new"
      /\ Rejected \notin keys
      /\ \A k \in keys, l \in Leases :
           foreign(l) => ~ScopesConflict([path |-> k, mode |-> "write"], lease[l])
      /\ Cardinality(keys) <= Cardinality(Unused)
      /\ lease' = Assigned(r, keys, NextRows(keys))
      /\ runPhase' = [runPhase EXCEPT ![r] = "active"]
      /\ UNCHANGED <<clock, freed>>

\* releaseRunLeases at the end of a run: what it reserved and what was taken by
\* hand in its name, not the rest.
ReleaseRunLeases(r) ==
  /\ runPhase[r] = "active"
  /\ lease' = [l \in Leases |-> IF l \in Held /\ lease[l].run = r
                                THEN [lease[l] EXCEPT !.status = "released"]
                                ELSE lease[l]]
  /\ runPhase' = [runPhase EXCEPT ![r] = "settled"]
  /\ UNCHANGED <<clock, freed>>

LeaseTick ==
  /\ clock < MaxTime
  /\ clock' = clock + 1
  /\ UNCHANGED <<lease, runPhase, freed>>

LeaseNext ==
  \/ \E o \in Owners, raw \in RawPaths, mode \in {"read", "write"},
        expires \in {2, Forever} : AcquireLease(o, raw, mode, expires)
  \/ \E l \in Leases : ReleaseLease(l)
  \/ ListLeases
  \/ \E r \in LeaseRuns : ReserveLeases(r) \/ ReleaseRunLeases(r)
  \/ LeaseTick

LeaseSpec == LeaseInit /\ [][LeaseNext]_leaseVars

----------------------------------------------------------------------------
(* Properties *)

\* The place a raw path names, walking it like a file system that ignores case.
NextPlace(place, seg) ==
  CASE seg = "." -> place
    [] seg = ".." -> SubSeq(place, 1, Len(place) - 1)
    [] OTHER -> place \o <<LowerCase[seg]>>

Place(raw) ==
  LET place[n \in 0 .. Len(raw)] ==
        IF n = 0 THEN <<>> ELSE NextPlace(place[n - 1], raw[n])
  IN  place[Len(raw)]

\* The files at or under that place, and the files a lease covers.
FilesUnder ==
  [raw \in {p \in AllPaths : Normal[p] # Rejected} |->
     {f \in WorkFiles : IsPrefix(Place(raw), f)}]

\* Two leases in force, one of them for writing, have no file in common unless
\* the same run holds both.
NoSharedFile ==
  \A l, m \in Leases :
    (l # m /\ IsActive(l) /\ IsActive(m) /\ "write" \in {lease[l].mode, lease[m].mode})
      => \/ FilesUnder[lease[l].raw] \cap FilesUnder[lease[m].raw] = {}
         \/ lease[l].run = lease[m].run /\ lease[l].run # NoRun

\* A running run keeps every file it asked to write: no passing of time, no
\* other owner and no other run's end takes it, only a user by hand.
WritersKeepFiles ==
  \A r \in LeaseRuns :
    (runPhase[r] = "active" /\ r \notin freed) =>
      \A w \in WritePaths[r], f \in WorkFiles :
        f \in FilesUnder[w] =>
          \E l \in Leases : /\ IsActive(l) /\ lease[l].run = r
                            /\ lease[l].mode = "write"
                            /\ f \in FilesUnder[lease[l].raw]

\* Leases taken by hand and by runs (lease-service.ts), with paths written in
\* different ways, expiry and release at any time, protect the files they name.
LeasesProtectFiles == NoSharedFile /\ WritersKeepFiles
=============================================================================
