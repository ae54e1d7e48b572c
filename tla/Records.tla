------------------------------- MODULE Records -------------------------------
(***************************************************************************)
(* The records of a team's discussion: the decision a message is promoted  *)
(* to, a hand-off, and a blocker whose source is an approval.  A request   *)
(* is several operations of the database, each a transaction of its own:   *)
(* look, write, append the event, read the answer.  The database takes     *)
(* operations in the order in which they are asked for; the next operation *)
(* of a request is asked for when the last one has been answered, so the   *)
(* operations of other requests come between.                              *)
(*                                                                         *)
(* One message, one hand-off and one blocker; what else a row holds is     *)
(* left out.  "closed" stands for each way a decision or a hand-off ends.  *)
(***************************************************************************)
EXTENDS Sequences, Integers

CONSTANTS Calls,      \* requests
          MaxCrashes  \* bound on restarts of the server

\* What a request answers is told apart from what an answer says of it.
ASSUME CallNames == "none" \notin Calls /\ "failed" \notin Calls

Kinds == {"decision", "handoff", "blocker"}
Nothing == "none"

Statuses(kind) == IF kind = "blocker" THEN {"open", "mitigated", "accepted_risk", "resolved"}
                  ELSE {"open", "closed"}

VARIABLES row,       \* status of each record, or Nothing
          author,    \* the promotion whose decision the message has, or Nothing
          call,      \* op, kind, pc, want, saw (the status it has read), answer
          queue,     \* the requests whose next operation the database has yet to take
          told,      \* per record the last status an event named, or Nothing
          approval,  \* the source of the blocker is still pending
          crashes

recordVars == <<row, author, call, queue, told, approval, crashes>>

NoCall == [op |-> Nothing, kind |-> "decision", pc |-> "idle", want |-> Nothing,
           saw |-> Nothing, answer |-> Nothing]

RecordsInit ==
  /\ row = [k \in Kinds |-> Nothing] /\ told = [k \in Kinds |-> Nothing]
  /\ author = Nothing /\ approval = TRUE /\ crashes = 0
  /\ call = [c \in Calls |-> NoCall] /\ queue = <<>>

-------------------------------------------------------------------------------
(* Requests *)

Ask(c, op, kind, pc, want) ==
  /\ call[c].pc = "idle"
  /\ call' = [call EXCEPT ![c] = [NoCall EXCEPT !.op = op, !.kind = kind, !.pc = pc,
                                    !.want = want]]
  /\ queue' = Append(queue, c)
  /\ UNCHANGED <<row, author, told, approval, crashes>>

CreateDecision(c) == Ask(c, "promote", "decision", "look", "open")

\* One record of the other kinds: its identifier is new.
Unmade(kind) ==
  row[kind] = Nothing /\ \A d \in Calls : ~(call[d].op = "open" /\ call[d].kind = kind)

CreateHandoff(c) == Unmade("handoff") /\ Ask(c, "open", "handoff", "insert", "open")
CreateBlocker(c) == Unmade("blocker") /\ Ask(c, "open", "blocker", "insert", "open")

SetDecisionStatus(c) ==
  \E s \in Statuses("decision") : Ask(c, "patch", "decision", "read", s)
SetHandoffStatus(c) ==
  \E s \in Statuses("handoff") : Ask(c, "patch", "handoff", "read", s)
SetBlockerStatus(c) ==
  \E s \in Statuses("blocker") : Ask(c, "patch", "blocker", "read", s)

\* An approval of a running task is decided; the sweep comes after the commit.
Decide(c) ==
  /\ approval /\ approval' = FALSE
  /\ call[c].pc = "idle"
  /\ call' = [call EXCEPT ![c] = [NoCall EXCEPT !.op = "sweep", !.kind = "blocker",
                                    !.pc = "select", !.want = "resolved"]]
  /\ queue' = Append(queue, c)
  /\ UNCHANGED <<row, author, told, crashes>>

-------------------------------------------------------------------------------
(* Operations *)

\* The database takes the operation pc of c; next asks for another one or ends.
Takes(c, pc, next) ==
  /\ queue # <<>> /\ Head(queue) = c /\ call[c].pc = pc
  /\ queue' = IF next = "done" THEN Tail(queue) ELSE Append(Tail(queue), c)
  /\ UNCHANGED <<approval, crashes>>

Becomes(c, next, saw, answer) ==
  call' = [call EXCEPT ![c].pc = next, ![c].saw = saw, ![c].answer = answer]

\* createDecision looks for the record of the message first.
LookForDecision(c) ==
  LET next == IF author = Nothing THEN "insert" ELSE "done" IN
  /\ Takes(c, "look", next)
  /\ Becomes(c, next, row["decision"], author)
  /\ UNCHANGED <<row, author, told>>

\* Mutant: no unique index; the message gets one more record.
MutInsertDecision(c) ==
  /\ call[c].op = "promote" /\ Takes(c, "insert", "emit")
  /\ Becomes(c, "emit", Nothing, c)
  /\ row' = [row EXCEPT !["decision"] = "open"] /\ author' = c
  /\ UNCHANGED told

\* The index on source messages refuses a second record: the request fails.
InsertDecision(c) ==
  LET next == IF author = Nothing THEN "emit" ELSE "done" IN
  /\ call[c].op = "promote" /\ Takes(c, "insert", next)
  /\ IF author = Nothing
       THEN /\ Becomes(c, next, Nothing, c)
            /\ row' = [row EXCEPT !["decision"] = "open"] /\ author' = c
       ELSE Becomes(c, next, Nothing, "failed") /\ UNCHANGED <<row, author>>
  /\ UNCHANGED told

InsertRecord(c) ==
  /\ call[c].op = "open" /\ Takes(c, "insert", "emit")
  /\ Becomes(c, "emit", Nothing, c)
  /\ row' = [row EXCEPT ![call[c].kind] = "open"]
  /\ UNCHANGED <<author, told>>

\* A record nobody has made yet is not found.
ReadRecord(c) ==
  LET is == row[call[c].kind]
      next == IF is = Nothing THEN "done" ELSE "write" IN
  /\ Takes(c, "read", next)
  /\ Becomes(c, next, is, IF is = Nothing THEN "missing" ELSE Nothing)
  /\ UNCHANGED <<row, author, told>>

\* Whatever the row says by now.
WriteStatus(c) ==
  /\ Takes(c, "write", "emit")
  /\ Becomes(c, "emit", call[c].saw, c)
  /\ row' = [row EXCEPT ![call[c].kind] = call[c].want]
  /\ UNCHANGED <<author, told>>

\* Mutant: the event is built from what was read before the write.
MutEmit(c) ==
  /\ Takes(c, "emit", "done")
  /\ Becomes(c, "done", call[c].saw, call[c].answer)
  /\ told' = [told EXCEPT ![call[c].kind] = call[c].saw]
  /\ UNCHANGED <<row, author>>

Emit(c) ==
  /\ Takes(c, "emit", "done")
  /\ Becomes(c, "done", call[c].saw, call[c].answer)
  /\ told' = [told EXCEPT ![call[c].kind] = call[c].want]
  /\ UNCHANGED <<row, author>>

\* resolveBlockersForSource: the blockers of the source that are active.
SelectBlockers(c) ==
  LET next == IF row["blocker"] \in {"open", "mitigated"} THEN "read" ELSE "done" IN
  /\ Takes(c, "select", next)
  /\ Becomes(c, next, Nothing, Nothing)
  /\ UNCHANGED <<row, author, told>>

\* The server stops; what was asked for and not taken is lost.
CrashRecords ==
  /\ crashes < MaxCrashes /\ crashes' = crashes + 1
  /\ queue' = <<>>
  /\ call' = [c \in Calls |-> [call[c] EXCEPT !.pc = CASE @ \in {"idle", "done", "untold"} -> @
                                                     [] @ = "emit" -> "untold"
                                                     [] OTHER -> "done"]]
  /\ UNCHANGED <<row, author, told, approval>>

RecordsNext ==
  \/ \E c \in Calls :
       \/ CreateDecision(c) \/ CreateHandoff(c) \/ CreateBlocker(c)
       \/ SetDecisionStatus(c) \/ SetHandoffStatus(c) \/ SetBlockerStatus(c) \/ Decide(c)
       \/ LookForDecision(c) \/ InsertDecision(c) \/ InsertRecord(c) \/ ReadRecord(c)
       \/ WriteStatus(c) \/ Emit(c) \/ SelectBlockers(c)
  \/ CrashRecords

RecordsSpec == RecordsInit /\ [][RecordsNext]_recordVars

-------------------------------------------------------------------------------
(* Properties *)

\* createDecision: whichever promotions of a message overlap, one of them made its
\* record and no answer names another.
OneDecision ==
  \A c \in Calls :
    call[c].op = "promote" /\ call[c].answer \in Calls => call[c].answer = author

\* When no request is under way, the last event of a record names the status it has,
\* in whatever order requests overlapped; unless a server stopped between a write and
\* its event (setDecisionStatus, setHandoffStatus, setBlockerStatus).
ToldAtRest ==
  \A k \in Kinds :
    \/ told[k] = row[k]
    \/ \E c \in Calls : call[c].kind = k /\ call[c].pc \in {"emit", "untold"}

\* Overlapping requests make one record, and at rest the log tells what it says.
RecordsHold == OneDecision /\ ToldAtRest
=============================================================================
