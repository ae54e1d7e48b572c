--------------------------- MODULE ClientProofs ---------------------------
(***************************************************************************)
(* Theorems about what people and their clients do, for any value of the   *)
(* constants: the queue of commands (CommandReplay), credentials and       *)
(* sockets (Access) and signing in (Login), both in Accounts, posting in a *)
(* room (RoomComposer) and showing it (RoomTimeline), both in Rooms.  They *)
(* share no state; each part has an invariant of its own.                  *)
(***************************************************************************)
EXTENDS CommandReplay, Accounts, Rooms,
        FiniteSetTheorems, WellFoundedInduction, SequenceTheorems, TLAPS

-------------------------------------------------------------------------------
(* Steps. *)

\* What a request's move changes, and what it leaves.
LEMMA MoveRows ==
  ASSUME CommandTypeOK, NEW c \in Commands, NEW i \in Attempts, NEW w, NEW o, Move(c, i, w, o)
  PROVE  /\ attempt'[c][i] = Request(w, o)
         /\ \A d \in Commands, j \in Attempts :
              d # c \/ j # i => attempt'[d][j] = attempt[d][j]
         /\ DOMAIN attempt' = Commands
         /\ \A d \in Commands : DOMAIN attempt'[d] = Attempts
  BY DEF CommandTypeOK, Move

Places == {"unsent", "sent", "handling", "committed", "failed", "answered", "gone"}

\* A move to a place of the types keeps the types of the requests.
LEMMA MoveTypes ==
  ASSUME CommandTypeOK, NEW c \in Commands, NEW i \in Attempts,
         NEW w \in Places, NEW o \in Outcomes, Move(c, i, w, o)
  PROVE  attempt' \in [Commands -> [Attempts -> [at : Places, outcome : Outcomes]]]
  BY DEF CommandTypeOK, Move, Request, Places

\* The awaited request is one of the head of the queue.
LEMMA Awaited ==
  ASSUME CommandTypeOK, flush = "awaiting"
  PROVE  /\ queue # <<>> /\ sending[1] = Head(queue)
         /\ sending[1] \in Commands /\ sending[2] \in Attempts
         /\ sending = <<sending[1], sending[2]>>
BY DEF CommandTypeOK

\* The ends of a sequence, after an append and without its head.
LEMMA SequenceEnds ==
  ASSUME NEW S, NEW s \in Seq(S)
  PROVE  /\ s # <<>> => /\ Len(s) > 0 /\ Head(s) = s[1] /\ s[1] \in S
                        /\ Tail(s) \in Seq(S) /\ Len(Tail(s)) = Len(s) - 1
                        /\ \A i \in 1..Len(Tail(s)) : Tail(s)[i] = s[i + 1]
         /\ Len(s) \in Nat /\ DOMAIN s = 1..Len(s)
         /\ \A i \in 1..Len(s) : s[i] \in S
         /\ Len(s) > 0 => s # <<>>
         /\ \A e \in S : /\ Append(s, e) \in Seq(S) /\ Append(s, e) # <<>>
                         /\ Len(Append(s, e)) = Len(s) + 1
                         /\ Append(s, e)[Len(s) + 1] = e
                         /\ \A i \in 1..Len(s) : Append(s, e)[i] = s[i]
OBVIOUS

-------------------------------------------------------------------------------
(* Types. *)

\* Every step of the client and the server keeps the types, and the awaited request
\* that of the head.
LEMMA TypeStep == CommandTypeOK /\ [CommandNext]_commandVars => CommandTypeOK'
<1> SUFFICES ASSUME CommandTypeOK, [CommandNext]_commandVars PROVE CommandTypeOK'
  OBVIOUS
<1> USE CommandAssumption
<1>1. ASSUME NEW c \in Commands, NEW seen \in 0..version, Submit(c, seen) PROVE CommandTypeOK'
  <2>1. /\ submitted' \in Seq(Commands) /\ queue' \in Seq(Commands)
        /\ base' \in [Commands -> Nat]
        /\ promise' \in [Commands -> {"none", "pending", "resolved", "conflict", "rejected", "cancelled"}]
    BY <1>1 DEF CommandTypeOK, Submit
  <2>2. queue # <<>> => queue' # <<>> /\ Head(queue') = Head(queue)
    <3>1. queue \in Seq(Commands) /\ queue' = Append(queue, c) /\ queue' \in Seq(Commands)
      BY <1>1, <2>1 DEF CommandTypeOK, Submit
    <3>2. queue # <<>> => Head(queue) = queue[1] /\ 1 \in 1..Len(queue)
      BY <3>1, SequenceEnds
    <3>3. queue' # <<>> /\ Head(queue') = queue'[1] /\ \A i \in 1..Len(queue) : queue'[i] = queue[i]
      BY <3>1, SequenceEnds
    <3> QED
      BY <3>2, <3>3
  <2> QED
    BY <1>1, <2>1, <2>2 DEF CommandTypeOK, Submit, serverVars
<1>2. CASE Trigger
  BY <1>2 DEF CommandTypeOK, Trigger, serverVars
<1>3. ASSUME NEW i \in Attempts, Send(i) PROVE CommandTypeOK'
  BY <1>3, MoveTypes DEF Send, CommandTypeOK, Places, Outcomes, serverVars
<1>4. CASE Skip \/ FlushReturns \/ FlushCleared
  <2>1. CASE Skip
    BY <2>1, SequenceEnds DEF CommandTypeOK, Skip, serverVars
  <2>2. CASE FlushReturns \/ FlushCleared
    BY <2>2 DEF CommandTypeOK, FlushReturns, FlushCleared, serverVars
  <2> QED
    BY <1>4, <2>1, <2>2
<1>5. CASE Receive
  <2>1. /\ sending[1] \in Commands /\ sending[2] \in Attempts /\ queue # <<>>
        /\ Move(sending[1], sending[2], "gone", "none")
    BY <1>5, Awaited DEF Receive
  <2>2. attempt' \in [Commands -> [Attempts -> [at : Places, outcome : Outcomes]]]
    BY <2>1, MoveTypes DEF Places, Outcomes
  <2>3. promise' \in [Commands -> {"none", "pending", "resolved", "conflict", "rejected", "cancelled"}]
    BY <1>5, <2>1 DEF Receive, Told, CommandTypeOK
  <2> QED
    BY <1>5, <2>1, <2>2, <2>3 DEF CommandTypeOK, Receive, serverVars, Places
<1>6. CASE Lose
  BY <1>6, Awaited, MoveTypes DEF Lose, CommandTypeOK, Places, Outcomes, serverVars
<1>7. CASE NoticeCrash
  BY <1>7 DEF CommandTypeOK, NoticeCrash, serverVars
<1>8. CASE SessionEnds
  BY <1>8 DEF CommandTypeOK, SessionEnds, serverVars
<1>9. ASSUME NEW c \in Commands, NEW i \in Attempts, ServerStep(c, i) PROVE CommandTypeOK'
  <2>1. \E w \in Places, o \in Outcomes : Move(c, i, w, o)
    <3>1. attempt[c][i].outcome \in Outcomes
      BY DEF CommandTypeOK
    <3> QED
      BY <1>9, <3>1 DEF ServerStep, Reserve, Replay, Commit, Refuse, Finish, Places, Outcomes
  <2>2. attempt' \in [Commands -> [Attempts -> [at : Places, outcome : Outcomes]]]
    BY <2>1, MoveTypes
  <2>3. version' \in Nat /\ applied' \in Seq(Commands)
        /\ row' \in [Commands -> {"none", "reserved", "stored"}]
    <3>1. CASE Reserve(c, i)
      BY <3>1 DEF Reserve, CommandTypeOK
    <3>2. CASE Replay(c, i) \/ Refuse(c, i)
      BY <3>2 DEF Replay, Refuse, CommandTypeOK, serverVars
    <3>3. CASE Commit(c, i)
      BY <3>3 DEF Commit, CommandTypeOK
    <3>4. CASE Finish(c, i)
      BY <3>4 DEF Finish, CommandTypeOK
    <3> QED
      BY <1>9, <3>1, <3>2, <3>3, <3>4 DEF ServerStep
  <2>4. UNCHANGED clientVars
    BY <1>9 DEF ServerStep, Reserve, Replay, Commit, Refuse, Finish
  <2> QED
    BY <2>2, <2>3, <2>4 DEF CommandTypeOK, clientVars, Places
<1>10. CASE ForeignChange
  <2>1. version' \in Nat /\ UNCHANGED <<clientVars, attempt, row, applied>>
    BY <1>10 DEF CommandTypeOK, ForeignChange
  <2> QED
    BY <2>1 DEF CommandTypeOK, clientVars
<1>11. CASE ServerCrash
  <2>1. attempt' \in [Commands -> [Attempts -> [at : Places, outcome : Outcomes]]]
    <3>1. Request("gone", "none") \in [at : Places, outcome : Outcomes]
      BY DEF Request, Places, Outcomes
    <3> QED
      BY <1>11, <3>1 DEF CommandTypeOK, ServerCrash, Places
  <2> QED
    BY <1>11, <2>1 DEF CommandTypeOK, ServerCrash, clientVars, serverVars, Places
<1>12. CASE UNCHANGED commandVars
  BY <1>12 DEF CommandTypeOK, commandVars, clientVars, serverVars
<1> QED
  BY <1>1, <1>2, <1>3, <1>4, <1>5, <1>6, <1>7, <1>8, <1>9, <1>10, <1>11, <1>12
     DEF CommandNext, QueueStep

\* Type correctness, with the fact that the awaited request is always the head's, also
\* when the session ends or commands join the queue meanwhile (commandQueue.ts).
THEOREM CommandTypeCorrect == CommandSpec => []CommandTypeOK
<1>1. CommandInit => CommandTypeOK
  BY CommandAssumption DEF CommandInit, CommandTypeOK, Request, Outcomes, NoSend
<1> QED
  BY <1>1, TypeStep, PTL DEF CommandSpec

-------------------------------------------------------------------------------
(* The reservation: one handler at a time, and an answer for what is applied. *)

IsApplied(c) == \E k \in DOMAIN applied : applied[k] = c
AppliedOnce == \A k, l \in DOMAIN applied : applied[k] = applied[l] => k = l

InHandler == {"handling", "committed", "failed"}

\* A request past the reservation has the row to itself.
Reserved ==
  \A c \in Commands, i \in Attempts :
    attempt[c][i].at \in InHandler =>
      /\ row[c] = "reserved"
      /\ \A j \in Attempts : attempt[c][j].at \in InHandler => i = j
      /\ IsApplied(c) <=> attempt[c][i].at = "committed"

\* The row of what is applied stays, over crashes too.
RowsTrue ==
  \A c \in Commands : /\ IsApplied(c) => row[c] # "none"
                      /\ row[c] = "stored" => IsApplied(c)

\* An outcome is true when it is decided and stays so: versions only grow.
True(c, ok, stale) == /\ ok => IsApplied(c)
                      /\ stale => ~IsApplied(c) /\ ~Fresh(c)

OutcomesTrue ==
  \A c \in Commands :
    /\ \A i \in Attempts :
         True(c, attempt[c][i].outcome = "ok", attempt[c][i].outcome = "stale")
    /\ True(c, promise[c] = "resolved", promise[c] = "conflict")

\* Nothing is sent for a command that was not submitted.
Untouched(c) == \A i \in Attempts : attempt[c][i] = Request("unsent", "none")
SubmittedFirst == \A c \in Commands : promise[c] = "none" => Untouched(c)

RowInv == AppliedOnce /\ Reserved /\ RowsTrue /\ OutcomesTrue /\ SubmittedFirst

\* What the client, a lost connection or a crash does to the requests: those of
\* submitted commands are sent or gone.
ClientEffect ==
  /\ UNCHANGED serverVars
  /\ \A c \in Commands, i \in Attempts :
       \/ attempt'[c][i] = attempt[c][i]
       \/ /\ promise[c] # "none" /\ promise'[c] # "none"
          /\ attempt'[c][i] \in {Request("sent", "none"), Request("gone", "none")}
  /\ \A c \in Commands :
       \/ promise'[c] = promise[c] /\ base'[c] = base[c]
       \/ promise[c] = "none" /\ promise'[c] = "pending"
       \/ /\ promise[c] = "pending" /\ base'[c] = base[c]
          /\ \/ promise'[c] = "cancelled"
             \/ \E i \in Attempts : promise'[c] = Told(attempt[c][i].outcome)

\* Every step is the client's, a change by others, or one of a server's handler.
LEMMA Effects ==
  ASSUME CommandTypeOK, SubmittedFirst, [CommandNext]_commandVars
  PROVE  \/ ClientEffect
         \/ ForeignChange
         \/ \E c \in Commands, i \in Attempts : ServerStep(c, i)
<1> USE CommandAssumption
<1>1. ASSUME NEW c \in Commands, NEW seen \in 0..version, Submit(c, seen) PROVE ClientEffect
  BY <1>1 DEF CommandTypeOK, Submit, ClientEffect
<1>2. CASE Trigger \/ Skip \/ FlushReturns \/ FlushCleared \/ NoticeCrash
  BY <1>2 DEF Trigger, Skip, FlushReturns, FlushCleared, NoticeCrash, ClientEffect
<1>3. ASSUME NEW i \in Attempts, Send(i) PROVE ClientEffect
  BY <1>3, MoveRows DEF Send, CommandTypeOK, ClientEffect
<1>4. CASE Receive
  <2>1. /\ sending[1] \in Commands /\ sending[2] \in Attempts
        /\ Move(sending[1], sending[2], "gone", "none")
        /\ attempt[sending[1]][sending[2]].at = "answered"
        /\ promise' = IF promise[sending[1]] = "pending"
                      THEN [promise EXCEPT ![sending[1]] =
                              Told(attempt[sending[1]][sending[2]].outcome)] ELSE promise
        /\ UNCHANGED <<serverVars, base>>
    BY <1>4, Awaited DEF Receive
  <2>2. promise[sending[1]] # "none"
    BY <2>1 DEF SubmittedFirst, Untouched, Request
  <2>3. promise'[sending[1]] # "none"
    BY <2>1, <2>2 DEF Told, CommandTypeOK
  <2>4. \A c \in Commands :
          \/ promise'[c] = promise[c]
          \/ promise[c] = "pending" /\ \E i \in Attempts : promise'[c] = Told(attempt[c][i].outcome)
    BY <2>1 DEF CommandTypeOK
  <2> QED
    BY <2>1, <2>2, <2>3, <2>4, MoveRows DEF ClientEffect
<1>5. CASE Lose
  <2>1. /\ sending[1] \in Commands /\ sending[2] \in Attempts
        /\ \/ UNCHANGED attempt
           \/ /\ Move(sending[1], sending[2], "gone", "none")
              /\ attempt[sending[1]][sending[2]].at \in {"sent", "answered"}
        /\ UNCHANGED <<serverVars, base, promise>>
    BY <1>5, Awaited DEF Lose
  <2>2. CASE UNCHANGED attempt
    BY <2>1, <2>2 DEF ClientEffect
  <2>3. CASE /\ Move(sending[1], sending[2], "gone", "none")
             /\ attempt[sending[1]][sending[2]].at \in {"sent", "answered"}
    <3>1. promise[sending[1]] # "none"
      BY <2>1, <2>3 DEF SubmittedFirst, Untouched, Request
    <3> QED
      BY <2>1, <2>3, <3>1, MoveRows DEF ClientEffect
  <2> QED
    BY <2>1, <2>2, <2>3
<1>6. CASE SessionEnds
  BY <1>6 DEF CommandTypeOK, SessionEnds, ClientEffect
<1>7. CASE ServerCrash
  <2>1. ASSUME NEW c \in Commands, NEW i \in Attempts
        PROVE  \/ attempt'[c][i] = attempt[c][i]
               \/ promise[c] # "none" /\ attempt'[c][i] = Request("gone", "none")
    BY <1>7 DEF ServerCrash, Underway, SubmittedFirst, Untouched, Request
  <2> QED
    BY <1>7, <2>1 DEF ServerCrash, ClientEffect, clientVars
<1>8. CASE UNCHANGED commandVars
  BY <1>8 DEF commandVars, clientVars, ClientEffect
<1> QED
  BY <1>1, <1>2, <1>3, <1>4, <1>5, <1>6, <1>7, <1>8 DEF CommandNext, QueueStep

\* The client, losses and crashes keep what the rows and the answers say.
LEMMA RowClient == CommandTypeOK /\ RowInv /\ ClientEffect => RowInv'
<1> SUFFICES ASSUME CommandTypeOK, RowInv, ClientEffect PROVE RowInv'
  OBVIOUS
<1>1. UNCHANGED <<version, row, applied>>
  BY DEF ClientEffect, serverVars
<1>2. \A c \in Commands : IsApplied(c)' <=> IsApplied(c)
  BY <1>1 DEF IsApplied
<1>3. AppliedOnce' /\ RowsTrue'
  BY <1>1, <1>2 DEF RowInv, AppliedOnce, RowsTrue
<1>4. Reserved'
  BY <1>1, <1>2 DEF ClientEffect, InHandler, Request, RowInv, Reserved
<1>5. SubmittedFirst'
  BY DEF Told, ClientEffect, RowInv, SubmittedFirst, Untouched
<1>6. \A c \in Commands : promise[c] # "none" => (Fresh(c)' <=> Fresh(c))
  BY <1>1 DEF ClientEffect, Fresh
<1>7. OutcomesTrue'
  <2> SUFFICES ASSUME NEW c \in Commands
               PROVE  /\ \A i \in Attempts : True(c, attempt[c][i].outcome = "ok",
                                                     attempt[c][i].outcome = "stale")'
                      /\ True(c, promise[c] = "resolved", promise[c] = "conflict")'
    BY DEF OutcomesTrue
  <2>1. CASE promise[c] = "none"
    BY <2>1 DEF RowInv, SubmittedFirst, Untouched, ClientEffect, True, Request
  <2>2. CASE promise[c] # "none"
    <3>1. ASSUME NEW i \in Attempts
          PROVE  True(c, attempt[c][i].outcome = "ok", attempt[c][i].outcome = "stale")'
      BY <1>2, <1>6, <2>2 DEF ClientEffect, Request, RowInv, OutcomesTrue, True
    <3>2. True(c, promise[c] = "resolved", promise[c] = "conflict")'
      BY <2>2, <1>2, <1>6 DEF ClientEffect, RowInv, OutcomesTrue, True, Told
    <3> QED
      BY <3>1, <3>2
  <2> QED
    BY <2>1, <2>2
<1> QED
  BY <1>3, <1>4, <1>5, <1>7 DEF RowInv

\* A change by others makes a stale base no fresher.
LEMMA RowForeign == CommandTypeOK /\ RowInv /\ ForeignChange => RowInv'
<1> SUFFICES ASSUME CommandTypeOK, RowInv, ForeignChange PROVE RowInv'
  OBVIOUS
<1>1. UNCHANGED <<row, applied, attempt, base, promise>> /\ version' = version + 1
  BY DEF ForeignChange, clientVars
<1>2. \A c \in Commands : (IsApplied(c)' <=> IsApplied(c)) /\ (Fresh(c)' => Fresh(c))
  BY <1>1 DEF IsApplied, Fresh, CommandTypeOK
<1> QED
  BY <1>1, <1>2 DEF RowInv, AppliedOnce, Reserved, RowsTrue, OutcomesTrue, True,
                    SubmittedFirst, Untouched

\* A step of a request that commits nothing moves it as the rows allow.
LEMMA RowHandler ==
  ASSUME CommandTypeOK, RowInv, NEW c \in Commands, NEW i \in Attempts, ServerStep(c, i)
  PROVE  RowInv'
<1> DEFINE at == attempt[c][i].at
           at2 == attempt'[c][i].at
           outcome2 == attempt'[c][i].outcome
<1>1. /\ UNCHANGED clientVars
      /\ \E w, o : Move(c, i, w, o)
  BY DEF ServerStep, Reserve, Replay, Commit, Refuse, Finish
<1>2. \A d \in Commands, j \in Attempts : d # c \/ j # i => attempt'[d][j] = attempt[d][j]
  BY <1>1, MoveRows
<1>3. at # "unsent" /\ promise[c] # "none"
  BY DEF ServerStep, Reserve, Replay, Commit, Refuse, Finish, RowInv, SubmittedFirst,
         Untouched, Request
<1>4. SubmittedFirst'
  BY <1>1, <1>2, <1>3 DEF RowInv, SubmittedFirst, Untouched, clientVars
<1>5. CASE Reserve(c, i)
  <2>1. /\ row[c] = "none" /\ row' = [row EXCEPT ![c] = "reserved"]
        /\ attempt'[c][i] = Request("handling", "none")
        /\ UNCHANGED <<version, applied, base, promise>>
    BY <1>5, MoveRows DEF Reserve, clientVars
  <2>2. \A d \in Commands : (IsApplied(d)' <=> IsApplied(d)) /\ (Fresh(d)' <=> Fresh(d))
    BY <2>1 DEF IsApplied, Fresh
  <2>3. /\ row'[c] = "reserved" /\ \A d \in Commands : d # c => row'[d] = row[d]
        /\ ~IsApplied(c)
        /\ \A j \in Attempts : attempt[c][j].at \notin InHandler
    BY <2>1 DEF CommandTypeOK, RowInv, RowsTrue, Reserved
  <2>4. Reserved'
    BY <2>1, <2>2, <2>3, <1>2 DEF RowInv, Reserved, InHandler, Request
  <2>5. OutcomesTrue'
    BY <2>1, <2>2, <1>2 DEF RowInv, OutcomesTrue, True, Request
  <2> QED
    BY <2>1, <2>2, <2>3, <2>4, <2>5, <1>4 DEF RowInv, AppliedOnce, RowsTrue
<1>6. CASE Replay(c, i)
  <2>1. /\ attempt'[c][i] = Request("answered", IF row[c] = "stored" THEN "ok" ELSE "busy")
        /\ UNCHANGED <<version, row, applied, base, promise>>
    BY <1>6, MoveRows DEF Replay, clientVars, serverVars
  <2>2. \A d \in Commands : (IsApplied(d)' <=> IsApplied(d)) /\ (Fresh(d)' <=> Fresh(d))
    BY <2>1 DEF IsApplied, Fresh
  <2>3. Reserved'
    BY <2>1, <2>2, <1>2 DEF RowInv, Reserved, InHandler, Request
  <2>4. outcome2 = "ok" => IsApplied(c)
    BY <2>1 DEF RowInv, RowsTrue, Request
  <2>5. outcome2 # "stale"
    BY <2>1 DEF Request
  <2>6. OutcomesTrue'
    BY <2>1, <2>2, <2>4, <2>5, <1>2 DEF RowInv, OutcomesTrue, True
  <2> QED
    BY <2>1, <2>2, <2>3, <2>6, <1>4 DEF RowInv, AppliedOnce, RowsTrue
<1>7. CASE Commit(c, i)
  <2>1. /\ at = "handling" /\ Fresh(c)
        /\ version' = version + 1 /\ applied' = Append(applied, c)
        /\ attempt'[c][i] = Request("committed", "ok")
        /\ UNCHANGED <<row, base, promise>>
    BY <1>7, MoveRows DEF Commit, clientVars
  <2>2. applied \in Seq(Commands)
    BY DEF CommandTypeOK
  <2>3. /\ DOMAIN applied = 1..Len(applied) /\ Len(applied) \in Nat
        /\ DOMAIN applied' = 1..(Len(applied) + 1)
        /\ applied'[Len(applied) + 1] = c
        /\ \A k \in 1..Len(applied) : applied'[k] = applied[k]
    BY <2>1, <2>2, SequenceEnds
  <2>4. /\ IsApplied(c)'
        /\ \A d \in Commands : d # c => (IsApplied(d)' <=> IsApplied(d))
        /\ \A d \in Commands : ~Fresh(d) => ~Fresh(d)'
    <3>1. IsApplied(c)'
      BY <2>3 DEF IsApplied
    <3>2. ASSUME NEW d \in Commands, d # c PROVE IsApplied(d)' <=> IsApplied(d)
      <4>1. ASSUME IsApplied(d) PROVE IsApplied(d)'
        BY <2>3, <4>1 DEF IsApplied
      <4>2. ASSUME IsApplied(d)' PROVE IsApplied(d)
        <5>1. PICK k \in 1..(Len(applied) + 1) : applied'[k] = d
          BY <2>3, <4>2 DEF IsApplied
        <5>2. k \in 1..Len(applied)
          BY <2>3, <3>2, <5>1
        <5> QED
          BY <2>3, <5>1, <5>2 DEF IsApplied
      <4> QED
        BY <4>1, <4>2
    <3>3. ASSUME NEW d \in Commands, ~Fresh(d) PROVE ~Fresh(d)'
      BY <2>1, <3>3 DEF CommandTypeOK, Fresh
    <3> QED
      BY <3>1, <3>2, <3>3
  <2>5. /\ ~IsApplied(c) /\ row[c] = "reserved"
        /\ \A j \in Attempts : attempt[c][j].at \in InHandler => j = i
    BY <2>1 DEF RowInv, Reserved, InHandler
  <2>6. AppliedOnce'
    BY <2>3, <2>5 DEF RowInv, AppliedOnce, IsApplied
  <2>7. Reserved'
    BY <2>1, <2>4, <2>5, <1>2 DEF RowInv, Reserved, InHandler, Request
  <2>8. RowsTrue'
    BY <2>1, <2>4, <2>5 DEF RowInv, RowsTrue
  <2>9. OutcomesTrue'
    BY <2>1, <2>4, <2>5, <1>2 DEF RowInv, OutcomesTrue, True, Request
  <2> QED
    BY <2>6, <2>7, <2>8, <2>9, <1>4 DEF RowInv
<1>8. CASE Refuse(c, i)
  <2>1. /\ at = "handling"
        /\ attempt'[c][i] = Request("failed", IF Fresh(c) THEN "refused" ELSE "stale")
        /\ UNCHANGED <<version, row, applied, base, promise>>
    BY <1>8, MoveRows DEF Refuse, clientVars, serverVars
  <2>2. \A d \in Commands : (IsApplied(d)' <=> IsApplied(d)) /\ (Fresh(d)' <=> Fresh(d))
    BY <2>1 DEF IsApplied, Fresh
  <2>3. ~IsApplied(c)
    BY <2>1 DEF RowInv, Reserved, InHandler
  <2>4. Reserved'
    BY <2>1, <2>2, <2>3, <1>2 DEF RowInv, Reserved, InHandler, Request
  <2>5. outcome2 # "ok" /\ (outcome2 = "stale" => ~Fresh(c))
    BY <2>1 DEF Request
  <2>6. OutcomesTrue'
    BY <2>1, <2>2, <2>3, <2>5, <1>2 DEF RowInv, OutcomesTrue, True
  <2> QED
    BY <2>1, <2>2, <2>4, <2>6, <1>4 DEF RowInv, AppliedOnce, RowsTrue
<1>9. CASE Finish(c, i)
  <2>1. /\ at \in {"committed", "failed"}
        /\ row' = [row EXCEPT ![c] = IF at = "committed" THEN "stored" ELSE "none"]
        /\ attempt'[c][i] = Request("answered", attempt[c][i].outcome)
        /\ UNCHANGED <<version, applied, base, promise>>
    BY <1>9, MoveRows DEF Finish, clientVars
  <2>2. \A d \in Commands : (IsApplied(d)' <=> IsApplied(d)) /\ (Fresh(d)' <=> Fresh(d))
    BY <2>1 DEF IsApplied, Fresh
  <2>3. /\ IsApplied(c) <=> at = "committed"
        /\ \A j \in Attempts : attempt[c][j].at \in InHandler => j = i
    BY <2>1 DEF RowInv, Reserved, InHandler
  <2>4. /\ row'[c] = IF at = "committed" THEN "stored" ELSE "none"
        /\ \A d \in Commands : d # c => row'[d] = row[d]
    BY <2>1 DEF CommandTypeOK
  <2>5. Reserved'
    BY <2>1, <2>2, <2>3, <2>4, <1>2 DEF RowInv, Reserved, InHandler, Request
  <2>6. RowsTrue'
    BY <2>2, <2>3, <2>4 DEF RowInv, RowsTrue
  <2>7. OutcomesTrue'
    BY <2>1, <2>2, <1>2 DEF RowInv, OutcomesTrue, True, Request
  <2> QED
    BY <2>1, <2>5, <2>6, <2>7, <1>4 DEF RowInv, AppliedOnce
<1> QED
  BY <1>5, <1>6, <1>7, <1>8, <1>9 DEF ServerStep

\* RowInv holds whatever is lost, repeated or crashes, overlapping requests included.
THEOREM RowInvariant == CommandSpec => [](CommandTypeOK /\ RowInv)
<1>1. CommandInit => RowInv
  BY CommandAssumption
     DEF CommandInit, RowInv, AppliedOnce, Reserved, RowsTrue, OutcomesTrue, True,
         SubmittedFirst, Untouched, IsApplied, InHandler, Request
<1>2. CommandTypeOK /\ RowInv /\ [CommandNext]_commandVars => RowInv'
  <2> SUFFICES ASSUME CommandTypeOK, RowInv, [CommandNext]_commandVars PROVE RowInv'
    OBVIOUS
  <2>1. \/ ClientEffect \/ ForeignChange
        \/ \E c \in Commands, i \in Attempts : ServerStep(c, i)
    BY Effects DEF RowInv
  <2> QED
    BY <2>1, RowClient, RowForeign, RowHandler
<1> QED
  BY CommandTypeCorrect, <1>1, <1>2, PTL DEF CommandSpec

\* A caller told of success has its command applied, one told of a conflict never
\* will, whatever requests are repeated and however far their handlers came.
THEOREM AnswersCorrect == CommandSpec => []AnswersAreTrue
<1>1. CommandTypeOK /\ RowInv => AnswersAreTrue
  <2> SUFFICES ASSUME CommandTypeOK, RowInv, NEW c \in Commands
               PROVE  /\ promise[c] = "resolved" => Contains(applied, c)
                      /\ promise[c] = "conflict" => ~Contains(applied, c)
    BY DEF AnswersAreTrue
  <2>1. DOMAIN applied = 1..Len(applied)
    BY SequenceEnds DEF CommandTypeOK
  <2>2. Contains(applied, c) <=> IsApplied(c)
    BY <2>1 DEF Contains, IsApplied
  <2> QED
    BY <2>2 DEF RowInv, OutcomesTrue, True
<1> QED
  BY RowInvariant, <1>1, PTL

-------------------------------------------------------------------------------
(* The order of commands, where a request is repeated only after the server is *)
(* done with the one before.                                                  *)

\* What the user submitted, and the queue: the commands not settled yet.
SubmittedOnce ==
  /\ \A k, l \in 1..Len(submitted) : submitted[k] = submitted[l] => k = l
  /\ \A c \in Commands :
       promise[c] = "none" <=> \A k \in 1..Len(submitted) : submitted[k] # c

QueueIsSuffix ==
  /\ Len(queue) <= Len(submitted)
  /\ \A k \in 1..Len(queue) : /\ queue[k] = submitted[Len(submitted) - Len(queue) + k]
                              /\ promise[queue[k]] \in {"pending", "cancelled"}

\* Only the head of the queue has ever been sent.
NeverSent(c) == Untouched(c) /\ ~IsApplied(c)
OthersWait ==
  /\ \A c \in Commands : promise[c] = "none" => NeverSent(c)
  /\ \A k \in 2..Len(queue) : NeverSent(queue[k])

\* A request under way is the head's, but for commands of an ended session; while one
\* is awaited the head has no other.
OneInFlight ==
  /\ \A c \in Commands :
       Underway(c) # {} => (Len(queue) > 0 /\ c = queue[1]) \/ promise[c] = "cancelled"
  /\ flush = "awaiting" => Underway(sending[1]) \subseteq {sending[2]}

InOrder ==
  \A k, l \in DOMAIN applied :
    k < l => \/ Before(applied[k], applied[l])
             \/ "cancelled" \in {promise[applied[k]], promise[applied[l]]}

FlightInv == SubmittedOnce /\ QueueIsSuffix /\ OthersWait /\ OneInFlight /\ InOrder

\* A new command is the last of the queue and of all submitted.
LEMMA FlightSubmit ==
  ASSUME CommandTypeOK, FlightInv, NEW c \in Commands, NEW seen \in Nat, Submit(c, seen)
  PROVE  FlightInv'
<1>1. /\ submitted \in Seq(Commands) /\ queue \in Seq(Commands)
      /\ submitted' = Append(submitted, c) /\ queue' = Append(queue, c)
      /\ promise[c] = "none" /\ promise'[c] = "pending"
      /\ \A d \in Commands : d # c => promise'[d] = promise[d]
      /\ UNCHANGED <<applied, attempt, sending>>
      /\ flush' = "awaiting" => flush = "awaiting"
  BY DEF CommandTypeOK, Submit, serverVars
<1>2. /\ Len(submitted) \in Nat /\ Len(submitted') = Len(submitted) + 1
      /\ submitted'[Len(submitted) + 1] = c
      /\ \A k \in 1..Len(submitted) : submitted'[k] = submitted[k] /\ submitted[k] \in Commands
      /\ DOMAIN submitted = 1..Len(submitted) /\ DOMAIN submitted' = 1..(Len(submitted) + 1)
  BY <1>1, SequenceEnds
<1>3. /\ Len(queue) \in Nat /\ Len(queue') = Len(queue) + 1
      /\ queue'[Len(queue) + 1] = c
      /\ \A k \in 1..Len(queue) : queue'[k] = queue[k] /\ queue[k] \in Commands
  BY <1>1, SequenceEnds
<1>4. /\ \A d \in Commands : (NeverSent(d)' <=> NeverSent(d)) /\ Underway(d)' = Underway(d)
      /\ NeverSent(c) /\ Underway(c) = {}
  <2>1. \A d \in Commands : (NeverSent(d)' <=> NeverSent(d)) /\ Underway(d)' = Underway(d)
    BY <1>1 DEF NeverSent, Untouched, IsApplied, Underway
  <2>2. NeverSent(c)
    BY <1>1 DEF FlightInv, OthersWait
  <2>3. \A i \in Attempts : attempt[c][i].at = "unsent"
    BY <2>2 DEF NeverSent, Untouched, Request
  <2>4. Underway(c) = {}
    BY <2>3 DEF Underway
  <2> QED
    BY <2>1, <2>2, <2>4
<1>5. SubmittedOnce'
  <2>1. /\ \A k, l \in 1..Len(submitted) : submitted[k] = submitted[l] => k = l
        /\ \A d \in Commands :
             promise[d] = "none" <=> \A k \in 1..Len(submitted) : submitted[k] # d
    BY DEF FlightInv, SubmittedOnce
  <2>2. \A k \in 1..Len(submitted) : submitted[k] # c
    BY <1>1, <2>1
  <2>3. \A k \in 1..Len(submitted') :
          IF k = Len(submitted) + 1 THEN submitted'[k] = c
          ELSE k \in 1..Len(submitted) /\ submitted'[k] = submitted[k]
    BY <1>2
  <2>4. \A k, l \in 1..Len(submitted') : submitted'[k] = submitted'[l] => k = l
    BY <2>1, <2>2, <2>3
  <2>5. ASSUME NEW d \in Commands
        PROVE  promise'[d] = "none" <=> \A k \in 1..Len(submitted') : submitted'[k] # d
    BY <1>1, <1>2, <2>3, <2>1
  <2> QED
    BY <2>4, <2>5 DEF SubmittedOnce
<1>6. QueueIsSuffix'
  <2>1. \A k \in 1..Len(queue) : queue[k] # c
    BY <1>1 DEF FlightInv, QueueIsSuffix
  <2>2. ASSUME NEW k \in 1..Len(queue')
        PROVE  /\ queue'[k] = submitted'[Len(submitted') - Len(queue') + k]
               /\ promise'[queue'[k]] \in {"pending", "cancelled"}
    <3>1. CASE k = Len(queue) + 1
      BY <3>1, <1>1, <1>2, <1>3
    <3>2. CASE k # Len(queue) + 1
      <4>1. k \in 1..Len(queue) /\ Len(submitted) - Len(queue) + k \in 1..Len(submitted)
        BY <3>2, <1>2, <1>3 DEF FlightInv, QueueIsSuffix
      <4>2. /\ queue'[k] = queue[k] /\ queue[k] # c /\ queue[k] \in Commands
            /\ promise'[queue[k]] = promise[queue[k]]
        BY <4>1, <2>1, <1>1, <1>3
      <4>3. /\ queue[k] = submitted[Len(submitted) - Len(queue) + k]
            /\ promise[queue[k]] \in {"pending", "cancelled"}
        BY <4>1 DEF FlightInv, QueueIsSuffix
      <4>4. submitted'[Len(submitted') - Len(queue') + k]
              = submitted[Len(submitted) - Len(queue) + k]
        BY <4>1, <1>2, <1>3
      <4> QED
        BY <4>2, <4>3, <4>4
    <3> QED
      BY <3>1, <3>2
  <2> QED
    BY <2>2, <1>2, <1>3 DEF FlightInv, QueueIsSuffix
<1>7. OthersWait'
  <2>1. /\ \A d \in Commands : promise[d] = "none" => NeverSent(d)
        /\ \A k \in 2..Len(queue) : NeverSent(queue[k])
    BY DEF FlightInv, OthersWait
  <2>2. ASSUME NEW d \in Commands, promise'[d] = "none" PROVE NeverSent(d)'
    <3>1. promise[d] = "none"
      BY <1>1, <2>2
    <3> QED
      BY <1>4, <2>1, <3>1
  <2>3. ASSUME NEW k \in 2..Len(queue') PROVE \E d \in Commands : d = queue'[k] /\ NeverSent(d)
    <3>1. CASE k = Len(queue) + 1
      BY <1>3, <1>4, <3>1
    <3>2. CASE k # Len(queue) + 1
      <4>1. k \in 2..Len(queue) /\ k \in 1..Len(queue)
        BY <1>3, <3>2
      <4> QED
        BY <1>3, <2>1, <4>1
    <3> QED
      BY <3>1, <3>2
  <2>4. \A k \in 2..Len(queue') : NeverSent(queue[k])'
    BY <1>4, <2>3
  <2> QED
    BY <2>2, <2>4 DEF OthersWait
<1>8. OneInFlight'
  <2>1. /\ \A d \in Commands :
             Underway(d) # {} => (Len(queue) > 0 /\ d = queue[1]) \/ promise[d] = "cancelled"
        /\ flush = "awaiting" => Underway(sending[1]) \subseteq {sending[2]}
    BY DEF FlightInv, OneInFlight
  <2>2. ASSUME NEW d \in Commands, Underway(d)' # {}
        PROVE  (Len(queue') > 0 /\ d = queue'[1]) \/ promise'[d] = "cancelled"
    <3>1. Underway(d) # {} /\ d # c
      BY <1>4, <2>2
    <3>2. promise'[d] = promise[d]
      BY <1>1, <3>1
    <3> QED
      BY <1>3, <2>1, <3>1, <3>2
  <2>3. flush' = "awaiting" => Underway(sending[1])' \subseteq {sending'[2]}
    BY <1>1, <2>1 DEF Underway
  <2> QED
    BY <2>2, <2>3 DEF OneInFlight
<1>9. InOrder'
  <2>1. \A d, e : Before(d, e) => Before(d, e)'
    BY <1>2 DEF Before
  <2>2. \A k \in DOMAIN applied : applied[k] \in Commands
    BY SequenceEnds DEF CommandTypeOK
  <2> QED
    BY <2>1, <2>2, <1>1 DEF FlightInv, InOrder
<1> QED
  BY <1>5, <1>6, <1>7, <1>8, <1>9 DEF FlightInv

\* Steps that leave the queue, and at most end requests or cancel promises.
Fades ==
  /\ UNCHANGED <<submitted, queue, applied>>
  /\ \A c \in Commands : /\ Underway(c)' \subseteq Underway(c)
                         /\ Untouched(c) => Untouched(c)'
                         /\ \/ promise'[c] = promise[c]
                            \/ promise[c] = "pending" /\ promise'[c] = "cancelled"
  /\ flush' = "awaiting" => flush = "awaiting" /\ sending' = sending

LEMMA FlightFades == CommandTypeOK /\ FlightInv /\ Fades => FlightInv'
<1> SUFFICES ASSUME CommandTypeOK, FlightInv, Fades PROVE FlightInv'
  OBVIOUS
<1>1. /\ \A k \in 1..Len(queue) : queue[k] \in Commands
      /\ \A k \in DOMAIN applied : applied[k] \in Commands
  BY SequenceEnds DEF CommandTypeOK
<1>2. SubmittedOnce'
  BY DEF FlightInv, SubmittedOnce, Fades
<1>3. QueueIsSuffix'
  BY <1>1 DEF FlightInv, QueueIsSuffix, Fades
<1>4. \A c \in Commands : NeverSent(c) => NeverSent(c)'
  BY DEF NeverSent, IsApplied, Fades
<1>5. OthersWait'
  BY <1>1, <1>4 DEF FlightInv, OthersWait, Fades
<1>6. OneInFlight'
  BY Awaited DEF Fades, FlightInv, OneInFlight, Underway
<1>7. InOrder'
  BY <1>1 DEF FlightInv, InOrder, Before, Fades
<1> QED
  BY <1>2, <1>3, <1>5, <1>6, <1>7 DEF FlightInv

\* The head is sent when no request of it is under way.
LEMMA FlightSend ==
  ASSUME CommandTypeOK, FlightInv, ~Overlapping, NEW i \in Attempts, Send(i)
  PROVE  FlightInv'
<1> DEFINE h == Head(queue)
<1>1. /\ queue \in Seq(Commands) /\ queue # <<>> /\ h = queue[1] /\ h \in Commands
      /\ Len(queue) > 0 /\ \A k \in 1..Len(queue) : queue[k] \in Commands
  BY SequenceEnds DEF CommandTypeOK, Send
<1>2. /\ promise[h] = "pending" /\ Underway(h) = {}
      /\ Move(h, i, "sent", "none") /\ sending' = <<h, i>>
      /\ UNCHANGED <<applied, submitted, queue, promise>>
  BY DEF Send, serverVars
<1>3. \A d \in Commands, j \in Attempts : d # h \/ j # i => attempt'[d][j] = attempt[d][j]
  BY <1>1, <1>2, MoveRows
<1>4. /\ Underway(h)' \subseteq {i}
      /\ \A d \in Commands : d # h => Underway(d)' = Underway(d)
  BY <1>1, <1>2, <1>3 DEF Underway
<1>5. \A d \in Commands : d # h => (NeverSent(d)' <=> NeverSent(d))
  BY <1>2, <1>3 DEF NeverSent, Untouched, IsApplied
<1>6. \A k \in 2..Len(queue) : queue[k] # h
  <2>1. /\ Len(submitted) \in Nat /\ Len(queue) \in Nat
    BY SequenceEnds DEF CommandTypeOK
  <2>2. \A k \in 1..Len(queue) : /\ queue[k] = submitted[Len(submitted) - Len(queue) + k]
                                 /\ Len(submitted) - Len(queue) + k \in 1..Len(submitted)
    BY <2>1 DEF FlightInv, QueueIsSuffix
  <2>3. \A k \in 2..Len(queue) :
          Len(submitted) - Len(queue) + k # Len(submitted) - Len(queue) + 1
    BY <2>1
  <2> QED
    BY <1>1, <2>1, <2>2, <2>3 DEF FlightInv, SubmittedOnce
<1>7. SubmittedOnce' /\ QueueIsSuffix' /\ InOrder'
  BY <1>2 DEF FlightInv, SubmittedOnce, QueueIsSuffix, InOrder, Before
<1>8. OthersWait'
  BY <1>2, <1>5, <1>6, <1>1, SequenceEnds DEF FlightInv, OthersWait
<1>9. OneInFlight'
  BY <1>1, <1>4, <1>2 DEF FlightInv, OneInFlight, Underway
<1> QED
  BY <1>7, <1>8, <1>9 DEF FlightInv

\* The queue loses its head, of which nothing is under way or which is of an ended session.
Advances ==
  /\ queue # <<>> /\ queue' = Tail(queue)
  /\ UNCHANGED <<submitted, applied>>
  /\ flush' # "awaiting"
  /\ \A c \in Commands :
       /\ c # Head(queue) => /\ promise'[c] = promise[c]
                             /\ \A i \in Attempts : attempt'[c][i] = attempt[c][i]
       /\ c = Head(queue) =>
            /\ Underway(c)' # {} => promise'[c] = "cancelled"
            /\ promise[c] = "cancelled" => promise'[c] = "cancelled"
            /\ promise'[c] # "none"

LEMMA FlightAdvances == CommandTypeOK /\ FlightInv /\ Advances => FlightInv'
<1> SUFFICES ASSUME CommandTypeOK, FlightInv, Advances PROVE FlightInv'
  OBVIOUS
<1> DEFINE h == Head(queue)
<1>1. /\ queue \in Seq(Commands) /\ h = queue[1] /\ h \in Commands
      /\ Len(queue) \in Nat /\ Len(queue) > 0
      /\ Len(queue') = Len(queue) - 1
      /\ \A k \in 1..Len(queue') : queue'[k] = queue[k + 1]
      /\ \A k \in 1..Len(queue) : queue[k] \in Commands
      /\ Len(submitted) \in Nat
      /\ \A k \in DOMAIN applied : applied[k] \in Commands
  BY SequenceEnds DEF CommandTypeOK, Advances
<1>2. \A k \in 1..Len(queue) : /\ queue[k] = submitted[Len(submitted) - Len(queue) + k]
                               /\ Len(submitted) - Len(queue) + k \in 1..Len(submitted)
  BY <1>1 DEF FlightInv, QueueIsSuffix
<1>3. \A k \in 2..Len(queue) : queue[k] # h
  BY <1>1, <1>2 DEF FlightInv, SubmittedOnce
<1>4. /\ promise[h] # "none" /\ promise'[h] # "none"
      /\ \A c \in Commands : promise[c] = "cancelled" => promise'[c] = "cancelled"
      /\ \A c \in Commands : promise'[c] = "none" <=> promise[c] = "none"
  BY <1>1 DEF FlightInv, QueueIsSuffix, Advances
<1>5. \A c \in Commands : c # h => (NeverSent(c)' <=> NeverSent(c)) /\ Underway(c)' = Underway(c)
  BY DEF NeverSent, Untouched, IsApplied, Underway, Advances
<1>6. SubmittedOnce'
  BY <1>4 DEF FlightInv, SubmittedOnce, Advances
<1>7. QueueIsSuffix'
  <2>1. ASSUME NEW k \in 1..Len(queue')
        PROVE  /\ queue'[k] = submitted[Len(submitted) - Len(queue') + k]
               /\ promise'[queue'[k]] \in {"pending", "cancelled"}
    <3>1. k + 1 \in 2..Len(queue) /\ queue'[k] = queue[k + 1]
      BY <1>1
    <3>2. promise'[queue[k + 1]] = promise[queue[k + 1]]
      BY <3>1, <1>1, <1>3 DEF Advances
    <3> QED
      BY <3>1, <3>2, <1>1, <1>2 DEF FlightInv, QueueIsSuffix
  <2> QED
    BY <2>1, <1>1 DEF FlightInv, QueueIsSuffix, Advances
<1>8. OthersWait'
  BY <1>4, <1>5, <1>1, <1>3 DEF FlightInv, OthersWait
<1>9. OneInFlight'
  BY <1>1, <1>4, <1>5 DEF FlightInv, OneInFlight, Advances
<1>10. InOrder'
  BY <1>1, <1>4 DEF FlightInv, InOrder, Before, Advances
<1> QED
  BY <1>6, <1>7, <1>8, <1>9, <1>10 DEF FlightInv

\* What each step of the queue, its environment or the server is to FlightInv.
LEMMA FlightFadesSteps ==
  ASSUME CommandTypeOK, FlightInv,
         Trigger \/ FlushReturns \/ FlushCleared \/ NoticeCrash \/ SessionEnds \/ Lose
           \/ ForeignChange \/ ServerCrash \/ UNCHANGED commandVars
  PROVE  Fades
<1>1. CASE Trigger \/ FlushReturns \/ FlushCleared \/ NoticeCrash
  BY <1>1 DEF Trigger, FlushReturns, FlushCleared, NoticeCrash, Fades, Underway, Untouched,
              serverVars
<1>2. CASE SessionEnds
  BY <1>2 DEF CommandTypeOK, SessionEnds, Fades, Underway, Untouched, serverVars
<1>3. CASE Lose
  <2>1. /\ sending[1] \in Commands /\ sending[2] \in Attempts
        /\ \/ UNCHANGED attempt
           \/ /\ Move(sending[1], sending[2], "gone", "none")
              /\ attempt[sending[1]][sending[2]].at \in {"sent", "answered"}
        /\ UNCHANGED <<submitted, queue, applied, promise>> /\ flush' = "ended"
    BY <1>3, Awaited DEF Lose, serverVars
  <2>2. CASE UNCHANGED attempt
    BY <2>1, <2>2 DEF Fades, Underway, Untouched
  <2>3. CASE /\ Move(sending[1], sending[2], "gone", "none")
             /\ attempt[sending[1]][sending[2]].at \in {"sent", "answered"}
    <3>1. /\ attempt'[sending[1]][sending[2]] = Request("gone", "none")
          /\ \A d \in Commands, j \in Attempts :
               d # sending[1] \/ j # sending[2] => attempt'[d][j] = attempt[d][j]
      BY <2>1, <2>3, MoveRows
    <3>2. \A d \in Commands : Underway(d)' \subseteq Underway(d)
      BY <3>1 DEF Underway, Request
    <3>3. \A d \in Commands : Untouched(d) => Untouched(d)'
      BY <2>1, <2>3, <3>1 DEF Untouched, Request
    <3> QED
      BY <2>1, <3>2, <3>3 DEF Fades
  <2> QED
    BY <2>1, <2>2, <2>3
<1>4. CASE ForeignChange
  BY <1>4 DEF ForeignChange, Fades, Underway, Untouched, clientVars
<1>5. CASE ServerCrash
  BY <1>5 DEF ServerCrash, Underway, Untouched, Request, Fades, clientVars, serverVars
<1>6. CASE UNCHANGED commandVars
  BY <1>6 DEF commandVars, clientVars, serverVars, Fades, Underway, Untouched
<1> QED
  BY <1>1, <1>2, <1>3, <1>4, <1>5, <1>6

LEMMA FlightAdvancesSteps ==
  ASSUME CommandTypeOK, FlightInv, Skip \/ Receive
  PROVE  Advances
<1>1. queue # <<>> => Head(queue) \in Commands /\ promise[Head(queue)] \in {"pending", "cancelled"}
  BY SequenceEnds DEF CommandTypeOK, FlightInv, QueueIsSuffix
<1>2. CASE Skip
  BY <1>1, <1>2 DEF Skip, Advances, serverVars
<1>3. CASE Receive
  <2>1. /\ queue # <<>> /\ sending[1] = Head(queue)
        /\ sending[1] \in Commands /\ sending[2] \in Attempts
        /\ Move(sending[1], sending[2], "gone", "none")
        /\ promise' = IF promise[sending[1]] = "pending"
                      THEN [promise EXCEPT ![sending[1]] =
                              Told(attempt[sending[1]][sending[2]].outcome)] ELSE promise
        /\ queue' = Tail(queue) /\ flush' = "running"
        /\ UNCHANGED <<submitted, applied>>
    BY <1>3, Awaited DEF Receive, serverVars
  <2>2. /\ attempt'[sending[1]][sending[2]] = Request("gone", "none")
        /\ \A d \in Commands, j \in Attempts :
             d # sending[1] \/ j # sending[2] => attempt'[d][j] = attempt[d][j]
    BY <2>1, MoveRows
  <2>3. Underway(Head(queue)) \subseteq {sending[2]}
    BY <1>3, <2>1 DEF FlightInv, OneInFlight, Receive
  <2>4. ASSUME NEW c \in Commands, c = Head(queue) PROVE Underway(c)' = {}
    BY <2>1, <2>2, <2>3, <2>4 DEF Underway, Request
  <2>5. \A o : Told(o) # "none"
    BY DEF Told
  <2>6. \A c \in Commands : c # Head(queue) => promise'[c] = promise[c]
    BY <2>1 DEF CommandTypeOK
  <2>7. /\ promise[Head(queue)] = "cancelled" => promise'[Head(queue)] = "cancelled"
        /\ promise'[Head(queue)] # "none"
    BY <1>1, <2>1, <2>5 DEF CommandTypeOK
  <2> QED
    BY <2>1, <2>2, <2>4, <2>6, <2>7 DEF Advances
<1> QED
  BY <1>2, <1>3

\* A commit comes after those of all commands submitted before: what was submitted
\* later still waits behind the head.
LEMMA FlightHandler ==
  ASSUME CommandTypeOK, RowInv, FlightInv, NEW c \in Commands, NEW i \in Attempts,
         ServerStep(c, i)
  PROVE  FlightInv'
<1>1. /\ UNCHANGED clientVars
      /\ i \in Underway(c)
      /\ \E w, o : Move(c, i, w, o)
  BY DEF ServerStep, Reserve, Replay, Commit, Refuse, Finish, Underway
<1>2. \A d \in Commands, j \in Attempts : d # c \/ j # i => attempt'[d][j] = attempt[d][j]
  BY <1>1, MoveRows
<1>3. /\ \A d \in Commands : Underway(d)' \subseteq Underway(d)
      /\ \A d \in Commands : Untouched(d) => d # c /\ Untouched(d)'
  BY <1>1, <1>2 DEF Underway, Untouched, Request
<1>4. CASE UNCHANGED applied
  <2>1. Fades
    BY <1>1, <1>3, <1>4 DEF Fades, clientVars
  <2> QED
    BY <2>1, FlightFades
<1>5. CASE applied' = Append(applied, c) /\ attempt[c][i].at = "handling"
  <2>1. /\ applied \in Seq(Commands) /\ queue \in Seq(Commands) /\ submitted \in Seq(Commands)
    BY DEF CommandTypeOK
  <2>2. /\ DOMAIN applied = 1..Len(applied) /\ Len(applied) \in Nat
        /\ DOMAIN applied' = 1..(Len(applied) + 1)
        /\ applied'[Len(applied) + 1] = c
        /\ \A k \in 1..Len(applied) : applied'[k] = applied[k] /\ applied[k] \in Commands
        /\ Len(queue) \in Nat /\ Len(submitted) \in Nat
        /\ \A k \in 1..Len(queue) : queue[k] \in Commands
        /\ DOMAIN submitted = 1..Len(submitted)
    BY <1>5, <2>1, SequenceEnds
  <2>3. ~IsApplied(c)
    BY <1>5 DEF RowInv, Reserved, InHandler
  <2>4. \A d \in Commands : NeverSent(d) => NeverSent(d)'
    BY <1>3, <2>2 DEF NeverSent, IsApplied
  <2>5. SubmittedOnce' /\ QueueIsSuffix'
    BY <1>1 DEF FlightInv, SubmittedOnce, QueueIsSuffix, clientVars
  <2>6. OthersWait'
    BY <2>4, <1>1, <2>2 DEF FlightInv, OthersWait, clientVars
  <2>7. OneInFlight'
    <3>1. ASSUME NEW d \in Commands, Underway(d)' # {}
          PROVE  (Len(queue) > 0 /\ d = queue[1]) \/ promise[d] = "cancelled"
      BY <3>1, <1>3 DEF FlightInv, OneInFlight
    <3>2. flush = "awaiting" => Underway(sending[1])' \subseteq {sending[2]}
      <4> SUFFICES ASSUME flush = "awaiting" PROVE Underway(sending[1])' \subseteq {sending[2]}
        OBVIOUS
      <4>1. sending[1] \in Commands /\ sending' = sending
        BY Awaited, <1>1 DEF clientVars
      <4> QED
        BY <4>1, <1>3 DEF FlightInv, OneInFlight, Underway
    <3> QED
      BY <1>1, <3>1, <3>2 DEF OneInFlight, clientVars
  <2>8. ASSUME NEW k \in 1..Len(applied)
        PROVE  Before(applied[k], c) \/ promise[c] = "cancelled"
    <3> DEFINE d == applied[k]
               first == Len(submitted) - Len(queue) + 1
    <3>1. d \in Commands /\ IsApplied(d) /\ d # c
      BY <2>2, <2>3 DEF IsApplied
    <3>2. CASE promise[c] # "cancelled"
      <4>1. Len(queue) > 0 /\ c = queue[1]
        BY <1>1, <3>2 DEF FlightInv, OneInFlight
      <4>2. c = submitted[first] /\ first \in 1..Len(submitted)
        BY <4>1, <2>2 DEF FlightInv, QueueIsSuffix
      <4>3. PICK l \in 1..Len(submitted) : submitted[l] = d
        BY <3>1 DEF FlightInv, OthersWait, NeverSent, SubmittedOnce
      <4>4. l <= first
        <5> SUFFICES ASSUME l > first PROVE FALSE
          BY <4>2
        <5>1. /\ l - (Len(submitted) - Len(queue)) \in 2..Len(queue)
              /\ Len(submitted) - Len(queue) + (l - (Len(submitted) - Len(queue))) = l
          BY <2>2, <4>2
        <5>2. queue[l - (Len(submitted) - Len(queue))] = d
          BY <5>1, <4>3 DEF FlightInv, QueueIsSuffix
        <5>3. NeverSent(d)
          BY <5>1, <5>2 DEF FlightInv, OthersWait
        <5> QED
          BY <5>3, <3>1 DEF NeverSent
      <4>5. l < first
        BY <4>2, <4>3, <4>4, <3>1
      <4> QED
        BY <4>2, <4>3, <4>5, <2>2 DEF Before
    <3> QED
      BY <3>2
  <2>9. InOrder'
    <3> SUFFICES ASSUME NEW k \in DOMAIN applied', NEW l \in DOMAIN applied', k < l
                 PROVE  \/ Before(applied'[k], applied'[l])
                        \/ "cancelled" \in {promise[applied'[k]], promise[applied'[l]]}
      BY <1>1 DEF InOrder, Before, clientVars
    <3>1. CASE l \in 1..Len(applied)
      BY <3>1, <2>2 DEF FlightInv, InOrder
    <3>2. CASE l = Len(applied) + 1
      BY <3>2, <2>2, <2>8
    <3> QED
      BY <3>1, <3>2, <2>2
  <2> QED
    BY <2>5, <2>6, <2>7, <2>9 DEF FlightInv
<1> QED
  BY <1>4, <1>5 DEF ServerStep, Reserve, Replay, Commit, Refuse, Finish, serverVars

\* FlightInv holds as long as requests do not overlap.
THEOREM FlightInvariant ==
  ASSUME ~Overlapping
  PROVE  CommandSpec => []FlightInv
<1>1. CommandInit => FlightInv
  BY CommandAssumption
     DEF CommandInit, FlightInv, SubmittedOnce, QueueIsSuffix, OthersWait, NeverSent, Untouched,
         IsApplied, OneInFlight, Underway, InOrder, Request
<1>2. CommandTypeOK /\ RowInv /\ FlightInv /\ [CommandNext]_commandVars => FlightInv'
  <2> SUFFICES ASSUME CommandTypeOK, RowInv, FlightInv, [CommandNext]_commandVars
               PROVE  FlightInv'
    OBVIOUS
  <2>1. ASSUME NEW c \in Commands, NEW seen \in 0..version, Submit(c, seen) PROVE FlightInv'
    BY <2>1, FlightSubmit DEF CommandTypeOK
  <2>2. ASSUME NEW i \in Attempts, Send(i) PROVE FlightInv'
    BY <2>2, FlightSend
  <2>3. CASE Skip \/ Receive
    BY <2>3, FlightAdvancesSteps, FlightAdvances
  <2>4. ASSUME NEW c \in Commands, NEW i \in Attempts, ServerStep(c, i) PROVE FlightInv'
    BY <2>4, FlightHandler
  <2>5. CASE Trigger \/ FlushReturns \/ FlushCleared \/ NoticeCrash \/ SessionEnds \/ Lose
             \/ ForeignChange \/ ServerCrash \/ UNCHANGED commandVars
    BY <2>5, FlightFadesSteps, FlightFades
  <2> QED
    BY <2>1, <2>2, <2>3, <2>4, <2>5 DEF CommandNext, QueueStep
<1> QED
  BY RowInvariant, <1>1, <1>2, PTL DEF CommandSpec

\* Each command is applied at most once and those of one session in the order of their
\* submission, over any number of commands, losses, crashes and ended sessions
\* (command-queue.ts, idempotency-middleware.ts).
THEOREM CommandsInOrder ==
  ASSUME ~Overlapping
  PROVE  CommandSpec => []AppliedOnceInOrder
<1>1. CommandTypeOK /\ RowInv /\ FlightInv => AppliedOnceInOrder
  <2> SUFFICES ASSUME CommandTypeOK, RowInv, FlightInv,
                      NEW k \in DOMAIN applied, NEW l \in DOMAIN applied, k < l
               PROVE  /\ applied[k] # applied[l]
                      /\ \/ Before(applied[k], applied[l])
                         \/ "cancelled" \in {promise[applied[k]], promise[applied[l]]}
    BY DEF AppliedOnceInOrder
  <2>1. k \in Nat /\ l \in Nat
    <3>1. applied \in Seq(Commands)
      BY DEF CommandTypeOK
    <3>2. DOMAIN applied = 1..Len(applied)
      BY <3>1
    <3> QED
      BY <3>2
  <2> QED
    BY <2>1 DEF RowInv, AppliedOnce, FlightInv, InOrder
<1> QED
  BY RowInvariant, FlightInvariant, <1>1, PTL

\* Nothing of an ended session is sent, over any interleaving of sign-out, flush and
\* answers (cancelPending of commandQueue.ts), overlapping requests included.
THEOREM SessionsEnd == CommandSpec => NothingSentAfterSession
<1> DEFINE Kept == \A c \in Commands : promise[c] = "cancelled" => Unsent(c) = Unsent(c)'
<1>1. CommandTypeOK /\ [CommandNext]_commandVars => Kept
  <2> SUFFICES ASSUME CommandTypeOK, [CommandNext]_commandVars PROVE Kept
    OBVIOUS
  <2>1. ASSUME NEW c \in Commands, NEW i \in Attempts, NEW w, NEW o,
               attempt[c][i].at # "unsent", w # "unsent", Move(c, i, w, o)
        PROVE  Kept
    <3>1. /\ attempt'[c][i] = Request(w, o)
          /\ \A d \in Commands, j \in Attempts : d # c \/ j # i => attempt'[d][j] = attempt[d][j]
      BY <2>1, MoveRows
    <3> QED
      BY <2>1, <3>1 DEF Unsent, Request
  <2>2. CASE UNCHANGED attempt
    BY <2>2 DEF Unsent
  <2>3. ASSUME NEW i \in Attempts, Send(i) PROVE Kept
    <3>1. Head(queue) \in Commands /\ promise[Head(queue)] = "pending"
          /\ Move(Head(queue), i, "sent", "none")
      BY <2>3 DEF Send, CommandTypeOK
    <3>2. \A d \in Commands, j \in Attempts : d # Head(queue) => attempt'[d][j] = attempt[d][j]
      BY <3>1, MoveRows
    <3> QED
      BY <3>1, <3>2 DEF Unsent
  <2>4. CASE Receive \/ Lose
    BY <2>4, Awaited, <2>1, <2>2 DEF Receive, Lose
  <2>5. ASSUME NEW c \in Commands, NEW i \in Attempts, ServerStep(c, i) PROVE Kept
    BY <2>5, <2>1 DEF ServerStep, Reserve, Replay, Commit, Refuse, Finish, Places
  <2>6. CASE ServerCrash
    BY <2>6 DEF ServerCrash, Unsent, Underway, Request
  <2> QED
    BY <2>2, <2>3, <2>4, <2>5, <2>6
       DEF CommandNext, QueueStep, Submit, Trigger, Skip, FlushReturns, FlushCleared,
           NoticeCrash, SessionEnds, ForeignChange, commandVars
<1>2. CommandTypeOK /\ [CommandNext]_commandVars => [Kept]_commandVars
  BY <1>1
<1> QED
  BY CommandTypeCorrect, <1>2, PTL DEF CommandSpec, NothingSentAfterSession

-------------------------------------------------------------------------------
(* Access: the inductive invariant *)

CodeRows == [is : {"pending", "claimed", "expired"}, user : Members, expires : Nat, epoch : Nat]
DeviceRows == [is : {"active", "revoked"}, user : Members, code : Codes,
               tokens : SUBSET AllKinds, expires : Nat, dead : Nat, epoch : Nat]
SessionRows == [is : {"active", "revoked"}, user : Members, expires : Nat, dead : Nat,
                epoch : Nat]
OpenSockets == [is : {"granted", "live"}, cred : Credentials, checked : BOOLEAN,
                straddled : BOOLEAN]

AccessTypeOK ==
  /\ suspended \subseteq Members /\ epoch \in [Members -> Nat]
  /\ code \in [Codes -> CodeRows \cup {Absent}]
  /\ claim \in [Devices -> SUBSET Codes]
  /\ device \in [Devices -> DeviceRows \cup {Absent}]
  /\ session \in [Sessions -> SessionRows \cup {Absent}]
  /\ signing \subseteq Members
  /\ socket \in [Sockets -> OpenSockets \cup {Absent, [is |-> "closed"]}]
  /\ closing \subseteq Devices \X {AllKinds, {"control"}}
  /\ now \in 0 .. LastTick

\* Issued since the last suspension of its member, which is not suspended.
CurrentRow(entry) == entry.user \notin suspended /\ entry.epoch = epoch[entry.user]

SessionsCurrent ==
  \A s \in Sessions : session[s].is = "active" => CurrentRow(session[s]) /\ session[s].dead = Never

CodesCurrent == \A c \in Codes : code[c].is = "pending" => CurrentRow(code[c])

DevicesCurrent ==
  \A d \in Devices : device[d] # Absent =>
    /\ code[device[d].code].is = "claimed"
    /\ device[d].is = "active" => CurrentRow(device[d])
    /\ "control" \in device[d].tokens => device[d].is = "active" /\ device[d].dead = Never

\* A claim is for a device that is not there, and a code that is.
ClaimsComeFirst ==
  \A d \in Devices : \A c \in claim[d] : device[d] = Absent /\ code[c] # Absent

RowOf(cred) == IF cred[1] = "session" THEN session[cred[2]] ELSE device[cred[2]]

AliveAt(cred, t) ==
  /\ RowOf(cred) # Absent
  /\ cred[1] # "node" => RowOf(cred).dead >= t /\ RowOf(cred).expires >= t

\* A client socket was checked at this instant or the one before, and its
\* credential was alive then.
LastLook(sock) == IF sock.is = "granted" \/ sock.checked THEN now ELSE now - 1

SocketsChecked ==
  \A k \in Sockets : socket[k].is \in {"granted", "live"} =>
    AliveAt(socket[k].cred, LastLook(socket[k]))

AccessInv ==
  /\ AccessTypeOK /\ SessionsCurrent /\ CodesCurrent /\ DevicesCurrent /\ ClaimsComeFirst
  /\ CodeUsedOnce /\ RevokedIsCut /\ SocketsChecked

-------------------------------------------------------------------------------
(* Access: lemmas *)

\* A credential is of a session or of a device.
LEMMA CredParts ==
  ASSUME NEW cred \in Credentials
  PROVE  \/ cred[1] = "session" /\ cred[2] \in Sessions
         \/ cred[1] \in AllKinds /\ cred[2] \in Devices
  BY DEF Credentials, AllKinds

\* Never is after every instant.
LEMMA NeverIsLate == AccessTypeOK => Never \in Nat /\ now \in Nat /\ Never >= now
  BY AccessAssumption DEF AccessTypeOK, Never

\* What happens to a entry that sockets may rest on.
Endures(entry, new) ==
  entry # Absent => new # Absent /\ new.expires = entry.expires /\ new.dead \in {entry.dead, now}

\* Sockets stay as well checked as they were when rows endure.
LEMMA RowsEndure ==
  ASSUME AccessTypeOK, SocketsChecked, socket' = socket, now' = now,
         \A s \in Sessions : Endures(session[s], session'[s]),
         \A d \in Devices : Endures(device[d], device'[d])
  PROVE  SocketsChecked'
<1> SUFFICES ASSUME NEW k \in Sockets, socket[k].is \in {"granted", "live"}
             PROVE  AliveAt(socket[k].cred, LastLook(socket[k]))'
  BY DEF SocketsChecked
<1> DEFINE cred == socket[k].cred
           since == LastLook(socket[k])
           new == IF cred[1] = "session" THEN session'[cred[2]] ELSE device'[cred[2]]
<1>1. socket[k] \in OpenSockets /\ cred \in Credentials
  BY DEF AccessTypeOK, Absent, OpenSockets
<1>2. Endures(RowOf(cred), new)
  <2> HIDE DEF cred
  <2>2. CASE cred[1] = "session" /\ cred[2] \in Sessions
    BY <2>2 DEF RowOf
  <2>3. CASE cred[1] # "session" /\ cred[2] \in Devices
    BY <2>3 DEF RowOf
  <2> QED
    BY <1>1, <2>2, <2>3, CredParts DEF AllKinds
<1>3. AliveAt(cred, since)
  BY DEF SocketsChecked
<1>4. now >= since
  BY DEF AccessTypeOK, LastLook
<1>5. new # Absent /\ (cred[1] # "node" => new.dead >= since /\ new.expires >= since)
  <2> HIDE DEF since, new, cred
  <2> QED
    BY <1>2, <1>3, <1>4 DEF Endures, AliveAt
<1> QED
  BY <1>5 DEF AliveAt, RowOf, LastLook

\* Where no device is newly revoked, or its sockets are still to close, the cut stays.
LEMMA CutStays ==
  ASSUME RevokedIsCut, socket' = socket,
         \A d \in Devices : device'[d].is = "revoked" /\ <<d, AllKinds>> \notin closing' =>
           device[d].is = "revoked" /\ <<d, AllKinds>> \notin closing
  PROVE  RevokedIsCut'
  BY DEF RevokedIsCut, Registered, Live

\* A entry that does not change endures.
LEMMA Lasts ==
  ASSUME NEW entry, now' = now  PROVE  Endures(entry, entry)
  BY DEF Endures

-------------------------------------------------------------------------------
(* Access: steps *)

\* Nobody has signed in.
LEMMA AccessInitOK == AccessInit => AccessInv
<1> SUFFICES ASSUME AccessInit  PROVE  AccessInv
  OBVIOUS
<1>1. AccessTypeOK
  BY AccessAssumption DEF AccessInit, AccessTypeOK
<1>2. SessionsCurrent /\ CodesCurrent /\ DevicesCurrent /\ ClaimsComeFirst
      /\ CodeUsedOnce /\ RevokedIsCut /\ SocketsChecked
  BY DEF AccessInit, SessionsCurrent, CodesCurrent, DevicesCurrent, ClaimsComeFirst,
     CodeUsedOnce, RevokedIsCut, SocketsChecked, Absent
<1> QED
  BY <1>1, <1>2 DEF AccessInv

\* provisionUser touches no credential.
LEMMA ProvisionUserOK ==
  ASSUME AccessInv, NEW u \in Members, ProvisionUser(u)  PROVE  AccessInv'
  BY DEF AccessInv, ProvisionUser, memberVars, pairingVars, AccessTypeOK, SessionsCurrent,
     CodesCurrent, DevicesCurrent, ClaimsComeFirst, CodeUsedOnce, RevokedIsCut, Registered,
     Live, SocketsChecked, AliveAt, LastLook, RowOf, CurrentRow

\* createSession looks at the suspension again.
LEMMA CreateSessionOK ==
  ASSUME AccessInv, NEW u \in Members, NEW s \in Sessions, CreateSession(u, s)
  PROVE  AccessInv'
<1> USE DEF AccessInv, CreateSession, memberVars, pairingVars
<1>1. \/ session' = session
      \/ /\ u \notin suspended /\ session[s] = Absent
         /\ session' = [session EXCEPT ![s] = [is |-> "active", user |-> u,
                                               expires |-> now + SessionLife,
                                               dead |-> Never, epoch |-> epoch[u]]]
  OBVIOUS
<1>2. AccessTypeOK'
  BY <1>1, NeverIsLate, AccessAssumption DEF AccessTypeOK, SessionRows
<1>3. SessionsCurrent'
  BY <1>1 DEF SessionsCurrent, CurrentRow, AccessTypeOK
<1>4. CodesCurrent' /\ DevicesCurrent' /\ ClaimsComeFirst' /\ CodeUsedOnce'
  BY DEF CodesCurrent, DevicesCurrent, ClaimsComeFirst, CodeUsedOnce, CurrentRow
<1>5. RevokedIsCut'
  BY CutStays
<1>6. SocketsChecked'
  BY <1>1, RowsEndure DEF Endures, AccessTypeOK
<1> QED
  BY <1>2, <1>3, <1>4, <1>5, <1>6

\* createPairing is for a member that is not suspended.
LEMMA CreatePairingOK ==
  ASSUME AccessInv, NEW u \in Members, NEW c \in Codes, CreatePairing(u, c)
  PROVE  AccessInv'
<1> USE DEF AccessInv, CreatePairing, memberVars
<1>2. AccessTypeOK'
  BY AccessAssumption DEF AccessTypeOK, CodeRows
<1>3. SessionsCurrent' /\ CodeUsedOnce' /\ RevokedIsCut' /\ SocketsChecked'
  BY DEF SessionsCurrent, CodeUsedOnce, RevokedIsCut, Registered, Live, SocketsChecked, AliveAt,
     LastLook, RowOf, CurrentRow
<1>4. CodesCurrent'
  BY DEF CodesCurrent, CurrentRow, AccessTypeOK
<1>5. DevicesCurrent'
  BY DEF DevicesCurrent, CurrentRow, AccessTypeOK, Absent, DeviceRows
<1>6. ClaimsComeFirst'
  BY DEF ClaimsComeFirst, AccessTypeOK, Absent
<1> QED
  BY <1>2, <1>3, <1>4, <1>5, <1>6

\* claimPairing before its transaction.
LEMMA ReadPairingOK ==
  ASSUME AccessInv, NEW d \in Devices, NEW c \in Codes, ReadPairing(d, c)
  PROVE  AccessInv'
<1> USE DEF AccessInv, ReadPairing, memberVars
<1>0. code[c] \in CodeRows /\ code[c].is = "pending"
  BY DEF AccessTypeOK, Absent
<1>1. \/ code' = [code EXCEPT ![c].is = "expired"] /\ claim' = claim
      \/ claim' = [claim EXCEPT ![d] = {c}] /\ code' = code
  OBVIOUS
<1>2. AccessTypeOK'
  BY <1>0, <1>1 DEF AccessTypeOK, CodeRows
<1>3. SessionsCurrent' /\ CodeUsedOnce' /\ RevokedIsCut' /\ SocketsChecked'
  BY DEF SessionsCurrent, CodeUsedOnce, RevokedIsCut, Registered, Live, SocketsChecked, AliveAt,
     LastLook, RowOf, CurrentRow
<1>4. CodesCurrent'
  BY <1>0, <1>1 DEF CodesCurrent, CurrentRow, AccessTypeOK, CodeRows
<1>5. DevicesCurrent'
  BY <1>0, <1>1 DEF DevicesCurrent, CurrentRow, AccessTypeOK, DeviceRows
<1>6. ClaimsComeFirst'
  BY <1>0, <1>1 DEF ClaimsComeFirst, AccessTypeOK, Absent, CodeRows
<1> QED
  BY <1>2, <1>3, <1>4, <1>5, <1>6

\* The transaction of claimPairing takes a pending code, which no device has.
LEMMA ClaimPairingOK ==
  ASSUME AccessInv, NEW d \in Devices, ClaimPairing(d)
  PROVE  AccessInv'
<1> USE DEF AccessInv, memberVars
<1>0. PICK c \in claim[d] :
        /\ claim' = [claim EXCEPT ![d] = {}]
        /\ UNCHANGED <<suspended, epoch, session, signing, socket, closing, now>>
        /\ \/ code' = code /\ device' = device
           \/ /\ code[c].is = "pending" /\ code[c].user \notin suspended
              /\ code' = [code EXCEPT ![c].is = "claimed"]
              /\ device' = [device EXCEPT ![d] =
                   [is |-> "active", user |-> code[c].user, code |-> c, tokens |-> AllKinds,
                    expires |-> now + ControlLife, dead |-> Never, epoch |-> code[c].epoch]]
  BY DEF ClaimPairing
<1>1. c \in Codes /\ device[d] = Absent /\ code[c] \in CodeRows
  BY DEF AccessTypeOK, ClaimsComeFirst
<1>2. AccessTypeOK'
  BY <1>0, <1>1, NeverIsLate, AccessAssumption DEF AccessTypeOK, CodeRows, DeviceRows
<1>3. SessionsCurrent'
  BY <1>0 DEF SessionsCurrent, CurrentRow
<1>4. CodesCurrent'
  BY <1>0, <1>1 DEF CodesCurrent, CurrentRow, AccessTypeOK, CodeRows
<1>5. DevicesCurrent'
  <2> SUFFICES ASSUME NEW e \in Devices, device'[e] # Absent
               PROVE  /\ code'[device'[e].code].is = "claimed"
                      /\ device'[e].is = "active" => CurrentRow(device[e])'
                      /\ "control" \in device'[e].tokens =>
                           device'[e].is = "active" /\ device'[e].dead = Never
    BY DEF DevicesCurrent
  <2>1. CASE device'[e] = device[e]
    BY <2>1, <1>0, <1>1 DEF DevicesCurrent, AccessTypeOK, DeviceRows, CodeRows, CurrentRow
  <2>2. CASE device'[e] # device[e]
    BY <1>0, <2>2, <1>1 DEF AccessTypeOK, CodesCurrent, CodeRows, CurrentRow
  <2> QED
    BY <2>1, <2>2
<1>6. ClaimsComeFirst'
  BY <1>0, <1>1 DEF ClaimsComeFirst, AccessTypeOK, Absent, CodeRows
<1>7. CodeUsedOnce'
  BY <1>0 DEF AccessTypeOK, DevicesCurrent, CodeUsedOnce
<1>8. RevokedIsCut'
  BY <1>0, CutStays DEF AccessTypeOK
<1>9. SocketsChecked'
  BY <1>0, <1>1, RowsEndure, Lasts DEF Endures, AccessTypeOK
<1> QED
  BY <1>2, <1>3, <1>4, <1>5, <1>6, <1>7, <1>8, <1>9

\* A device without some tokens.
LEMMA WithoutRow ==
  ASSUME NEW d \in Devices, device[d] \in DeviceRows, now \in Nat, NEW kinds \in SUBSET AllKinds
  PROVE  LET new == Without(d, kinds)
             old == device[d]
         IN  /\ new \in DeviceRows
             /\ new.is = old.is /\ new.user = old.user /\ new.code = old.code
             /\ new.expires = old.expires /\ new.epoch = old.epoch
             /\ new.tokens = old.tokens \ kinds
             /\ new.dead = IF "control" \in old.tokens \cap kinds THEN now ELSE old.dead
<1> DEFINE dead == IF "control" \in device[d].tokens \cap kinds THEN now ELSE device[d].dead
           toks == device[d].tokens \ kinds
<1>1. Without(d, kinds) = [device[d] EXCEPT !.tokens = toks, !.dead = dead]
  BY DEF Without
<1>2. toks \in SUBSET AllKinds /\ dead \in Nat
  BY DEF DeviceRows
<1> HIDE DEF toks, dead
<1>3. LET new == [device[d] EXCEPT !.tokens = toks, !.dead = dead]
      IN  /\ new \in DeviceRows
          /\ new.is = device[d].is /\ new.user = device[d].user /\ new.code = device[d].code
          /\ new.expires = device[d].expires /\ new.epoch = device[d].epoch
          /\ new.tokens = toks /\ new.dead = dead
  BY <1>2 DEF DeviceRows
<1> QED
  BY <1>1, <1>3 DEF toks, dead

\* A revoked device.
LEMMA RevokedRow ==
  ASSUME NEW d \in Devices, device[d] \in DeviceRows, now \in Nat
  PROVE  LET new == Revoked(d)
             old == device[d]
         IN  /\ new \in DeviceRows
             /\ new.is = "revoked" /\ new.user = old.user /\ new.code = old.code
             /\ new.expires = old.expires /\ new.epoch = old.epoch
             /\ new.tokens = {}
             /\ new.dead = IF "control" \in old.tokens THEN now ELSE old.dead
<1> DEFINE w == Without(d, AllKinds)
<1>1. /\ w \in DeviceRows
      /\ w.is = device[d].is /\ w.user = device[d].user /\ w.code = device[d].code
      /\ w.expires = device[d].expires /\ w.epoch = device[d].epoch
      /\ w.tokens = device[d].tokens \ AllKinds
      /\ w.dead = IF "control" \in device[d].tokens \cap AllKinds THEN now ELSE device[d].dead
  BY WithoutRow
<1>2. Revoked(d) = [w EXCEPT !.is = "revoked"]
  BY DEF Revoked
<1>3. device[d].tokens \ AllKinds = {}
      /\ ("control" \in device[d].tokens \cap AllKinds <=> "control" \in device[d].tokens)
  BY DEF DeviceRows, AllKinds
<1> HIDE DEF w
<1> QED
  BY <1>1, <1>2, <1>3 DEF DeviceRows

\* An ended session.
LEMMA EndedRow ==
  ASSUME NEW s \in Sessions, session[s] \in SessionRows, now \in Nat
  PROVE  /\ EndSession(s) \in SessionRows /\ EndSession(s).is # "active"
         /\ EndSession(s).expires = session[s].expires
         /\ EndSession(s).dead \in {session[s].dead, now}
  BY DEF EndSession, SessionRows

\* Codes, sessions and devices end, those of the members Out all of them; a
\* device may lose its control token alone.
CodesEnd(Out) ==
  /\ code' = [c \in Codes |-> code'[c]]
  /\ \A c \in Codes :
       \/ code'[c] = code[c] /\ (code[c].is = "pending" => code[c].user \notin Out)
       \/ code[c].is = "pending" /\ code'[c] = [code[c] EXCEPT !.is = "expired"]
SessionsEnded(Out) ==
  /\ session' = [s \in Sessions |-> session'[s]]
  /\ \A s \in Sessions :
       \/ session'[s] = session[s] /\ (session[s].is = "active" => session[s].user \notin Out)
       \/ session[s] # Absent /\ session'[s] = EndSession(s)
DevicesEnd(Out) ==
  /\ device' = [d \in Devices |-> device'[d]]
  /\ \A d \in Devices :
       \/ device'[d] = device[d] /\ (device[d] # Absent => device[d].user \notin Out)
       \/ /\ device[d] # Absent /\ device'[d] = Revoked(d)
          /\ <<d, AllKinds>> \in closing'
       \/ /\ device[d] # Absent /\ device'[d] = Without(d, {"control"})
          /\ device[d].user \notin Out

\* However credentials end, what is left of them is current, and sockets are to close.
LEMMA CredentialsEnd ==
  ASSUME AccessInv, UNCHANGED <<claim, signing, socket, now>>,
         NEW Out \in SUBSET Members, suspended' = suspended \cup Out, epoch' \in [Members -> Nat],
         \A u \in Members \ Out : epoch'[u] = epoch[u],
         closing \subseteq closing', closing' \subseteq Devices \X {AllKinds, {"control"}},
         CodesEnd(Out), SessionsEnded(Out), DevicesEnd(Out)
  PROVE  AccessInv'
<1> USE DEF AccessInv, CodesEnd, SessionsEnded, DevicesEnd
<1>n. now \in Nat
  BY DEF AccessTypeOK
<1>0. ASSUME NEW d \in Devices, device[d] # Absent
      PROVE  /\ device[d] \in DeviceRows /\ device'[d] \in DeviceRows
             /\ device'[d].user = device[d].user /\ device'[d].epoch = device[d].epoch
             /\ device'[d].code = device[d].code /\ device'[d].expires = device[d].expires
             /\ device'[d].tokens \subseteq device[d].tokens
             /\ device'[d].dead \in {device[d].dead, now}
             /\ "control" \in device'[d].tokens => device'[d].dead = device[d].dead
             /\ "control" \in device'[d].tokens => device'[d].is = device[d].is
             /\ device'[d].is = "active" =>
                  device[d].is = "active" /\ device[d].user \notin Out
             /\ device'[d].is = "revoked" =>
                  device[d].is = "revoked" \/ <<d, AllKinds>> \in closing'
  <2>1. device[d] \in DeviceRows
    BY <1>0 DEF AccessTypeOK
  <2>2. CASE device'[d] = device[d] /\ device[d].user \notin Out
    BY <2>1, <2>2 DEF DeviceRows
  <2>3. CASE device'[d] = Revoked(d) /\ <<d, AllKinds>> \in closing'
    BY <1>n, <2>1, <2>3, RevokedRow
  <2>4. CASE device'[d] = Without(d, {"control"}) /\ device[d].user \notin Out
    BY <1>n, <2>1, <2>4, WithoutRow DEF AllKinds
  <2> QED
    BY <1>0, <2>2, <2>3, <2>4
<1>1. \A d \in Devices : device[d] = Absent => device'[d] = Absent
  OBVIOUS
<1>2. ASSUME NEW s \in Sessions, session[s] # Absent
      PROVE  /\ session'[s] \in SessionRows
             /\ session'[s].is = "active" => session'[s] = session[s] /\ session[s].user \notin Out
             /\ session'[s].expires = session[s].expires
             /\ session'[s].dead \in {session[s].dead, now}
  BY <1>2, <1>n, EndedRow DEF AccessTypeOK
<1>3. \A s \in Sessions : session[s] = Absent => session'[s] = Absent
  OBVIOUS
<1>4. ASSUME NEW c \in Codes, code[c] # Absent
      PROVE  /\ code'[c] \in CodeRows
             /\ code'[c].is = "pending" => code'[c] = code[c] /\ code[c].user \notin Out
             /\ code[c].is = "claimed" => code'[c].is = "claimed"
  BY <1>4, SMTT(20) DEF AccessTypeOK, CodeRows
<1>5. \A c \in Codes : code[c] = Absent => code'[c] = Absent
  BY DEF Absent
<1>6. AccessTypeOK'
  <2>1. \A d \in Devices : device'[d] \in DeviceRows \cup {Absent}
    BY <1>0, <1>1
  <2>2. \A s \in Sessions : session'[s] \in SessionRows \cup {Absent}
    BY <1>2, <1>3
  <2>3. \A c \in Codes : code'[c] \in CodeRows \cup {Absent}
    BY <1>4, <1>5
  <2> QED
    BY <2>1, <2>2, <2>3 DEF AccessTypeOK
<1>7. ASSUME NEW entry, entry.user \in Members, entry.user \notin Out, CurrentRow(entry)
      PROVE  entry.user \notin suspended' /\ entry.epoch = epoch'[entry.user]
  BY <1>7 DEF CurrentRow
<1>8. SessionsCurrent'
  <2> SUFFICES ASSUME NEW s \in Sessions, session'[s].is = "active"
               PROVE  /\ session'[s].user \notin suspended'
                      /\ session'[s].epoch = epoch'[session'[s].user]
                      /\ session'[s].dead = Never
    BY DEF SessionsCurrent, CurrentRow
  <2>1. session[s] # Absent
    BY <1>3 DEF Absent
  <2>2. session'[s] = session[s] /\ session[s].user \notin Out /\ session[s].user \in Members
    BY <1>2, <2>1 DEF SessionRows
  <2>3. CurrentRow(session[s]) /\ session[s].dead = Never
    BY <2>2 DEF SessionsCurrent
  <2> QED
    BY <1>7, <2>2, <2>3
<1>9. CodesCurrent'
  <2> SUFFICES ASSUME NEW c \in Codes, code'[c].is = "pending"
               PROVE  code'[c].user \notin suspended' /\ code'[c].epoch = epoch'[code'[c].user]
    BY DEF CodesCurrent, CurrentRow
  <2>1. code[c] # Absent
    BY <1>5 DEF Absent
  <2>2. code'[c] = code[c] /\ code[c].user \notin Out /\ code[c].user \in Members
    BY <1>4, <2>1 DEF CodeRows
  <2>3. CurrentRow(code[c])
    BY <2>2 DEF CodesCurrent
  <2> QED
    BY <1>7, <2>2, <2>3
<1>10. DevicesCurrent'
  <2> SUFFICES ASSUME NEW d \in Devices, device'[d] # Absent
               PROVE  /\ code'[device'[d].code].is = "claimed"
                      /\ device'[d].is = "active" =>
                           /\ device'[d].user \notin suspended'
                           /\ device'[d].epoch = epoch'[device'[d].user]
                      /\ "control" \in device'[d].tokens =>
                           device'[d].is = "active" /\ device'[d].dead = Never
    BY DEF DevicesCurrent, CurrentRow
  <2>1. device[d] # Absent /\ device[d].user \in Members /\ device[d].code \in Codes
    BY <1>0, <1>1 DEF DeviceRows
  <2>2. /\ code[device[d].code].is = "claimed"
        /\ device[d].is = "active" => CurrentRow(device[d])
        /\ "control" \in device[d].tokens => device[d].is = "active" /\ device[d].dead = Never
    BY <2>1 DEF DevicesCurrent
  <2>3. code'[device[d].code].is = "claimed"
    BY <1>4, <2>1, <2>2 DEF Absent
  <2>4. device'[d].is = "active" =>
          device[d].user \notin suspended' /\ device[d].epoch = epoch'[device[d].user]
    BY <1>0, <1>7, <2>1, <2>2
  <2> QED
    BY <1>0, <2>1, <2>2, <2>3, <2>4
<1>11. ClaimsComeFirst'
  <2> SUFFICES ASSUME NEW d \in Devices, NEW c \in claim[d]
               PROVE  device'[d] = Absent /\ code'[c] # Absent
    BY DEF ClaimsComeFirst
  <2>1. device[d] = Absent /\ code[c] # Absent /\ c \in Codes
    BY DEF ClaimsComeFirst, AccessTypeOK
  <2> QED
    BY <1>1, <1>4, <2>1 DEF CodeRows, Absent
<1>12. CodeUsedOnce'
  <2> SUFFICES ASSUME NEW d \in Devices, NEW e \in Devices, device'[d] # Absent,
                      device'[e] # Absent, device'[d].code = device'[e].code
               PROVE  d = e
    BY DEF CodeUsedOnce
  <2>1. device[d] # Absent /\ device[e] # Absent
    BY <1>1
  <2>2. device[d].code = device[e].code
    BY <1>0, <2>1
  <2> QED
    BY <2>1, <2>2 DEF CodeUsedOnce
<1>13. RevokedIsCut'
  BY <1>0, <1>1, CutStays DEF Absent
<1>14. SocketsChecked'
  <2>1. ASSUME NEW d \in Devices  PROVE  Endures(device[d], device'[d])
    <3>1. CASE device[d] = Absent
      BY <3>1 DEF Endures
    <3>2. CASE device[d] # Absent
      <4>1. device'[d] \in DeviceRows /\ device'[d].expires = device[d].expires
            /\ device'[d].dead \in {device[d].dead, now}
        BY <1>0, <3>2
      <4>2. device'[d] # Absent
        BY <4>1 DEF DeviceRows, Absent
      <4> QED
        BY <4>1, <4>2 DEF Endures
    <3> QED
      BY <3>1, <3>2
  <2>2. ASSUME NEW s \in Sessions  PROVE  Endures(session[s], session'[s])
    BY <1>2 DEF Endures, SessionRows, Absent
  <2> QED
    BY <2>1, <2>2, RowsEndure
<1> QED
  BY <1>6, <1>8, <1>9, <1>10, <1>11, <1>12, <1>13, <1>14

\* revokeDevice ends one device.
LEMMA RevokeDeviceOK ==
  ASSUME AccessInv, NEW d \in Devices, RevokeDevice(d)
  PROVE  AccessInv'
<1>1. /\ device \in [Devices -> DeviceRows \cup {Absent}]
      /\ session \in [Sessions -> SessionRows \cup {Absent}]
      /\ code \in [Codes -> CodeRows \cup {Absent}]
      /\ closing \subseteq Devices \X {AllKinds, {"control"}} /\ epoch \in [Members -> Nat]
  BY DEF AccessInv, AccessTypeOK
<1>2. /\ UNCHANGED <<suspended, epoch, code, claim, session, signing, socket, now>>
      /\ closing' = closing \cup {<<d, AllKinds>>}
      /\ device[d] # Absent
      /\ device' = IF device[d].is = "active" THEN [device EXCEPT ![d] = Revoked(d)] ELSE device
  BY DEF RevokeDevice, memberVars, pairingVars
<1>3. closing \subseteq closing' /\ closing' \subseteq Devices \X {AllKinds, {"control"}}
  BY <1>1, <1>2
<1>4. CodesEnd({})
  BY <1>1, <1>2 DEF CodesEnd
<1>5. SessionsEnded({})
  BY <1>1, <1>2 DEF SessionsEnded
<1>6. DevicesEnd({})
  BY <1>1, <1>2 DEF DevicesEnd
<1> QED
  BY <1>1, <1>2, <1>3, <1>4, <1>5, <1>6, CredentialsEnd

\* A logout with a control token ends that token.
LEMMA LogoutControlOK ==
  ASSUME AccessInv, NEW d \in Devices, LogoutControl(d)
  PROVE  AccessInv'
<1>1. /\ device \in [Devices -> DeviceRows \cup {Absent}]
      /\ session \in [Sessions -> SessionRows \cup {Absent}]
      /\ code \in [Codes -> CodeRows \cup {Absent}]
      /\ closing \subseteq Devices \X {AllKinds, {"control"}} /\ epoch \in [Members -> Nat]
  BY DEF AccessInv, AccessTypeOK
<1>2. /\ UNCHANGED <<suspended, epoch, code, claim, session, signing, socket, now>>
      /\ closing' = closing \cup {<<d, {"control"}>>}
      /\ device[d] # Absent /\ device' = [device EXCEPT ![d] = Without(d, {"control"})]
  BY DEF LogoutControl, Valid, Absent, memberVars, pairingVars
<1>3. closing \subseteq closing' /\ closing' \subseteq Devices \X {AllKinds, {"control"}}
  BY <1>1, <1>2
<1>4. CodesEnd({})
  BY <1>1, <1>2 DEF CodesEnd
<1>5. SessionsEnded({})
  BY <1>1, <1>2 DEF SessionsEnded
<1>6. DevicesEnd({})
  BY <1>1, <1>2 DEF DevicesEnd
<1> QED
  BY <1>1, <1>2, <1>3, <1>4, <1>5, <1>6, CredentialsEnd

\* A logout with a session ends that session.
LEMMA LogoutSessionOK ==
  ASSUME AccessInv, NEW s \in Sessions, LogoutSession(s)
  PROVE  AccessInv'
<1>1. /\ device \in [Devices -> DeviceRows \cup {Absent}]
      /\ session \in [Sessions -> SessionRows \cup {Absent}]
      /\ code \in [Codes -> CodeRows \cup {Absent}]
      /\ closing \subseteq Devices \X {AllKinds, {"control"}} /\ epoch \in [Members -> Nat]
  BY DEF AccessInv, AccessTypeOK
<1>2. /\ UNCHANGED <<suspended, epoch, code, claim, device, signing, socket, closing, now>>
      /\ session[s] # Absent /\ session' = [session EXCEPT ![s] = EndSession(s)]
  BY DEF LogoutSession, Valid, Absent, memberVars, pairingVars
<1>3. closing \subseteq closing' /\ closing' \subseteq Devices \X {AllKinds, {"control"}}
  BY <1>1, <1>2
<1>4. CodesEnd({})
  BY <1>1, <1>2 DEF CodesEnd
<1>5. SessionsEnded({})
  BY <1>1, <1>2 DEF SessionsEnded
<1>6. DevicesEnd({})
  BY <1>1, <1>2 DEF DevicesEnd
<1> QED
  BY <1>1, <1>2, <1>3, <1>4, <1>5, <1>6, CredentialsEnd

\* setMemberSuspension ends all that the member has, pending codes included.
LEMMA SuspendOK ==
  ASSUME AccessInv, NEW u \in Members, Suspend(u)
  PROVE  AccessInv'
<1>1. closing \subseteq Devices \X {AllKinds, {"control"}} /\ epoch \in [Members -> Nat]
  BY DEF AccessInv, AccessTypeOK
<1>2. /\ suspended' = suspended \cup {u} /\ epoch' = [epoch EXCEPT ![u] = @ + 1]
      /\ UNCHANGED <<claim, signing, socket, now>>
      /\ closing' = closing \cup (OwnedBy(u) \X {AllKinds})
  BY DEF Suspend
<1>3. /\ closing \subseteq closing' /\ closing' \subseteq Devices \X {AllKinds, {"control"}}
      /\ \A d \in OwnedBy(u) : <<d, AllKinds>> \in closing'
  BY <1>1, <1>2 DEF OwnedBy
<1>4. CodesEnd({u})
  BY DEF Suspend, CodesEnd
<1>5. SessionsEnded({u})
  <2>1. session' = [s \in Sessions |-> IF session[s] # Absent /\ session[s].user = u
                                        THEN EndSession(s) ELSE session[s]]
    BY DEF Suspend
  <2>2. \A s \in Sessions : session'[s] = IF session[s] # Absent /\ session[s].user = u
                                          THEN EndSession(s) ELSE session[s]
    BY <2>1
  <2>3. session' = [s \in Sessions |-> session'[s]]
    BY <2>1
  <2>4. \A s \in Sessions : session[s].is = "active" => session[s] # Absent
    BY DEF Absent
  <2> QED
    BY <2>2, <2>3, <2>4 DEF SessionsEnded
<1>6. DevicesEnd({u})
  BY <1>3 DEF Suspend, DevicesEnd, OwnedBy
<1>7. epoch' \in [Members -> Nat] /\ \A v \in Members \ {u} : epoch'[v] = epoch[v]
  BY <1>1, <1>2
<1> QED
  BY <1>2, <1>3, <1>4, <1>5, <1>6, <1>7, CredentialsEnd

\* A reinstated member gets nothing back.
LEMMA ReinstateOK ==
  ASSUME AccessInv, NEW u \in Members, Reinstate(u)
  PROVE  AccessInv'
  BY DEF AccessInv, Reinstate, pairingVars, AccessTypeOK, SessionsCurrent,
     CodesCurrent, DevicesCurrent, ClaimsComeFirst, CodeUsedOnce, RevokedIsCut, Registered,
     Live, SocketsChecked, AliveAt, LastLook, RowOf, CurrentRow

\* A socket keeps its credential; it is closed, or as it was, but for the time
\* of its check.
LEMMA SocketsMove ==
  ASSUME AccessInv,
         UNCHANGED <<suspended, epoch, code, claim, device, session, signing>>,
         AccessTypeOK', RevokedIsCut', SocketsChecked'
  PROVE  AccessInv'
  BY DEF AccessInv, SessionsCurrent, CodesCurrent, DevicesCurrent, ClaimsComeFirst,
     CodeUsedOnce, CurrentRow

\* A credential that works is alive now.
LEMMA ValidIsAlive ==
  ASSUME AccessInv, NEW cred \in Credentials, Valid(cred)  PROVE  AliveAt(cred, now)
<1> USE DEF AccessInv, Valid
<1>1. CASE cred[1] = "session" /\ cred[2] \in Sessions
  BY <1>1, NeverIsLate DEF Absent, AccessTypeOK, SessionsCurrent, AliveAt, RowOf, SessionRows
<1>2. CASE cred[1] \in AllKinds /\ cred[1] # "session" /\ cred[2] \in Devices
  <2>1. device[cred[2]] # Absent /\ (cred[1] # "node" =>
          "control" \in device[cred[2]].tokens /\ device[cred[2]].expires > now)
    BY <1>2 DEF Absent, AllKinds
  <2>2. device[cred[2]] \in DeviceRows /\ (cred[1] # "node" => device[cred[2]].dead = Never)
    BY <1>2, <2>1 DEF AccessTypeOK, DevicesCurrent
  <2> QED
    BY <1>2, <2>1, <2>2, NeverIsLate DEF AliveAt, RowOf, DeviceRows
<1> QED
  BY <1>1, <1>2, CredParts DEF AllKinds

\* An open socket has a credential.
LEMMA SocketRow ==
  ASSUME AccessTypeOK, NEW k \in Sockets, socket[k].is \in {"granted", "live"}
  PROVE  /\ socket[k] \in OpenSockets /\ socket[k].cred \in Credentials
         /\ socket[k] = [is |-> socket[k].is, cred |-> socket[k].cred,
                         checked |-> socket[k].checked, straddled |-> socket[k].straddled]
  BY DEF AccessTypeOK, Absent, OpenSockets

\* Closing sockets is always safe.
LEMMA ClosingIsSafe ==
  ASSUME AccessInv, NEW K, socket' = Closed(K), now' = now,
         UNCHANGED <<suspended, epoch, code, claim, device, session, signing>>,
         closing' \subseteq closing,
         \A d \in Devices : <<d, AllKinds>> \in closing \ closing' => Registered(d) \subseteq K
  PROVE  AccessInv'
<1> USE DEF AccessInv
<1>1. \A k \in Sockets : socket'[k] = IF k \in K THEN [is |-> "closed"] ELSE socket[k]
  BY DEF Closed
<1>2. socket' = [k \in Sockets |-> socket'[k]]
  BY DEF Closed
<1>3. AccessTypeOK'
  BY <1>1, <1>2 DEF AccessTypeOK
<1>4. SocketsChecked'
  BY <1>1 DEF SocketsChecked, AliveAt, LastLook, RowOf
<1>5. RevokedIsCut'
  <2> SUFFICES ASSUME NEW d \in Devices, device[d].is = "revoked",
                      <<d, AllKinds>> \notin closing', NEW k \in Sockets,
                      socket'[k].is = "live", socket'[k].cred[2] = d,
                      socket'[k].cred[1] # "session"
               PROVE  socket'[k].straddled
    BY DEF RevokedIsCut, Registered, Live
  <2>1. k \notin K /\ socket'[k] = socket[k]
    BY <1>1
  <2>2. k \in Registered(d)
    BY <2>1 DEF Registered, Live
  <2>3. <<d, AllKinds>> \notin closing
    BY <2>1, <2>2
  <2> QED
    BY <2>1, <2>2, <2>3 DEF RevokedIsCut
<1> QED
  BY <1>3, <1>4, <1>5, SocketsMove

\* closeForDevice closes every socket it finds.
LEMMA CloseForDeviceOK ==
  ASSUME AccessInv, NEW d \in Devices, NEW kinds \in {AllKinds, {"control"}},
         CloseForDevice(d, kinds)
  PROVE  AccessInv'
<1> DEFINE K == {k \in Registered(d) : socket[k].cred[1] \in kinds}
<1>1. /\ socket' = Closed(K) /\ closing' = closing \ {<<d, kinds>>} /\ now' = now
      /\ UNCHANGED <<suspended, epoch, code, claim, device, session, signing>>
  BY DEF CloseForDevice, memberVars, pairingVars
<1>2. ASSUME NEW e \in Devices, <<e, AllKinds>> \in closing \ closing'
      PROVE  Registered(e) \subseteq K
  BY <1>1, <1>2, SocketRow, CredParts DEF Registered, Live, AccessInv
<1>3. closing' \subseteq closing
  BY <1>1
<1> HIDE DEF K
<1> QED
  BY <1>1, <1>2, <1>3, ClosingIsSafe

\* A socket is closed by its peer.
LEMMA HangupOK ==
  ASSUME AccessInv, NEW k \in Sockets, Hangup(k)  PROVE  AccessInv'
BY ClosingIsSafe DEF Hangup, memberVars, pairingVars

\* One socket changes, and keeps the promise of its kind.
LEMMA SocketSteps ==
  ASSUME AccessInv, NEW k \in Sockets, NEW entry \in OpenSockets,
         socket' = [socket EXCEPT ![k] = entry],
         UNCHANGED <<suspended, epoch, code, claim, device, session, signing, closing, now>>,
         AliveAt(entry.cred, LastLook(entry)),
         entry.is = "live" => entry.straddled \/ entry.cred[1] = "session"
                            \/ device[entry.cred[2]].is # "revoked"
                            \/ /\ socket[k].is = "live" /\ entry.cred = socket[k].cred
                               /\ entry.straddled = socket[k].straddled
  PROVE  AccessInv'
<1> USE DEF AccessInv
<1>1. AccessTypeOK'
  BY DEF AccessTypeOK
<1>2. socket'[k] = entry /\ \A j \in Sockets \ {k} : socket'[j] = socket[j]
  BY DEF AccessTypeOK
<1>3. SocketsChecked'
  BY <1>2 DEF SocketsChecked, AliveAt, LastLook, RowOf
<1>4. RevokedIsCut'
  <2> SUFFICES ASSUME NEW d \in Devices, device[d].is = "revoked", <<d, AllKinds>> \notin closing,
                      NEW j \in Sockets, socket'[j].is = "live", socket'[j].cred[2] = d,
                      socket'[j].cred[1] # "session"
               PROVE  socket'[j].straddled
    BY DEF RevokedIsCut, Registered, Live
  <2>1. \A i \in Sockets :
          socket[i].is = "live" /\ socket[i].cred[2] = d /\ socket[i].cred[1] # "session"
            => socket[i].straddled
    BY DEF RevokedIsCut, Registered, Live
  <2> QED
    BY <1>2, <2>1
<1> QED
  BY <1>1, <1>3, <1>4, SocketsMove

\* A socket is opened with a credential that works.
LEMMA AuthenticateOK ==
  ASSUME AccessInv, NEW k \in Sockets, NEW cred \in Credentials, Authenticate(k, cred)
  PROVE  AccessInv'
<1> DEFINE entry == [is |-> "granted", cred |-> cred, checked |-> FALSE, straddled |-> FALSE]
<1>1. /\ socket' = [socket EXCEPT ![k] = entry] /\ Valid(cred)
      /\ UNCHANGED <<suspended, epoch, code, claim, device, session, signing, closing, now>>
  BY DEF Authenticate, memberVars, pairingVars
<1>2. entry \in OpenSockets /\ entry.cred = cred /\ entry.is = "granted" /\ LastLook(entry) = now
  BY DEF OpenSockets, LastLook
<1>3. AliveAt(entry.cred, LastLook(entry))
  BY <1>1, <1>2, ValidIsAlive
<1> HIDE DEF entry
<1> QED
  BY <1>1, <1>2, <1>3, SocketSteps

\* A socket whose credential died on the way is marked as such.
LEMMA JoinRegistryOK ==
  ASSUME AccessInv, NEW k \in Sockets, JoinRegistry(k)
  PROVE  AccessInv'
<1> DEFINE cred == socket[k].cred
           dead == ~Valid(cred)
           entry == [socket[k] EXCEPT !.is = "live", !.checked = TRUE, !.straddled = dead]
<1>1. socket[k] \in OpenSockets /\ cred \in Credentials /\ socket[k].is = "granted"
  BY SocketRow DEF JoinRegistry, AccessInv
<1>2. /\ socket' = [socket EXCEPT ![k].is = "live", ![k].checked = TRUE, ![k].straddled = dead]
      /\ UNCHANGED <<suspended, epoch, code, claim, device, session, signing, closing, now>>
  BY DEF JoinRegistry, memberVars, pairingVars
<1>3. AliveAt(cred, now)
  BY <1>1 DEF AccessInv, SocketsChecked, LastLook
<1>4. dead \/ cred[1] = "session" \/ device[cred[2]].is # "revoked"
  BY DEF Valid
<1>5. dead \in BOOLEAN
  BY DEF Valid
<1> HIDE DEF dead
<1>6. socket' = [socket EXCEPT ![k] = entry]
  BY <1>2 DEF AccessInv, AccessTypeOK
<1>7. entry \in OpenSockets /\ entry.cred = cred /\ LastLook(entry) = now /\ entry.straddled = dead
  BY <1>1, <1>5 DEF OpenSockets, LastLook
<1> HIDE DEF entry, cred
<1> QED
  BY <1>2, <1>3, <1>4, <1>6, <1>7, SocketSteps

\* The timer of a client socket closes it or finds its credential working.
LEMMA RevalidateOK ==
  ASSUME AccessInv, NEW k \in Sockets, Revalidate(k)
  PROVE  AccessInv'
<1>1. UNCHANGED <<suspended, epoch, code, claim, device, session, signing, closing, now>>
  BY DEF Revalidate, memberVars, pairingVars
<1>2. CASE ~Valid(socket[k].cred)
  BY <1>2, <1>1, ClosingIsSafe DEF Revalidate
<1>3. CASE Valid(socket[k].cred)
  <2> DEFINE entry == [socket[k] EXCEPT !.checked = TRUE]
  <2>1. socket[k] \in OpenSockets /\ socket[k].cred \in Credentials /\ socket[k].is = "live"
    BY SocketRow DEF Revalidate, Live, AccessInv
  <2>2. socket' = [socket EXCEPT ![k].checked = TRUE]
    BY <1>3 DEF Revalidate
  <2>3. socket' = [socket EXCEPT ![k] = entry]
    BY <2>2 DEF AccessInv, AccessTypeOK
  <2>4. entry \in OpenSockets /\ entry.cred = socket[k].cred /\ entry.straddled = socket[k].straddled
        /\ LastLook(entry) = now
    BY <2>1 DEF OpenSockets, LastLook
  <2>5. AliveAt(entry.cred, LastLook(entry))
    BY <1>3, <2>1, <2>4, ValidIsAlive
  <2> HIDE DEF entry
  <2> QED
    BY <1>1, <2>1, <2>3, <2>4, <2>5, SocketSteps
<1> QED
  BY <1>2, <1>3

\* When the clock moves every client socket has been checked since it last did.
LEMMA AccessTickOK ==
  ASSUME AccessInv, AccessTick  PROVE  AccessInv'
<1> USE DEF AccessInv
<1>1. /\ now < LastTick /\ now' = now + 1
      /\ \A k \in Sockets : socket[k].is # "granted"
      /\ \A k \in Live : socket[k].cred[1] # "node" => socket[k].checked
      /\ socket' = [k \in Sockets |->
           IF k \in Live THEN [socket[k] EXCEPT !.checked = FALSE] ELSE socket[k]]
      /\ UNCHANGED <<suspended, epoch, code, claim, device, session, signing, closing>>
  BY DEF AccessTick, memberVars, pairingVars
<1>2. ASSUME NEW k \in Sockets
      PROVE  \/ /\ socket[k].is = "live" /\ socket[k] \in OpenSockets
                /\ socket'[k] \in OpenSockets /\ socket'[k].is = "live"
                /\ socket'[k].cred = socket[k].cred /\ ~socket'[k].checked
                /\ socket'[k].straddled = socket[k].straddled
             \/ /\ socket[k].is \notin {"granted", "live"} /\ socket'[k] = socket[k]
  BY <1>1, SocketRow DEF Live, OpenSockets
<1>3. AccessTypeOK'
  <2>1. now' \in 0 .. LastTick
    BY <1>1, AccessAssumption DEF AccessTypeOK
  <2>2. socket' \in [Sockets -> OpenSockets \cup {Absent, [is |-> "closed"]}]
    BY <1>1, <1>2 DEF AccessTypeOK
  <2> QED
    BY <1>1, <2>1, <2>2 DEF AccessTypeOK
<1>4. RevokedIsCut'
  BY <1>1, <1>2 DEF RevokedIsCut, Registered, Live
<1>5. SocketsChecked'
  <2> SUFFICES ASSUME NEW k \in Sockets, socket'[k].is \in {"granted", "live"}
               PROVE  AliveAt(socket[k].cred, LastLook(socket[k]))'
    BY DEF SocketsChecked
  <2>1. socket[k].is = "live" /\ socket'[k].cred = socket[k].cred /\ ~socket'[k].checked
        /\ socket'[k].is = "live"
    BY <1>2
  <2>2. AliveAt(socket[k].cred, LastLook(socket[k]))
    BY <2>1 DEF SocketsChecked
  <2>3. socket[k].cred[1] # "node" => LastLook(socket[k]) = now
    BY <1>1, <2>1 DEF Live, LastLook
  <2>4. LastLook(socket[k])' = now
    BY <1>1, <2>1, NeverIsLate DEF LastLook
  <2>5. AliveAt(socket[k].cred, now)
    BY <2>2, <2>3 DEF AliveAt
  <2> QED
    BY <1>1, <2>1, <2>4, <2>5 DEF AliveAt, RowOf
<1> QED
  BY <1>1, <1>3, <1>4, <1>5, SocketsMove

\* Nothing changes.
LEMMA AccessStutter == AccessInv /\ UNCHANGED accessVars => AccessInv'
  BY DEF accessVars, memberVars, pairingVars, AccessInv, AccessTypeOK, SessionsCurrent,
     CodesCurrent, DevicesCurrent, ClaimsComeFirst, CodeUsedOnce, RevokedIsCut, Registered,
     Live, SocketsChecked, AliveAt, LastLook, RowOf, CurrentRow

\* Every step of credentials and sockets.
LEMMA AccessStep == AccessInv /\ [AccessNext]_accessVars => AccessInv'
<1> SUFFICES ASSUME AccessInv, [AccessNext]_accessVars  PROVE  AccessInv'
  OBVIOUS
<1>1. ASSUME NEW u \in Members,
             \/ ProvisionUser(u) \/ Suspend(u) \/ Reinstate(u)
             \/ \E s \in Sessions : CreateSession(u, s)
             \/ \E c \in Codes : CreatePairing(u, c)
      PROVE  AccessInv'
  BY <1>1, ProvisionUserOK, SuspendOK, ReinstateOK, CreateSessionOK, CreatePairingOK
<1>2. ASSUME NEW d \in Devices,
             \/ \E c \in Codes : ReadPairing(d, c)
             \/ ClaimPairing(d) \/ RevokeDevice(d) \/ LogoutControl(d)
             \/ \E kinds \in {AllKinds, {"control"}} : CloseForDevice(d, kinds)
      PROVE  AccessInv'
  BY <1>2, ReadPairingOK, ClaimPairingOK, RevokeDeviceOK, LogoutControlOK, CloseForDeviceOK
<1>3. ASSUME NEW k \in Sockets,
             \/ \E cred \in Credentials : Authenticate(k, cred)
             \/ JoinRegistry(k) \/ Revalidate(k) \/ Hangup(k)
      PROVE  AccessInv'
  BY <1>3, AuthenticateOK, JoinRegistryOK, RevalidateOK, HangupOK
<1> QED
  BY <1>1, <1>2, <1>3, LogoutSessionOK, AccessTickOK, AccessStutter DEF AccessNext

-------------------------------------------------------------------------------
(* Access: theorems *)

\* What works was issued since the last suspension of its member; what clients
\* hold open was alive at their last check.
LEMMA AccessInvSafe == AccessInv => AccessHolds
<1> SUFFICES ASSUME AccessInv  PROVE  AccessHolds
  OBVIOUS
<1>1. NothingOutlivesSuspension
  <2> SUFFICES ASSUME NEW cred \in Credentials, Valid(cred)
               PROVE  CurrentRow(RowOf(cred))
    BY DEF NothingOutlivesSuspension, CurrentRow, RowOf
  <2>1. CASE cred[1] = "session" /\ cred[2] \in Sessions
    BY <2>1 DEF Valid, AccessInv, SessionsCurrent, RowOf
  <2>2. CASE cred[1] \in AllKinds /\ cred[1] # "session" /\ cred[2] \in Devices
    BY <2>2 DEF Valid, AccessInv, DevicesCurrent, RowOf, Absent
  <2> QED
    BY <2>1, <2>2, CredParts DEF AllKinds
<1>2. ClientsAreChecked
  BY DEF AccessInv, SocketsChecked, ClientsAreChecked, AliveAt, LastLook, RowOf, Live
<1> QED
  BY <1>1, <1>2 DEF AccessInv, AccessHolds

\* The rows of sessions, codes, devices and sockets keep their types, whatever
\* requests overlap.
THEOREM AccessInvHolds == AccessSpec => []AccessInv
  BY AccessInitOK, AccessStep, PTL DEF AccessSpec

\* For any number of members, devices, sessions and sockets: nothing issued
\* before a suspension works after it, a code makes one device, and the sockets
\* of a dead credential are closed.
THEOREM AccessIsSafe == AccessSpec => []AccessHolds
  BY AccessInvHolds, AccessInvSafe, PTL

-------------------------------------------------------------------------------
(* Login: the inductive invariant *)

FlowRows == [is : {"pending", "expired", "consumed"}, late : BOOLEAN, by : Browsers]
CallRows == [at : {"none", "arrived", "checked", "taken", "identified", "provisioned",
                   "signed_in", "failed", "answered"},
             browser : Browsers \cup {""}, flow : Flows \cup {0}, subject : Subjects \cup {""},
             binding : Flows \cup {0}, mail : Mails \cup {""}, user : Users \cup {0}]
LoginRows == [flow : Flows, browser : Browsers, subject : Subjects, user : Users, call : Calls]

LoginTypeOK ==
  /\ flow \in [Flows -> FlowRows \cup {NoFlow}]
  /\ cookie \in [Browsers -> Flows \cup {0}]
  /\ call \in [Calls -> CallRows]
  /\ mail \in [Users -> Mails \cup {""}]
  /\ identity \in [Subjects -> Users \cup {0}]
  /\ opened \subseteq LoginRows

BegunBy(f, b) == flow[f] # NoFlow /\ flow[f].by = b

\* A callback holds its flow from the taking of the entry to the session.
Holds(k) == call[k].at \in {"taken", "identified", "provisioned"}

\* A cookie, and the binding a callback came with, are of flows the browser
\* began; so is the flow of a callback that has been checked.
BindingsAreOwn ==
  /\ \A b \in Browsers : cookie[b] # 0 => BegunBy(cookie[b], b)
  /\ \A k \in Calls : call[k].at = "arrived" =>
       /\ call[k].browser \in Browsers /\ call[k].subject \in Subjects /\ call[k].flow \in Flows
       /\ flow[call[k].flow] # NoFlow
       /\ call[k].binding # 0 => BegunBy(call[k].binding, call[k].browser)
  /\ \A k \in Calls : call[k].at \in {"checked", "signed_in"} \/ Holds(k) =>
       /\ call[k].browser \in Browsers /\ call[k].subject \in Subjects /\ call[k].flow \in Flows
       /\ BegunBy(call[k].flow, call[k].browser)
  /\ \A k \in Calls : call[k].at = "failed" => call[k].browser \in Browsers

\* A flow is taken by one callback, and opens its session.
FlowsTakenOnce ==
  /\ \A k \in Calls : Holds(k) =>
       /\ flow[call[k].flow].is = "consumed"
       /\ \A j \in Calls : Holds(j) /\ call[j].flow = call[k].flow => j = k
       /\ \A o \in opened : o.flow # call[k].flow
  /\ \A o \in opened : flow[o.flow].is = "consumed"

\* The user of a callback is the one its subject signs in as.
UsersAreKnown ==
  \A k \in Calls :
    /\ call[k].at = "identified" => call[k].mail \in Mails
    /\ call[k].at = "provisioned" =>
         call[k].user \in Users /\ identity[call[k].subject] = call[k].user

LoginInv ==
  LoginTypeOK /\ BindingsAreOwn /\ FlowsTakenOnce /\ UsersAreKnown /\ LoginHolds

-------------------------------------------------------------------------------
(* Login: lemmas *)

\* Users and flows are counted from one, and old users are not new ones.
LEMMA UsersArePositive ==
  /\ 0 \notin Users /\ Calls \subseteq Users /\ 0 \notin Flows /\ Flows \subseteq Nat
  /\ \A s \in Subjects : OldUser[s] \in Users /\ OldUser[s] \notin Calls
<1>1. \A s \in Subjects : OldUser[s] \in Nat /\ OldUser[s] > LastCall /\ LastCall \in Nat
  BY LoginAssumption
<1>2. \A s \in Subjects : OldUser[s] \notin 1 .. LastCall /\ OldUser[s] # 0
  BY <1>1
<1>3. 0 \notin 1 .. LastFlow /\ 1 .. LastFlow \subseteq Nat /\ 0 \notin 1 .. LastCall
  <2>1. LastFlow \in Nat /\ LastCall \in Nat
    BY LoginAssumption
  <2> QED
    BY <2>1
<1> QED
  BY <1>2, <1>3 DEF Users, Calls, Flows

\* Everybody of earlier sign-ins has an account and an address, or nobody has.
LEMMA LoginInitOK == LoginInit => LoginInv
<1> SUFFICES ASSUME LoginInit  PROVE  LoginInv
  OBVIOUS
<1> USE DEF LoginInit
<1>1. \A k \in Calls : call[k] = NoCall
  OBVIOUS
<1>2. /\ mail \in [Users -> Mails \cup {""}] /\ identity \in [Subjects -> Users \cup {0}]
      /\ AccountsApart
  <2>1. CASE mail = [u \in Users |-> ""] /\ identity = [s \in Subjects |-> 0]
    BY <2>1, UsersArePositive DEF AccountsApart
  <2>2. CASE /\ mail = [u \in Users |-> IF u \in Calls THEN "" ELSE OldMail[u]]
             /\ identity = OldUser
    <3>1. \A s \in Subjects : OldUser[s] \in Users \ Calls /\ OldMail[OldUser[s]] \in Mails
      BY LoginAssumption, UsersArePositive
    <3>2. \A u \in Users \ Calls : \E s \in Subjects : u = OldUser[s]
      BY DEF Users
    <3>3. \A s \in Subjects : mail[OldUser[s]] = OldMail[OldUser[s]]
      BY <2>2, <3>1
    <3>4. \A u \in Calls : mail[u] = ""
      BY <2>2, UsersArePositive
    <3>5. mail \in [Users -> Mails \cup {""}]
      BY <2>2, <3>1, <3>2
    <3>6. identity \in [Subjects -> Users \cup {0}]
      BY <2>2, <3>1, LoginAssumption
    <3>7. ASSUME NEW u \in Users, NEW v \in Users, mail[u] = mail[v], mail[u] # ""
          PROVE  u = v
      <4>1. PICK s \in Subjects : u = OldUser[s]
        BY <3>2, <3>4, <3>7
      <4>2. PICK t \in Subjects : v = OldUser[t]
        BY <3>2, <3>4, <3>7
      <4>3. OldMail[OldUser[s]] = OldMail[OldUser[t]]
        BY <3>3, <3>7, <4>1, <4>2
      <4> QED
        BY <4>1, <4>2, <4>3, LoginAssumption
    <3>8. ASSUME NEW u \in Users  PROVE  mail[u] # "" <=> \E s \in Subjects : identity[s] = u
      <4>1. CASE u \in Calls
        BY <2>2, <3>1, <3>4, <4>1
      <4>2. CASE u \notin Calls
        <5>1. PICK s \in Subjects : u = OldUser[s]
          BY <3>2, <4>2
        <5>2. mail[u] # "" /\ identity[s] = u
          BY <2>2, <3>1, <3>3, <5>1, LoginAssumption
        <5> QED
          BY <5>2
      <4> QED
        BY <4>1, <4>2
    <3> QED
      BY <3>5, <3>6, <3>7, <3>8 DEF AccountsApart
  <2> QED
    BY <2>1, <2>2
<1>3. LoginTypeOK
  BY <1>2 DEF LoginTypeOK, NoCall, CallRows
<1>4. BindingsAreOwn /\ FlowsTakenOnce /\ UsersAreKnown
  BY <1>1 DEF BindingsAreOwn, FlowsTakenOnce, UsersAreKnown, Holds, NoCall
<1>5. OneSessionPerFlow /\ SessionOfTheSubject
  BY DEF OneSessionPerFlow, SessionOfTheSubject
<1> QED
  BY <1>2, <1>3, <1>4, <1>5 DEF LoginInv, LoginHolds

\* What the steps of flows leave of a entry: its browser, and that it is consumed.
FlowKept(f) ==
  flow[f] # NoFlow =>
    /\ flow'[f] # NoFlow /\ flow'[f].by = flow[f].by
    /\ flow[f].is = "consumed" => flow'[f].is = "consumed"

\* A step of one callback; `entry` is what becomes of it.  It neither takes its
\* flow nor opens a session.
LEMMA CallMoves ==
  ASSUME LoginInv, NEW k \in Calls, NEW entry \in CallRows, call' = [call EXCEPT ![k] = entry],
         UNCHANGED <<cookie, mail, identity, opened>>,
         flow' \in [Flows -> FlowRows \cup {NoFlow}], \A f \in Flows : FlowKept(f),
         \/ entry.at \in {"none", "answered"}
         \/ entry.at = "failed" /\ entry.browser \in Browsers
         \/ /\ entry.at = "arrived" /\ entry.browser \in Browsers /\ entry.subject \in Subjects
            /\ entry.flow \in Flows /\ flow[entry.flow] # NoFlow
            /\ entry.binding # 0 => BegunBy(entry.binding, entry.browser)
         \/ /\ entry.at = "checked" /\ entry.browser \in Browsers /\ entry.subject \in Subjects
            /\ entry.flow \in Flows /\ BegunBy(entry.flow, entry.browser)
         \/ /\ entry.at = "identified" /\ entry.mail \in Mails /\ call[k].at = "taken"
            /\ entry.flow = call[k].flow /\ entry.browser = call[k].browser
            /\ entry.subject = call[k].subject
  PROVE  LoginInv'
<1> USE DEF LoginInv
<1>1. LoginTypeOK'
  BY DEF LoginTypeOK
<1>2. call'[k] = entry /\ \A j \in Calls \ {k} : call'[j] = call[j]
  BY DEF LoginTypeOK
<1>3. \A f \in Flows : \A b : BegunBy(f, b) => BegunBy(f, b)'
  BY DEF BegunBy, FlowKept
<1>4. /\ \A b \in Browsers : cookie[b] # 0 => cookie[b] \in Flows
      /\ \A j \in Calls : call[j].binding # 0 => call[j].binding \in Flows
      /\ \A o \in opened : o.flow \in Flows
      /\ entry.binding # 0 => entry.binding \in Flows
  BY DEF LoginTypeOK, CallRows, LoginRows
<1>5. BindingsAreOwn'
  <2>1. \A b \in Browsers : cookie'[b] # 0 => BegunBy(cookie[b], b)'
    BY <1>3, <1>4 DEF BindingsAreOwn
  <2>2. ASSUME NEW j \in Calls, call'[j].at = "arrived"
        PROVE  /\ call'[j].browser \in Browsers /\ call'[j].subject \in Subjects
               /\ call'[j].flow \in Flows /\ flow'[call'[j].flow] # NoFlow
               /\ call'[j].binding # 0 => BegunBy(call[j].binding, call[j].browser)'
    BY <1>2, <1>4, <2>2, <1>3 DEF FlowKept, BegunBy, BindingsAreOwn
  <2>3. ASSUME NEW j \in Calls, call'[j].at \in {"checked", "signed_in"} \/ Holds(j)'
        PROVE  /\ call'[j].browser \in Browsers /\ call'[j].subject \in Subjects
               /\ call'[j].flow \in Flows /\ BegunBy(call[j].flow, call[j].browser)'
    BY <1>2, <2>3, <1>3 DEF BindingsAreOwn, Holds, BegunBy
  <2>4. \A j \in Calls : call'[j].at = "failed" => call'[j].browser \in Browsers
    BY <1>2 DEF BindingsAreOwn
  <2> QED
    BY <2>1, <2>2, <2>3, <2>4 DEF BindingsAreOwn
<1>6. \A j \in Calls : Holds(j)' => Holds(j) /\ call'[j].flow = call[j].flow
                                    /\ call[j].flow \in Flows /\ flow[call[j].flow] # NoFlow
  BY <1>2 DEF Holds, BindingsAreOwn, BegunBy
<1>7. FlowsTakenOnce'
  BY <1>6, <1>4 DEF FlowsTakenOnce, FlowKept, NoFlow
<1>8. UsersAreKnown'
  BY <1>2 DEF UsersAreKnown
<1>9. LoginHolds'
  <2>1. \A o \in opened : flow'[o.flow].by = flow[o.flow].by
    BY <1>4 DEF FlowsTakenOnce, FlowKept, NoFlow
  <2>2. OneSessionPerFlow'
    BY <2>1 DEF LoginHolds, OneSessionPerFlow
  <2> QED
    BY <2>2 DEF LoginHolds, SessionOfTheSubject, AccountsApart
<1> QED
  BY <1>1, <1>5, <1>7, <1>8, <1>9

\* A callback is of a flow, or of none yet.
LEMMA CallRow ==
  ASSUME LoginTypeOK, NEW k \in Calls
  PROVE  call[k] \in CallRows /\ call[k].flow \in Flows \cup {0}
  BY DEF LoginTypeOK, CallRows

\* A entry of a flow keeps its browser, and stays consumed.
LEMMA FlowRow ==
  ASSUME LoginTypeOK, NEW f \in Flows, NEW entry \in FlowRows,
         flow' = [flow EXCEPT ![f] = entry],
         flow[f] # NoFlow => /\ entry.by = flow[f].by
                             /\ flow[f].is = "consumed" => entry.is = "consumed"
  PROVE  flow' \in [Flows -> FlowRows \cup {NoFlow}] /\ \A g \in Flows : FlowKept(g)
<1>1. flow'[f] = entry /\ \A g \in Flows \ {f} : flow'[g] = flow[g]
  BY DEF LoginTypeOK
<1>2. entry # NoFlow
  BY DEF FlowRows, NoFlow
<1> QED
  BY <1>1, <1>2 DEF LoginTypeOK, FlowKept

\* A cookie stays, is cleared, or is of a flow its browser has begun.
CookiesOwn ==
  \A b \in Browsers : \/ cookie'[b] = cookie[b] \/ cookie'[b] = 0
                      \/ flow'[cookie'[b]] # NoFlow /\ flow'[cookie'[b]].by = b

\* Steps of browsers: rows and cookies, no callback.
LEMMA FlowMoves ==
  ASSUME LoginInv, UNCHANGED <<call, mail, identity, opened>>,
         flow' \in [Flows -> FlowRows \cup {NoFlow}], \A f \in Flows : FlowKept(f),
         cookie' \in [Browsers -> Flows \cup {0}], CookiesOwn
  PROVE  LoginInv'
<1> USE DEF LoginInv
<1>1. LoginTypeOK'
  BY DEF LoginTypeOK
<1>2. \A f \in Flows : \A b : BegunBy(f, b) => BegunBy(f, b)'
  BY DEF BegunBy, FlowKept
<1>3. /\ \A b \in Browsers : cookie[b] # 0 => cookie[b] \in Flows
      /\ \A j \in Calls : call[j].binding # 0 => call[j].binding \in Flows
      /\ \A o \in opened : o.flow \in Flows
  BY DEF LoginTypeOK, CallRows, LoginRows
<1>4. \A b \in Browsers : cookie'[b] # 0 => BegunBy(cookie[b], b)'
  BY <1>2, <1>3 DEF BindingsAreOwn, BegunBy, CookiesOwn
<1>5. \A j \in Calls : call[j].at = "arrived" =>
        /\ flow'[call[j].flow] # NoFlow
        /\ call[j].binding # 0 => BegunBy(call[j].binding, call[j].browser)'
  BY <1>2, <1>3 DEF BindingsAreOwn, FlowKept
<1>6. \A j \in Calls : call[j].at \in {"checked", "signed_in"} \/ Holds(j) =>
        BegunBy(call[j].flow, call[j].browser)'
  BY <1>2 DEF BindingsAreOwn
<1>7. BindingsAreOwn'
  BY <1>4, <1>5, <1>6 DEF BindingsAreOwn, Holds
<1>8. FlowsTakenOnce'
  BY <1>3 DEF FlowsTakenOnce, FlowKept, NoFlow, BindingsAreOwn, BegunBy, Holds
<1>9. LoginHolds' /\ UsersAreKnown'
  <2>1. \A o \in opened : flow'[o.flow].by = flow[o.flow].by
    BY <1>3 DEF FlowsTakenOnce, FlowKept, NoFlow
  <2>2. OneSessionPerFlow'
    BY <2>1 DEF LoginHolds, OneSessionPerFlow
  <2> QED
    BY <2>2 DEF LoginHolds, SessionOfTheSubject, AccountsApart, UsersAreKnown
<1> QED
  BY <1>1, <1>7, <1>8, <1>9

-------------------------------------------------------------------------------
(* Login: steps *)

\* createOauthFlow takes a new entry, and the browser its cookie.
LEMMA StartFlowOK ==
  ASSUME LoginInv, NEW b \in Browsers, NEW f \in Flows, StartFlow(b, f)  PROVE  LoginInv'
<1> DEFINE entry == [is |-> "pending", late |-> FALSE, by |-> b]
<1>1. /\ flow[f] = NoFlow /\ flow' = [flow EXCEPT ![f] = entry]
      /\ cookie' = [cookie EXCEPT ![b] = f] /\ UNCHANGED <<call, mail, identity, opened>>
  BY DEF StartFlow
<1>2. entry \in FlowRows /\ entry # NoFlow /\ entry.by = b
  BY DEF FlowRows, NoFlow
<1> HIDE DEF entry
<1>3. flow' \in [Flows -> FlowRows \cup {NoFlow}] /\ \A g \in Flows : FlowKept(g)
  BY <1>1, <1>2, FlowRow DEF LoginInv
<1>4. flow'[f] = entry
  BY <1>1 DEF LoginInv, LoginTypeOK
<1>5. cookie \in [Browsers -> Flows \cup {0}]
  BY DEF LoginInv, LoginTypeOK
<1>6. cookie' \in [Browsers -> Flows \cup {0}]
  BY <1>1, <1>5
<1>7. CookiesOwn
  <2> SUFFICES ASSUME NEW c \in Browsers
               PROVE  \/ cookie'[c] = cookie[c] \/ cookie'[c] = 0
                      \/ flow'[cookie'[c]] # NoFlow /\ flow'[cookie'[c]].by = c
    BY DEF CookiesOwn
  <2>1. CASE c = b
    BY <1>1, <1>2, <1>4, <1>5, <2>1
  <2>2. CASE c # b
    BY <1>1, <1>5, <2>2
  <2> QED
    BY <2>1, <2>2
<1> QED
  BY <1>1, <1>3, <1>6, <1>7, FlowMoves

\* A entry grows old.
LEMMA FlowAgesOK ==
  ASSUME LoginInv, NEW f \in Flows, FlowAges(f)  PROVE  LoginInv'
<1> DEFINE entry == [flow[f] EXCEPT !.late = TRUE]
<1>1. /\ flow[f].is = "pending" /\ flow' = [flow EXCEPT ![f].late = TRUE]
      /\ UNCHANGED <<cookie, call, mail, identity, opened>>
  BY DEF FlowAges
<1>2. flow[f] \in FlowRows
  <2>1. flow[f] \in FlowRows \cup {NoFlow}
    BY DEF LoginInv, LoginTypeOK
  <2>2. flow[f] # NoFlow
    BY <1>1 DEF NoFlow
  <2> QED
    BY <2>1, <2>2
<1>3. entry \in FlowRows /\ entry.by = flow[f].by
  BY <1>2 DEF FlowRows
<1>4. flow' = [flow EXCEPT ![f] = entry]
  BY <1>1 DEF LoginInv, LoginTypeOK
<1> HIDE DEF entry
<1>5. flow' \in [Flows -> FlowRows \cup {NoFlow}] /\ \A g \in Flows : FlowKept(g)
  BY <1>1, <1>3, <1>4, FlowRow DEF LoginInv
<1>6. cookie' \in [Browsers -> Flows \cup {0}]
  BY <1>1 DEF LoginInv, LoginTypeOK
<1>7. CookiesOwn
  BY <1>1 DEF CookiesOwn
<1> QED
  BY <1>1, <1>5, <1>6, <1>7, FlowMoves

\* Rows that do not change are kept.
LEMMA NothingKept ==
  ASSUME LoginTypeOK, flow' = flow
  PROVE  flow' \in [Flows -> FlowRows \cup {NoFlow}] /\ \A g \in Flows : FlowKept(g)
  BY DEF LoginTypeOK, FlowKept

\* A callback comes with the cookie of its browser.
LEMMA OpenCallbackOK ==
  ASSUME LoginInv, NEW b \in Browsers, NEW f \in Flows, NEW s \in Subjects, NEW k \in Calls,
         OpenCallback(b, f, s, k)
  PROVE  LoginInv'
<1> DEFINE entry == [NoCall EXCEPT !.at = "arrived", !.browser = b, !.flow = f, !.subject = s,
                                 !.binding = cookie[b]]
<1>1. /\ flow[f] # NoFlow /\ call' = [call EXCEPT ![k] = entry]
      /\ UNCHANGED <<flow, cookie, mail, identity, opened>>
  BY DEF OpenCallback
<1>2. cookie[b] \in Flows \cup {0} /\ (cookie[b] # 0 => BegunBy(cookie[b], b))
  BY DEF LoginInv, LoginTypeOK, BindingsAreOwn
<1>3. /\ entry \in CallRows /\ entry.at = "arrived" /\ entry.browser = b /\ entry.flow = f
      /\ entry.subject = s /\ entry.binding = cookie[b]
  BY <1>2 DEF NoCall, CallRows
<1> HIDE DEF entry
<1> QED
  BY <1>1, <1>2, <1>3, CallMoves, NothingKept DEF LoginInv

\* A failed callback.
LEMMA FailedRow ==
  ASSUME LoginInv, NEW k \in Calls, call[k].browser \in Browsers
  PROVE  \E entry \in CallRows : /\ entry.at = "failed" /\ entry.browser \in Browsers
                               /\ Failed(k) = [call EXCEPT ![k] = entry]
<1> DEFINE entry == [NoCall EXCEPT !.at = "failed", !.browser = call[k].browser]
<1>1. entry \in CallRows /\ entry.at = "failed" /\ entry.browser \in Browsers
  BY DEF NoCall, CallRows
<1> QED
  BY <1>1 DEF Failed

\* A callback goes on with the same flow.
LEMMA ToRow ==
  ASSUME LoginInv, NEW k \in Calls, NEW step \in {"checked", "taken", "signed_in"}
  PROVE  \E entry \in CallRows :
           /\ entry.at = step /\ To(k, step) = [call EXCEPT ![k] = entry]
           /\ entry.flow = call[k].flow /\ entry.browser = call[k].browser
           /\ entry.subject = call[k].subject /\ entry.binding = call[k].binding
<1> DEFINE entry == [call[k] EXCEPT !.at = step]
<1>1. call[k] \in CallRows
  BY CallRow DEF LoginInv
<1>2. /\ entry \in CallRows /\ entry.at = step /\ entry.flow = call[k].flow
      /\ entry.browser = call[k].browser /\ entry.subject = call[k].subject
      /\ entry.binding = call[k].binding
  BY <1>1 DEF CallRows
<1>3. To(k, step) = [call EXCEPT ![k] = entry]
  BY DEF To, LoginInv, LoginTypeOK
<1> QED
  BY <1>2, <1>3

\* consumeOauthFlow passes a callback only in the browser that began its flow.
LEMMA CheckFlowOK ==
  ASSUME LoginInv, NEW k \in Calls, CheckFlow(k)  PROVE  LoginInv'
<1> DEFINE f == call[k].flow
           lapsed == flow[f].is = "pending" /\ flow[f].late /\ call[k].binding # 0
           fits == flow[f].is = "pending" /\ ~flow[f].late /\ call[k].binding = f
<1>1. /\ call[k].at = "arrived"
      /\ flow' = IF lapsed THEN [flow EXCEPT ![f].is = "expired"] ELSE flow
      /\ call' = IF fits THEN To(k, "checked") ELSE Failed(k)
      /\ UNCHANGED <<cookie, mail, identity, opened>>
  BY DEF CheckFlow
<1>2. /\ call[k].browser \in Browsers /\ call[k].subject \in Subjects /\ f \in Flows
      /\ flow[f] # NoFlow
      /\ call[k].binding # 0 => BegunBy(call[k].binding, call[k].browser)
  BY <1>1 DEF LoginInv, BindingsAreOwn
<1>3. flow' \in [Flows -> FlowRows \cup {NoFlow}] /\ \A g \in Flows : FlowKept(g)
  <2>1. CASE ~lapsed
    BY <1>1, <2>1, NothingKept DEF LoginInv
  <2>2. CASE lapsed
    <3> DEFINE entry == [flow[f] EXCEPT !.is = "expired"]
    <3>1. flow[f] \in FlowRows
      BY <1>2 DEF LoginInv, LoginTypeOK
    <3>2. entry \in FlowRows /\ entry.by = flow[f].by
      BY <3>1 DEF FlowRows
    <3>3. flow' = [flow EXCEPT ![f] = entry]
      BY <1>1, <1>2, <2>2 DEF LoginInv, LoginTypeOK
    <3>4. flow[f].is # "consumed"
      BY <2>2
    <3> HIDE DEF entry, f
    <3> QED
      BY <1>2, <3>2, <3>3, <3>4, FlowRow DEF LoginInv
  <2> QED
    BY <2>1, <2>2
<1>4. CASE fits
  <2>1. PICK entry \in CallRows :
          /\ entry.at = "checked" /\ To(k, "checked") = [call EXCEPT ![k] = entry]
          /\ entry.flow = f /\ entry.browser = call[k].browser /\ entry.subject = call[k].subject
    BY ToRow
  <2>2. BegunBy(f, call[k].browser)
    BY <1>2, <1>4, UsersArePositive
  <2>3. call' = [call EXCEPT ![k] = entry]
    BY <1>1, <1>4, <2>1
  <2> HIDE DEF f, lapsed, fits
  <2> QED
    BY <1>1, <1>2, <1>3, <2>1, <2>2, <2>3, CallMoves
<1>5. CASE ~fits
  <2>1. PICK entry \in CallRows :
          entry.at = "failed" /\ entry.browser \in Browsers /\ Failed(k) = [call EXCEPT ![k] = entry]
    BY <1>2, FailedRow
  <2> QED
    BY <1>1, <1>3, <1>5, <2>1, CallMoves
<1> QED
  BY <1>4, <1>5

\* The identity token names an address.
LEMMA IdentifyOK ==
  ASSUME LoginInv, NEW k \in Calls, Identify(k)  PROVE  LoginInv'
<1>1. call[k].at = "taken" /\ UNCHANGED <<flow, cookie, mail, identity, opened>>
  BY DEF Identify
<1>2. call[k].browser \in Browsers
  BY <1>1 DEF LoginInv, BindingsAreOwn, Holds
<1>3. CASE call' = Failed(k)
  <2>1. PICK entry \in CallRows :
          entry.at = "failed" /\ entry.browser \in Browsers /\ Failed(k) = [call EXCEPT ![k] = entry]
    BY <1>2, FailedRow
  <2> QED
    BY <1>1, <1>3, <2>1, CallMoves, NothingKept DEF LoginInv
<1>4. ASSUME NEW m \in Mails,
             call' = [call EXCEPT ![k].at = "identified", ![k].mail = m]
      PROVE  LoginInv'
  <2> DEFINE entry == [call[k] EXCEPT !.at = "identified", !.mail = m]
  <2>1. call[k] \in CallRows
    BY CallRow DEF LoginInv
  <2>2. /\ entry \in CallRows /\ entry.at = "identified" /\ entry.mail = m /\ entry.flow = call[k].flow
        /\ entry.browser = call[k].browser /\ entry.subject = call[k].subject
    BY <2>1 DEF CallRows
  <2>3. call' = [call EXCEPT ![k] = entry]
    BY <1>4 DEF LoginInv, LoginTypeOK
  <2> HIDE DEF entry
  <2> QED
    BY <1>1, <2>2, <2>3, CallMoves, NothingKept DEF LoginInv
<1> QED
  BY <1>3, <1>4 DEF Identify

\* An answer clears the cookie of its browser.
LEMMA AnswerCallOK ==
  ASSUME LoginInv, NEW k \in Calls, AnswerCall(k)  PROVE  LoginInv'
<1> USE DEF LoginInv
<1> DEFINE entry == [NoCall EXCEPT !.at = "answered"]
<1>1. /\ call[k].at \in {"signed_in", "failed"} /\ call' = [call EXCEPT ![k] = entry]
      /\ cookie' = [cookie EXCEPT ![call[k].browser] = 0]
      /\ UNCHANGED <<flow, mail, identity, opened>>
  BY DEF AnswerCall
<1>2. call[k].browser \in Browsers
  BY <1>1 DEF BindingsAreOwn
<1>3. entry \in CallRows /\ entry.at = "answered"
  BY DEF NoCall, CallRows
<1> HIDE DEF entry
<1>4. LoginTypeOK'
  BY <1>1, <1>2, <1>3 DEF LoginTypeOK
<1>5. call'[k] = entry /\ \A j \in Calls \ {k} : call'[j] = call[j]
  BY <1>1 DEF LoginTypeOK
<1>6. \A b \in Browsers : cookie'[b] = 0 \/ cookie'[b] = cookie[b]
  BY <1>1, <1>2 DEF LoginTypeOK
<1>7. BindingsAreOwn'
  BY <1>1, <1>3, <1>5, <1>6 DEF BindingsAreOwn, BegunBy, Holds
<1>8. FlowsTakenOnce' /\ UsersAreKnown'
  BY <1>1, <1>3, <1>5 DEF FlowsTakenOnce, UsersAreKnown, Holds
<1>9. LoginHolds'
  BY <1>1 DEF LoginHolds, OneSessionPerFlow, SessionOfTheSubject, AccountsApart
<1> QED
  BY <1>4, <1>7, <1>8, <1>9

\* Nothing changes.
LEMMA LoginStutter == LoginInv /\ UNCHANGED loginVars => LoginInv'
<1> SUFFICES ASSUME LoginInv, UNCHANGED loginVars  PROVE  LoginInv'
  OBVIOUS
<1> USE DEF loginVars, LoginInv
<1>1. LoginTypeOK' /\ BindingsAreOwn'
  BY DEF LoginTypeOK, BindingsAreOwn, BegunBy, Holds
<1>2. FlowsTakenOnce' /\ UsersAreKnown'
  BY DEF FlowsTakenOnce, UsersAreKnown, Holds
<1>3. LoginHolds'
  BY DEF LoginHolds, OneSessionPerFlow, SessionOfTheSubject, AccountsApart
<1> QED
  BY <1>1, <1>2, <1>3

\* The entry is taken from pending, so no callback holds it and no session is of it.
LEMMA TakeFlowOK ==
  ASSUME LoginInv, NEW k \in Calls, TakeFlow(k)  PROVE  LoginInv'
<1> USE DEF LoginInv
<1> DEFINE f == call[k].flow
<1>1. /\ call[k].at = "checked"
      /\ flow' = IF flow[f].is = "pending" THEN [flow EXCEPT ![f].is = "consumed"] ELSE flow
      /\ call' = IF flow[f].is = "pending" THEN To(k, "taken") ELSE Failed(k)
      /\ UNCHANGED <<cookie, mail, identity, opened>>
  BY DEF TakeFlow
<1>2. /\ call[k].browser \in Browsers /\ call[k].subject \in Subjects /\ f \in Flows
      /\ BegunBy(f, call[k].browser)
  BY <1>1 DEF BindingsAreOwn
<1>3. CASE flow[f].is # "pending"
  <2>1. PICK entry \in CallRows :
          entry.at = "failed" /\ entry.browser \in Browsers /\ Failed(k) = [call EXCEPT ![k] = entry]
    BY <1>2, FailedRow
  <2> QED
    BY <1>1, <1>3, <2>1, CallMoves, NothingKept
<1>4. CASE flow[f].is = "pending"
  <2> DEFINE new == [flow[f] EXCEPT !.is = "consumed"]
  <2>1. PICK entry \in CallRows :
          /\ entry.at = "taken" /\ To(k, "taken") = [call EXCEPT ![k] = entry]
          /\ entry.flow = f /\ entry.browser = call[k].browser /\ entry.subject = call[k].subject
    BY ToRow
  <2>2. flow[f] \in FlowRows
    BY <1>2 DEF LoginTypeOK, BegunBy
  <2>3. new \in FlowRows /\ new.by = flow[f].by /\ new.is = "consumed"
    BY <2>2 DEF FlowRows
  <2>4. flow' = [flow EXCEPT ![f] = new]
    BY <1>1, <1>4, <1>2 DEF LoginTypeOK
  <2> HIDE DEF f, new
  <2>5. flow' \in [Flows -> FlowRows \cup {NoFlow}] /\ \A g \in Flows : FlowKept(g)
    BY <1>2, <2>3, <2>4, FlowRow
  <2>6. call' = [call EXCEPT ![k] = entry]
    BY <1>1, <1>4, <2>1 DEF f
  <2>7. LoginTypeOK'
    BY <1>1, <2>5, <2>6 DEF LoginTypeOK
  <2>8. call'[k] = entry /\ \A j \in Calls \ {k} : call'[j] = call[j]
    BY <2>6 DEF LoginTypeOK
  <2>9. flow'[f].is = "consumed" /\ \A g \in Flows : flow[g].is = "consumed" => g # f
    BY <1>2, <1>4, <2>3, <2>4 DEF f, LoginTypeOK
  <2>10. \A g \in Flows : \A b : BegunBy(g, b) => BegunBy(g, b)'
    BY <2>5 DEF BegunBy, FlowKept
  <2>11. /\ \A b \in Browsers : cookie[b] # 0 => cookie[b] \in Flows
         /\ \A j \in Calls : call[j].binding # 0 => call[j].binding \in Flows
         /\ \A o \in opened : o.flow \in Flows
    BY DEF LoginTypeOK, CallRows, LoginRows
  <2>12. BindingsAreOwn'
    <3>1. \A b \in Browsers : cookie'[b] # 0 => BegunBy(cookie[b], b)'
      BY <1>1, <2>10, <2>11 DEF BindingsAreOwn
    <3>2. ASSUME NEW j \in Calls, call'[j].at = "arrived"
          PROVE  /\ call'[j].browser \in Browsers /\ call'[j].subject \in Subjects
                 /\ call'[j].flow \in Flows /\ flow'[call'[j].flow] # NoFlow
                 /\ call'[j].binding # 0 => BegunBy(call[j].binding, call[j].browser)'
      BY <2>1, <2>8, <3>2, <2>5, <2>10, <2>11 DEF BindingsAreOwn, FlowKept, BegunBy
    <3>3. ASSUME NEW j \in Calls, call'[j].at \in {"checked", "signed_in"} \/ Holds(j)'
          PROVE  /\ call'[j].browser \in Browsers /\ call'[j].subject \in Subjects
                 /\ call'[j].flow \in Flows /\ BegunBy(call[j].flow, call[j].browser)'
      BY <1>2, <2>1, <2>8, <2>10, <3>3 DEF BegunBy, BindingsAreOwn, Holds
    <3>4. \A j \in Calls : call'[j].at = "failed" => call'[j].browser \in Browsers
      BY <2>1, <2>8 DEF BindingsAreOwn
    <3> QED
      BY <3>1, <3>2, <3>3, <3>4 DEF BindingsAreOwn
  <2>13. \A j \in Calls \ {k} : Holds(j)' =>
           /\ Holds(j) /\ call'[j].flow = call[j].flow /\ call[j].flow \in Flows
           /\ flow[call[j].flow].is = "consumed" /\ call[j].flow # f
           /\ flow'[call[j].flow].is = "consumed"
    BY <2>5, <2>8, <2>9 DEF Holds, BindingsAreOwn, BegunBy, FlowsTakenOnce, FlowKept
  <2>14. \A o \in opened : o.flow # f /\ flow'[o.flow].is = "consumed"
                           /\ flow'[o.flow].by = flow[o.flow].by
    BY <2>5, <2>9, <2>11 DEF FlowsTakenOnce, FlowKept, NoFlow
  <2>15. FlowsTakenOnce'
    <3> SUFFICES ASSUME NEW j \in Calls, Holds(j)'
                 PROVE  /\ flow'[call'[j].flow].is = "consumed"
                        /\ \A i \in Calls : Holds(i)' /\ call'[i].flow = call'[j].flow => i = j
                        /\ \A o \in opened : o.flow # call'[j].flow
      BY <1>1, <2>14 DEF FlowsTakenOnce
    <3>1. CASE j = k
      BY <2>1, <2>8, <2>9, <2>13, <2>14, <3>1
    <3>2. CASE j # k
      BY <2>1, <2>8, <2>13, <3>2 DEF FlowsTakenOnce
    <3> QED
      BY <3>1, <3>2
  <2>16. UsersAreKnown'
    BY <1>1, <2>1, <2>8 DEF UsersAreKnown
  <2>17. LoginHolds'
    BY <1>1, <2>14 DEF LoginHolds, OneSessionPerFlow, SessionOfTheSubject, AccountsApart
  <2> QED
    BY <2>7, <2>12, <2>15, <2>16, <2>17
<1> QED
  BY <1>3, <1>4

\* provisionUser finds one user for a subject, and gives it an address nobody else has.
LEMMA ResolveUserOK ==
  ASSUME LoginInv, NEW k \in Calls, ResolveUser(k)  PROVE  LoginInv'
<1> USE DEF LoginInv
<1> DEFINE m == call[k].mail
           s == call[k].subject
           linked == {identity[s]} \ {0}
           found == IF linked # {} THEN linked ELSE WithMail(m)
           user == IF found = {} THEN k ELSE CHOOSE u \in found : TRUE
           taken == m \in Admitted /\ WithMail(m) \subseteq {user}
           entry == [call[k] EXCEPT !.at = "provisioned", !.user = user]
<1>1. /\ call[k].at = "identified" /\ UNCHANGED <<flow, cookie, opened>>
      /\ IF taken
           THEN /\ mail' = [mail EXCEPT ![user] = m]
                /\ identity' = [identity EXCEPT ![s] = user]
                /\ call' = [call EXCEPT ![k].at = "provisioned", ![k].user = user]
           ELSE call' = Failed(k) /\ UNCHANGED <<mail, identity>>
  BY DEF ResolveUser
<1>2. /\ call[k].browser \in Browsers /\ s \in Subjects /\ call[k].flow \in Flows
      /\ BegunBy(call[k].flow, call[k].browser)
  BY <1>1 DEF BindingsAreOwn, Holds
<1>3. m \in Mails /\ m # ""
  BY <1>1, LoginAssumption DEF UsersAreKnown
<1>4. CASE ~taken
  <2>1. PICK new \in CallRows :
          new.at = "failed" /\ new.browser \in Browsers /\ Failed(k) = [call EXCEPT ![k] = new]
    BY <1>2, FailedRow
  <2>2. call' = [call EXCEPT ![k] = new] /\ UNCHANGED <<mail, identity>>
    BY <1>1, <1>4, <2>1
  <2> HIDE DEF taken, entry, user, found, linked
  <2> QED
    BY <1>1, <2>1, <2>2, CallMoves, NothingKept
<1>5. user \in Users /\ (identity[s] # 0 => user = identity[s])
  <2>1. identity[s] \in Users \cup {0} /\ k \in Users
    BY <1>2, UsersArePositive DEF LoginTypeOK
  <2>2. CASE identity[s] # 0
    <3>1. found = {identity[s]}
      BY <2>2
    <3> HIDE DEF found
    <3> QED
      BY <2>1, <2>2, <3>1
  <2>3. CASE identity[s] = 0
    <3>1. found \subseteq Users
      BY <2>3 DEF WithMail
    <3> HIDE DEF found
    <3> QED
      BY <2>1, <2>3, <3>1
  <2> QED
    BY <2>2, <2>3
<1>6. CASE taken
  <2>1. /\ mail' = [mail EXCEPT ![user] = m] /\ identity' = [identity EXCEPT ![s] = user]
        /\ call' = [call EXCEPT ![k].at = "provisioned", ![k].user = user]
        /\ WithMail(m) \subseteq {user}
    BY <1>1, <1>6
  <2> HIDE DEF user, found, linked, taken
  <2>2. call[k] \in CallRows
    BY CallRow
  <2>3. /\ entry \in CallRows /\ entry.at = "provisioned" /\ entry.user = user
        /\ entry.flow = call[k].flow /\ entry.browser = call[k].browser /\ entry.subject = s
    BY <1>5, <2>2 DEF CallRows
  <2>4. call' = [call EXCEPT ![k] = entry]
    BY <2>1 DEF LoginTypeOK
  <2> HIDE DEF entry
  <2>5. call'[k] = entry /\ \A j \in Calls \ {k} : call'[j] = call[j]
    BY <2>4 DEF LoginTypeOK
  <2>6. /\ mail \in [Users -> Mails \cup {""}] /\ identity \in [Subjects -> Users \cup {0}]
    BY DEF LoginTypeOK
  <2> HIDE DEF m, s
  <2>7. /\ mail'[user] = m /\ \A u \in Users \ {user} : mail'[u] = mail[u]
        /\ identity'[s] = user /\ \A t \in Subjects \ {s} : identity'[t] = identity[t]
        /\ mail' \in [Users -> Mails \cup {""}] /\ identity' \in [Subjects -> Users \cup {0}]
    BY <1>2, <1>3, <1>5, <2>1, <2>6
  <2>8. LoginTypeOK'
    BY <1>1, <2>3, <2>4, <2>7 DEF LoginTypeOK
  <2>9. BindingsAreOwn'
    BY <1>1, <2>3, <2>5, <1>2 DEF BindingsAreOwn, BegunBy, Holds
  <2>10. \A j \in Calls : Holds(j)' <=> Holds(j)
    BY <1>1, <2>3, <2>5 DEF Holds
  <2>11. \A j \in Calls : call'[j].flow = call[j].flow
    BY <2>3, <2>5
  <2>12. FlowsTakenOnce'
    BY <1>1, <2>10, <2>11 DEF FlowsTakenOnce
  <2>13. \A t \in Subjects : identity[t] # 0 => identity'[t] = identity[t]
    BY <1>5, <2>7
  <2>14. UsersAreKnown'
    <3> SUFFICES ASSUME NEW j \in Calls
                 PROVE  /\ call'[j].at = "identified" => call'[j].mail \in Mails
                        /\ call'[j].at = "provisioned" =>
                             /\ call'[j].user \in Users
                             /\ identity'[call'[j].subject] = call'[j].user
      BY DEF UsersAreKnown
    <3>1. CASE j = k
      BY <1>5, <2>3, <2>5, <2>7, <3>1
    <3>2. CASE j # k
      BY <2>5, <2>13, <3>2, UsersArePositive DEF BindingsAreOwn, Holds, UsersAreKnown
    <3> QED
      BY <3>1, <3>2
  <2>15. OneSessionPerFlow'
    BY <1>1 DEF LoginHolds, OneSessionPerFlow
  <2>16. SessionOfTheSubject'
    <3>1. \A o \in opened : o.subject \in Subjects /\ o.user \in Users
      BY DEF LoginTypeOK, LoginRows
    <3> QED
      BY <1>1, <2>13, <3>1, UsersArePositive DEF LoginHolds, SessionOfTheSubject
  <2>17. AccountsApart'
    <3>1. \A u, v \in Users : mail'[u] = mail'[v] /\ mail'[u] # "" => u = v
      BY <1>5, <2>1, <2>7 DEF WithMail, LoginHolds, AccountsApart
    <3>2. ASSUME NEW u \in Users
          PROVE  mail'[u] # "" <=> \E t \in Subjects : identity'[t] = u
      <4>1. CASE u = user
        BY <1>2, <1>3, <2>7, <4>1
      <4>2. CASE u # user
        <5>1. \A t \in Subjects : identity'[t] = u <=> identity[t] = u
          BY <1>2, <1>5, <2>7, <4>2, UsersArePositive
        <5> QED
          BY <2>7, <4>2, <5>1 DEF LoginHolds, AccountsApart
      <4> QED
        BY <4>1, <4>2
    <3> QED
      BY <3>1, <3>2 DEF AccountsApart
  <2> QED
    BY <2>8, <2>9, <2>12, <2>14, <2>15, <2>16, <2>17 DEF LoginHolds
<1> QED
  BY <1>4, <1>6

\* createSession opens the session of a flow that had none.
LEMMA OpenSessionOK ==
  ASSUME LoginInv, NEW k \in Calls, OpenSession(k)  PROVE  LoginInv'
<1> USE DEF LoginInv
<1> DEFINE new == [flow |-> call[k].flow, browser |-> call[k].browser,
                   subject |-> call[k].subject, user |-> call[k].user, call |-> k]
<1>1. /\ call[k].at = "provisioned" /\ UNCHANGED <<flow, cookie, mail, identity>>
      /\ opened' = opened \cup {new} /\ call' = To(k, "signed_in")
  BY DEF OpenSession
<1>2. /\ call[k].browser \in Browsers /\ call[k].subject \in Subjects
      /\ call[k].flow \in Flows /\ BegunBy(call[k].flow, call[k].browser)
      /\ call[k].user \in Users /\ identity[call[k].subject] = call[k].user
      /\ Holds(k) /\ flow[call[k].flow].is = "consumed"
  BY <1>1 DEF BindingsAreOwn, Holds, UsersAreKnown, FlowsTakenOnce
<1>3. /\ new \in LoginRows /\ new.flow = call[k].flow /\ new.browser = call[k].browser
      /\ new.subject = call[k].subject /\ new.user = call[k].user
  BY <1>2 DEF LoginRows
<1> HIDE DEF new
<1>4. PICK entry \in CallRows :
        /\ entry.at = "signed_in" /\ To(k, "signed_in") = [call EXCEPT ![k] = entry]
        /\ entry.flow = call[k].flow /\ entry.browser = call[k].browser
        /\ entry.subject = call[k].subject
  BY ToRow
<1>5. call' = [call EXCEPT ![k] = entry]
  BY <1>1, <1>4
<1>6. call'[k] = entry /\ \A j \in Calls \ {k} : call'[j] = call[j]
  BY <1>5 DEF LoginTypeOK
<1>7. LoginTypeOK'
  BY <1>1, <1>3, <1>5 DEF LoginTypeOK
<1>8. BindingsAreOwn'
  BY <1>1, <1>4, <1>6, <1>2 DEF BindingsAreOwn, BegunBy, Holds
<1>9. \A j \in Calls : Holds(j)' => j # k /\ Holds(j) /\ call'[j] = call[j]
  BY <1>4, <1>6 DEF Holds
<1>10. FlowsTakenOnce'
  BY <1>1, <1>2, <1>3, <1>9 DEF FlowsTakenOnce
<1>11. UsersAreKnown'
  BY <1>1, <1>4, <1>6 DEF UsersAreKnown
<1>12. OneSessionPerFlow'
  BY <1>2, <1>3, <1>1 DEF FlowsTakenOnce, BegunBy, LoginHolds, OneSessionPerFlow
<1>13. SessionOfTheSubject' /\ AccountsApart'
  BY <1>1, <1>2, <1>3 DEF LoginHolds, SessionOfTheSubject, AccountsApart
<1> QED
  BY <1>7, <1>8, <1>10, <1>11, <1>12, <1>13 DEF LoginHolds

\* Every step of signing in.
LEMMA LoginStep == LoginInv /\ [LoginNext]_loginVars => LoginInv'
<1> SUFFICES ASSUME LoginInv, [LoginNext]_loginVars  PROVE  LoginInv'
  OBVIOUS
<1>1. ASSUME NEW b \in Browsers, NEW f \in Flows,
             \/ StartFlow(b, f)
             \/ \E s \in Subjects, k \in Calls : OpenCallback(b, f, s, k)
      PROVE  LoginInv'
  BY <1>1, StartFlowOK, OpenCallbackOK
<1>2. ASSUME NEW k \in Calls, CheckFlow(k) \/ TakeFlow(k) \/ Identify(k)
                                \/ ResolveUser(k) \/ OpenSession(k) \/ AnswerCall(k)
      PROVE  LoginInv'
  BY <1>2, CheckFlowOK, TakeFlowOK, IdentifyOK, ResolveUserOK, OpenSessionOK, AnswerCallOK
<1> QED
  BY <1>1, <1>2, FlowAgesOK, LoginStutter DEF LoginNext

-------------------------------------------------------------------------------
(* Login: theorems *)

\* Rows, cookies, callbacks and accounts keep their types, and a flow is held by
\* one callback.
THEOREM LoginInvHolds == LoginSpec => []LoginInv
  BY LoginInitOK, LoginStep, PTL DEF LoginSpec

\* For any number of browsers, subjects, flows and callbacks: sign-in is
\* single-use and tied to its browser, a subject keeps its account, and accounts
\* stay distinct.
THEOREM LoginIsSafe == LoginSpec => []LoginHolds
<1>1. LoginInv => LoginHolds
  BY DEF LoginInv
<1> QED
  BY <1>1, LoginInvHolds, PTL

\* A member signs in and is suspended, codes are passed on, and devices come and
\* go, all at once (auth-routes.ts, auth-service.ts, device-service.ts,
\* member-suspension-service.ts): accounts are distinct, each reached by its own
\* subject, and nothing issued before a suspension works after it.
THEOREM AccountsAreSafe == AccountsSpec => []AccountsHold
  BY LoginIsSafe, AccessIsSafe, PTL DEF AccountsSpec, AccountsHold

-------------------------------------------------------------------------------
(* How a message reaches a room: the invariant *)

Drafts == [text : Nat, key : Nat, uncertain : BOOLEAN]
MessageCalls ==
  [try : Nat, key : Nat \ {0}, text : Nat \ {0}, mount : Nat, session : Nat,
   answer : {"none", "ok", "refused"}]
Posts == [try : Nat, key : Nat \ {0}, text : Nat \ {0}]

ComposerTypeOK ==
  /\ client \in {"browser", "phone"}
  /\ draft \in Drafts /\ disk \in Drafts
  /\ texts \in Nat /\ tries \in Nat /\ mount \in Nat /\ generation \in Nat
  /\ calls \subseteq MessageCalls /\ wire \subseteq Posts /\ stored \subseteq Posts
  /\ unsure \subseteq Nat /\ doubted \subseteq Nat /\ earlier \in Nat

\* Counters give what is new.
NumbersGiven ==
  /\ earlier <= texts /\ draft.text <= texts /\ disk.text <= texts
  /\ draft.key <= tries /\ disk.key <= tries
  /\ \A c \in calls : c.try <= tries /\ c.key <= tries /\ c.text <= texts
                      /\ c.mount <= mount /\ c.session <= generation
  /\ \A r \in wire : r.try <= tries /\ r.key <= tries /\ r.text <= texts
  /\ \A m \in stored : m.key <= tries /\ m.text <= texts

\* What belongs to the login and the screen of now: the web has one draft and one
\* call at most, which is of that draft; the phone has no end of a login.
SessionsApart ==
  /\ client = "phone" => generation = 0 /\ earlier = 0
  /\ \A d \in {draft, disk} : d.text # 0 => d.text > earlier
  /\ \A c \in calls : IF c.session = generation THEN c.text > earlier ELSE c.text <= earlier
  /\ client = "browser" =>
       /\ disk = draft
       /\ \A c \in calls : c.mount = mount /\ (Current(c) => c.text = draft.text)

\* A text goes by a key on its way, at its sender or in the room.
GoesBy(k, t) ==
  \/ \E c \in calls : c.key = k /\ c.text = t
  \/ \E r \in wire : r.key = k /\ r.text = t
  \/ \E m \in stored : m.key = k /\ m.text = t

KeyTellsText ==
  /\ \A k, t, u \in Nat : GoesBy(k, t) /\ GoesBy(k, u) => t = u
  /\ \A d \in {draft, disk} : \A t \in Nat : d.key # 0 /\ GoesBy(d.key, t) => t = d.text
  /\ draft.key = disk.key /\ draft.key # 0 => draft.text = disk.text

\* A text that is not in doubt goes by one key, the one its draft keeps.
OneKey ==
  /\ \A t \in Nat \ doubted : \A k, l \in Nat : GoesBy(k, t) /\ GoesBy(l, t) => k = l
  /\ \A d \in {draft, disk} : d.text # 0 /\ d.text \notin doubted =>
       \A k \in Nat : GoesBy(k, d.text) => k = d.key /\ d.uncertain

\* MessageCalls and requests in pairs; a call of a screen that was left is given up.
CallsFit ==
  /\ \A r \in wire : r.key \notin unsure => \E c \in calls : c.try = r.try
  /\ \A r \in wire : \A c \in calls :
       c.try = r.try => c.answer = "none" /\ c.key = r.key /\ c.text = r.text
  /\ \A r, s \in wire : r.try = s.try => r = s
  /\ \A c \in calls : c.key \notin unsure => c.mount = mount
  /\ \A c, d \in calls : c.mount = d.mount => c = d

\* A key is stored once, before its success is told; and a text that is stored
\* under a key that was not given up has its answer still to come, or was let go.
StoredFits ==
  /\ \A m, n \in stored : m.key = n.key => m = n
  /\ \A c \in calls : c.answer = "ok" => \E m \in stored : m.key = c.key
  /\ \A m \in stored : m.key \notin unsure /\ m.text \notin doubted =>
       \/ \E c \in calls : c.key = m.key /\ c.answer = "ok"
       \/ /\ m.text \notin {draft.text, disk.text}
          /\ \A c \in calls : c.text # m.text
          /\ \A r \in wire : r.text # m.text

ComposerInv ==
  ComposerTypeOK /\ NumbersGiven /\ SessionsApart /\ KeyTellsText /\ OneKey /\ CallsFit
    /\ StoredFits

LEMMA ComposerInitOK == ComposerInit => ComposerInv
<1> SUFFICES ASSUME ComposerInit PROVE ComposerInv
  OBVIOUS
<1> USE DEF ComposerInit, Empty, Draft, NoKey
<1>1. ComposerTypeOK /\ NumbersGiven /\ SessionsApart
  BY DEF ComposerTypeOK, NumbersGiven, SessionsApart, Drafts
<1>2. \A k, t \in Nat : ~GoesBy(k, t)
  BY DEF GoesBy
<1>3. KeyTellsText /\ OneKey
  BY <1>2 DEF KeyTellsText, OneKey
<1>4. CallsFit /\ StoredFits
  BY DEF CallsFit, StoredFits
<1> QED
  BY <1>1, <1>3, <1>4 DEF ComposerInv

-------------------------------------------------------------------------------
(* How a message reaches a room: what the steps have in common *)

\* Nothing goes by a key that did not before.
NoNewKeys == \A k, t \in Nat : GoesBy(k, t)' => GoesBy(k, t)

LEMMA NothingNew ==
  ASSUME ComposerTypeOK, ComposerTypeOK',
         \A c \in calls' : \E b \in calls : b.key = c.key /\ b.text = c.text,
         wire' \subseteq wire,
         \A m \in stored' : m \in stored \/ \E r \in wire : r.key = m.key /\ r.text = m.text
  PROVE  NoNewKeys
BY DEF NoNewKeys, GoesBy

LEMMA KeyTellsTextKeeps ==
  ASSUME ComposerTypeOK', KeyTellsText, NoNewKeys,
         \A d \in {draft', disk'} :
           \/ d.key = 0
           \/ \E e \in {draft, disk} : d.key = e.key /\ d.text = e.text
           \/ GoesBy(d.key, d.text)
  PROVE  KeyTellsText'
<1>1. \A k, t, u \in Nat : GoesBy(k, t)' /\ GoesBy(k, u)' => t = u
  BY DEF KeyTellsText, NoNewKeys
<1>2. \A d \in {draft', disk'} : d.key \in Nat /\ d.text \in Nat
  BY DEF ComposerTypeOK, Drafts
<1>3. ASSUME NEW d \in {draft', disk'}, d.key # 0, NEW t \in Nat, GoesBy(d.key, t)
      PROVE  t = d.text
  BY <1>2, <1>3 DEF KeyTellsText
<1>4. \A d \in {draft', disk'} : \A t \in Nat : d.key # 0 /\ GoesBy(d.key, t)' => t = d.text
  BY <1>2, <1>3 DEF NoNewKeys
<1>5. draft'.key = disk'.key /\ draft'.key # 0 => draft'.text = disk'.text
  BY <1>2 DEF KeyTellsText
<1> QED
  BY <1>1, <1>4, <1>5 DEF KeyTellsText

LEMMA OneKeyKeeps ==
  ASSUME ComposerTypeOK', OneKey, NoNewKeys, doubted \subseteq doubted',
         \A d \in {draft', disk'} :
           \/ d.text = 0 \/ d.text \in doubted'
           \/ d \in {draft, disk}
           \/ \A k \in Nat : ~GoesBy(k, d.text)'
           \/ d.uncertain /\ GoesBy(d.key, d.text)
  PROVE  OneKey'
BY DEF OneKey, NoNewKeys, ComposerTypeOK, Drafts

\* A step that only changes the draft, to one that has no key.
LEMMA AtRest ==
  ASSUME ComposerInv, ComposerTypeOK',
         UNCHANGED <<mount, calls, wire, stored, unsure, doubted>>,
         disk' = draft', draft'.key = 0,
         \/ draft'.text = 0
         \/ draft'.text = draft.text /\ ~draft.uncertain
         \/ draft'.text > texts
  PROVE  KeyTellsText' /\ OneKey' /\ CallsFit' /\ StoredFits'
<1> USE DEF ComposerInv
<1>1. NoNewKeys
  BY NothingNew
<1>2. \A k, t \in Nat : GoesBy(k, t)' => t <= texts /\ t # 0
  BY DEF GoesBy, NumbersGiven, ComposerTypeOK, MessageCalls, Posts
<1>3. KeyTellsText'
  BY <1>1, KeyTellsTextKeeps
<1>4. draft'.text \in Nat /\ draft.text \in Nat /\ texts \in Nat
  BY DEF ComposerTypeOK, Drafts
<1>5. ASSUME NEW t \in Nat, t = draft'.text, t # 0, t \notin doubted, NEW k \in Nat
      PROVE  ~GoesBy(k, t)'
  BY <1>5, <1>1, <1>2, <1>4 DEF OneKey, NoNewKeys
<1>6. OneKey'
  BY <1>4, <1>5, <1>1, OneKeyKeeps
<1>7. CallsFit'
  BY DEF CallsFit
<1>8. \A m \in stored : m.text \in Nat \ {0} /\ m.text <= texts
  BY DEF NumbersGiven, ComposerTypeOK, Posts
<1>9. StoredFits'
  BY <1>4, <1>8 DEF StoredFits
<1> QED
  BY <1>3, <1>6, <1>7, <1>9

\* A call that is answered: nothing else of its text is under way, unless the key
\* was given up before or the text is in doubt.
LEMMA AnsweredIsAll ==
  ASSUME ComposerInv, NEW c \in calls, c.answer # "none",
         c.key \notin unsure, c.text \notin doubted
  PROVE  /\ \A b \in calls : b.text = c.text => b = c
         /\ \A r \in wire : r.text # c.text
<1> USE DEF ComposerInv
<1>1. c.key \in Nat /\ c.text \in Nat /\ GoesBy(c.key, c.text)
  BY DEF GoesBy, ComposerTypeOK, MessageCalls
<1>2. c.mount = mount
  BY DEF CallsFit
<1>3. ASSUME NEW b \in calls, b.text = c.text PROVE b = c
  BY <1>3, <1>1, <1>2 DEF GoesBy, ComposerTypeOK, MessageCalls, OneKey, CallsFit
<1>4. ASSUME NEW r \in wire, r.text = c.text PROVE FALSE
  <2>1. r.key \in Nat /\ GoesBy(r.key, c.text)
    BY <1>4 DEF GoesBy, ComposerTypeOK, Posts
  <2>2. r.key = c.key
    BY <1>1, <2>1 DEF OneKey
  <2>3. PICK b \in calls : b.try = r.try
    BY <2>2 DEF CallsFit
  <2>4. b.answer = "none" /\ b.text = r.text
    BY <2>3 DEF CallsFit
  <2> QED
    BY <1>3, <1>4, <2>4
<1> QED
  BY <1>3, <1>4

\* One that is refused is not stored either.
LEMMA RefusedIsNowhere ==
  ASSUME ComposerInv, NEW c \in calls, c.answer = "refused",
         c.key \notin unsure, c.text \notin doubted
  PROVE  \A m \in stored : m.text # c.text
<1> USE DEF ComposerInv
<1> SUFFICES ASSUME NEW m \in stored, m.text = c.text PROVE FALSE
  OBVIOUS
<1>1. /\ c.key \in Nat /\ c.text \in Nat /\ GoesBy(c.key, c.text)
      /\ m.key \in Nat /\ GoesBy(m.key, c.text)
  BY DEF GoesBy, ComposerTypeOK, MessageCalls, Posts
<1>2. m.key = c.key
  BY <1>1 DEF OneKey
<1>3. CASE \E b \in calls : b.key = m.key /\ b.answer = "ok"
  <2>1. PICK b \in calls : b.key = m.key /\ b.answer = "ok"
    BY <1>3
  <2>2. b.text \in Nat /\ GoesBy(c.key, b.text)
    BY <1>2, <2>1 DEF GoesBy, ComposerTypeOK, MessageCalls
  <2>3. b.text = c.text
    BY <1>1, <2>2 DEF KeyTellsText
  <2> QED
    BY <2>1, <2>3, AnsweredIsAll
<1>4. CASE \A b \in calls : b.text # m.text
  BY <1>4
<1> QED
  BY <1>2, <1>3, <1>4 DEF StoredFits

-------------------------------------------------------------------------------
(* How a message reaches a room: each step *)

LEMMA TypeKeeps == ASSUME ComposerInv, Type PROVE ComposerInv'
<1> USE DEF ComposerInv
<1>1. /\ draft' = [text |-> texts + 1, key |-> 0, uncertain |-> FALSE]
      /\ disk' = draft' /\ texts' = texts + 1
      /\ UNCHANGED <<client, tries, mount, generation, calls, wire, stored, unsure, doubted, earlier>>
      /\ \A c \in calls : c.mount # mount
  BY DEF Type, Persist, Draft, NoKey, Sending, ghostVars
<1>2. ComposerTypeOK'
  BY <1>1 DEF ComposerTypeOK, Drafts
<1>3. NumbersGiven'
  BY <1>1 DEF NumbersGiven, ComposerTypeOK, Drafts, MessageCalls, Posts
<1>4. SessionsApart'
  BY <1>1 DEF SessionsApart, NumbersGiven, ComposerTypeOK, MessageCalls, Current
<1>5. KeyTellsText' /\ OneKey' /\ CallsFit' /\ StoredFits'
  BY <1>1, <1>2, AtRest DEF ComposerTypeOK
<1> QED
  BY <1>2, <1>3, <1>4, <1>5

LEMMA RetouchKeeps == ASSUME ComposerInv, Retouch PROVE ComposerInv'
<1> USE DEF ComposerInv
<1>1. /\ draft' = [draft EXCEPT !.key = 0] /\ disk' = draft' /\ ~draft.uncertain
      /\ UNCHANGED <<client, texts, tries, mount, generation, calls, wire, stored, unsure,
                     doubted, earlier>>
  BY DEF Retouch, Persist, NoKey, ghostVars, countVars
<1>2. draft' \in Drafts /\ draft'.text = draft.text /\ draft'.key = 0
  BY <1>1 DEF ComposerTypeOK, Drafts
<1>3. ComposerTypeOK'
  BY <1>1, <1>2 DEF ComposerTypeOK
<1>4. NumbersGiven'
  BY <1>1, <1>2 DEF NumbersGiven, ComposerTypeOK
<1>5. SessionsApart'
  BY <1>1, <1>2 DEF SessionsApart, Current
<1>6. KeyTellsText' /\ OneKey' /\ CallsFit' /\ StoredFits'
  BY <1>1, <1>2, <1>3, AtRest
<1> QED
  BY <1>3, <1>4, <1>5, <1>6

LEMMA ClearDraftsKeeps == ASSUME ComposerInv, ClearDrafts PROVE ComposerInv'
<1> USE DEF ComposerInv
<1>1. /\ draft' = [text |-> 0, key |-> 0, uncertain |-> FALSE] /\ disk' = draft'
      /\ generation' = generation + 1 /\ earlier' = texts /\ client = "browser"
      /\ UNCHANGED <<client, texts, tries, mount, calls, wire, stored, unsure, doubted>>
  BY DEF ClearDrafts, Persist, Empty, Draft, NoKey
<1>2. ComposerTypeOK'
  BY <1>1 DEF ComposerTypeOK, Drafts
<1>3. NumbersGiven'
  BY <1>1 DEF NumbersGiven, ComposerTypeOK, MessageCalls
<1>4. SessionsApart'
  BY <1>1 DEF SessionsApart, NumbersGiven, ComposerTypeOK, MessageCalls, Current
<1>5. KeyTellsText' /\ OneKey' /\ CallsFit' /\ StoredFits'
  BY <1>1, <1>2, AtRest
<1> QED
  BY <1>2, <1>3, <1>4, <1>5

LEMMA SendKeeps == ASSUME ComposerInv, SendDraft PROVE ComposerInv'
<1> USE DEF ComposerInv
<1> DEFINE k == IF draft.key = 0 THEN tries + 1 ELSE draft.key
           t == draft.text
           w == [try |-> tries + 1, key |-> k, text |-> t]
           n == [try |-> tries + 1, key |-> k, text |-> t, mount |-> mount,
                 session |-> generation, answer |-> "none"]
<1>1. /\ draft' = [text |-> t, key |-> k, uncertain |-> TRUE] /\ disk' = draft'
      /\ tries' = tries + 1 /\ wire' = wire \cup {w} /\ calls' = calls \cup {n}
      /\ UNCHANGED <<client, texts, mount, generation, stored, unsure, doubted, earlier>>
      /\ \A c \in calls : c.mount # mount
      /\ t # 0
  BY DEF SendDraft, Persist, Draft, KeyToSend, NoKey, Sending, ghostVars
<1>2. k \in Nat \ {0} /\ k <= tries + 1 /\ t \in Nat \ {0} /\ t <= texts /\ tries \in Nat
  BY <1>1 DEF ComposerTypeOK, Drafts, NumbersGiven
<1>3. /\ n \in MessageCalls /\ n.try = tries + 1 /\ n.key = k /\ n.text = t /\ n.mount = mount
      /\ n.session = generation /\ n.answer = "none"
      /\ w \in Posts /\ w.try = tries + 1 /\ w.key = k /\ w.text = t
      /\ draft' \in Drafts /\ draft'.text = t /\ draft'.key = k /\ draft'.uncertain = TRUE
  BY <1>1, <1>2 DEF ComposerTypeOK, MessageCalls, Posts, Drafts
<1>4. /\ k = draft.key \/ (k = tries + 1 /\ draft.key = 0)
      /\ \A x, u \in Nat : GoesBy(x, u) => x <= tries /\ x # 0
  BY DEF GoesBy, NumbersGiven, ComposerTypeOK, MessageCalls, Posts
<1> HIDE DEF k, t, w, n
<1>5. ComposerTypeOK'
  BY <1>1, <1>3 DEF ComposerTypeOK
<1>6. NumbersGiven'
  BY <1>1, <1>2, <1>3 DEF NumbersGiven, ComposerTypeOK, MessageCalls, Posts
<1>7. SessionsApart'
  BY <1>1, <1>2, <1>3 DEF SessionsApart, Current, t
<1>15. PICK K, T \in Nat \ {0} : K = k /\ T = t
  BY <1>2
<1>8. \A x, u \in Nat : GoesBy(x, u)' => GoesBy(x, u) \/ (x = K /\ u = T)
  BY <1>1, <1>3, <1>15 DEF GoesBy
<1>9. \A u \in Nat : GoesBy(K, u) => u = T
  BY <1>2, <1>4, <1>15 DEF KeyTellsText, t
<1>10. T \notin doubted => \A x \in Nat : GoesBy(x, T) => x = K
  <2> SUFFICES ASSUME T \notin doubted, NEW x \in Nat, GoesBy(x, T) PROVE x = K
    OBVIOUS
  <2>1. x = draft.key
    BY <1>1, <1>15 DEF OneKey, t
  <2>2. x # 0
    BY <1>2, <1>4
  <2> QED
    BY <1>4, <1>15, <2>1, <2>2
<1>11. KeyTellsText'
  BY <1>8, <1>9, <1>2, <1>1, <1>3, <1>15 DEF KeyTellsText
<1>12. OneKey'
  BY <1>8, <1>10, <1>2, <1>1, <1>3, <1>15 DEF OneKey
<1>13. CallsFit'
  <2>1. \A c \in calls : c.try <= tries /\ c.try \in Nat
    BY DEF NumbersGiven, ComposerTypeOK, MessageCalls
  <2>2. \A r \in wire : r.try <= tries /\ r.try \in Nat
    BY DEF NumbersGiven, ComposerTypeOK, Posts
  <2>3. \A r \in wire' : r.key \notin unsure => \E c \in calls' : c.try = r.try
    BY <1>1, <1>3 DEF CallsFit
  <2>4. \A r \in wire' : \A c \in calls' :
          c.try = r.try => c.answer = "none" /\ c.key = r.key /\ c.text = r.text
    BY <1>1, <1>2, <1>3, <2>1, <2>2 DEF CallsFit
  <2>5. \A r, s \in wire' : r.try = s.try => r = s
    BY <1>1, <1>2, <1>3, <2>2 DEF CallsFit
  <2>6. \A c \in calls' : c.key \notin unsure => c.mount = mount
    BY <1>1, <1>3 DEF CallsFit
  <2>7. \A c, d \in calls' : c.mount = d.mount => c = d
    BY <1>1, <1>3 DEF CallsFit
  <2> QED
    BY <1>1, <2>3, <2>4, <2>5, <2>6, <2>7 DEF CallsFit
<1>14. StoredFits'
  BY <1>1, <1>3 DEF StoredFits, t
<1> QED
  BY <1>5, <1>6, <1>7, <1>11, <1>12, <1>13, <1>14

LEMMA LeavingKeeps == ASSUME ComposerInv, Reopen \/ Restart PROVE ComposerInv'
<1> USE DEF ComposerInv
<1>1. /\ mount' = mount + 1 /\ draft' = disk
      /\ calls' \subseteq calls /\ (client = "browser" => calls' = {})
      /\ unsure' = unsure \cup {c.key : c \in calls}
      /\ UNCHANGED <<client, disk, texts, tries, generation, wire, stored, doubted, earlier>>
  BY DEF Reopen, Restart, ComposerTypeOK
<1>2. ComposerTypeOK'
  <2>1. unsure' \subseteq Nat
    <3>1. \A c \in calls : c.key \in Nat
      BY DEF ComposerTypeOK, MessageCalls
    <3> QED
      BY <1>1, <3>1 DEF ComposerTypeOK
  <2>2. draft' \in Drafts /\ mount' \in Nat /\ calls' \subseteq MessageCalls
    BY <1>1 DEF ComposerTypeOK
  <2> QED
    BY <1>1, <2>1, <2>2 DEF ComposerTypeOK
<1>3. NumbersGiven'
  BY <1>1 DEF NumbersGiven, ComposerTypeOK, MessageCalls
<1>4. SessionsApart'
  BY <1>1 DEF SessionsApart, Current
<1>5. NoNewKeys
  BY <1>1, <1>2, NothingNew
<1>6. KeyTellsText'
  BY <1>1, <1>2, <1>5, KeyTellsTextKeeps
<1>7. OneKey'
  BY <1>1, <1>2, <1>5, OneKeyKeeps
<1>8. \A c \in calls : c.key \in unsure'
  BY <1>1
<1>9. CallsFit'
  <2>1. ASSUME NEW r \in wire, r.key \notin unsure' PROVE FALSE
    <3>1. PICK c \in calls : c.try = r.try
      BY <1>1, <2>1 DEF CallsFit
    <3>2. c.key = r.key
      BY <3>1 DEF CallsFit
    <3> QED
      BY <1>8, <2>1, <3>2
  <2> QED
    BY <1>1, <1>8, <2>1 DEF CallsFit
<1>10. StoredFits'
  BY <1>1, <1>8 DEF StoredFits
<1> QED
  BY <1>2, <1>3, <1>4, <1>6, <1>7, <1>9, <1>10

\* A call, once its request has been answered.
ToldOf(c, r, answer) == IF c.try = r.try THEN [c EXCEPT !.answer = answer] ELSE c

LEMMA ToldFacts ==
  ASSUME ComposerTypeOK, NEW r \in wire, NEW answer \in {"ok", "refused"}, Answered(r, answer)
  PROVE  /\ calls' = {ToldOf(c, r, answer) : c \in calls}
         /\ \A c \in calls :
              /\ ToldOf(c, r, answer) \in MessageCalls
              /\ ToldOf(c, r, answer).try = c.try /\ ToldOf(c, r, answer).key = c.key
              /\ ToldOf(c, r, answer).text = c.text /\ ToldOf(c, r, answer).mount = c.mount
              /\ ToldOf(c, r, answer).session = c.session
              /\ ToldOf(c, r, answer).answer = IF c.try = r.try THEN answer ELSE c.answer
BY DEF Answered, ToldOf, ComposerTypeOK, MessageCalls

LEMMA AnsweredKeeps ==
  ASSUME ComposerInv, NEW r \in wire, Post(r) \/ RefusePost(r)
  PROVE  ComposerInv'
<1> USE DEF ComposerInv
<1>1. PICK answer \in {"ok", "refused"} :
        /\ Answered(r, answer)
        /\ IF answer = "ok" /\ ~\E m \in stored : m.key = r.key
             THEN stored' = stored \cup {[key |-> r.key, text |-> r.text, try |-> r.try]}
             ELSE stored' = stored
  BY DEF Post, RefusePost
<1>2. /\ wire' = wire \ {r}
      /\ UNCHANGED <<client, draft, disk, texts, tries, mount, generation, unsure, doubted, earlier>>
  BY DEF Post, RefusePost, countVars, ghostVars
<1> DEFINE f(c) == ToldOf(c, r, answer)
           p == [key |-> r.key, text |-> r.text, try |-> r.try]
<1>3. calls' = {f(c) : c \in calls}
  BY <1>1, ToldFacts
<1>4. \A c \in calls :
        /\ f(c) \in MessageCalls
        /\ f(c).try = c.try /\ f(c).key = c.key /\ f(c).text = c.text /\ f(c).mount = c.mount
        /\ f(c).session = c.session
        /\ f(c).answer = IF c.try = r.try THEN answer ELSE c.answer
  BY <1>1, ToldFacts
<1>5. p \in Posts /\ p.key = r.key /\ p.text = r.text
  BY DEF ComposerTypeOK, Posts
<1>6. \/ stored' = stored /\ (answer = "ok" => \E m \in stored : m.key = r.key)
      \/ stored' = stored \cup {p} /\ answer = "ok" /\ \A m \in stored : m.key # r.key
  BY <1>1
<1> HIDE DEF f, p
<1>7. ComposerTypeOK'
  BY <1>2, <1>3, <1>4, <1>5, <1>6 DEF ComposerTypeOK
<1>8. NumbersGiven'
  BY <1>2, <1>3, <1>4, <1>5, <1>6 DEF NumbersGiven
<1>9. SessionsApart'
  BY <1>2, <1>3, <1>4 DEF SessionsApart, Current
<1>10. NoNewKeys
  BY <1>3, <1>4, <1>5, <1>6, <1>2, <1>7, NothingNew
<1>11. KeyTellsText'
  BY <1>2, <1>7, <1>10, KeyTellsTextKeeps
<1>12. OneKey'
  BY <1>2, <1>7, <1>10, OneKeyKeeps
<1>13. \A s \in wire' : s \in wire /\ s.try # r.try
  BY <1>2 DEF CallsFit
<1>14. CallsFit'
  <2>1. \A s \in wire' : s.key \notin unsure => \E c \in calls' : c.try = s.try
    BY <1>3, <1>4, <1>13 DEF CallsFit
  <2>2. \A s \in wire' : \A c \in calls' :
          c.try = s.try => c.answer = "none" /\ c.key = s.key /\ c.text = s.text
    BY <1>3, <1>4, <1>13 DEF CallsFit
  <2>3. \A c \in calls' : c.key \notin unsure => c.mount = mount
    BY <1>3, <1>4 DEF CallsFit
  <2>4. \A c, d \in calls' : c.mount = d.mount => c = d
    BY <1>3, <1>4 DEF CallsFit
  <2> QED
    BY <1>2, <1>13, <2>1, <2>2, <2>3, <2>4 DEF CallsFit
<1>15. StoredFits'
  <2>1. \A m, n \in stored' : m.key = n.key => m = n
    BY <1>5, <1>6 DEF StoredFits
  <2>2. \A c \in calls' : c.answer = "ok" => \E m \in stored' : m.key = c.key
    <3> SUFFICES ASSUME NEW b \in calls, f(b).answer = "ok"
                 PROVE  \E m \in stored' : m.key = b.key
      BY <1>3, <1>4
    <3>1. CASE b.try = r.try
      BY <1>4, <3>1, <1>5, <1>6 DEF CallsFit
    <3>2. CASE b.try # r.try
      BY <1>4, <3>2, <1>6 DEF StoredFits
    <3> QED
      BY <3>1, <3>2
  <2>3. ASSUME NEW m \in stored', m.key \notin unsure, m.text \notin doubted
        PROVE  \/ \E c \in calls' : c.key = m.key /\ c.answer = "ok"
               \/ /\ m.text \notin {draft.text, disk.text}
                  /\ \A c \in calls' : c.text # m.text
                  /\ \A s \in wire' : s.text # m.text
    <3>1. CASE m \notin stored
      <4>1. m.key = r.key /\ answer = "ok"
        BY <1>5, <1>6, <3>1
      <4>2. PICK b \in calls : b.try = r.try
        BY <2>3, <4>1 DEF CallsFit
      <4>3. f(b) \in calls' /\ f(b).key = m.key /\ f(b).answer = "ok"
        BY <1>3, <1>4, <4>1, <4>2 DEF CallsFit
      <4> QED
        BY <4>3
    <3>2. ASSUME NEW b \in calls, b.key = m.key, b.answer = "ok"
          PROVE  \E c \in calls' : c.key = m.key /\ c.answer = "ok"
      BY <3>2, <1>3, <1>4 DEF CallsFit
    <3>3. CASE /\ m.text \notin {draft.text, disk.text}
               /\ \A c \in calls : c.text # m.text
               /\ \A s \in wire : s.text # m.text
      BY <1>3, <1>4, <1>13, <3>3
    <3> QED
      BY <2>3, <3>1, <3>2, <3>3 DEF StoredFits
  <2> QED
    BY <1>2, <2>1, <2>2, <2>3 DEF StoredFits
<1> QED
  BY <1>7, <1>8, <1>9, <1>11, <1>12, <1>14, <1>15

\* A call that is over: one without an answer is given up.
LEMMA CallIsOver ==
  ASSUME ComposerInv, ComposerTypeOK', NEW c \in calls, calls' = calls \ {c},
         UNCHANGED <<mount, wire, stored>>, unsure \subseteq unsure',
         c.answer = "none" => c.key \in unsure'
  PROVE  /\ CallsFit' /\ NoNewKeys
         /\ client = "browser" => calls' = {}
<1> USE DEF ComposerInv
<1>1. NoNewKeys
  BY NothingNew
<1>2. ASSUME NEW r \in wire, r.key \notin unsure' PROVE \E b \in calls' : b.try = r.try
  <2>1. PICK b \in calls : b.try = r.try
    BY <1>2 DEF CallsFit
  <2>2. b.answer = "none" /\ b.key = r.key
    BY <2>1 DEF CallsFit
  <2> QED
    BY <1>2, <2>1, <2>2
<1>3. CallsFit'
  BY <1>2 DEF CallsFit
<1>4. client = "browser" => calls' = {}
  BY DEF SessionsApart, CallsFit
<1> QED
  BY <1>1, <1>3, <1>4

LEMMA TakeSuccessKeeps == ASSUME ComposerInv, NEW c \in calls, TakeSuccess(c) PROVE ComposerInv'
<1> USE DEF ComposerInv
<1> DEFINE none == [text |-> 0, key |-> 0, uncertain |-> FALSE]
<1>1. /\ c.answer = "ok" /\ calls' = calls \ {c}
      /\ UNCHANGED <<client, texts, tries, mount, generation, wire, stored, unsure, doubted, earlier>>
      /\ \/ Current(c) /\ draft' = none /\ disk' = none
         \/ ~Current(c) /\ client = "phone" /\ draft' = draft /\ disk' = none
         \/ ~Current(c) /\ client # "phone" /\ draft' = draft /\ disk' = disk
  BY DEF TakeSuccess, Persist, Empty, Draft, NoKey, countVars, ghostVars
<1>2. none \in Drafts /\ none.text = 0 /\ none.key = 0
  BY DEF Drafts
<1> HIDE DEF none
<1>3. ComposerTypeOK'
  BY <1>1, <1>2 DEF ComposerTypeOK
<1>4. /\ CallsFit' /\ NoNewKeys
      /\ client = "browser" => calls' = {}
  BY <1>1, <1>3, CallIsOver
<1>5. \A d \in {draft', disk'} : d \in {draft, disk} \/ (d.text = 0 /\ d.key = 0)
  BY <1>1, <1>2
<1>6. NumbersGiven'
  BY <1>5, <1>1 DEF NumbersGiven, ComposerTypeOK
<1>7. SessionsApart'
  BY <1>1, <1>4, <1>5 DEF SessionsApart, Current
<1>8. KeyTellsText'
  BY <1>3, <1>4, <1>5, KeyTellsTextKeeps
<1>9. OneKey'
  BY <1>1, <1>3, <1>4, <1>5, OneKeyKeeps
<1>10. StoredFits'
  <2>1. ASSUME NEW m \in stored, m.key \notin unsure, m.text \notin doubted
        PROVE  \/ \E b \in calls' : b.key = m.key /\ b.answer = "ok"
               \/ /\ m.text \notin {draft'.text, disk'.text}
                  /\ \A b \in calls' : b.text # m.text
                  /\ \A s \in wire' : s.text # m.text
    <3>0. m.text \in Nat \ {0}
      BY DEF ComposerTypeOK, Posts
    <3>1. CASE m.key = c.key
      <4>1. c.text = m.text
        BY <3>1 DEF GoesBy, ComposerTypeOK, MessageCalls, Posts, KeyTellsText
      <4>2. /\ \A b \in calls : b.text = c.text => b = c
            /\ \A s \in wire : s.text # c.text
        BY <1>1, <2>1, <3>1, <4>1, AnsweredIsAll
      <4>3. c.mount = mount
        BY <2>1, <3>1 DEF CallsFit
      <4>4. m.text \notin {draft'.text, disk'.text}
        <5>1. CASE Current(c)
          BY <1>1, <1>2, <3>0, <5>1
        <5>2. CASE ~Current(c)
          <6>1. c.session # generation /\ c.session \in Nat /\ c.session <= generation
            BY <4>3, <5>2 DEF Current, NumbersGiven, ComposerTypeOK, MessageCalls
          <6>2. client = "browser" /\ c.text <= earlier /\ disk = draft
            BY <6>1 DEF SessionsApart, ComposerTypeOK
          <6>3. draft' = draft /\ disk' = draft
            BY <1>1, <5>2, <6>2
          <6> QED
            BY <3>0, <4>1, <6>2, <6>3 DEF SessionsApart, ComposerTypeOK, Drafts
        <5> QED
          BY <5>1, <5>2
      <4> QED
        BY <1>1, <4>1, <4>2, <4>4
    <3>2. CASE m.key # c.key
      BY <1>1, <3>2, <1>5, <3>0, <2>1 DEF StoredFits
    <3> QED
      BY <3>1, <3>2
  <2> QED
    BY <1>1, <2>1 DEF StoredFits
<1> QED
  BY <1>3, <1>4, <1>6, <1>7, <1>8, <1>9, <1>10

LEMMA TakeRefusalKeeps == ASSUME ComposerInv, NEW c \in calls, TakeRefusal(c) PROVE ComposerInv'
<1> USE DEF ComposerInv
<1> DEFINE kept == [text |-> c.text, key |-> c.key, uncertain |-> FALSE]
           bare == [text |-> c.text, key |-> 0, uncertain |-> FALSE]
<1>1. /\ c.answer = "refused" /\ calls' = calls \ {c}
      /\ UNCHANGED <<client, texts, tries, mount, generation, wire, stored, unsure, earlier>>
      /\ \/ client = "browser" /\ Current(c) /\ draft' = kept /\ disk' = kept
         \/ draft' = draft /\ disk' = disk
         \/ client = "phone" /\ disk' = bare /\ (draft' = bare \/ draft' = draft)
      /\ doubted' = IF c.key \in unsure THEN doubted \cup {c.text} ELSE doubted
  BY DEF TakeRefusal, Persist, Draft, NoKey, countVars
<1>2. /\ kept \in Drafts /\ kept.text = c.text /\ kept.key = c.key
      /\ bare \in Drafts /\ bare.text = c.text /\ bare.key = 0
      /\ c \in MessageCalls
  BY DEF Drafts, ComposerTypeOK, MessageCalls
<1> HIDE DEF kept, bare
<1>3. ComposerTypeOK'
  BY <1>1, <1>2 DEF ComposerTypeOK, MessageCalls
<1>4. /\ CallsFit' /\ NoNewKeys
      /\ client = "browser" => calls' = {}
  BY <1>1, <1>3, CallIsOver
<1>5. \A d \in {draft', disk'} :
        d \in {draft, disk} \/ (d.text = c.text /\ d.key \in {0, c.key})
  BY <1>1, <1>2
<1>6. NumbersGiven'
  BY <1>2, <1>5, <1>1 DEF NumbersGiven, ComposerTypeOK, MessageCalls
<1>7. SessionsApart'
  <2>1. client = "browser" => disk' = draft'
    BY <1>1 DEF SessionsApart
  <2>2. \A d \in {draft', disk'} : d.text # 0 => d.text > earlier
    BY <1>2, <1>1 DEF SessionsApart, Current, MessageCalls
  <2> QED
    BY <1>1, <1>4, <2>1, <2>2 DEF SessionsApart, Current
<1>8. GoesBy(c.key, c.text)
  BY DEF GoesBy
<1>9. KeyTellsText'
  BY <1>1, <1>2, <1>8, <1>3, <1>4, KeyTellsTextKeeps
\* Nothing of its text is left, unless in doubt.
<1>10. c.text \notin doubted' =>
         /\ \A b \in calls' : b.text # c.text
         /\ \A r \in wire : r.text # c.text
         /\ \A m \in stored : m.text # c.text
  BY <1>1, AnsweredIsAll, RefusedIsNowhere
<1>11. OneKey'
  BY <1>1, <1>10, <1>2, <1>5, <1>3, <1>4, OneKeyKeeps DEF GoesBy, MessageCalls
<1>12. StoredFits'
  BY <1>1, <1>5 DEF StoredFits
<1> QED
  BY <1>3, <1>4, <1>6, <1>7, <1>9, <1>11, <1>12

LEMMA GiveUpKeeps == ASSUME ComposerInv, NEW c \in calls, GiveUp(c) PROVE ComposerInv'
<1> USE DEF ComposerInv
<1> DEFINE kept == [text |-> c.text, key |-> c.key, uncertain |-> TRUE]
<1>1. /\ calls' = calls \ {c}
      /\ UNCHANGED <<client, texts, tries, mount, generation, wire, stored, doubted, earlier>>
      /\ \/ client = "browser" /\ Current(c) /\ draft' = kept /\ disk' = kept
         \/ draft' = draft /\ disk' = disk
      /\ unsure' = unsure \cup {c.key}
  BY DEF GiveUp, Persist, Draft, countVars
<1>2. /\ kept \in Drafts /\ kept.text = c.text /\ kept.key = c.key /\ kept.uncertain = TRUE
      /\ c \in MessageCalls /\ c.key \in Nat
  BY DEF Drafts, ComposerTypeOK, MessageCalls
<1> HIDE DEF kept
<1>3. ComposerTypeOK'
  BY <1>1, <1>2 DEF ComposerTypeOK
<1>4. /\ CallsFit' /\ NoNewKeys
      /\ client = "browser" => calls' = {}
  BY <1>1, <1>3, CallIsOver
<1>5. \A d \in {draft', disk'} : d \in {draft, disk} \/ d = kept
  BY <1>1
<1>6. NumbersGiven'
  BY <1>2, <1>5, <1>1 DEF NumbersGiven, ComposerTypeOK, MessageCalls
<1>7. SessionsApart'
  BY <1>1, <1>2, <1>4 DEF SessionsApart, Current
<1>8. GoesBy(c.key, c.text)
  BY DEF GoesBy
<1>9. KeyTellsText'
  BY <1>2, <1>5, <1>8, <1>3, <1>4, KeyTellsTextKeeps
<1>10. OneKey'
  BY <1>2, <1>5, <1>8, <1>1, <1>3, <1>4, OneKeyKeeps
<1>11. StoredFits'
  BY <1>1, <1>2, <1>5 DEF StoredFits
<1> QED
  BY <1>3, <1>4, <1>6, <1>7, <1>9, <1>10, <1>11

-------------------------------------------------------------------------------
(* How a message reaches a room: the theorems *)

LEMMA ComposerKeeps == ASSUME ComposerInv, [ComposerNext]_composerVars PROVE ComposerInv'
<1>1. CASE ComposerNext
  BY <1>1, TypeKeeps, RetouchKeeps, SendKeeps, LeavingKeeps, ClearDraftsKeeps, AnsweredKeeps,
     TakeSuccessKeeps, TakeRefusalKeeps, GiveUpKeeps DEF ComposerNext
<1>2. CASE UNCHANGED composerVars
  BY <1>2 DEF composerVars, countVars, ghostVars, ComposerInv, ComposerTypeOK, NumbersGiven,
     SessionsApart, Current, KeyTellsText, GoesBy, OneKey, CallsFit, StoredFits
<1> QED
  BY <1>1, <1>2

\* A set whose members are all the same.
LEMMA AtMostOne ==
  ASSUME NEW S, \A m, n \in S : m = n
  PROVE  Cardinality(S) <= 1
<1>1. CASE S = {}
  BY <1>1, FS_EmptySet
<1>2. CASE S # {}
  <2>1. PICK m \in S : S = {m}
    BY <1>2
  <2>2. Cardinality({m}) = 1
    BY FS_Singleton
  <2> QED
    BY <2>1, <2>2
<1> QED
  BY <1>1, <1>2

LEMMA StoredIsOnce == ASSUME ComposerInv PROVE StoredOnce
<1> USE DEF ComposerInv
<1> SUFFICES ASSUME NEW t \in 1 .. LastText, t \notin doubted
             PROVE  Cardinality({m \in stored : m.text = t}) <= 1
  BY DEF StoredOnce
<1> DEFINE S == {m \in stored : m.text = t}
<1>1. \A m, n \in S : m = n
  <2> SUFFICES ASSUME NEW m \in S, NEW n \in S PROVE m = n
    OBVIOUS
  <2>1. /\ m.key \in Nat /\ n.key \in Nat /\ t \in Nat
        /\ GoesBy(m.key, t) /\ GoesBy(n.key, t)
    BY DEF GoesBy, ComposerTypeOK, Posts
  <2>2. m.key = n.key
    BY <2>1 DEF OneKey
  <2> QED
    BY <2>2 DEF StoredFits
<1> HIDE DEF S
<1>2. Cardinality(S) <= 1
  BY <1>1, AtMostOne
<1> QED
  BY <1>2 DEF S

LEMMA KeptUntilStoredStep ==
  ASSUME ComposerInv, [ComposerNext]_composerVars
  PROVE  KeptUntilStored
<1> USE DEF ComposerInv
<1> SUFFICES ASSUME client = "browser", draft.text # 0, draft.text # draft'.text
             PROVE  texts' > texts \/ generation' > generation
                      \/ \E m \in stored' : m.text = draft.text
  BY DEF KeptUntilStored
<1>1. draft \in Drafts /\ disk = draft /\ texts \in Nat /\ generation \in Nat
  BY DEF ComposerTypeOK, SessionsApart
<1>2. CASE Type
  BY <1>1, <1>2 DEF Type
<1>3. CASE ClearDrafts
  BY <1>1, <1>3 DEF ClearDrafts
<1>4. ASSUME NEW c \in calls, TakeSuccess(c)
      PROVE  \E m \in stored' : m.text = draft.text
  <2>1. Current(c) /\ c.answer = "ok" /\ stored' = stored
    BY <1>4 DEF TakeSuccess
  <2>2. c.text = draft.text
    BY <2>1 DEF SessionsApart
  <2>3. PICK m \in stored : m.key = c.key
    BY <2>1 DEF StoredFits
  <2>4. /\ c.key \in Nat /\ c.text \in Nat /\ m.text \in Nat
        /\ GoesBy(c.key, c.text) /\ GoesBy(c.key, m.text)
    BY <2>3 DEF GoesBy, ComposerTypeOK, MessageCalls, Posts
  <2>5. m.text = c.text
    BY <2>4 DEF KeyTellsText
  <2> QED
    BY <2>1, <2>2, <2>5
<1>5. ASSUME NEW c \in calls, TakeRefusal(c) \/ GiveUp(c) PROVE FALSE
  BY <1>5 DEF TakeRefusal, GiveUp, Persist, Draft, SessionsApart
<1>6. CASE Retouch
  BY <1>1, <1>6 DEF Retouch, Persist, Drafts
<1>7. CASE SendDraft
  BY <1>7 DEF SendDraft, Persist, Draft
<1>8. CASE Reopen \/ Restart
  BY <1>1, <1>8 DEF Reopen, Restart
<1>9. ASSUME NEW r \in wire, Post(r) \/ RefusePost(r) PROVE FALSE
  BY <1>9 DEF Post, RefusePost
<1>10. CASE UNCHANGED composerVars
  BY <1>10 DEF composerVars
<1> QED
  BY <1>2, <1>3, <1>4, <1>5, <1>6, <1>7, <1>8, <1>9, <1>10 DEF ComposerNext

\* The inductive invariant: a text that is not in doubt goes by one key, the one
\* its draft keeps (RoomConversation.tsx, RoomMessagesViewModel.swift).
THEOREM ComposerInvHoldsAlways == ComposerSpec => []ComposerInv
<1>1. ComposerInit => ComposerInv
  BY ComposerInitOK
<1>2. ComposerInv /\ [ComposerNext]_composerVars => ComposerInv'
  BY ComposerKeeps
<1> QED
  BY <1>1, <1>2, PTL DEF ComposerSpec

\* What is typed once is in the room at most once, however often it is retried;
\* it stays with its login, and the web lets go of it only when it is stored
\* (RoomConversation.tsx, roomDrafts.ts, message-service.ts).
THEOREM ComposerIsSafe == ComposerSpec => ComposerHolds
<1>1. ComposerInv => StoredOnce /\ DraftOfSession
  BY StoredIsOnce DEF ComposerInv, SessionsApart, DraftOfSession
<1>2. ComposerInv /\ [ComposerNext]_composerVars => KeptUntilStored
  BY KeptUntilStoredStep
<1> QED
  BY <1>1, <1>2, ComposerInvHoldsAlways, PTL DEF ComposerSpec, ComposerHolds

-------------------------------------------------------------------------------
(* The messages a client shows: the invariant *)

Rows == [open : BOOLEAN, count : Nat]
Lists == UNION {[S -> Rows] : S \in SUBSET Nat}
Pages == [is : {"page"}, rows : Lists, more : BOOLEAN, first : Nat, last : Nat]
Removals == [is : {"removed"}, ids : SUBSET Nat]
Fetches ==
  [at : {"list", "latest", "older", "visible"}, from : Nat, next : Nat, n : Nat,
   answer : {NoPage} \cup Pages \cup Removals, got : Lists, first : Nat, more : BOOLEAN,
   end : Nat, held : SUBSET Nat, gone : SUBSET Nat]

TimelineTypeOK ==
  /\ last \in Nat /\ removed \subseteq Nat /\ replies \in Nat
  /\ kind \in {"web", "ios"} /\ loaded \in BOOLEAN
  /\ view \in Lists /\ known \subseteq Nat
  /\ before \in Nat /\ after \in Nat /\ older \in BOOLEAN
  /\ fetch \in {NoFetch} \cup Fetches
  /\ again \in BOOLEAN
  /\ aside \in {NoPage} \cup Pages

\* The replies there are to a message, which no list exceeds.
Cap(p) == IF p = 1 THEN replies ELSE 0
Within(rows) == \A p \in DOMAIN rows : rows[p].count <= Cap(p)
\* What is shown of a message counts no more replies than what was just read of it.
NoMoreThan(rows) ==
  \A p \in DOMAIN view \cap DOMAIN rows : view[p].count <= rows[p].count

\* A page as the server reads it: from which message to which, and that nothing is
\* left beyond it unless it says so.
IsNewest(page) ==
  /\ page \in Pages
  /\ page.last # 0 =>
       /\ page.first .. page.last \subseteq DOMAIN page.rows
       /\ ~page.more => 1 .. page.last \subseteq DOMAIN page.rows
  /\ page.more => last > Page /\ page.last # 0
IsAfter(page, a) ==
  /\ page \in Pages
  /\ page.last # 0 => a + 1 .. page.last \subseteq DOMAIN page.rows
  /\ page.more => page.last # 0
IsBefore(page, b) ==
  /\ page \in Pages
  /\ page.first # 0 => page.first .. b - 1 \subseteq DOMAIN page.rows
  /\ ~page.more => 1 .. b - 1 \subseteq DOMAIN page.rows

\* A refresh in progress: what it asks for and what was answered.
AnswerFits ==
  /\ fetch.at = "list" /\ fetch.next = 0 => IsNewest(fetch.answer)
  /\ fetch.at = "list" /\ fetch.next # 0 => IsAfter(fetch.answer, fetch.next)
  /\ fetch.at = "latest" => fetch.answer \in Pages
  /\ fetch.at = "older" => IsBefore(fetch.answer, fetch.next)
  /\ fetch.at = "visible" =>
       fetch.answer \in Removals /\ fetch.held \cap fetch.gone \subseteq fetch.answer.ids

FetchFits ==
  fetch # NoFetch =>
    /\ fetch.held \subseteq DOMAIN view /\ fetch.gone \subseteq removed
    /\ fetch.answer # NoPage => AnswerFits

\* The web collects from its cursor on; nothing moves the cursor meanwhile.
WebCollects ==
  /\ fetch.at # "older" /\ fetch.from = after
  /\ fetch.at = "list" /\ fetch.n = 0 => fetch.end = 0
  /\ fetch.from = 0 =>
       /\ fetch.at = "list" => fetch.next = 0 /\ fetch.n = 0
       /\ fetch.at # "list" =>
            /\ fetch.at = "visible"
            /\ fetch.end # 0 =>
                 /\ fetch.first .. fetch.end \subseteq DOMAIN fetch.got
                 /\ ~fetch.more => 1 .. fetch.end \subseteq DOMAIN fetch.got
            /\ fetch.more => last > Page /\ fetch.end # 0
  /\ fetch.from # 0 =>
       /\ fetch.end # 0 => fetch.from + 1 .. fetch.end \subseteq DOMAIN fetch.got
       /\ fetch.at = "list" =>
            fetch.next # 0 /\ fetch.next = IF fetch.end = 0 THEN fetch.from ELSE fetch.end
WebFits ==
  kind = "web" =>
    /\ ~loaded => DOMAIN view = {}
    /\ fetch # NoFetch => WebCollects

\* iOS moves its cursors page by page.
IosFits ==
  kind = "ios" /\ fetch # NoFetch =>
    /\ fetch.at # "latest"
    /\ fetch.at = "list" => fetch.next = after
    /\ fetch.at = "older" => fetch.next = before /\ before # 0

\* While there is something before its first page the web reads nothing of the first
\* message, so a page asked for beside a refresh adds to it.
ReadsNoRoot ==
  /\ 1 \notin DOMAIN fetch.got
  /\ fetch.at \in {"list", "latest"} /\ fetch.answer # NoPage =>
       1 \notin DOMAIN fetch.answer.rows
AsideFits ==
  /\ aside # NoPage => loaded /\ Within(aside.rows)
  /\ kind = "web" /\ aside # NoPage => before # 0 /\ IsBefore(aside, before)
  /\ kind = "web" /\ (older \/ aside # NoPage) =>
       /\ after # 0 /\ last > Page
       /\ fetch # NoFetch => ReadsNoRoot

WebCounts ==
  /\ NoMoreThan(fetch.got) /\ Within(fetch.got)
  /\ fetch.at \in {"list", "latest"} /\ fetch.answer # NoPage =>
       NoMoreThan(fetch.answer.rows) /\ Within(fetch.answer.rows)
CountsFit ==
  /\ Within(view)
  /\ kind = "web" /\ fetch # NoFetch => WebCounts
  /\ kind = "ios" /\ fetch # NoFetch /\ fetch.at \in {"list", "older"} /\ fetch.answer # NoPage =>
       Within(fetch.answer.rows)

TimelineInv ==
  /\ TimelineTypeOK
  /\ NoGap /\ FetchFits /\ WebFits /\ IosFits /\ AsideFits /\ CountsFit

-------------------------------------------------------------------------------
(* Lists and pages *)

LEMMA ListFacts ==
  ASSUME NEW L \in Lists
  PROVE  /\ DOMAIN L \subseteq Nat
         /\ \A p \in DOMAIN L : L[p] \in Rows /\ L[p].open \in BOOLEAN /\ L[p].count \in Nat
<1>1. PICK S \in SUBSET Nat : L \in [S -> Rows]
  BY DEF Lists
<1> QED
  BY <1>1 DEF Rows

LEMMA EmptyList == NoRows \in Lists /\ DOMAIN NoRows = {}
BY DEF NoRows, Lists

\* Hiding messages changes neither which are there nor their counts.
LEMMA ShownFacts ==
  ASSUME NEW L \in Lists, NEW gone
  PROVE  /\ Shown(L, gone) \in Lists /\ DOMAIN Shown(L, gone) = DOMAIN L
         /\ \A p \in DOMAIN L : /\ Shown(L, gone)[p].count = L[p].count
                                /\ Shown(L, gone)[p].open = (L[p].open /\ p \notin gone)
<1> DEFINE M == Shown(L, gone)
<1>1. /\ DOMAIN M = DOMAIN L
      /\ \A p \in DOMAIN L : M[p] = [L[p] EXCEPT !.open = L[p].open /\ p \notin gone]
  BY DEF Shown
<1>2. DOMAIN L \subseteq Nat /\ \A p \in DOMAIN L : L[p] \in Rows
  BY ListFacts
<1>3. ASSUME NEW p \in DOMAIN L
      PROVE  /\ M[p] \in Rows /\ M[p].count = L[p].count
             /\ M[p].open = (L[p].open /\ p \notin gone)
  BY <1>1, <1>2 DEF Rows
<1>4. M \in [DOMAIN L -> Rows]
  BY <1>3 DEF Shown
<1> QED
  BY <1>1, <1>2, <1>3, <1>4 DEF Lists

\* Of two lists: one that is removed in either stays so, and its count is one of theirs.
LEMMA MergeFacts ==
  ASSUME NEW L \in Lists, NEW N \in Lists
  PROVE  /\ Merge(L, N) \in Lists /\ DOMAIN Merge(L, N) = DOMAIN L \cup DOMAIN N
         /\ \A p \in DOMAIN L \ DOMAIN N : Merge(L, N)[p] = L[p]
         /\ \A p \in DOMAIN N \ DOMAIN L : Merge(L, N)[p] = N[p]
         /\ \A p \in DOMAIN L \cap DOMAIN N :
              /\ Merge(L, N)[p].open = (L[p].open /\ N[p].open)
              /\ Merge(L, N)[p].count = Count(L[p].count, N[p].count)
<1> DEFINE M == Merge(L, N)
           D == DOMAIN L \cup DOMAIN N
<1>1. /\ DOMAIN L \subseteq Nat /\ \A p \in DOMAIN L : L[p] \in Rows
      /\ DOMAIN N \subseteq Nat /\ \A p \in DOMAIN N : N[p] \in Rows
  BY ListFacts
<1>2. /\ DOMAIN M = D
      /\ \A p \in DOMAIN L \ DOMAIN N : M[p] = L[p]
      /\ \A p \in DOMAIN N \ DOMAIN L : M[p] = N[p]
      /\ \A p \in DOMAIN L \cap DOMAIN N :
           M[p] = [open |-> L[p].open /\ N[p].open, count |-> Count(L[p].count, N[p].count)]
  BY DEF Merge
<1>3. ASSUME NEW p \in DOMAIN L \cap DOMAIN N PROVE M[p] \in Rows
  <2>1. L[p] \in Rows /\ N[p] \in Rows
    BY <1>1, <1>3
  <2>2. PICK c : c = Count(L[p].count, N[p].count)
    OBVIOUS
  <2>3. PICK b : b = (L[p].open /\ N[p].open)
    OBVIOUS
  <2>4. c \in Nat /\ b \in BOOLEAN
    BY <2>1, <2>2, <2>3 DEF Rows, Count, Greater
  <2>5. M[p] = [open |-> b, count |-> c]
    BY <1>2, <1>3, <2>2, <2>3
  <2> HIDE DEF M
  <2> QED
    BY <2>4, <2>5 DEF Rows
<1>4. \A p \in D : M[p] \in Rows
  BY <1>1, <1>2, <1>3
<1>5. M = [p \in D |-> M[p]]
  BY <1>2 DEF Merge
<1>6. M \in [D -> Rows] /\ D \subseteq Nat
  BY <1>1, <1>4, <1>5
<1> HIDE DEF M
<1> QED
  BY <1>2, <1>6 DEF Lists, M

LEMMA MergeDomain ==
  ASSUME NEW L \in Lists, NEW N \in Lists
  PROVE  Merge(L, N) \in Lists /\ DOMAIN Merge(L, N) = DOMAIN L \cup DOMAIN N
BY MergeFacts

\* The same of one message.
LEMMA MergedOld ==
  ASSUME NEW L \in Lists, NEW N \in Lists, NEW p \in DOMAIN L, p \notin DOMAIN N
  PROVE  p \in DOMAIN Merge(L, N) /\ Merge(L, N)[p] = L[p]
BY MergeFacts

LEMMA MergedBoth ==
  ASSUME NEW L \in Lists, NEW N \in Lists, NEW p \in DOMAIN L, p \in DOMAIN N
  PROVE  /\ p \in DOMAIN Merge(L, N)
         /\ Merge(L, N)[p].open = (L[p].open /\ N[p].open)
         /\ Merge(L, N)[p].count = Count(L[p].count, N[p].count)
<1>1. p \in DOMAIN L \cap DOMAIN N /\ p \in DOMAIN Merge(L, N)
  BY MergeFacts
<1>2. Merge(L, N)[p] = [open |-> L[p].open /\ N[p].open,
                        count |-> Count(L[p].count, N[p].count)]
  BY <1>1 DEF Merge
<1>3. Merge(L, N)[p].open = (L[p].open /\ N[p].open)
  BY <1>2
<1>4. Merge(L, N)[p].count = Count(L[p].count, N[p].count)
  BY <1>2
<1> QED
  BY <1>1, <1>3, <1>4

LEMMA ShownOne ==
  ASSUME NEW L \in Lists, NEW gone, NEW p \in DOMAIN L
  PROVE  /\ p \in DOMAIN Shown(L, gone) /\ Shown(L, gone)[p].count = L[p].count
         /\ Shown(L, gone)[p].open = (L[p].open /\ p \notin gone)
BY ShownFacts

\* A page as it is read.
LEMMA PageFacts ==
  ASSUME TimelineTypeOK, NEW lo \in Nat \ {0}, NEW hi \in Int, NEW more \in BOOLEAN
  PROVE  /\ PageOf(lo, hi, more) \in Pages
         /\ (PageOf(lo, hi, more).more <=> more)
         /\ DOMAIN PageOf(lo, hi, more).rows = lo .. hi
         /\ Within(PageOf(lo, hi, more).rows)
         /\ \A p \in lo .. hi : PageOf(lo, hi, more).rows[p].count = Cap(p)
         /\ PageOf(lo, hi, more).first = IF lo > hi THEN 0 ELSE lo
         /\ PageOf(lo, hi, more).last = IF lo > hi THEN 0 ELSE hi
<1> DEFINE rows == [p \in lo .. hi |-> Row(p)]
<1>1. \A p \in lo .. hi : p \in Nat /\ Row(p) \in Rows /\ Row(p).count = Cap(p)
  BY DEF Row, Rows, Cap, TimelineTypeOK
<1>2. rows \in [lo .. hi -> Rows] /\ lo .. hi \in SUBSET Nat
  BY <1>1
<1>3. rows \in Lists /\ DOMAIN rows = lo .. hi
  BY <1>2 DEF Lists
<1>4. \A p \in lo .. hi : rows[p].count = Cap(p) /\ Cap(p) \in Nat
  BY <1>1 DEF TimelineTypeOK, Cap
<1>5. PageOf(lo, hi, more) =
        [is |-> "page", rows |-> rows, more |-> more,
         first |-> IF lo > hi THEN 0 ELSE lo, last |-> IF lo > hi THEN 0 ELSE hi]
  BY DEF PageOf
<1> HIDE DEF rows
<1>6. Within(rows)
  BY <1>3, <1>4 DEF Within
<1> QED
  BY <1>3, <1>4, <1>5, <1>6 DEF Pages

LEMMA NewestFacts ==
  ASSUME TimelineTypeOK
  PROVE  /\ IsNewest(NewestPage) /\ NewestPage \in Pages /\ Within(NewestPage.rows)
         /\ \A p \in DOMAIN NewestPage.rows : NewestPage.rows[p].count = Cap(p)
         /\ last > Page => 1 \notin DOMAIN NewestPage.rows
<1>0. PICK lo : lo = Greater(1, last - Page + 1)
  OBVIOUS
<1>1. /\ lo \in Nat \ {0} /\ last \in Int /\ (last > Page) \in BOOLEAN
      /\ last > Page => lo = last - Page + 1
      /\ ~(last > Page) => lo = 1
  BY <1>0, TimelineAssumption DEF TimelineTypeOK, Greater
<1>2. /\ NewestPage \in Pages /\ (NewestPage.more <=> last > Page)
      /\ DOMAIN NewestPage.rows = lo .. last
      /\ Within(NewestPage.rows)
      /\ \A p \in lo .. last : NewestPage.rows[p].count = Cap(p)
      /\ NewestPage.first = IF lo > last THEN 0 ELSE lo
      /\ NewestPage.last = IF lo > last THEN 0 ELSE last
  <2>1. PICK more \in BOOLEAN : more = (last > Page)
    BY <1>1
  <2>2. NewestPage = PageOf(lo, last, more)
    BY <1>0, <2>1 DEF NewestPage
  <2>3. more <=> last > Page
    BY <2>1
  <2>4. /\ NewestPage \in Pages /\ (NewestPage.more <=> more)
        /\ DOMAIN NewestPage.rows = lo .. last /\ Within(NewestPage.rows)
        /\ \A p \in lo .. last : NewestPage.rows[p].count = Cap(p)
        /\ NewestPage.first = IF lo > last THEN 0 ELSE lo
        /\ NewestPage.last = IF lo > last THEN 0 ELSE last
    BY <1>1, <2>2, PageFacts
  <2> QED
    BY <2>3, <2>4
<1>3. /\ Page \in Nat /\ Page > 0 /\ last \in Nat /\ lo \in Nat /\ lo >= 1
      /\ last > Page => lo = last - Page + 1 /\ lo > 1 /\ lo <= last
      /\ ~(last > Page) => lo = 1
  BY <1>1, TimelineAssumption DEF TimelineTypeOK
<1>4. PICK q : q = NewestPage
  OBVIOUS
<1>5. q.last # 0 => q.first .. q.last \subseteq DOMAIN q.rows
  BY <1>2, <1>3, <1>4
<1>6. q.last # 0 /\ ~q.more => 1 .. q.last \subseteq DOMAIN q.rows
  BY <1>2, <1>3, <1>4
<1>7. q.more => last > Page /\ q.last # 0
  BY <1>2, <1>3, <1>4
<1>8. last > Page => 1 \notin DOMAIN q.rows
  BY <1>2, <1>3, <1>4
<1>9. q \in Pages /\ Within(q.rows) /\ \A p \in DOMAIN q.rows : q.rows[p].count = Cap(p)
  BY <1>2, <1>4
<1> QED
  BY <1>4, <1>5, <1>6, <1>7, <1>8, <1>9 DEF IsNewest

LEMMA AfterFacts ==
  ASSUME TimelineTypeOK, NEW a \in Nat
  PROVE  /\ IsAfter(PageAfter(a), a) /\ PageAfter(a) \in Pages /\ Within(PageAfter(a).rows)
         /\ \A p \in DOMAIN PageAfter(a).rows : PageAfter(a).rows[p].count = Cap(p)
         /\ a # 0 => 1 \notin DOMAIN PageAfter(a).rows
<1> DEFINE hi == Lesser(last, a + Page)
<1>1. /\ a + 1 \in Nat \ {0} /\ hi \in Int /\ (last > a + Page) \in BOOLEAN
      /\ last > a + Page => hi = a + Page
  BY TimelineAssumption DEF TimelineTypeOK, Lesser
<1> HIDE DEF hi
<1>2. /\ PageAfter(a) \in Pages /\ (PageAfter(a).more <=> last > a + Page)
      /\ DOMAIN PageAfter(a).rows = a + 1 .. hi
      /\ Within(PageAfter(a).rows)
      /\ \A p \in a + 1 .. hi : PageAfter(a).rows[p].count = Cap(p)
      /\ PageAfter(a).last = IF a + 1 > hi THEN 0 ELSE hi
  <2>1. PICK more \in BOOLEAN : more = (last > a + Page)
    BY <1>1
  <2>2. PageAfter(a) = PageOf(a + 1, hi, more)
    BY <2>1 DEF PageAfter, hi
  <2>3. more <=> last > a + Page
    BY <2>1
  <2>4. /\ PageAfter(a) \in Pages /\ (PageAfter(a).more <=> more)
        /\ DOMAIN PageAfter(a).rows = a + 1 .. hi /\ Within(PageAfter(a).rows)
        /\ \A p \in a + 1 .. hi : PageAfter(a).rows[p].count = Cap(p)
        /\ PageAfter(a).first = IF a + 1 > hi THEN 0 ELSE a + 1
        /\ PageAfter(a).last = IF a + 1 > hi THEN 0 ELSE hi
    BY <1>1, <2>2, PageFacts
  <2> QED
    BY <2>3, <2>4
<1>3. Page \in Nat /\ Page > 0 /\ last \in Nat
  BY TimelineAssumption DEF TimelineTypeOK
<1>4. PICK q : q = PageAfter(a)
  OBVIOUS
<1>5. q.last # 0 => a + 1 .. q.last \subseteq DOMAIN q.rows
  BY <1>1, <1>2, <1>4
<1>6. q.more => q.last # 0
  BY <1>1, <1>2, <1>3, <1>4
<1>7. a # 0 => 1 \notin DOMAIN q.rows
  BY <1>1, <1>2, <1>4
<1>8. q \in Pages /\ Within(q.rows) /\ \A p \in DOMAIN q.rows : q.rows[p].count = Cap(p)
  BY <1>2, <1>4
<1> QED
  BY <1>4, <1>5, <1>6, <1>7, <1>8 DEF IsAfter

LEMMA BeforeFacts ==
  ASSUME TimelineTypeOK, NEW b \in Nat \ {0}
  PROVE  /\ IsBefore(PageBefore(b), b) /\ PageBefore(b) \in Pages
         /\ Within(PageBefore(b).rows)
<1> DEFINE lo == Greater(1, b - Page)
<1>1. /\ lo \in Nat \ {0} /\ b - 1 \in Int /\ (b - 1 > Page) \in BOOLEAN
      /\ ~(b - 1 > Page) => lo = 1
  BY TimelineAssumption DEF Greater
<1> HIDE DEF lo
<1>2. /\ PageBefore(b) \in Pages /\ (PageBefore(b).more <=> b - 1 > Page)
      /\ DOMAIN PageBefore(b).rows = lo .. b - 1
      /\ Within(PageBefore(b).rows)
      /\ PageBefore(b).first = IF lo > b - 1 THEN 0 ELSE lo
  <2>1. PICK more \in BOOLEAN : more = (b - 1 > Page)
    BY <1>1
  <2>2. PageBefore(b) = PageOf(lo, b - 1, more)
    BY <2>1 DEF PageBefore, lo
  <2>3. more <=> b - 1 > Page
    BY <2>1
  <2>4. /\ PageBefore(b) \in Pages /\ (PageBefore(b).more <=> more)
        /\ DOMAIN PageBefore(b).rows = lo .. b - 1 /\ Within(PageBefore(b).rows)
        /\ \A p \in lo .. b - 1 : PageBefore(b).rows[p].count = Cap(p)
        /\ PageBefore(b).first = IF lo > b - 1 THEN 0 ELSE lo
        /\ PageBefore(b).last = IF lo > b - 1 THEN 0 ELSE b - 1
    BY <1>1, <2>2, PageFacts
  <2> QED
    BY <2>3, <2>4
<1>3. PICK q : q = PageBefore(b)
  OBVIOUS
<1>4. q.first # 0 => q.first .. b - 1 \subseteq DOMAIN q.rows
  BY <1>1, <1>2, <1>3
<1>5. ~q.more => 1 .. b - 1 \subseteq DOMAIN q.rows
  BY <1>1, <1>2, <1>3
<1>6. q \in Pages /\ Within(q.rows)
  BY <1>2, <1>3
<1> QED
  BY <1>3, <1>4, <1>5, <1>6 DEF IsBefore

-------------------------------------------------------------------------------
(* Refreshes *)

LEMMA FetchFacts ==
  ASSUME NEW f \in Fetches
  PROVE  /\ f # NoFetch
         /\ f.at \in {"list", "latest", "older", "visible"}
         /\ f.from \in Nat /\ f.next \in Nat /\ f.n \in Nat /\ f.first \in Nat /\ f.end \in Nat
         /\ f.answer \in {NoPage} \cup Pages \cup Removals
         /\ f.got \in Lists /\ f.more \in BOOLEAN
         /\ f.held \subseteq Nat /\ f.gone \subseteq Nat
BY DEF Fetches, NoFetch

LEMMA AnswerKinds ==
  ASSUME NEW page \in Pages, NEW gone \in Removals
  PROVE  /\ page # NoPage /\ gone # NoPage /\ page \notin Removals /\ gone \notin Pages
         /\ page.rows \in Lists /\ page.more \in BOOLEAN /\ page.first \in Nat
         /\ page.last \in Nat /\ gone.ids \subseteq Nat
BY DEF Pages, Removals, NoPage

LEMMA NewFetchFacts ==
  ASSUME TimelineTypeOK, NEW at \in {"list", "older"}, NEW from \in Nat
  PROVE  /\ NewFetch(at, from) \in Fetches
         /\ NewFetch(at, from).at = at
         /\ NewFetch(at, from).from = from /\ NewFetch(at, from).next = from
         /\ NewFetch(at, from).n = 0 /\ NewFetch(at, from).end = 0
         /\ NewFetch(at, from).answer = NoPage /\ NewFetch(at, from).got = NoRows
         /\ NewFetch(at, from).held = DOMAIN view /\ NewFetch(at, from).gone = removed
BY ListFacts, EmptyList DEF TimelineTypeOK, NewFetch, Fetches

LEMMA HiddenFacts ==
  ASSUME NEW L \in Lists
  PROVE  HiddenIn(L) \subseteq Nat
BY ListFacts DEF HiddenIn

-------------------------------------------------------------------------------
(* What a step keeps *)

NoRequest == fetch' = NoFetch
\* A refresh that begins, or what was in progress is dropped.
Begins ==
  \/ NoRequest
  \/ fetch' = NewFetch("list", after)
  \/ kind = "ios" /\ before # 0 /\ fetch' = NewFetch("older", before)

LEMMA BeginsFacts ==
  ASSUME TimelineTypeOK, Begins
  PROVE  /\ fetch' \in {NoFetch} \cup Fetches
         /\ fetch' # NoFetch =>
              /\ fetch' \in Fetches
              /\ fetch'.answer = NoPage /\ fetch'.got = NoRows
              /\ fetch'.n = 0 /\ fetch'.end = 0
              /\ fetch'.held = DOMAIN view /\ fetch'.gone = removed
              /\ \/ fetch'.at = "list" /\ fetch'.from = after /\ fetch'.next = after
                 \/ kind = "ios" /\ before # 0 /\ fetch'.at = "older" /\ fetch'.next = before
<1>1. after \in Nat /\ before \in Nat
  BY DEF TimelineTypeOK
<1>2. CASE NoRequest
  BY <1>2 DEF NoRequest
<1>3. CASE fetch' = NewFetch("list", after)
  BY <1>1, <1>3, NewFetchFacts
<1>4. CASE kind = "ios" /\ before # 0 /\ fetch' = NewFetch("older", before)
  BY <1>1, <1>4, NewFetchFacts
<1> QED
  BY <1>2, <1>3, <1>4 DEF Begins

\* A refresh that begins on what is shown asks nothing yet: all there is to keep is
\* about the list.
LEMMA BeginsKeeps ==
  ASSUME TimelineInv, Begins, view' \in Lists, DOMAIN view \subseteq DOMAIN view',
         Within(view)',
         known' \subseteq Nat, again' \in BOOLEAN,
         ~loaded /\ kind = "web" => DOMAIN view' = {},
         UNCHANGED <<roomVars, kind, loaded, cursorVars, aside>>
  PROVE  TimelineInv'
<1>1. TimelineTypeOK /\ NoGap /\ FetchFits /\ WebFits /\ IosFits /\ AsideFits /\ CountsFit
  BY DEF TimelineInv
<1>2. /\ last' = last /\ removed' = removed /\ replies' = replies /\ kind' = kind
      /\ loaded' = loaded /\ before' = before /\ after' = after /\ older' = older
      /\ aside' = aside
  BY DEF roomVars, cursorVars
<1>3. PICK f : f = fetch'
  OBVIOUS
<1>4. /\ f \in {NoFetch} \cup Fetches
      /\ f # NoFetch =>
           /\ f \in Fetches
           /\ f.answer = NoPage /\ f.got = NoRows
           /\ f.n = 0 /\ f.end = 0
           /\ f.held = DOMAIN view /\ f.gone = removed
           /\ \/ f.at = "list" /\ f.from = after /\ f.next = after
              \/ kind = "ios" /\ before # 0 /\ f.at = "older" /\ f.next = before
  BY <1>1, <1>3, BeginsFacts
<1>5. TimelineTypeOK'
  BY <1>1, <1>2, <1>3, <1>4 DEF TimelineTypeOK
<1>6. NoGap'
  BY <1>1, <1>2 DEF NoGap
<1>7. FetchFits'
  BY <1>1, <1>2, <1>3, <1>4 DEF FetchFits
<1>8. after \in Nat /\ DOMAIN NoRows = {}
  BY <1>1, EmptyList DEF TimelineTypeOK
<1>9. WebFits'
  <2>1. SUFFICES ASSUME kind = "web" PROVE (~loaded => DOMAIN view' = {}) /\ (f # NoFetch => WebCollects')
    BY <1>2, <1>3 DEF WebFits
  <2>2. f # NoFetch => f.at = "list" /\ f.from = after /\ f.next = after /\ f.n = 0 /\ f.end = 0
    BY <1>4, <2>1
  <2>3. f # NoFetch => WebCollects'
    BY <1>2, <1>3, <2>2 DEF WebCollects
  <2> QED
    BY <1>1, <2>1, <2>3 DEF WebFits
<1>10. IosFits'
  BY <1>2, <1>3, <1>4 DEF IosFits
<1>11. AsideFits'
  <2>1. f # NoFetch => 1 \notin DOMAIN f.got /\ f.answer = NoPage
    BY <1>4, <1>8
  <2>2. f # NoFetch => ReadsNoRoot'
    BY <1>3, <2>1 DEF ReadsNoRoot
  <2>3. aside # NoPage => loaded /\ Within(aside.rows)'
    BY <1>1, <1>2 DEF AsideFits, Within, Cap
  <2>4. kind = "web" /\ aside # NoPage => before # 0 /\ IsBefore(aside, before)'
    BY <1>1, <1>2 DEF AsideFits, IsBefore
  <2>5. kind = "web" /\ (older \/ aside # NoPage) => after # 0 /\ last > Page
    BY <1>1 DEF AsideFits
  <2> QED
    BY <1>2, <1>3, <2>2, <2>3, <2>4, <2>5 DEF AsideFits
<1>12. CountsFit'
  BY <1>4, <1>8, <1>3 DEF WebCounts, NoMoreThan, Within, CountsFit
<1> QED
  BY <1>5, <1>6, <1>7, <1>9, <1>10, <1>11, <1>12 DEF TimelineInv

\* More is in the room, and the client does nothing.
LEMMA RoomGrowsKeeps ==
  ASSUME TimelineInv,
         last' \in Nat, last' >= last, removed' \subseteq Nat, removed \subseteq removed',
         replies' \in Nat, replies' >= replies,
         UNCHANGED <<kind, loaded, view, known, cursorVars, fetch, again, aside>>
  PROVE  TimelineInv'
<1>1. TimelineTypeOK /\ NoGap /\ FetchFits /\ WebFits /\ IosFits /\ AsideFits /\ CountsFit
  BY DEF TimelineInv
<1>2. /\ kind' = kind /\ loaded' = loaded /\ view' = view /\ known' = known
      /\ before' = before /\ after' = after /\ older' = older
      /\ fetch' = fetch /\ again' = again /\ aside' = aside
  BY DEF cursorVars
<1>3. /\ last \in Nat /\ replies \in Nat /\ Page \in Nat
      /\ last > Page => last' > Page
  BY <1>1, TimelineAssumption DEF TimelineTypeOK
<1>4. \A L \in Lists : Within(L) => Within(L)'
  <2> SUFFICES ASSUME NEW L \in Lists, Within(L), NEW p \in DOMAIN L PROVE L[p].count <= Cap(p)'
    BY DEF Within
  <2>1. L[p].count \in Nat /\ L[p].count <= Cap(p)
    BY ListFacts DEF Within
  <2> QED
    BY <1>3, <2>1 DEF Cap
<1>5. fetch # NoFetch => fetch \in Fetches /\ fetch.got \in Lists
  BY <1>1, FetchFacts DEF TimelineTypeOK
<1>6. TimelineTypeOK'
  BY <1>1, <1>2 DEF TimelineTypeOK
<1>7. NoGap'
  BY <1>1, <1>2 DEF NoGap
<1>8. FetchFits'
  BY <1>2, <1>3, <1>1 DEF IsNewest, AnswerFits, IsAfter, IsBefore, FetchFits
<1>9. WebFits'
  BY <1>2, <1>3, <1>1 DEF WebCollects, WebFits
<1>10. IosFits'
  BY <1>1, <1>2 DEF IosFits
<1>11. AsideFits'
  <2>1. aside # NoPage => aside.rows \in Lists
    BY <1>1 DEF TimelineTypeOK, Pages
  <2>2. aside # NoPage => loaded /\ Within(aside.rows)'
    BY <1>1, <1>2, <1>4, <2>1 DEF AsideFits, Within, Cap
  <2>3. kind = "web" /\ aside # NoPage => before # 0 /\ IsBefore(aside, before)'
    BY <1>1, <1>2 DEF AsideFits, IsBefore
  <2>4. ReadsNoRoot' <=> ReadsNoRoot
    BY <1>2 DEF ReadsNoRoot
  <2> QED
    BY <1>1, <1>2, <1>3, <2>2, <2>3, <2>4 DEF AsideFits
<1>12. CountsFit'
  <2>1. fetch # NoFetch /\ fetch.at \in {"list", "latest", "older"} /\ fetch.answer # NoPage =>
          fetch.answer.rows \in Lists
    BY <1>1 DEF AnswerFits, IsNewest, IsAfter, IsBefore, FetchFits, Pages
  <2>2. Within(view)'
    BY <1>1, <1>2, <1>4 DEF CountsFit, TimelineTypeOK, Within, Cap
  <2>3. fetch # NoFetch /\ WebCounts => WebCounts'
    <3> SUFFICES ASSUME fetch # NoFetch, WebCounts PROVE WebCounts'
      OBVIOUS
    <3>1. NoMoreThan(fetch.got)' /\ Within(fetch.got)'
      BY <1>2, <1>4, <1>5 DEF WebCounts, NoMoreThan, Within, Cap
    <3>2. fetch.at \in {"list", "latest"} /\ fetch.answer # NoPage =>
            NoMoreThan(fetch.answer.rows)' /\ Within(fetch.answer.rows)'
      BY <1>2, <1>4, <2>1 DEF WebCounts, NoMoreThan, Within, Cap
    <3> QED
      BY <1>2, <3>1, <3>2 DEF WebCounts
  <2>4. kind = "ios" /\ fetch # NoFetch /\ fetch.at \in {"list", "older"} /\ fetch.answer # NoPage =>
          Within(fetch.answer.rows)'
    BY <1>1, <1>2, <1>4, <2>1 DEF CountsFit, Within, Cap
  <2> QED
    BY <1>1, <1>2, <2>2, <2>3, <2>4 DEF CountsFit
<1> QED
  BY <1>6, <1>7, <1>8, <1>9, <1>10, <1>11, <1>12 DEF TimelineInv

\* The list changes under a refresh that goes on.
LEMMA FetchStaysKeeps ==
  ASSUME TimelineInv, fetch' = fetch, TimelineTypeOK', NoGap', AsideFits',
         DOMAIN view \subseteq DOMAIN view', Within(view)',
         ~loaded /\ kind = "web" => DOMAIN view' = {},
         kind = "web" /\ fetch # NoFetch => WebCounts',
         kind = "ios" => before' = before,
         UNCHANGED <<roomVars, kind, loaded, after>>
  PROVE  TimelineInv'
<1>1. TimelineTypeOK /\ NoGap /\ FetchFits /\ WebFits /\ IosFits /\ AsideFits /\ CountsFit
  BY DEF TimelineInv
<1>2. /\ last' = last /\ removed' = removed /\ replies' = replies /\ kind' = kind
      /\ loaded' = loaded /\ after' = after /\ fetch' = fetch
  BY DEF roomVars
<1>3. FetchFits'
  BY <1>2, <1>1 DEF AnswerFits, IsNewest, IsAfter, IsBefore, FetchFits
<1>4. WebFits'
  BY <1>2, <1>1 DEF WebCollects, WebFits
<1>5. IosFits'
  BY <1>1, <1>2 DEF IosFits
<1>6. CountsFit'
  BY <1>1, <1>2 DEF CountsFit, Within, Cap
<1> QED
  BY <1>3, <1>4, <1>5, <1>6 DEF TimelineInv

\* What the parts of the invariant say in one place, for the lemmas about actions.
LEMMA InvFacts ==
  ASSUME TimelineInv
  PROVE  /\ TimelineTypeOK /\ NoGap /\ FetchFits /\ WebFits /\ IosFits /\ AsideFits
         /\ CountsFit
         /\ DOMAIN view \subseteq Nat /\ known \subseteq Nat /\ Within(view)
         /\ fetch # NoFetch => fetch \in Fetches
         /\ aside # NoPage => aside \in Pages /\ aside.rows \in Lists
         /\ after \in Nat /\ before \in Nat
BY ListFacts DEF TimelineInv, TimelineTypeOK, CountsFit, Pages

\* Beginning a refresh, or ending one with nothing.
LEMMA RefreshesKeep ==
  ASSUME TimelineInv, StartFetch \/ Refresh \/ LoadOlder \/ FetchFails
  PROVE  TimelineInv'
<1>1. /\ TimelineTypeOK /\ WebFits /\ IosFits /\ AsideFits /\ NoGap /\ CountsFit
      /\ known \subseteq Nat /\ Within(view) /\ view \in Lists /\ again \in BOOLEAN
      /\ kind \in {"web", "ios"}
  BY InvFacts DEF TimelineTypeOK
<1>2. CASE Refresh /\ fetch # NoFetch
  <2>1. /\ fetch' = fetch /\ again' = TRUE
        /\ UNCHANGED <<roomVars, kind, loaded, view, known, cursorVars, aside>>
    BY <1>2 DEF Refresh
  <2>2. TimelineTypeOK'
    BY <1>1, <2>1 DEF TimelineTypeOK, roomVars, cursorVars
  <2>3. NoGap'
    BY <1>1, <2>1 DEF NoGap, cursorVars
  <2>4. AsideFits'
    BY <1>1, <2>1 DEF AsideFits, ReadsNoRoot, IsBefore, Within, Cap, roomVars, cursorVars
  <2>5. Within(view)'
    BY <1>1, <2>1 DEF Within, Cap, roomVars
  <2>6. kind = "ios" /\ before' = before /\ after' = after
    BY <1>2, <2>1 DEF Refresh, cursorVars
  <2> QED
    BY <2>1, <2>2, <2>3, <2>4, <2>5, <2>6, FetchStaysKeeps
<1>3. CASE ~(Refresh /\ fetch # NoFetch)
  <2>1. /\ Begins /\ again' \in BOOLEAN
        /\ UNCHANGED <<roomVars, kind, loaded, view, known, cursorVars, aside>>
    BY <1>1, <1>3 DEF StartFetch, Refresh, LoadOlder, FetchFails, AfterLoad, Begins, NoRequest
  <2>2. /\ view' \in Lists /\ DOMAIN view \subseteq DOMAIN view' /\ known' \subseteq Nat
    BY <1>1, <2>1
  <2>3. Within(view)'
    BY <1>1, <2>1 DEF Within, Cap, roomVars
  <2> QED
    BY <1>1, <2>1, <2>2, <2>3, BeginsKeeps DEF WebFits
<1> QED
  BY <1>2, <1>3

\* A list that is only hidden in counts as it did.
LEMMA ShownCounts ==
  ASSUME NEW L \in Lists, NEW gone, Within(L)
  PROVE  Within(Shown(L, gone))
BY ShownFacts DEF Within

\* Two lists within what there is make one that is.
LEMMA MergeCounts ==
  ASSUME NEW L \in Lists, NEW N \in Lists, Within(L), Within(N)
  PROVE  Within(Merge(L, N))
<1> SUFFICES ASSUME NEW p \in DOMAIN Merge(L, N) PROVE Merge(L, N)[p].count <= Cap(p)
  BY DEF Within
<1>1. CASE p \in DOMAIN L \ DOMAIN N
  BY <1>1, MergeFacts, ZenonT(40) DEF Within
<1>2. CASE p \in DOMAIN N \ DOMAIN L
  BY <1>2, MergeFacts, ZenonT(40) DEF Within
<1>3. CASE p \in DOMAIN L \cap DOMAIN N
  BY <1>3, MergeFacts DEF Within, Count, Greater
<1> QED
  BY <1>1, <1>2, <1>3, MergeFacts

\* The server answers.
LEMMA AnswerFetchKeeps == ASSUME TimelineInv, AnswerFetch PROVE TimelineInv'
<1>1. /\ TimelineTypeOK /\ NoGap /\ FetchFits /\ WebFits /\ IosFits /\ AsideFits
      /\ CountsFit /\ Within(view)
      /\ kind \in {"web", "ios"} /\ after \in Nat /\ before \in Nat
  BY InvFacts DEF TimelineTypeOK
<1>2. /\ last' = last /\ removed' = removed /\ replies' = replies /\ kind' = kind
      /\ loaded' = loaded /\ view' = view /\ known' = known /\ before' = before
      /\ after' = after /\ older' = older /\ again' = again /\ aside' = aside
      /\ fetch # NoFetch /\ fetch \in Fetches /\ fetch.answer = NoPage
  BY InvFacts DEF AnswerFetch, roomVars, cursorVars
<1>3. PICK f \in Fetches : f = fetch
  BY <1>2
<1>4. PICK answer :
        /\ fetch' = [f EXCEPT !.answer = answer]
        /\ f.at = "list" /\ f.next = 0 => answer = NewestPage
        /\ f.at = "list" /\ f.next # 0 => answer = PageAfter(f.next)
        /\ f.at = "latest" => answer = NewestPage
        /\ f.at = "older" => answer = PageBefore(f.next)
        /\ f.at = "visible" => answer = [is |-> "removed", ids |-> Tracked \cap removed]
  <2>1. CASE f.at = "list" /\ f.next = 0
    BY <1>3, <2>1 DEF AnswerFetch
  <2>2. CASE f.at = "list" /\ f.next # 0
    BY <1>3, <2>2 DEF AnswerFetch
  <2>3. CASE f.at = "latest"
    BY <1>3, <2>3 DEF AnswerFetch
  <2>4. CASE f.at = "older"
    BY <1>3, <2>4 DEF AnswerFetch
  <2>5. CASE f.at = "visible"
    BY <1>3, <2>5 DEF AnswerFetch
  <2> QED
    BY <2>1, <2>2, <2>3, <2>4, <2>5, FetchFacts
<1>5. /\ f.at \in {"list", "latest", "older", "visible"} /\ f.next \in Nat
      /\ f.held \subseteq Nat /\ f.gone \subseteq removed /\ f.held \subseteq DOMAIN view
      /\ f.got \in Lists /\ removed \subseteq Nat
  BY <1>1, <1>2, <1>3, FetchFacts DEF FetchFits, TimelineTypeOK
<1>6. f.at = "older" => f.next \in Nat \ {0}
  BY <1>1, <1>2, <1>3 DEF WebFits, WebCollects, IosFits
<1>7. f.at = "visible" =>
        /\ answer \in Removals
        /\ f.held \cap f.gone \subseteq answer.ids
  BY <1>3, <1>4, <1>5 DEF Tracked, Removals
<1>8. f.at \in {"list", "latest", "older"} =>
        answer \in Pages /\ Within(answer.rows)
  BY <1>1, <1>4, <1>5, <1>6, NewestFacts, AfterFacts, BeforeFacts
<1>9. /\ f.at = "list" /\ f.next = 0 => IsNewest(answer)
      /\ f.at = "list" /\ f.next # 0 => IsAfter(answer, f.next)
      /\ f.at = "older" => IsBefore(answer, f.next)
  BY <1>1, <1>4, <1>5, <1>6, NewestFacts, AfterFacts, BeforeFacts
<1>10. f.at \in {"list", "latest"} =>
         \A p \in DOMAIN answer.rows : answer.rows[p].count = Cap(p)
  BY <1>1, <1>4, <1>5, NewestFacts, AfterFacts
<1>11. answer \in Pages \cup Removals
  BY <1>5, <1>7, <1>8
<1>12. PICK g \in Fetches : g = [f EXCEPT !.answer = answer]
  BY <1>11 DEF Fetches
<1>13. /\ g.at = f.at /\ g.from = f.from /\ g.next = f.next /\ g.n = f.n
       /\ g.answer = answer /\ g.got = f.got /\ g.first = f.first /\ g.more = f.more
       /\ g.end = f.end /\ g.held = f.held /\ g.gone = f.gone
       /\ fetch' = g /\ g # NoFetch
  BY <1>4, <1>12, FetchFacts DEF Fetches
<1>14. TimelineTypeOK'
  BY <1>1, <1>2, <1>13 DEF TimelineTypeOK
<1>15. NoGap'
  BY <1>1, <1>2 DEF NoGap
<1>16. FetchFits'
  BY <1>2, <1>9, <1>7, <1>8, <1>13, <1>5 DEF IsNewest, AnswerFits, IsAfter, IsBefore, FetchFits
<1>17. WebFits'
  BY <1>2, <1>3, <1>13, <1>1 DEF WebCollects, WebFits
<1>18. IosFits'
  BY <1>1, <1>2, <1>3, <1>13 DEF IosFits
<1>19. AsideFits'
  <2>1. ASSUME kind = "web", older \/ aside # NoPage PROVE ReadsNoRoot'
    <3>1. /\ after # 0 /\ last > Page /\ 1 \notin DOMAIN f.got
      BY <1>1, <1>2, <1>3, <2>1 DEF AsideFits, ReadsNoRoot
    <3>2. f.at = "list" => f.next # 0
      BY <1>1, <1>2, <1>3, <2>1, <3>1 DEF WebFits, WebCollects
    <3>3. f.at \in {"list", "latest"} => 1 \notin DOMAIN answer.rows
      BY <1>1, <1>4, <1>5, <3>1, <3>2, NewestFacts, AfterFacts
    <3> QED
      BY <1>13, <3>1, <3>3 DEF ReadsNoRoot
  <2>2. aside # NoPage => loaded /\ Within(aside.rows)'
    BY <1>1, <1>2 DEF AsideFits, Within, Cap
  <2>3. kind = "web" /\ aside # NoPage => before # 0 /\ IsBefore(aside, before)'
    BY <1>1, <1>2 DEF AsideFits, IsBefore
  <2>4. kind = "web" /\ (older \/ aside # NoPage) => after # 0 /\ last > Page
    BY <1>1 DEF AsideFits
  <2> QED
    BY <1>2, <2>1, <2>2, <2>3, <2>4 DEF AsideFits
<1>20. CountsFit'
  <2>1. Within(view)'
    BY <1>1, <1>2 DEF Within, Cap
  <2>2. f.at \in {"list", "latest"} => NoMoreThan(answer.rows)'
    BY <1>1, <1>2, <1>10 DEF NoMoreThan, Within
  <2>3. f.at \in {"list", "latest", "older"} => Within(answer.rows)'
    BY <1>2, <1>8 DEF Within, Cap
  <2>4. kind = "web" => NoMoreThan(f.got)' /\ Within(f.got)'
    BY <1>1, <1>2, <1>3 DEF CountsFit, WebCounts, NoMoreThan, Within, Cap
  <2> QED
    BY <1>2, <1>13, <2>1, <2>2, <2>3, <2>4 DEF CountsFit, WebCounts
<1> QED
  BY <1>14, <1>15, <1>16, <1>17, <1>18, <1>19, <1>20 DEF TimelineInv

\* Two lists that show no message to have more replies than the list shown has make one.
LEMMA NoMoreMerged ==
  ASSUME NEW L \in Lists, NEW N \in Lists, kind = "web",
         NoMoreThan(L), NoMoreThan(N)
  PROVE  NoMoreThan(Merge(L, N))
<1> SUFFICES ASSUME NEW p \in DOMAIN view, p \in DOMAIN Merge(L, N)
             PROVE  view[p].count <= Merge(L, N)[p].count
  BY DEF NoMoreThan
<1>1. CASE p \in DOMAIN L \ DOMAIN N
  BY <1>1, MergeFacts, ZenonT(40) DEF NoMoreThan
<1>2. CASE p \in DOMAIN N \ DOMAIN L
  BY <1>2, MergeFacts, ZenonT(40) DEF NoMoreThan
<1>3. CASE p \in DOMAIN L \cap DOMAIN N
  BY <1>3, MergeFacts DEF Count, NoMoreThan
<1> QED
  BY <1>1, <1>2, <1>3, MergeFacts

LEMMA NoMoreShown ==
  ASSUME NEW L \in Lists, NEW gone, NoMoreThan(L)
  PROVE  NoMoreThan(Shown(L, gone))
BY ShownFacts DEF NoMoreThan

\* What a page adds to a refresh of the web, whichever it is.
LEMMA CollectedFacts ==
  ASSUME NEW f \in Fetches, NEW page \in Pages, NEW g,
         \/ f.at = "list" /\ g = Collected(f, page)
         \/ f.at = "latest" /\ g = WithLatest(f, page)
  PROVE  LET got == Merge(f.got, Shown(page.rows, known)) IN
         /\ g \in Fetches /\ g.answer = NoPage /\ g.got = got
         /\ g.from = f.from /\ g.held = f.held /\ g.gone = f.gone
         /\ f.at = "latest" => /\ g.at = "visible" /\ g.end = f.end /\ g.first = f.first
                              /\ g.more = f.more /\ g.n = f.n
         /\ f.at = "list" =>
              /\ g.n = f.n + 1 /\ g.n # 0
              /\ g.end = IF page.last # 0 THEN page.last ELSE f.end
              /\ f.n = 0 => g.first = page.first /\ g.more = page.more
              /\ f.from = 0 => g.at = "visible"
              /\ f.from # 0 => \/ g.at = "list" /\ page.more /\ g.next = page.last
                               \/ g.at = "latest"
<1> DEFINE got == Merge(f.got, Shown(page.rows, known))
<1>1. got \in Lists
  BY FetchFacts, AnswerKinds, ShownFacts, MergeFacts DEF Pages
<1>2. /\ f.n + 1 \in Nat /\ f.n + 1 # 0 /\ f.n \in Nat /\ page.last \in Nat /\ page.first \in Nat
      /\ page.more \in BOOLEAN /\ f.end \in Nat /\ f.first \in Nat /\ f.more \in BOOLEAN
  BY FetchFacts DEF Pages
<1> HIDE DEF got
<1>3. CASE f.at = "latest" /\ g = WithLatest(f, page)
  BY <1>3, <1>1 DEF WithLatest, Ask, got, Fetches
<1>4. CASE f.at = "list" /\ g = Collected(f, page)
  <2>1. PICK end, first, more :
          /\ end = (IF page.last # 0 THEN page.last ELSE f.end)
          /\ first = (IF f.n = 0 THEN page.first ELSE f.first)
          /\ more = (IF f.n = 0 THEN page.more ELSE f.more)
    OBVIOUS
  <2>2. end \in Nat /\ first \in Nat /\ more \in BOOLEAN
    BY <1>2, <2>1
  <2>3. PICK f1 : f1 = [f EXCEPT !.got = got, !.n = f.n + 1, !.end = end,
                                 !.first = first, !.more = more]
    OBVIOUS
  <2>4. /\ f1 \in Fetches /\ f1.got = got /\ f1.n = f.n + 1 /\ f1.end = end
        /\ f1.first = first /\ f1.more = more /\ f1.from = f.from /\ f1.held = f.held
        /\ f1.gone = f.gone
    BY <1>1, <1>2, <2>2, <2>3 DEF Fetches
  <2>5. g = IF f.from = 0 THEN Ask(f1, "visible")
            ELSE IF page.more /\ f1.n < Burst
              THEN [Ask(f1, "list") EXCEPT !.next = page.last]
              ELSE Ask(f1, "latest")
    BY <1>4, <2>1, <2>3 DEF Collected, got
  <2>6. ASSUME NEW at \in {"list", "visible", "latest"}
        PROVE  LET h == Ask(f1, at) IN
               /\ h \in Fetches /\ h.at = at /\ h.answer = NoPage /\ h.got = got
               /\ h.n = f.n + 1 /\ h.end = end /\ h.first = first /\ h.more = more
               /\ h.from = f.from /\ h.held = f.held /\ h.gone = f.gone
    BY <2>4 DEF Ask, Fetches
  <2>7. CASE f.from = 0
    BY <2>5, <2>7, <1>2, <1>4, <2>1, <2>6 DEF got
  <2>8. CASE f.from # 0 /\ page.more /\ f1.n < Burst
    <3>1. PICK h : h = Ask(f1, "list")
      OBVIOUS
    <3>2. g = [h EXCEPT !.next = page.last]
      BY <2>5, <2>8, <3>1
    <3>3. /\ h \in Fetches /\ h.at = "list" /\ h.answer = NoPage /\ h.got = got
          /\ h.n = f.n + 1 /\ h.end = end /\ h.first = first /\ h.more = more
          /\ h.from = f.from /\ h.held = f.held /\ h.gone = f.gone
      BY <2>6, <3>1
    <3>4. /\ g \in Fetches /\ g.at = "list" /\ g.answer = NoPage /\ g.got = got
          /\ g.n = f.n + 1 /\ g.end = end /\ g.first = first /\ g.more = more
          /\ g.from = f.from /\ g.held = f.held /\ g.gone = f.gone /\ g.next = page.last
      BY <1>2, <3>2, <3>3 DEF Fetches
    <3> QED
      BY <1>2, <1>4, <2>1, <2>8, <3>4 DEF got
  <2>9. CASE f.from # 0 /\ ~(page.more /\ f1.n < Burst)
    BY <2>5, <2>9, <1>2, <1>4, <2>1, <2>6 DEF got
  <2> QED
    BY <2>7, <2>8, <2>9
<1> QED
  BY <1>3, <1>4

\* The web takes a page.
LEMMA WebTakesPageKeeps == ASSUME TimelineInv, WebTakesPage PROVE TimelineInv'
<1>1. /\ TimelineTypeOK /\ NoGap /\ FetchFits /\ WebFits /\ IosFits /\ AsideFits
      /\ CountsFit /\ Within(view) /\ known \subseteq Nat
      /\ kind \in {"web", "ios"} /\ after \in Nat /\ before \in Nat /\ last \in Nat
  BY InvFacts DEF TimelineTypeOK
<1>2. /\ last' = last /\ removed' = removed /\ replies' = replies /\ kind' = kind
      /\ loaded' = loaded /\ view' = view /\ before' = before
      /\ after' = after /\ older' = older /\ again' = again /\ aside' = aside
      /\ kind = "web" /\ fetch.at \in {"list", "latest"} /\ fetch.answer # NoPage
      /\ fetch # NoFetch /\ fetch \in Fetches
  BY InvFacts DEF WebTakesPage, NoFetch, roomVars, cursorVars
<1>3. PICK f \in Fetches, page \in {fetch.answer}, g \in {fetch'} :
        /\ f = fetch /\ page = f.answer /\ g = fetch'
        /\ \/ f.at = "list" /\ g = Collected(f, page)
           \/ f.at = "latest" /\ g = WithLatest(f, page)
        /\ known' = known \cup HiddenIn(page.rows)
  BY <1>2 DEF WebTakesPage
<1>4. /\ page \in Pages /\ page.rows \in Lists
      /\ f.at = "list" /\ f.next = 0 => IsNewest(page)
      /\ f.at = "list" /\ f.next # 0 => IsAfter(page, f.next)
      /\ f.at \in {"list", "latest"}
  BY <1>1, <1>2, <1>3 DEF FetchFits, AnswerFits, IsNewest, IsAfter, Pages
<1>5. /\ page.last \in Nat /\ page.first \in Nat /\ page.more \in BOOLEAN
      /\ f.n \in Nat /\ f.end \in Nat /\ f.from \in Nat /\ f.next \in Nat /\ f.got \in Lists
      /\ f.first \in Nat /\ f.more \in BOOLEAN
  BY <1>4, FetchFacts DEF Pages
<1>6. PICK got : got = Merge(f.got, Shown(page.rows, known))
  OBVIOUS
<1>7. /\ g \in Fetches /\ g.answer = NoPage /\ g.got = got
      /\ g.from = f.from /\ g.held = f.held /\ g.gone = f.gone
      /\ f.at = "latest" => /\ g.at = "visible" /\ g.end = f.end /\ g.first = f.first
                           /\ g.more = f.more /\ g.n = f.n
      /\ f.at = "list" =>
           /\ g.n # 0
           /\ g.end = IF page.last # 0 THEN page.last ELSE f.end
           /\ f.n = 0 => g.first = page.first /\ g.more = page.more
           /\ f.from = 0 => g.at = "visible"
           /\ f.from # 0 => \/ g.at = "list" /\ page.more /\ g.next = page.last
                            \/ g.at = "latest"
  BY <1>3, <1>4, <1>6, CollectedFacts
<1>8. /\ g # NoFetch /\ fetch' = g /\ g.end \in Nat
  BY <1>3, <1>7, FetchFacts
<1>9. DOMAIN got = DOMAIN f.got \cup DOMAIN page.rows
  <2>1. PICK shown : shown = Shown(page.rows, known)
    OBVIOUS
  <2>2. shown \in Lists /\ DOMAIN shown = DOMAIN page.rows
    BY <1>4, <2>1, ShownFacts
  <2> QED
    BY <1>5, <1>6, <2>1, <2>2, MergeDomain
<1>10. WebCollects /\ f.from = after
  BY <1>1, <1>2, <1>3 DEF WebFits, WebCollects
<1>11. TimelineTypeOK'
  BY <1>1, <1>2, <1>3, <1>4, <1>7, <1>8, HiddenFacts DEF TimelineTypeOK
<1>12. NoGap'
  BY <1>1, <1>2 DEF NoGap
<1>13. FetchFits'
  BY <1>1, <1>2, <1>3, <1>7, <1>8 DEF FetchFits
<1>14. ASSUME f.from = 0
       PROVE  /\ g.at = "visible"
              /\ g.end # 0 =>
                   /\ g.first .. g.end \subseteq DOMAIN g.got
                   /\ ~g.more => 1 .. g.end \subseteq DOMAIN g.got
              /\ g.more => last > Page /\ g.end # 0
  BY <1>2, <1>3, <1>4, <1>10, <1>14, <1>7, <1>9 DEF WebCollects, IsNewest
<1>15. ASSUME f.from # 0
       PROVE  /\ g.end # 0 => g.from + 1 .. g.end \subseteq DOMAIN g.got
              /\ g.at = "list" =>
                   g.next # 0 /\ g.next = IF g.end = 0 THEN g.from ELSE g.end
  <2>1. f.end # 0 => f.from + 1 .. f.end \subseteq DOMAIN f.got
    BY <1>3, <1>10, <1>15 DEF WebCollects
  <2>2. CASE f.at = "latest"
    BY <1>7, <1>9, <2>1, <2>2
  <2>3. CASE f.at = "list"
    <3>1. f.next # 0 /\ f.next = IF f.end = 0 THEN f.from ELSE f.end
      BY <1>3, <1>10, <1>15, <2>3 DEF WebCollects
    <3>2. /\ page.last # 0 => f.next + 1 .. page.last \subseteq DOMAIN page.rows
          /\ page.more => page.last # 0
      BY <1>4, <2>3, <3>1 DEF IsAfter
    <3>3. CASE page.last = 0
      BY <1>7, <1>15, <2>3, <3>2, <3>3, <1>9, <2>1
    <3>4. CASE page.last # 0
      BY <1>7, <2>3, <3>4, <1>5, <1>9, <2>1, <3>1, <3>2, <1>15
    <3> QED
      BY <3>3, <3>4
  <2> QED
    BY <1>4, <2>2, <2>3
<1>16. WebFits'
  BY <1>4, <1>5, <1>7, <1>2, <1>8, <1>10, <1>14, <1>15, <1>1 DEF WebCollects, WebFits
<1>17. IosFits'
  BY <1>2 DEF IosFits
<1>18. AsideFits'
  <2>1. ASSUME older \/ aside # NoPage PROVE ReadsNoRoot'
    BY <1>1, <1>2, <1>3, <2>1, <1>7, <1>8, <1>9 DEF AsideFits, ReadsNoRoot
  <2>2. aside # NoPage => loaded /\ Within(aside.rows)'
    BY <1>1, <1>2 DEF AsideFits, Within, Cap
  <2>3. kind = "web" /\ aside # NoPage => before # 0 /\ IsBefore(aside, before)'
    BY <1>1, <1>2 DEF AsideFits, IsBefore
  <2>4. kind = "web" /\ (older \/ aside # NoPage) => after # 0 /\ last > Page
    BY <1>1 DEF AsideFits
  <2> QED
    BY <1>2, <2>1, <2>2, <2>3, <2>4 DEF AsideFits
<1>19. CountsFit'
  <2>1. /\ NoMoreThan(f.got) /\ Within(f.got) /\ NoMoreThan(page.rows) /\ Within(page.rows)
    BY <1>1, <1>2, <1>3 DEF CountsFit, WebCounts
  <2>2. Shown(page.rows, known) \in Lists
    BY <1>4, ShownFacts
  <2>3. NoMoreThan(got) /\ Within(got)
    BY <1>2, <1>4, <1>5, <1>6, <2>1, <2>2, NoMoreMerged, NoMoreShown, MergeCounts, ShownCounts
  <2>4. NoMoreThan(got)' /\ Within(got)'
    BY <1>2, <2>3 DEF NoMoreThan, Within, Cap
  <2>5. WebCounts'
    BY <1>7, <1>8, <2>4 DEF WebCounts
  <2>6. Within(view)'
    BY <1>1, <1>2 DEF Within, Cap
  <2> QED
    BY <1>2, <2>5, <2>6 DEF CountsFit
<1> QED
  BY <1>11, <1>12, <1>13, <1>16, <1>17, <1>18, <1>19 DEF TimelineInv

\* The web ends a refresh.
LEMMA FinishFetchKeeps == ASSUME TimelineInv, FinishFetch PROVE TimelineInv'
<1>1. /\ TimelineTypeOK /\ NoGap /\ FetchFits /\ WebFits /\ IosFits /\ AsideFits
      /\ CountsFit /\ Within(view) /\ known \subseteq Nat /\ view \in Lists
      /\ kind \in {"web", "ios"} /\ after \in Nat /\ before \in Nat /\ last \in Nat
  BY InvFacts DEF TimelineTypeOK
<1>2. /\ last' = last /\ removed' = removed /\ replies' = replies /\ kind' = kind
      /\ loaded' = TRUE /\ again' = again /\ aside' = aside /\ fetch' = NoFetch
      /\ kind = "web" /\ fetch.at = "visible" /\ fetch.answer # NoPage
      /\ fetch # NoFetch /\ fetch \in Fetches
  BY InvFacts DEF FinishFetch, NoFetch, roomVars
<1>3. PICK f \in Fetches : f = fetch
  BY <1>2
<1>4. /\ known' = known \cup f.answer.ids
      /\ view' = Merge(Shown(view, known'), Shown(f.got, known'))
      /\ f.from # 0 =>
           /\ after' = IF f.end # 0 THEN f.end ELSE after
           /\ before' = before /\ older' = older
      /\ f.from = 0 => before' = f.first /\ after' = f.end /\ older' = f.more
  BY <1>3 DEF FinishFetch
<1>5. f.answer \in Removals /\ f.answer.ids \subseteq Nat
  BY <1>1, <1>2, <1>3 DEF FetchFits, AnswerFits, Removals
<1>6. /\ f.got \in Lists /\ f.end \in Nat /\ f.first \in Nat /\ f.more \in BOOLEAN
      /\ f.from \in Nat
  BY FetchFacts
<1>7. PICK k, V, G : k = known' /\ V = Shown(view, k) /\ G = Shown(f.got, k)
  OBVIOUS
<1>8. /\ V \in Lists /\ DOMAIN V = DOMAIN view /\ G \in Lists /\ DOMAIN G = DOMAIN f.got
      /\ Within(V) /\ Within(G)
  BY <1>1, <1>2, <1>3, <1>6, <1>7, ShownFacts, ShownCounts DEF CountsFit, WebCounts
<1>9. /\ view' \in Lists /\ DOMAIN view' = DOMAIN view \cup DOMAIN f.got /\ Within(Merge(V, G))
  <2>1. view' = Merge(V, G)
    BY <1>4, <1>7
  <2>2. Within(Merge(V, G))
    BY <1>8, MergeCounts
  <2>3. Merge(V, G) \in Lists /\ DOMAIN Merge(V, G) = DOMAIN V \cup DOMAIN G
    BY <1>8, MergeDomain
  <2> QED
    BY <1>8, <2>1, <2>2, <2>3
<1>10. WebCollects /\ f.from = after
  BY <1>1, <1>2, <1>3 DEF WebFits, WebCollects
<1>11. TimelineTypeOK'
  BY <1>1, <1>2, <1>4, <1>5, <1>6, <1>9 DEF TimelineTypeOK
<1>12. NoGap'
  <2>1. CASE f.from = 0
    BY <1>2, <1>3, <1>10, <2>1, <1>4, <1>9 DEF WebCollects, NoGap
  <2>2. CASE f.from # 0
    <3>1. f.end # 0 => after + 1 .. f.end \subseteq DOMAIN f.got
      BY <1>3, <1>10, <2>2 DEF WebCollects
    <3>2. /\ after # 0
          /\ before # 0 => before .. after \subseteq DOMAIN view
          /\ ~older => 1 .. after \subseteq DOMAIN view
      BY <1>1, <1>10, <2>2 DEF NoGap
    <3>3. before # 0 => before .. after' \subseteq DOMAIN view'
      BY <1>1, <1>4, <1>6, <1>9, <2>2, <3>1, <3>2
    <3>4. ~older => 1 .. after' \subseteq DOMAIN view'
      BY <1>1, <1>4, <1>6, <1>9, <2>2, <3>1, <3>2
    <3> QED
      BY <1>4, <2>2, <3>3, <3>4 DEF NoGap
  <2> QED
    BY <2>1, <2>2
<1>13. FetchFits' /\ WebFits' /\ IosFits'
  BY <1>2 DEF FetchFits, WebFits, IosFits
<1>14. AsideFits'
  <2>1. aside # NoPage => loaded /\ Within(aside.rows)'
    BY <1>1, <1>2 DEF AsideFits, Within, Cap
  <2>2. kind = "web" /\ (older \/ aside # NoPage) => after # 0 /\ last > Page
    BY <1>1 DEF AsideFits
  <2>3. CASE f.from = 0
    BY <1>2, <1>10, <2>2, <2>3, <1>3, <1>4 DEF WebCollects, AsideFits
  <2>4. CASE f.from # 0
    BY <1>4, <1>10, <2>4, <1>1, <1>2, <2>1, <2>2 DEF AsideFits, IsBefore
  <2> QED
    BY <2>3, <2>4
<1>15. CountsFit'
  BY <1>4, <1>7, <1>2, <1>9 DEF Within, Cap, CountsFit
<1> QED
  BY <1>11, <1>12, <1>13, <1>14, <1>15 DEF TimelineInv

\* iOS takes a page.
LEMMA IosTakesPageKeeps == ASSUME TimelineInv, IosTakesPage PROVE TimelineInv'
<1>1. /\ TimelineTypeOK /\ NoGap /\ FetchFits /\ WebFits /\ IosFits /\ AsideFits
      /\ CountsFit /\ Within(view) /\ known \subseteq Nat /\ view \in Lists
      /\ kind \in {"web", "ios"} /\ after \in Nat /\ before \in Nat /\ last \in Nat
      /\ older \in BOOLEAN
  BY InvFacts DEF TimelineTypeOK
<1>2. /\ last' = last /\ removed' = removed /\ replies' = replies /\ kind' = kind
      /\ loaded' = TRUE /\ again' = again /\ aside' = aside
      /\ kind = "ios" /\ fetch.at \in {"list", "older"} /\ fetch.answer # NoPage
      /\ fetch # NoFetch /\ fetch \in Fetches
  BY InvFacts DEF IosTakesPage, NoFetch, roomVars
<1>3. PICK f \in Fetches, page \in {fetch.answer} : f = fetch /\ page = f.answer
  BY <1>2
<1>4. /\ known' = known \cup HiddenIn(page.rows)
      /\ view' = Merge(view, Shown(page.rows, known'))
      /\ f.at = "list" /\ f.next # 0 => before' = before /\ older' = older
      /\ ~(f.at = "list" /\ f.next # 0) => before' = page.first /\ older' = page.more
      /\ after' = IF f.at = "list" /\ page.last # 0 THEN page.last ELSE after
      /\ \/ /\ f.at = "list" /\ f.next # 0 /\ page.more
            /\ fetch' = [Ask(f, "list") EXCEPT !.next = page.last, !.n = f.n + 1]
         \/ fetch' = [Ask(f, "visible") EXCEPT !.got = view']
  BY <1>3 DEF IosTakesPage, Ask
<1>5. /\ page \in Pages /\ page.rows \in Lists
      /\ f.at = "list" /\ f.next = 0 => IsNewest(page)
      /\ f.at = "list" /\ f.next # 0 => IsAfter(page, f.next)
      /\ f.at = "older" => IsBefore(page, f.next)
      /\ f.at \in {"list", "older"}
  BY <1>1, <1>2, <1>3 DEF FetchFits, AnswerFits, IsNewest, IsAfter, IsBefore, Pages
<1>6. /\ page.last \in Nat /\ page.first \in Nat /\ page.more \in BOOLEAN
      /\ f.n + 1 \in Nat /\ f.next \in Nat
  BY <1>5, FetchFacts DEF Pages
<1>7. PICK V, P : V = view' /\ P = Shown(page.rows, known')
  OBVIOUS
<1>8. /\ P \in Lists /\ DOMAIN P = DOMAIN page.rows /\ Within(P)
  BY <1>1, <1>2, <1>3, <1>5, <1>7, ShownFacts, ShownCounts DEF CountsFit
<1>9. /\ V \in Lists /\ DOMAIN V = DOMAIN view \cup DOMAIN page.rows /\ Within(V)
  <2>1. V = Merge(view, P)
    BY <1>4, <1>7
  <2> QED
    BY <1>1, <1>8, <2>1, MergeDomain, MergeCounts
<1>10. PICK g : g = fetch'
  OBVIOUS
<1>11. /\ g \in Fetches /\ g # NoFetch /\ g.answer = NoPage /\ g.held = f.held /\ g.gone = f.gone
       /\ g.at \in {"list", "visible"}
       /\ g.at = "list" => f.at = "list" /\ f.next # 0 /\ page.more /\ g.next = page.last
  <2>1. CASE /\ f.at = "list" /\ f.next # 0 /\ page.more
             /\ fetch' = [Ask(f, "list") EXCEPT !.next = page.last, !.n = f.n + 1]
    <3>1. /\ g \in Fetches /\ g.answer = NoPage /\ g.held = f.held /\ g.gone = f.gone
          /\ g.at = "list" /\ g.next = page.last
      BY <1>6, <1>10, <2>1 DEF Ask, Fetches
    <3> QED
      BY <2>1, <3>1, FetchFacts
  <2>2. CASE fetch' = [Ask(f, "visible") EXCEPT !.got = view']
    <3>1. /\ g \in Fetches /\ g.answer = NoPage /\ g.held = f.held /\ g.gone = f.gone
          /\ g.at = "visible"
      BY <1>7, <1>9, <1>10, <2>2 DEF Ask, Fetches
    <3> QED
      BY <3>1, FetchFacts
  <2> QED
    BY <1>4, <2>1, <2>2
<1>12. /\ f.at = "list" => f.next = after
       /\ f.at = "older" => f.next = before /\ before # 0
  BY <1>1, <1>2, <1>3 DEF IosFits
<1>13. TimelineTypeOK'
  BY <1>1, <1>4, <1>5, HiddenFacts, <1>6, <1>2, <1>7, <1>9, <1>10, <1>11 DEF TimelineTypeOK
<1>14. NoGap'
  <2>1. CASE f.at = "list" /\ f.next = 0
    BY <1>4, <1>12, <2>1, <1>5, <1>7, <1>9 DEF IsNewest, NoGap
  <2>2. CASE f.at = "list" /\ f.next # 0
    <3>1. page.last # 0 => after + 1 .. page.last \subseteq DOMAIN page.rows
      BY <1>5, <1>12, <2>2 DEF IsAfter
    <3>2. /\ after # 0 /\ before' = before /\ older' = older
          /\ after' = IF page.last # 0 THEN page.last ELSE after
          /\ before # 0 => before .. after \subseteq DOMAIN view
          /\ ~older => 1 .. after \subseteq DOMAIN view
      BY <1>1, <1>4, <1>12, <2>2 DEF NoGap
    <3>3. before # 0 => before .. after' \subseteq DOMAIN V
      BY <1>1, <1>6, <1>9, <3>1, <3>2
    <3>4. ~older => 1 .. after' \subseteq DOMAIN V
      BY <1>1, <1>6, <1>9, <3>1, <3>2
    <3> QED
      BY <1>7, <3>2, <3>3, <3>4 DEF NoGap
  <2>3. CASE f.at = "older"
    <3>1. /\ page.first # 0 => page.first .. before - 1 \subseteq DOMAIN page.rows
          /\ ~page.more => 1 .. before - 1 \subseteq DOMAIN page.rows
      BY <1>5, <1>12, <2>3 DEF IsBefore
    <3>2. /\ before # 0 /\ after' = after /\ before' = page.first /\ older' = page.more
          /\ after # 0 => before .. after \subseteq DOMAIN view
      BY <1>1, <1>4, <1>12, <2>3 DEF NoGap
    <3>3. after # 0 /\ page.first # 0 => page.first .. after \subseteq DOMAIN V
      BY <1>1, <1>6, <1>9, <3>1, <3>2
    <3>4. after # 0 /\ ~page.more => 1 .. after \subseteq DOMAIN V
      BY <1>1, <1>6, <1>9, <3>1, <3>2
    <3> QED
      BY <1>7, <3>2, <3>3, <3>4 DEF NoGap
  <2> QED
    BY <1>5, <2>1, <2>2, <2>3
<1>15. FetchFits'
  BY <1>1, <1>2, <1>3, <1>7, <1>9, <1>10, <1>11 DEF FetchFits
<1>16. WebFits'
  BY <1>2 DEF WebFits
<1>17. IosFits'
  <2>1. g.at = "list" => g.next = after'
    <3>1. SUFFICES ASSUME g.at = "list" PROVE g.next = after'
      OBVIOUS
    <3>2. f.at = "list" /\ f.next # 0 /\ page.more /\ g.next = page.last
      BY <1>11, <3>1
    <3>3. page.last # 0
      BY <1>5, <3>2 DEF IsAfter
    <3> QED
      BY <1>4, <3>2, <3>3
  <2> QED
    BY <1>10, <1>11, <2>1 DEF IosFits
<1>18. AsideFits'
  BY <1>1, <1>2 DEF AsideFits, Within, Cap
<1>19. CountsFit'
  BY <1>2, <1>7, <1>9, <1>10, <1>11 DEF Within, Cap, CountsFit
<1> QED
  BY <1>13, <1>14, <1>15, <1>16, <1>17, <1>18, <1>19 DEF TimelineInv

\* iOS ends a load.
LEMMA IosFinishesKeeps == ASSUME TimelineInv, IosFinishes PROVE TimelineInv'
<1>1. /\ TimelineTypeOK /\ FetchFits /\ view \in Lists /\ Within(view) /\ known \subseteq Nat
  BY InvFacts DEF TimelineTypeOK
<1>2. fetch # NoFetch /\ fetch.at = "visible" /\ fetch.answer # NoPage
  BY DEF IosFinishes, NoFetch
<1>3. fetch.answer.ids \subseteq Nat
  BY <1>1, <1>2 DEF FetchFits, AnswerFits, Removals
<1>4. /\ known' \subseteq Nat /\ kind = "ios" /\ again' \in BOOLEAN
      /\ view' = Shown(view, known')
      /\ UNCHANGED <<roomVars, kind, loaded, cursorVars, aside>>
  BY <1>1, <1>3 DEF IosFinishes
<1>5. PICK k : k = known'
  OBVIOUS
<1>6. view' = Shown(view, k) /\ Shown(view, k) \in Lists /\ DOMAIN Shown(view, k) = DOMAIN view
  BY <1>1, <1>4, <1>5, ShownFacts
<1>7. Within(Shown(view, k))
  BY <1>1, ShownCounts
<1>8. Within(view)'
  BY <1>4, <1>6, <1>7 DEF Within, Cap, roomVars
<1>9. Begins
  BY DEF IosFinishes, AfterLoad, Begins, NoRequest
<1> QED
  BY <1>4, <1>6, <1>8, <1>9, BeginsKeeps

\* A page beside the refresh is asked for, and refused.
LEMMA AsksAsideKeep ==
  ASSUME TimelineInv, AskAside \/ AsideFails
  PROVE  TimelineInv'
<1>1. /\ TimelineTypeOK /\ NoGap /\ FetchFits /\ WebFits /\ IosFits /\ AsideFits
      /\ CountsFit /\ Within(view) /\ before \in Nat
  BY InvFacts
<1>2. /\ last' = last /\ removed' = removed /\ replies' = replies /\ kind' = kind
      /\ loaded' = loaded /\ view' = view /\ known' = known /\ before' = before
      /\ after' = after /\ older' = older /\ again' = again /\ fetch' = fetch
  BY DEF AskAside, AsideFails, roomVars, cursorVars
<1>3. \/ aside' = NoPage
      \/ /\ loaded /\ kind = "web" /\ older /\ before # 0 /\ aside' = PageBefore(before)
      \/ /\ loaded /\ kind = "ios" /\ aside' = NewestPage
  BY DEF AskAside, AsideFails
<1>4. PICK a : a = aside'
  OBVIOUS
<1>5. /\ a \in {NoPage} \cup Pages
      /\ a # NoPage => loaded /\ Within(a.rows)
      /\ kind = "web" /\ a # NoPage => older /\ before # 0 /\ IsBefore(a, before)
  BY <1>1, BeforeFacts, NewestFacts, <1>3, <1>4
<1>6. TimelineTypeOK'
  BY <1>1, <1>2, <1>4, <1>5 DEF TimelineTypeOK
<1>7. NoGap'
  BY <1>1, <1>2 DEF NoGap
<1>8. AsideFits'
  <2>1. a # NoPage => loaded /\ Within(a.rows)'
    BY <1>2, <1>5 DEF Within, Cap
  <2>2. kind = "web" /\ a # NoPage => before # 0 /\ IsBefore(a, before)'
    BY <1>2, <1>5 DEF IsBefore
  <2>3. kind = "web" /\ (older \/ a # NoPage) =>
          after # 0 /\ last > Page /\ (fetch # NoFetch => ReadsNoRoot)
    BY <1>1, <1>5 DEF AsideFits
  <2>4. ReadsNoRoot' <=> ReadsNoRoot
    BY <1>2 DEF ReadsNoRoot
  <2> QED
    BY <1>2, <1>4, <2>1, <2>2, <2>3, <2>4 DEF AsideFits
<1>9. Within(view)'
  BY <1>1, <1>2 DEF Within, Cap
<1>10. kind = "web" /\ fetch # NoFetch => WebCounts'
  BY <1>1, <1>2 DEF CountsFit, WebCounts, NoMoreThan, Within, Cap
<1>11. ~loaded /\ kind = "web" => DOMAIN view' = {}
  BY <1>1, <1>2 DEF WebFits
<1> QED
  BY <1>2, <1>6, <1>7, <1>8, <1>9, <1>10, <1>11, FetchStaysKeeps DEF roomVars

\* The page asked for beside the refresh joins what is shown.
LEMMA TakeAsideKeeps == ASSUME TimelineInv, TakeAside PROVE TimelineInv'
<1>1. /\ TimelineTypeOK /\ NoGap /\ FetchFits /\ WebFits /\ IosFits /\ AsideFits
      /\ CountsFit /\ Within(view) /\ view \in Lists /\ known \subseteq Nat
      /\ before \in Nat /\ after \in Nat /\ older \in BOOLEAN /\ kind \in {"web", "ios"}
      /\ DOMAIN view \subseteq Nat
  BY InvFacts DEF TimelineTypeOK
<1>2. /\ last' = last /\ removed' = removed /\ replies' = replies /\ kind' = kind
      /\ loaded' = loaded /\ after' = after /\ again' = again /\ fetch' = fetch
      /\ aside' = NoPage /\ aside # NoPage /\ loaded
  BY <1>1 DEF TakeAside, roomVars, AsideFits
<1>3. PICK page : page = aside
  OBVIOUS
<1>4. /\ page \in Pages /\ page.rows \in Lists /\ Within(page.rows)
      /\ page.first \in Nat /\ page.more \in BOOLEAN
      /\ kind = "web" =>
           /\ before # 0 /\ IsBefore(page, before) /\ after # 0 /\ last > Page
           /\ fetch # NoFetch => ReadsNoRoot
  BY <1>1, <1>2, <1>3 DEF AsideFits, TimelineTypeOK, Pages
<1>5. /\ known' = known \cup HiddenIn(page.rows)
      /\ kind = "web" => /\ view' = Merge(Shown(page.rows, known'), view)
                        /\ before' = page.first /\ older' = page.more
      /\ kind = "ios" => /\ view' = Merge(view, Shown(page.rows, known'))
                        /\ before' = before /\ older' = older
  BY <1>3 DEF TakeAside
<1>6. PICK V, P : V = view' /\ P = Shown(page.rows, known')
  OBVIOUS
<1>7. P \in Lists /\ DOMAIN P = DOMAIN page.rows /\ Within(P)
  BY <1>4, <1>6, ShownFacts, ShownCounts
<1>8. \/ kind = "web" /\ V = Merge(P, view)
      \/ kind = "ios" /\ V = Merge(view, P)
  BY <1>1, <1>5, <1>6
<1>9. /\ V \in Lists /\ DOMAIN V = DOMAIN view \cup DOMAIN page.rows /\ Within(V)
  <2>1. CASE V = Merge(P, view)
    BY <1>1, <1>7, <2>1, MergeDomain, MergeCounts
  <2>2. CASE V = Merge(view, P)
    BY <1>1, <1>7, <2>2, MergeDomain, MergeCounts
  <2> QED
    BY <1>8, <2>1, <2>2
<1>10. TimelineTypeOK'
  BY <1>1, <1>4, <1>5, HiddenFacts, <1>2, <1>6, <1>9 DEF TimelineTypeOK
<1>11. NoGap'
  <2>1. CASE kind = "ios"
    BY <1>1, <1>2, <1>5, <1>6, <1>9, <2>1 DEF NoGap
  <2>2. CASE kind = "web"
    <3>1. /\ page.first # 0 => page.first .. before - 1 \subseteq DOMAIN page.rows
          /\ ~page.more => 1 .. before - 1 \subseteq DOMAIN page.rows
      BY <1>4, <2>2 DEF IsBefore
    <3>2. before .. after \subseteq DOMAIN view
      BY <1>1, <1>4, <2>2 DEF NoGap
    <3>3. page.first # 0 => page.first .. after \subseteq DOMAIN V
      BY <1>1, <1>4, <1>9, <3>1, <3>2
    <3>4. ~page.more => 1 .. after \subseteq DOMAIN V
      BY <1>1, <1>9, <3>1, <3>2
    <3> QED
      BY <1>2, <1>5, <1>6, <2>2, <3>3, <3>4 DEF NoGap
  <2> QED
    BY <1>1, <2>1, <2>2
<1>12. AsideFits'
  BY <1>2, <1>4 DEF ReadsNoRoot, AsideFits
<1>13. Within(view)'
  BY <1>2, <1>6, <1>9 DEF Within, Cap
<1>14. ASSUME kind = "web", fetch # NoFetch PROVE WebCounts'
  <2>1. /\ Within(fetch.got) /\ NoMoreThan(fetch.got)
        /\ fetch.at \in {"list", "latest"} /\ fetch.answer # NoPage =>
             NoMoreThan(fetch.answer.rows) /\ Within(fetch.answer.rows)
    BY <1>1, <1>14 DEF CountsFit, WebCounts
  <2>2. \A p \in DOMAIN V : p # 1 => V[p].count = 0
    BY <1>9, ListFacts DEF Within, Cap
  <2>3. ASSUME NEW L \in Lists, 1 \notin DOMAIN L
        PROVE  \A p \in DOMAIN V \cap DOMAIN L : V[p].count <= L[p].count
    BY <2>2, <2>3, ListFacts
  <2>4. 1 \notin DOMAIN fetch.got /\ fetch.got \in Lists
    BY <1>1, <1>4, <1>14, InvFacts, FetchFacts DEF ReadsNoRoot
  <2>5. fetch.at \in {"list", "latest"} /\ fetch.answer # NoPage =>
          1 \notin DOMAIN fetch.answer.rows /\ fetch.answer.rows \in Lists
    BY <1>4, <1>14, <1>1 DEF ReadsNoRoot, AnswerFits, IsNewest, IsAfter, FetchFits, Pages
  <2>6. NoMoreThan(fetch.got)' /\ Within(fetch.got)'
    BY <1>2, <1>6, <2>1, <2>3, <2>4 DEF NoMoreThan, Within, Cap
  <2>7. fetch.at \in {"list", "latest"} /\ fetch.answer # NoPage =>
          NoMoreThan(fetch.answer.rows)' /\ Within(fetch.answer.rows)'
    BY <1>2, <1>6, <2>1, <2>3, <2>5 DEF NoMoreThan, Within, Cap
  <2> QED
    BY <1>2, <2>6, <2>7 DEF WebCounts
<1> QED
  BY <1>1, <1>2, <1>5, <1>6, <1>9, <1>10, <1>11, <1>12, <1>13, <1>14, FetchStaysKeeps
     DEF roomVars

\* After an event the web has a new refresh, or its first is still under way and it
\* shows nothing yet.
LEMMA EventKeeps ==
  ASSUME TimelineInv, view' \in Lists,
         DOMAIN view \subseteq DOMAIN view', Within(view)', known' \subseteq Nat,
         kind = "web" /\ ~loaded => DOMAIN view' = {},
         fetch' = IF kind = "web" THEN Restarted ELSE fetch,
         UNCHANGED <<roomVars, kind, loaded, cursorVars, again, aside>>
  PROVE  TimelineInv'
<1>1. /\ TimelineTypeOK /\ NoGap /\ AsideFits /\ WebFits /\ CountsFit
      /\ again \in BOOLEAN
  BY InvFacts DEF TimelineTypeOK
<1>2. /\ last' = last /\ removed' = removed /\ replies' = replies /\ kind' = kind
      /\ loaded' = loaded /\ after' = after /\ before' = before /\ older' = older
      /\ again' = again /\ aside' = aside
  BY DEF roomVars, cursorVars
<1>3. ~loaded /\ kind = "web" => DOMAIN view' = {}
  OBVIOUS
<1>4. CASE kind = "web" /\ (loaded \/ fetch = NoFetch)
  <2>1. Begins
    BY <1>4 DEF Begins, Restarted
  <2> QED
    BY <1>1, <1>3, <2>1, BeginsKeeps
<1>5. CASE ~(kind = "web" /\ (loaded \/ fetch = NoFetch))
  <2>1. fetch' = fetch /\ (kind = "web" => ~loaded)
    BY <1>5 DEF Restarted
  <2>2. TimelineTypeOK'
    BY <1>1, <1>2, <2>1 DEF TimelineTypeOK
  <2>3. NoGap'
    BY <1>1, <1>2 DEF NoGap
  <2>4. AsideFits'
    BY <1>1, <1>2, <2>1 DEF AsideFits, ReadsNoRoot, IsBefore, Within, Cap
  <2>5. ASSUME kind = "web", fetch # NoFetch PROVE WebCounts'
    BY <1>3, <2>1, <2>5, <1>1, <1>2 DEF CountsFit, WebCounts, NoMoreThan, Within, Cap
  <2> QED
    BY <1>2, <1>3, <2>1, <2>2, <2>3, <2>4, <2>5, FetchStaysKeeps
<1> QED
  BY <1>4, <1>5

LEMMA RemovalArrivesKeeps ==
  ASSUME TimelineInv, NEW p \in Nat, RemovalArrives(p) PROVE TimelineInv'
<1>1. /\ TimelineTypeOK /\ WebFits /\ view \in Lists /\ Within(view) /\ known \subseteq Nat
  BY InvFacts DEF TimelineTypeOK
<1>2. /\ view' = Shown(view, {p}) /\ known' = known \cup {p}
      /\ fetch' = (IF kind = "web" THEN Restarted ELSE fetch)
      /\ UNCHANGED <<roomVars, kind, loaded, cursorVars, again, aside>>
  BY DEF RemovalArrives
<1>3. /\ Shown(view, {p}) \in Lists /\ DOMAIN Shown(view, {p}) = DOMAIN view
      /\ Within(Shown(view, {p}))
  BY <1>1, ShownFacts, ShownCounts
<1>4. Within(view)'
  BY <1>2, <1>3 DEF Within, Cap, roomVars
<1>5. kind = "web" /\ ~loaded => DOMAIN view' = {}
  BY <1>1, <1>2, <1>3 DEF WebFits
<1> QED
  BY <1>1, <1>2, <1>3, <1>4, <1>5, EventKeeps

LEMMA ReplyArrivesKeeps ==
  ASSUME TimelineInv, NEW n \in Nat, ReplyArrives(n)
  PROVE  /\ TimelineInv'
         /\ \A p \in DOMAIN view :
              /\ p \in DOMAIN view' /\ view'[p].open = view[p].open
              /\ view[p].count <= view'[p].count
<1>1. /\ TimelineTypeOK /\ WebFits /\ view \in Lists /\ Within(view) /\ known \subseteq Nat
      /\ replies \in Nat
  BY InvFacts DEF TimelineTypeOK
<1>2. /\ view' = (IF 1 \in DOMAIN view THEN [view EXCEPT ![1].count = Greater(@, n)] ELSE view)
      /\ known' = known /\ n <= replies
      /\ fetch' = (IF kind = "web" THEN Restarted ELSE fetch)
      /\ UNCHANGED <<roomVars, kind, loaded, cursorVars, again, aside>>
  BY DEF ReplyArrives
<1>3. PICK V : V = view'
  OBVIOUS
<1>4. /\ V \in Lists /\ DOMAIN V = DOMAIN view /\ Within(V)
      /\ \A p \in DOMAIN view : V[p].open = view[p].open /\ view[p].count <= V[p].count
  <2>1. /\ DOMAIN view \subseteq Nat
        /\ \A p \in DOMAIN view : view[p] \in Rows /\ view[p].count \in Nat
    BY <1>1, ListFacts
  <2>2. CASE 1 \notin DOMAIN view
    BY <1>1, <1>2, <1>3, <2>1, <2>2
  <2>3. CASE 1 \in DOMAIN view
    <3>1. PICK c : c = Greater(view[1].count, n)
      OBVIOUS
    <3>2. c \in Nat /\ view[1].count <= c /\ c <= replies
      BY <1>1, <2>3, <1>2, <2>1, <3>1 DEF Within, Cap, Greater
    <3>3. V = [view EXCEPT ![1] = [view[1] EXCEPT !.count = c]]
      BY <1>2, <1>3, <2>3, <3>1
    <3>4. PICK r : r = [view[1] EXCEPT !.count = c]
      OBVIOUS
    <3>5. r \in Rows /\ r.count = c /\ r.open = view[1].open
      BY <2>1, <2>3, <3>2, <3>4 DEF Rows
    <3>6. /\ DOMAIN V = DOMAIN view /\ V[1] = r
          /\ \A p \in DOMAIN view : p # 1 => V[p] = view[p]
      BY <2>3, <3>3, <3>4
    <3>7. \A p \in DOMAIN view : V[p] \in Rows
      BY <2>1, <3>5, <3>6
    <3>8. PICK S \in SUBSET Nat : view \in [S -> Rows]
      BY <1>1 DEF Lists
    <3>9. V \in [S -> Rows]
      BY <3>3, <3>4, <3>5, <3>8
    <3>10. V \in Lists
      BY <3>9 DEF Lists
    <3>11. ASSUME NEW p \in DOMAIN view
           PROVE  /\ V[p].count <= Cap(p) /\ V[p].open = view[p].open
                  /\ view[p].count <= V[p].count
      BY <3>2, <3>5, <3>6, <1>1, <2>1 DEF Cap, Within
    <3> QED
      BY <3>6, <3>10, <3>11 DEF Within
  <2> QED
    BY <2>2, <2>3
<1>5. Within(view)'
  BY <1>2, <1>3, <1>4 DEF Within, Cap, roomVars
<1>6. kind = "web" /\ ~loaded => DOMAIN view' = {}
  BY <1>1, <1>3, <1>4 DEF WebFits
<1>7. view' \in Lists /\ DOMAIN view \subseteq DOMAIN view'
  BY <1>3, <1>4
<1>8. TimelineInv'
  BY <1>1, <1>2, <1>5, <1>6, <1>7, EventKeeps
<1> QED
  BY <1>3, <1>4, <1>8

LEMMA SentMessageArrivesKeeps ==
  ASSUME TimelineInv, NEW p \in Nat, NEW sent, SentMessageArrives(p, sent)
  PROVE  /\ TimelineInv'
         /\ \A q \in DOMAIN view :
              q \in DOMAIN view' /\ (~view[q].open => ~view'[q].open)
         /\ fetch'.at = "list" /\ fetch'.n = 0
<1>1. /\ TimelineTypeOK /\ view \in Lists /\ Within(view) /\ known \subseteq Nat
      /\ replies \in Nat /\ after \in Nat
  BY InvFacts DEF TimelineTypeOK
<1>2. /\ view' = Merge(view, [q \in {p} |-> sent]) /\ known' = known
      /\ fetch' = Restarted /\ kind = "web" /\ loaded
      /\ sent \in [open : {p \notin removed, TRUE}, count : 0 .. Row(p).count]
      /\ UNCHANGED <<roomVars, kind, loaded, cursorVars, again, aside>>
  BY DEF SentMessageArrives
<1>3. Row(p).count = Cap(p) /\ Cap(p) \in Nat
  BY <1>1 DEF Row, Cap
<1>4. sent \in Rows /\ sent.count <= Cap(p)
  <2>1. PICK o \in BOOLEAN, c \in Nat : o = (p \notin removed) /\ c = Cap(p)
    BY <1>3
  <2>2. sent \in [open : {o, TRUE}, count : 0 .. c]
    BY <1>2, <1>3, <2>1
  <2>3. sent.open \in BOOLEAN /\ sent.count \in 0 .. c
    BY <2>2
  <2>4. sent = [open |-> sent.open, count |-> sent.count]
    BY <2>2
  <2> QED
    BY <2>1, <2>3, <2>4 DEF Rows
<1>5. PICK N : N = [q \in {p} |-> sent]
  OBVIOUS
<1>6. N \in Lists /\ Within(N)
  BY <1>4, <1>5 DEF Lists, Within
<1>7. PICK V : V = Merge(view, N)
  OBVIOUS
<1>8. V = view'
  BY <1>2, <1>5, <1>7
<1>9. V \in Lists /\ DOMAIN V = DOMAIN view \cup DOMAIN N /\ Within(V)
  BY <1>1, <1>6, <1>7, MergeDomain, MergeCounts
<1>10. Within(view)'
  BY <1>2, <1>8, <1>9 DEF Within, Cap, roomVars
<1>11. TimelineInv'
  BY <1>1, <1>2, <1>8, <1>9, <1>10, EventKeeps
<1>12. ASSUME NEW q \in DOMAIN view PROVE q \in DOMAIN V /\ (~view[q].open => ~V[q].open)
  <2>1. CASE q \in DOMAIN N
    BY <1>1, <1>6, <1>7, <2>1, MergedBoth
  <2>2. CASE q \notin DOMAIN N
    BY <1>1, <1>6, <1>7, <2>2, MergedOld
  <2> QED
    BY <2>1, <2>2
<1>13. fetch'.at = "list" /\ fetch'.n = 0
  BY <1>2, <1>1, NewFetchFacts DEF Restarted
<1> QED
  BY <1>8, <1>11, <1>12, <1>13

-------------------------------------------------------------------------------
(* What a step may not do *)

\* What another list keeps of the one that is shown.
StillHidden(L) == \A p \in DOMAIN view : p \in DOMAIN L /\ (~view[p].open => ~L[p].open)
NoFewer(L) == \A p \in DOMAIN view : view[p].count <= L[p].count

LEMMA ShownKeeps ==
  ASSUME view \in Lists, NEW gone
  PROVE  StillHidden(Shown(view, gone)) /\ NoFewer(Shown(view, gone))
<1>1. \A p \in DOMAIN view : view[p].count \in Nat
  BY ListFacts
<1> QED
  <2>1. ASSUME NEW p \in DOMAIN view
        PROVE  /\ p \in DOMAIN Shown(view, gone) /\ (~view[p].open => ~Shown(view, gone)[p].open)
               /\ view[p].count <= Shown(view, gone)[p].count
    <3>1. /\ p \in DOMAIN Shown(view, gone) /\ Shown(view, gone)[p].count = view[p].count
          /\ Shown(view, gone)[p].open = (view[p].open /\ p \notin gone)
      BY ShownOne
    <3>2. ~view[p].open => ~Shown(view, gone)[p].open
      BY <3>1
    <3>3. view[p].count <= Shown(view, gone)[p].count
      BY <1>1, <3>1
    <3> QED
      BY <3>1, <3>2, <3>3
  <2> QED
    BY <2>1 DEF StillHidden, NoFewer

\* A newer list on what is shown: iOS takes the greater counts, the web those of a
\* list that has no fewer.
LEMMA NewerKeeps ==
  ASSUME NEW L \in Lists, NEW N \in Lists, view \in Lists, kind \in {"web", "ios"},
         StillHidden(L), NoFewer(L), kind = "ios" \/ NoMoreThan(N)
  PROVE  StillHidden(Merge(L, N)) /\ NoFewer(Merge(L, N))
<1> SUFFICES ASSUME NEW p \in DOMAIN view
             PROVE  /\ p \in DOMAIN Merge(L, N) /\ (~view[p].open => ~Merge(L, N)[p].open)
                    /\ view[p].count <= Merge(L, N)[p].count
  BY DEF StillHidden, NoFewer
<1>1. /\ p \in DOMAIN L /\ (~view[p].open => ~L[p].open) /\ view[p].count <= L[p].count
      /\ view[p].count \in Nat /\ L[p].count \in Nat
  BY ListFacts DEF StillHidden, NoFewer
<1>2. CASE p \notin DOMAIN N
  BY <1>1, <1>2, MergedOld
<1>3. CASE p \in DOMAIN N
  BY <1>1, <1>3, MergedBoth, ListFacts DEF Count, Greater, NoMoreThan
<1> QED
  BY <1>2, <1>3

\* On the web what is shown wins over a page read beside the refresh.
LEMMA OlderKeeps ==
  ASSUME NEW N \in Lists, view \in Lists, kind = "web"
  PROVE  StillHidden(Merge(N, view)) /\ NoFewer(Merge(N, view))
<1> SUFFICES ASSUME NEW p \in DOMAIN view
             PROVE  /\ p \in DOMAIN Merge(N, view) /\ (~view[p].open => ~Merge(N, view)[p].open)
                    /\ view[p].count <= Merge(N, view)[p].count
  BY DEF StillHidden, NoFewer
<1>1. view[p].count \in Nat
  BY ListFacts
<1>2. CASE p \notin DOMAIN N
  <2>1. p \in DOMAIN Merge(N, view) /\ Merge(N, view)[p] = view[p]
    BY <1>2, MergeFacts
  <2>2. view[p].count <= Merge(N, view)[p].count
    BY <1>1, <2>1
  <2> QED
    BY <2>1, <2>2
<1>3. CASE p \in DOMAIN N
  <2>1. /\ p \in DOMAIN Merge(N, view)
        /\ Merge(N, view)[p].open = (N[p].open /\ view[p].open)
        /\ Merge(N, view)[p].count = Count(N[p].count, view[p].count)
    BY <1>3, MergedBoth
  <2>2. ~view[p].open => ~Merge(N, view)[p].open
    BY <2>1
  <2>3. view[p].count <= Merge(N, view)[p].count
    BY <1>1, <2>1 DEF Count
  <2> QED
    BY <2>1, <2>2, <2>3
<1> QED
  BY <1>2, <1>3

\* No step shows a removed message again; none but the answer to a message of the
\* client's own takes a count back, and it begins a refresh.
LEMMA ViewSteps ==
  ASSUME TimelineInv, TimelineNext
  PROVE  StaysRemoved /\ CountsGrow
<1>1. /\ TimelineTypeOK /\ view \in Lists /\ kind \in {"web", "ios"} /\ FetchFits /\ CountsFit
      /\ AsideFits /\ LastReply \in Nat /\ last \in Nat
      /\ \A p \in DOMAIN view : view[p].count \in Nat
      /\ fetch # NoFetch => fetch \in Fetches
      /\ aside # NoPage => aside.rows \in Lists
  BY InvFacts, ListFacts, TimelineAssumption DEF TimelineTypeOK
<1>2. StillHidden(view) /\ NoFewer(view)
  BY <1>1 DEF StillHidden, NoFewer
<1>3. ASSUME NEW L \in Lists, view' = L, StillHidden(L), NoFewer(L)
      PROVE  StaysRemoved /\ CountsGrow
  BY <1>1, <1>3, ListFacts DEF StillHidden, NoFewer, StaysRemoved, CountsGrow
<1>4. CASE UNCHANGED view
  BY <1>1, <1>2, <1>3, <1>4
<1>5. CASE FinishFetch
  <2>1. PICK k, L, N : k = known' /\ L = Shown(view, k) /\ N = Shown(fetch.got, k)
    OBVIOUS
  <2>2. view' = Merge(L, N) /\ kind = "web" /\ fetch # NoFetch
    BY <1>5, <2>1 DEF FinishFetch, NoFetch
  <2>3. fetch.got \in Lists /\ NoMoreThan(fetch.got)
    BY <1>1, <2>2, FetchFacts DEF CountsFit, WebCounts
  <2>4. N \in Lists /\ NoMoreThan(N)
    BY <2>1, <2>3, ShownFacts, NoMoreShown
  <2>5. L \in Lists /\ StillHidden(L) /\ NoFewer(L)
    BY <1>1, <2>1, ShownFacts, ShownKeeps
  <2>6. Merge(L, N) \in Lists /\ StillHidden(Merge(L, N)) /\ NoFewer(Merge(L, N))
    BY <1>1, <2>4, <2>5, MergeDomain, NewerKeeps
  <2> QED
    BY <1>3, <2>2, <2>6
<1>6. CASE IosTakesPage
  <2>1. PICK N : N = Shown(fetch.answer.rows, known')
    OBVIOUS
  <2>2. /\ view' = Merge(view, N) /\ kind = "ios" /\ fetch # NoFetch
        /\ fetch.at \in {"list", "older"} /\ fetch.answer # NoPage
    BY <1>6, <2>1 DEF IosTakesPage, NoFetch
  <2>3. fetch.answer.rows \in Lists
    BY <1>1, <2>2 DEF FetchFits, AnswerFits, IsNewest, IsAfter, IsBefore, Pages
  <2>4. N \in Lists
    BY <2>1, <2>3, ShownFacts
  <2>5. Merge(view, N) \in Lists /\ StillHidden(Merge(view, N)) /\ NoFewer(Merge(view, N))
    BY <1>1, <1>2, <2>2, <2>4, MergeDomain, NewerKeeps
  <2> QED
    BY <1>3, <2>2, <2>5
<1>7. CASE IosFinishes
  <2>1. PICK L : L = Shown(view, known')
    OBVIOUS
  <2>2. view' = L
    BY <1>7, <2>1 DEF IosFinishes
  <2>3. L \in Lists /\ StillHidden(L) /\ NoFewer(L)
    BY <1>1, <2>1, ShownFacts, ShownKeeps
  <2> QED
    BY <1>3, <2>2, <2>3
<1>8. CASE TakeAside
  <2>1. PICK N : N = Shown(aside.rows, known')
    OBVIOUS
  <2>2. aside # NoPage /\ N \in Lists
    BY <1>1, <1>8, <2>1, ShownFacts DEF TakeAside
  <2>3. CASE kind = "web"
    BY <1>8, <2>1, <2>3, <1>1, <2>2, MergeDomain, OlderKeeps, <1>3 DEF TakeAside
  <2>4. CASE kind = "ios"
    BY <1>8, <2>1, <2>4, <1>1, <1>2, <2>2, MergeDomain, NewerKeeps, <1>3 DEF TakeAside
  <2> QED
    BY <1>1, <2>3, <2>4
<1>9. ASSUME NEW p \in 1 .. last, RemovalArrives(p) PROVE StaysRemoved /\ CountsGrow
  <2>1. PICK L : L = Shown(view, {p})
    OBVIOUS
  <2>2. view' = L
    BY <1>9, <2>1 DEF RemovalArrives
  <2>3. L \in Lists /\ StillHidden(L) /\ NoFewer(L)
    BY <1>1, <2>1, ShownFacts, ShownKeeps
  <2> QED
    BY <1>3, <2>2, <2>3
<1>10. ASSUME NEW p \in 1 .. last, NEW sent, SentMessageArrives(p, sent)
       PROVE  StaysRemoved /\ CountsGrow
  BY <1>1, <1>10, SentMessageArrivesKeeps DEF StaysRemoved, CountsGrow
<1>11. ASSUME NEW n \in 1 .. LastReply, ReplyArrives(n) PROVE StaysRemoved /\ CountsGrow
  <2>1. n \in Nat
    BY <1>1
  <2>2. /\ TimelineInv' /\ \A p \in DOMAIN view :
             /\ p \in DOMAIN view' /\ view'[p].open = view[p].open
             /\ view[p].count <= view'[p].count
    BY <1>11, <2>1, ReplyArrivesKeeps
  <2>3. PICK L \in Lists : L = view'
    BY <2>2 DEF TimelineInv, TimelineTypeOK
  <2>4. StillHidden(L) /\ NoFewer(L)
    BY <2>2, <2>3 DEF StillHidden, NoFewer
  <2> QED
    BY <1>3, <2>3, <2>4
<1>12. \/ UNCHANGED view
       \/ FinishFetch \/ IosTakesPage \/ IosFinishes \/ TakeAside
       \/ \E p \in 1 .. last : RemovalArrives(p) \/ \E sent : SentMessageArrives(p, sent)
       \/ \E n \in 1 .. LastReply : ReplyArrives(n)
  BY DEF TimelineNext, PostMessage, PostReply, StartFetch, Refresh, LoadOlder, AnswerFetch,
     WebTakesPage, FetchFails, AskAside, AsideFails, RemoveMessage
<1> QED
  BY <1>4, <1>5, <1>6, <1>7, <1>8, <1>9, <1>10, <1>11, <1>12

\* The check at the end of a refresh, or of an iOS load, is of all that was shown when
\* it began.
LEMMA RefreshHidesStep ==
  ASSUME TimelineInv
  PROVE  RefreshHides
<1> SUFFICES ASSUME FinishFetch \/ IosFinishes, NEW p \in fetch.held \cap fetch.gone
             PROVE  ~view'[p].open
  BY DEF RefreshHides
<1>1. /\ view \in Lists /\ FetchFits
      /\ fetch # NoFetch /\ fetch.at = "visible" /\ fetch.answer # NoPage
      /\ fetch \in Fetches
  BY InvFacts DEF TimelineTypeOK, FinishFetch, IosFinishes, NoFetch
<1>2. p \in fetch.answer.ids /\ p \in DOMAIN view
  BY <1>1 DEF FetchFits, AnswerFits
<1>3. PICK k, L, N : k = known' /\ L = Shown(view, k) /\ N = Shown(fetch.got, k)
  OBVIOUS
<1>4. p \in k
  BY <1>2, <1>3 DEF FinishFetch, IosFinishes
<1>5. L \in Lists /\ p \in DOMAIN L /\ ~L[p].open
  BY <1>1, <1>2, <1>3, <1>4, ShownFacts
<1>6. CASE IosFinishes
  BY <1>3, <1>6, <1>5 DEF IosFinishes
<1>7. CASE FinishFetch
  <2>1. view' = Merge(L, N)
    BY <1>3, <1>7 DEF FinishFetch
  <2>2. N \in Lists
    BY <1>1, <1>3, FetchFacts, ShownFacts
  <2>3. CASE p \in DOMAIN N
    BY <1>5, <2>1, <2>2, <2>3, MergedBoth
  <2>4. CASE p \notin DOMAIN N
    BY <1>5, <2>1, <2>2, <2>4, MergedOld
  <2> QED
    BY <2>3, <2>4
<1> QED
  BY <1>6, <1>7

-------------------------------------------------------------------------------
(* The messages a client shows: theorems *)

LEMMA TimelineInitOK == TimelineInit => TimelineInv
<1> SUFFICES ASSUME TimelineInit PROVE TimelineInv
  OBVIOUS
<1>1. NoRows \in Lists /\ DOMAIN NoRows = {}
  BY EmptyList
<1>2. /\ view = NoRows /\ fetch = NoFetch /\ aside = NoPage /\ after = 0 /\ before = 0
      /\ older = FALSE /\ known = {} /\ last = 0 /\ removed = {} /\ replies = 0
      /\ kind \in {"web", "ios"} /\ loaded = FALSE /\ again = FALSE
  BY DEF TimelineInit
<1>3. TimelineTypeOK
  BY <1>1, <1>2 DEF TimelineTypeOK
<1> QED
  BY <1>1, <1>2, <1>3 DEF TimelineInv, NoGap, FetchFits, WebFits, IosFits, AsideFits,
     CountsFit, Within

LEMMA TimelineKeeps == TimelineInv /\ [TimelineNext]_timelineVars => TimelineInv'
<1> SUFFICES ASSUME TimelineInv, [TimelineNext]_timelineVars PROVE TimelineInv'
  OBVIOUS
<1>1. /\ last \in Nat /\ removed \subseteq Nat /\ replies \in Nat /\ LastReply \in Nat
  BY InvFacts, TimelineAssumption DEF TimelineTypeOK
<1>2. CASE PostMessage \/ PostReply
  <2>1. /\ last' \in Nat /\ last' >= last /\ removed' = removed
        /\ replies' \in Nat /\ replies' >= replies
        /\ UNCHANGED <<kind, loaded, view, known, cursorVars, fetch, again, aside>>
    BY <1>1, <1>2 DEF PostMessage, PostReply
  <2> QED
    BY <1>1, <2>1, RoomGrowsKeeps
<1>3. ASSUME NEW p \in 1 .. last, RemoveMessage(p) PROVE TimelineInv'
  BY <1>3, <1>1, RoomGrowsKeeps DEF RemoveMessage
<1>4. CASE StartFetch \/ Refresh \/ LoadOlder \/ FetchFails
  BY <1>4, RefreshesKeep
<1>5. CASE AnswerFetch \/ WebTakesPage \/ FinishFetch \/ IosTakesPage \/ IosFinishes
  BY <1>5, AnswerFetchKeeps, WebTakesPageKeeps, FinishFetchKeeps, IosTakesPageKeeps,
     IosFinishesKeeps
<1>6. CASE AskAside \/ TakeAside \/ AsideFails
  BY <1>6, AsksAsideKeep, TakeAsideKeeps
<1>7. ASSUME NEW p \in 1 .. last, RemovalArrives(p) PROVE TimelineInv'
  BY <1>1, <1>7, RemovalArrivesKeeps
<1>8. ASSUME NEW p \in 1 .. last, NEW sent, SentMessageArrives(p, sent) PROVE TimelineInv'
  BY <1>1, <1>8, SentMessageArrivesKeeps
<1>9. ASSUME NEW n \in 1 .. LastReply, ReplyArrives(n) PROVE TimelineInv'
  BY <1>1, <1>9, ReplyArrivesKeeps
<1>10. CASE UNCHANGED timelineVars
  BY <1>10, <1>1, RoomGrowsKeeps DEF timelineVars, roomVars
<1> QED
  BY <1>2, <1>3, <1>4, <1>5, <1>6, <1>7, <1>8, <1>9, <1>10 DEF TimelineNext

\* The inductive invariant: what a client shows, what it has read and what was answered
\* fit its cursors and the messages there are (message-service.ts, roomMessages.ts,
\* RoomMessagesViewModel.swift).
THEOREM TimelineInvHoldsAlways == TimelineSpec => []TimelineInv
<1>1. TimelineInit => TimelineInv
  BY TimelineInitOK
<1>2. TimelineInv /\ [TimelineNext]_timelineVars => TimelineInv'
  BY TimelineKeeps
<1> QED
  BY <1>1, <1>2, PTL DEF TimelineSpec

\* In every state a step leads to no message is skipped, and no step shows a removed one
\* again, takes a reply count back or ends a refresh that hides too little
\* (RoomConversation.tsx, RoomMessagesViewModel.swift).
THEOREM TimelineIsSafe == TimelineSpec => TimelineHolds
<1>1. TimelineInv /\ TimelineInv' /\ [TimelineNext]_timelineVars =>
        [NoGap' /\ StaysRemoved /\ CountsGrow /\ RefreshHides]_timelineVars
  BY ViewSteps, RefreshHidesStep DEF TimelineInv
<1> QED
  BY <1>1, TimelineInvHoldsAlways, PTL DEF TimelineSpec, TimelineHolds

-------------------------------------------------------------------------------
(* Rooms: the theorem *)

\* However messages are typed, retried, posted, paged, removed and replied to:
\* a room has each text once and a client shows the room without a gap
\* (RoomConversation.tsx, RoomMessagesViewModel.swift, message-service.ts).
THEOREM RoomsAreSafe == RoomSpec => RoomHolds
  BY TimelineIsSafe, ComposerIsSafe DEF RoomSpec, RoomHolds
===============================================================================
