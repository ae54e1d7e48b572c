----------------------------- MODULE EventSyncProofs -----------------------------
(***************************************************************************)
(* Proofs about EventSync for any log, batch limit and bounds.             *)
(***************************************************************************)
EXTENDS EventSync, TLAPS, SequenceTheorems

-------------------------------------------------------------------------------
(* Sequences. *)

\* A sequence whose elements are in a smaller set is one over that set.
LEMMA SeqNarrows ==
  ASSUME NEW S, NEW T, NEW s \in Seq(S), \A i \in 1..Len(s) : s[i] \in T
  PROVE  s \in Seq(T)
<1>1. /\ Len(s) \in Nat /\ s \in [1..Len(s) -> S]
  BY LenProperties
<1>2. s \in [1..Len(s) -> T]
  BY <1>1
<1>3. Seq(T) = UNION {[1..n -> T] : n \in Nat}
  BY SeqDef
<1> QED
  BY <1>1, <1>2, <1>3

\* The ends of a sequence, after an append and without its head.
LEMMA SequenceEnds ==
  ASSUME NEW S, NEW s \in Seq(S)
  PROVE  /\ s # <<>> => /\ Len(s) > 0 /\ Head(s) = s[1] /\ s[1] \in S
                        /\ Tail(s) \in Seq(S) /\ Len(Tail(s)) = Len(s) - 1
                        /\ \A i \in 1..Len(Tail(s)) : Tail(s)[i] = s[i + 1]
         /\ Len(s) \in Nat /\ DOMAIN s = 1..Len(s)
         /\ \A i \in 1..Len(s) : s[i] \in S
         /\ Len(s) > 0 => s # <<>>
         /\ \A e \in S : /\ Append(s, e) \in Seq(S) /\ Append(s, e) # <<>>
                         /\ Len(Append(s, e)) = Len(s) + 1
                         /\ Append(s, e)[Len(s) + 1] = e
                         /\ \A i \in 1..Len(s) : Append(s, e)[i] = s[i]
<1>1. s # <<>> => /\ Len(s) > 0 /\ Head(s) = s[1] /\ s[1] \in S
                  /\ Tail(s) \in Seq(S) /\ Len(Tail(s)) = Len(s) - 1
                  /\ \A i \in 1..Len(Tail(s)) : Tail(s)[i] = s[i + 1]
  OBVIOUS
<1>2. /\ Len(s) \in Nat /\ DOMAIN s = 1..Len(s)
      /\ \A i \in 1..Len(s) : s[i] \in S
      /\ Len(s) > 0 => s # <<>>
  OBVIOUS
<1>3. ASSUME NEW e \in S
      PROVE  /\ Append(s, e) \in Seq(S) /\ Append(s, e) # <<>>
             /\ Len(Append(s, e)) = Len(s) + 1
             /\ Append(s, e)[Len(s) + 1] = e
             /\ \A i \in 1..Len(s) : Append(s, e)[i] = s[i]
  OBVIOUS
<1> QED
  BY <1>1, <1>2, <1>3

-------------------------------------------------------------------------------
(* Types, and how the server's state and the two ends of the socket go together. *)

Frames == [from : Positions, upto : Positions, sync : BOOLEAN]

Structure ==
  /\ server # "up" => pub = 0 /\ rows = 0
  /\ socket # "open" => wire = <<>> /\ peer = Gone
  /\ peer.phase = "gone" => peer = Gone
  /\ peer.phase # "gone" => server # "down"
  /\ peer.replay # "none" => peer.phase = "subscribed" /\ peer.since # LiveOnly
  /\ peer.since <= Len(log)
  /\ peer.early => kind \in EarlyReads
  /\ kind = "web" => peer.since = LiveOnly
  /\ fetch.on => view <= fetch.answer

ShapeOK == SyncTypeOK /\ Structure

\* What a frame of events covers, and what is pushed: a frame that covers something.
LEMMA SpanFrame ==
  /\ \A m, n : Span(m, n).from = m /\ Span(m, n).upto = n /\ Span(m, n).sync = FALSE
  /\ \A m, n \in Positions : Span(m, n) \in Frames
  /\ \A m, n : Followed(Span(m, n)) = {p \in m..n : log[p]}
  /\ \A n : Marker(n).from = n /\ Marker(n).sync = TRUE
  /\ \A n \in Positions : Marker(n) \in Frames
  BY DEF Span, Marker, Frames, Followed

LEMMA PushFrame ==
  /\ \A w, m, n : \/ Push(w, Span(m, n)) = Append(w, Span(m, n)) /\ Followed(Span(m, n)) # {}
                  \/ Push(w, Span(m, n)) = w /\ Followed(Span(m, n)) = {}
  /\ \A w, n : Push(w, Marker(n)) = Append(w, Marker(n))
  BY SpanFrame DEF Push

\* The log's length and its rows after a commit.
LEMMA AppendRows ==
  ASSUME ShapeOK, NEW followed \in BOOLEAN, AppendEvent(followed)
  PROVE  /\ Len(log) \in Nat /\ Len(log') = Len(log) + 1
         /\ log' \in Seq(BOOLEAN) /\ log'[Len(log) + 1] = followed
         /\ \A k \in 1..Len(log) : log'[k] = log[k]
<1>1. log \in Seq(BOOLEAN) /\ log' = Append(log, followed)
  BY DEF ShapeOK, SyncTypeOK, AppendEvent
<1> QED
  BY <1>1, SequenceEnds

\* What the first frame's event, if it is an event, is.
LEMMA HeadFrame ==
  ASSUME ShapeOK, wire # <<>>
  PROVE  /\ Head(wire) = wire[1] /\ wire[1] \in Frames /\ Len(wire) > 0
         /\ wire \in Seq(Frames) /\ Len(wire) \in Nat
         /\ Tail(wire) \in Seq(Frames) /\ Len(Tail(wire)) = Len(wire) - 1
         /\ \A i \in 1..Len(Tail(wire)) : Tail(wire)[i] = wire[i + 1]
         /\ \A i \in 1..Len(wire) : wire[i] \in Frames
<1>1. wire \in Seq(Frames)
  BY DEF ShapeOK, SyncTypeOK, Frames
<1> QED
  BY <1>1, SequenceEnds

\* A catch-up that follows the log's rows up to upto sends at most Limit of them,
\* and the marker for the others.
LEMMA ReplayFrames ==
  ASSUME ShapeOK, ReplaySend
  PROVE  /\ wire' \in Seq(Frames)
         /\ peer.since \in Nat /\ peer.since + Limit \in Nat
         /\ \E mid \in Seq(Frames) :
              /\ \/ /\ mid = Append(wire, Span(peer.since + 1, Lowest(peer.upto, peer.since + Limit)))
                    /\ Span(peer.since + 1, Lowest(peer.upto, peer.since + Limit)) \in Frames
                 \/ /\ mid = wire
                    /\ Followed(Span(peer.since + 1, Lowest(peer.upto, peer.since + Limit))) = {}
              /\ \/ /\ wire' = Append(mid, Marker(peer.since + Limit + 1))
                    /\ Marker(peer.since + Limit + 1) \in Frames
                    /\ peer.upto > peer.since + Limit
                 \/ wire' = mid /\ peer.upto <= peer.since + Limit
<1> DEFINE last == peer.since + Limit
           span == Span(peer.since + 1, Lowest(peer.upto, last))
           mid == Push(wire, span)
<1>1. /\ peer.since \in Nat /\ last \in Nat /\ peer.upto \in 0..Len(log) /\ Len(log) \in Nat
      /\ Limit \in Nat \ {0} /\ wire \in Seq(Frames)
  <2>1. /\ peer.since \in Nat \cup {LiveOnly} /\ peer.since # LiveOnly
        /\ peer.upto \in 0..Len(log) /\ log \in Seq(BOOLEAN) /\ wire \in Seq(Frames)
    BY DEF ShapeOK, Structure, SyncTypeOK, ReplaySend, Frames
  <2>2. peer.since \in Nat /\ Len(log) \in Nat
    BY <2>1
  <2> QED
    BY <2>1, <2>2, SyncAssumption DEF SyncAssumption
<1>2. \/ mid = Append(wire, span) /\ span \in Frames
      \/ mid = wire /\ Followed(span) = {}
  <2>2. \/ mid = Append(wire, span) /\ Followed(span) # {}
        \/ mid = wire /\ Followed(span) = {}
    BY PushFrame
  <2>1. CASE Followed(span) # {}
    <3>1. PICK p \in (peer.since + 1)..Lowest(peer.upto, last) : log[p]
      BY <2>1, SpanFrame
    <3>3. peer.since + 1 <= Lowest(peer.upto, last) /\ Lowest(peer.upto, last) \in 0..Len(log)
      BY <1>1, <3>1 DEF Lowest
    <3>2. peer.since + 1 \in Positions /\ Lowest(peer.upto, last) \in Positions
      BY <1>1, <3>3 DEF Positions
    <3>4. span \in Frames
      BY <3>2, SpanFrame
    <3> QED
      BY <2>1, <2>2, <3>4
  <2> QED
    BY <2>1, <2>2
<1>3. mid \in Seq(Frames)
  <2>1. wire \in Seq(Frames)
    BY <1>1
  <2>2. \A e \in Frames : Append(wire, e) \in Seq(Frames)
    BY <2>1, SequenceEnds
  <2> QED
    BY <1>2, <2>1, <2>2
<1>4. wire' = IF peer.upto > last THEN Push(mid, Marker(last + 1)) ELSE mid
  BY DEF ReplaySend
<1> HIDE DEF mid
<1>5. CASE peer.upto > last
  <2>1. last + 1 \in Positions
    BY <1>1, <1>5 DEF Positions
  <2>2. Marker(last + 1) \in Frames /\ wire' = Append(mid, Marker(last + 1))
    BY <1>4, <1>5, <2>1, SpanFrame, PushFrame
  <2>3. wire' \in Seq(Frames)
    BY <1>3, <2>2, SequenceEnds
  <2> QED
    BY <1>1, <1>2, <1>3, <1>5, <2>2, <2>3
<1>6. CASE ~(peer.upto > last)
  BY <1>1, <1>2, <1>3, <1>4, <1>6
<1> QED
  BY <1>5, <1>6

\* The client takes the first event of the first frame; the frame's others stay.
LEMMA TakenFrame ==
  ASSUME ShapeOK, ReceiveEvent
  PROVE  \E p \in Positions :
           /\ wire # <<>> /\ ~wire[1].sync /\ p \in Followed(wire[1])
           /\ \A q \in Followed(wire[1]) : p <= q
           /\ TakeEvent(p)
           /\ wire' \in Seq(Frames)
           /\ \/ wire' = Tail(wire) /\ Followed(wire[1]) = {p}
              \/ /\ Len(wire') = Len(wire) /\ \A i \in 2..Len(wire) : wire'[i] = wire[i]
                 /\ ~wire'[1].sync /\ wire'[1].upto = wire[1].upto /\ wire'[1].from = p + 1
<1>1. wire # <<>> /\ ~Head(wire).sync
  BY DEF ReceiveEvent
<1>2. PICK p \in Followed(Head(wire)) :
         /\ \A q \in Followed(Head(wire)) : p <= q
         /\ TakeEvent(p)
         /\ wire' = IF {q \in Followed(Head(wire)) : q > p} = {} THEN Tail(wire)
                    ELSE [wire EXCEPT ![1].from = p + 1]
  BY DEF ReceiveEvent
<1>3. /\ Head(wire) = wire[1] /\ wire[1] \in Frames /\ 1 \in 1..Len(wire)
      /\ wire \in Seq(Frames) /\ Tail(wire) \in Seq(Frames) /\ Len(wire) \in Nat
      /\ \A i \in 1..Len(wire) : wire[i] \in Frames
  BY <1>1, HeadFrame
<1>4. Len(log) \in Nat
  BY DEF ShapeOK, SyncTypeOK
<1>5. \A q \in Followed(wire[1]) : q \in Positions
  BY <1>3, <1>4 DEF Followed, Frames, Positions
<1>6. CASE {q \in Followed(Head(wire)) : q > p} = {}
  <2>1. \A q \in Followed(wire[1]) : q = p
    BY <1>2, <1>3, <1>4, <1>5, <1>6 DEF Positions
  <2> QED
    BY <1>1, <1>2, <1>3, <1>5, <1>6, <2>1
<1>7. CASE {q \in Followed(Head(wire)) : q > p} # {}
  <2>1. p + 1 \in Positions
    BY <1>2, <1>3, <1>4, <1>5, <1>7 DEF Positions
  <2>2. [wire[1] EXCEPT !.from = p + 1] \in Frames
    BY <1>3, <2>1 DEF Frames
  <2>3. wire' = [wire EXCEPT ![1] = [wire[1] EXCEPT !.from = p + 1]]
    BY <1>2, <1>7
  <2>4. /\ wire' \in Seq(Frames) /\ Len(wire') = Len(wire)
        /\ wire'[1] = [wire[1] EXCEPT !.from = p + 1]
        /\ \A i \in 2..Len(wire) : wire'[i] = wire[i]
    BY <1>3, <2>2, <2>3, ExceptSeq
  <2>5. /\ wire'[1].sync = wire[1].sync /\ wire'[1].upto = wire[1].upto
        /\ wire'[1].from = p + 1
    BY <1>3, <2>4 DEF Frames
  <2> QED
    BY <1>1, <1>2, <1>3, <1>5, <2>4, <2>5
<1> QED
  BY <1>6, <1>7

Rest == /\ pub \in 0..Len(log) /\ rows \in pub..Len(log)
        /\ server \in {"down", "listening", "up"}
        /\ socket \in {"closed", "open", "denied"}
        /\ peer \in [phase : {"gone", "authenticating", "subscribed"}, since : Nat \cup {LiveOnly},
                     early : BOOLEAN, replay : {"none", "asked", "read"}, upto : 0..Len(log)]
        /\ cursor \in 0..Len(log) /\ seen \subseteq Positions
        /\ dirty \in BOOLEAN /\ fetch \in [on : BOOLEAN, answer : 0..Len(log)]
        /\ view \in 0..Len(log)
        /\ left \in [break : Nat, fault : Nat, reject : Nat]

\* Without a commit the types of the log and the program stay; the wire and the others follow.
LEMMA ShapeParts ==
  ASSUME ShapeOK, UNCHANGED <<log, kind>>, wire' \in Seq(Frames), Rest', Structure'
  PROVE  ShapeOK'
  BY DEF ShapeOK, SyncTypeOK, Rest, Frames, Positions

\* A bound that is spent stays a bound.
LEMMA SpendType ==
  ASSUME ShapeOK, NEW what \in {"break", "fault", "reject"}, Spend(what)
  PROVE  left' \in [break : Nat, fault : Nat, reject : Nat]
  BY DEF ShapeOK, SyncTypeOK, Spend

LEMMA ShapeStep == ShapeOK /\ [SyncNext]_syncVars => ShapeOK'
<1> SUFFICES ASSUME ShapeOK, [SyncNext]_syncVars PROVE ShapeOK'
  OBVIOUS
<1> USE SyncAssumption
<1>0. /\ wire \in Seq(Frames) /\ <<>> \in Seq(Frames) /\ log \in Seq(BOOLEAN) /\ Len(log) \in Nat
      /\ Rest /\ Structure /\ Gone \in [phase : {"gone"}, since : {LiveOnly}, early : {FALSE},
                                        replay : {"none"}, upto : {0}]
  BY DEF ShapeOK, SyncTypeOK, Frames, Rest, Gone
<1>1. ASSUME NEW followed \in BOOLEAN, AppendEvent(followed) PROVE ShapeOK'
  <2>1. /\ Len(log') = Len(log) + 1 /\ log' \in Seq(BOOLEAN)
        /\ UNCHANGED <<server, pub, rows, clientVars, readVars, socket, peer, wire, left>>
    BY <1>1, AppendRows DEF AppendEvent
  <2>2. Positions' = 1..(Len(log) + 1)
    BY <2>1 DEF Positions
  <2>3. wire' \in Seq([from : Positions, upto : Positions, sync : BOOLEAN]')
    <3>1. \A i \in 1..Len(wire) : wire[i] \in Frames
      BY <1>0, SequenceEnds
    <3>2. Positions \subseteq Positions'
      BY <1>0, <2>2 DEF Positions
    <3>3. \A i \in 1..Len(wire) : wire[i] \in [from : Positions', upto : Positions', sync : BOOLEAN]
      BY <3>1, <3>2 DEF Frames
    <3> QED
      BY <1>0, <2>1, <3>3, SeqNarrows
  <2>4. 0..Len(log) \subseteq 0..Len(log') /\ Positions \subseteq Positions'
    BY <1>0, <2>1, <2>2 DEF Positions
  <2>5. rows' \in pub'..Len(log')
    BY <1>0, <2>1 DEF Rest
  <2>6. Rest'
    BY <1>0, <2>1, <2>4, <2>5 DEF Rest, clientVars, readVars
  <2>7. peer.since \in Int
    BY <1>0 DEF Rest, LiveOnly
  <2>8. Structure'
    BY <1>0, <2>1, <2>7 DEF Structure, clientVars, readVars
  <2> QED
    BY <1>0, <2>1, <2>3, <2>6, <2>8 DEF ShapeOK, SyncTypeOK, Rest, clientVars
<1>2. CASE PublisherStart
  <2>1. Rest'
    BY <1>0, <1>2 DEF PublisherStart, Rest, Positions, clientVars, readVars
  <2>2. Structure'
    BY <1>0, <1>2 DEF PublisherStart, Structure, clientVars, readVars
  <2> QED
    BY <1>0, <1>2, <2>1, <2>2, ShapeParts DEF PublisherStart, clientVars
<1>22. CASE DrainRead
  <2>1. pub \in Nat /\ rows' \in pub..Len(log) /\ server = "up" /\ pub' = pub
    BY <1>0, <1>22 DEF DrainRead, Rest, Lowest, SyncAssumption
  <2>2. Rest'
    BY <1>0, <1>22, <2>1 DEF DrainRead, Rest, Positions, clientVars, readVars
  <2>3. Structure'
    BY <1>0, <1>22, <2>1 DEF DrainRead, Structure, clientVars, readVars
  <2> QED
    BY <1>0, <1>22, <2>2, <2>3, ShapeParts DEF DrainRead, clientVars
<1>3. CASE DrainFails
  <2>1. left' \in [break : Nat, fault : Nat, reject : Nat]
    BY <1>3, SpendType DEF DrainFails
  <2>2. rows' = pub /\ pub' = pub /\ pub \in Int /\ server = "up"
    BY <1>0, <1>3 DEF DrainFails, Rest, Structure
  <2>3. Rest'
    BY <1>0, <1>3, <2>1, <2>2 DEF DrainFails, Rest, Positions, clientVars, readVars
  <2>4. Structure'
    BY <1>0, <1>3, <2>2 DEF DrainFails, Structure, clientVars, readVars
  <2> QED
    BY <1>0, <1>3, <2>3, <2>4, ShapeParts DEF DrainFails, clientVars
<1>4. CASE DrainPublish
  <2>1. pub + 1 \in Positions /\ rows \in Positions
    BY <1>0, <1>4 DEF DrainPublish, Rest, Positions
  <2>2. wire' \in Seq(Frames)
    <3>1. Span(pub + 1, rows) \in Frames
      BY <2>1, SpanFrame
    <3>2. \/ wire' = Append(wire, Span(pub + 1, rows))
          \/ wire' = wire
      BY <1>4, PushFrame DEF DrainPublish
    <3> QED
      BY <1>0, <3>1, <3>2, SequenceEnds
  <2>4. pub' = rows /\ rows' = rows /\ rows \in Nat /\ pub < rows /\ pub \in Nat
    BY <1>0, <1>4 DEF DrainPublish, Rest
  <2>3. Rest'
    BY <1>0, <1>4, <2>4 DEF DrainPublish, Rest, clientVars, readVars, Positions
  <2>5. Structure'
    BY <1>0, <1>4, <2>4 DEF DrainPublish, Structure, clientVars, readVars, Gone
  <2> QED
    BY <1>4, <2>2, <2>3, <2>5, ShapeParts DEF DrainPublish, clientVars
<1>5. CASE ServerStop
  <2>1. left' \in [break : Nat, fault : Nat, reject : Nat]
    BY <1>5, SpendType DEF ServerStop
  <2>2. peer' = Gone /\ pub' \in 0..Len(log) /\ rows' \in pub'..Len(log)
    BY <1>0, <1>5 DEF ServerStop, Rest, logVars
  <2>3. Rest'
    BY <1>0, <1>5, <2>1, <2>2 DEF ServerStop, Rest, Gone, Positions, logVars, clientVars, readVars
  <2>4. Structure'
    BY <1>0, <1>5, <2>2 DEF ServerStop, Structure, Gone, LiveOnly, logVars, clientVars, readVars
  <2> QED
    BY <1>0, <1>5, <2>3, <2>4, ShapeParts DEF ServerStop, logVars, clientVars
<1>6. CASE ServerStart
  BY <1>0, <1>6, ShapeParts
     DEF ServerStart, Rest, Structure, Gone, LiveOnly, Positions, logVars, clientVars, readVars
<1>7. ASSUME NEW early \in BOOLEAN, Connect(early) PROVE ShapeOK'
  <2>1. SinceCursor \in Nat \cup {LiveOnly} /\ SinceCursor <= Len(log)
        /\ (kind = "web" => SinceCursor = LiveOnly)
    <3>1. cursor \in Nat /\ cursor <= Len(log)
      BY <1>0 DEF Rest
    <3> QED
      BY <1>0, <3>1 DEF SinceCursor, LiveOnly
  <2>2. peer' = [phase |-> "authenticating", since |-> SinceCursor, early |-> early,
                 replay |-> "none", upto |-> 0]
    BY <1>7 DEF Connect, Gone
  <2>3. Rest'
    BY <1>0, <1>7, <2>1, <2>2 DEF Connect, Rest, Positions, logVars, clientVars
  <2>4. Structure'
    BY <1>0, <1>7, <2>1, <2>2 DEF Connect, Structure, logVars, clientVars, Gone
  <2> QED
    BY <1>0, <1>7, <2>3, <2>4, ShapeParts DEF Connect, logVars, clientVars
<1>8. CASE Subscribe
  BY <1>0, <1>8, ShapeParts
     DEF Subscribe, Rest, Structure, Gone, LiveOnly, Positions, logVars, clientVars, readVars
<1>9. CASE Reject
  <2>1. left' \in [break : Nat, fault : Nat, reject : Nat]
    BY <1>9, SpendType DEF Reject
  <2>2. peer' = Gone /\ pub' \in 0..Len(log) /\ rows' \in pub'..Len(log)
    BY <1>0, <1>9 DEF Reject, Rest, logVars
  <2>3. Rest'
    BY <1>0, <1>9, <2>1, <2>2 DEF Reject, Rest, Gone, Positions, logVars, clientVars, readVars
  <2>4. Structure'
    BY <1>0, <1>9, <2>2 DEF Reject, Structure, Gone, LiveOnly, logVars, clientVars, readVars
  <2> QED
    BY <1>0, <1>9, <2>3, <2>4, ShapeParts DEF Reject, logVars, clientVars
<1>10. CASE ReplayRead
  <2>3. peer' \in [phase : {"gone", "authenticating", "subscribed"}, since : Nat \cup {LiveOnly},
                   early : BOOLEAN, replay : {"none", "asked", "read"}, upto : 0..Len(log)]
    <3>1. Len(log) \in 0..Len(log)
      BY <1>0
    <3> QED
      BY <1>0, <1>10, <3>1 DEF ReplayRead, Rest
  <2>1. Rest'
    BY <1>0, <1>10, <2>3 DEF ReplayRead, Rest, Positions, logVars, clientVars, readVars
  <2>2. Structure'
    BY <1>0, <1>10 DEF ReplayRead, Rest, Structure, Gone, logVars, clientVars, readVars
  <2> QED
    BY <1>0, <1>10, <2>1, <2>2, ShapeParts DEF ReplayRead, logVars, clientVars
<1>11. CASE ReplayFails
  <2>1. left' \in [break : Nat, fault : Nat, reject : Nat]
    BY <1>11, SpendType DEF ReplayFails
  <2> QED
    BY <1>0, <1>11, <2>1, ShapeParts
     DEF ReplayFails, Rest, Structure, Gone, LiveOnly, Positions, logVars, clientVars, readVars
<1>12. CASE ReplaySend
  BY <1>0, <1>12, ReplayFrames, ShapeParts
     DEF ReplaySend, Rest, Structure, Gone, LiveOnly, Positions, logVars, clientVars, readVars
<1>13. CASE Drop
  <2>1. left' \in [break : Nat, fault : Nat, reject : Nat]
    BY <1>13, SpendType DEF Drop
  <2>2. peer' = Gone /\ pub' \in 0..Len(log) /\ rows' \in pub'..Len(log)
    BY <1>0, <1>13 DEF Drop, Rest, logVars
  <2>3. Rest'
    BY <1>0, <1>13, <2>1, <2>2 DEF Drop, Rest, Gone, Positions, logVars, clientVars, readVars
  <2>4. Structure'
    BY <1>0, <1>13, <2>2 DEF Drop, Structure, Gone, LiveOnly, logVars, clientVars, readVars
  <2> QED
    BY <1>0, <1>13, <2>3, <2>4, ShapeParts DEF Drop, logVars, clientVars
<1>14. CASE NoticeClose
  BY <1>0, <1>14, ShapeParts
     DEF NoticeClose, Rest, Structure, Gone, LiveOnly, Positions, logVars, clientVars, readVars
<1>15. CASE Suspend
  <2>1. left' \in [break : Nat, fault : Nat, reject : Nat]
    BY <1>15, SpendType DEF Suspend
  <2> QED
    <3>3. dirty' \in BOOLEAN
      BY <1>0, <1>15 DEF Suspend, Rest
    <3>4. peer' \in [phase : {"gone", "authenticating", "subscribed"}, since : Nat \cup {LiveOnly},
                     early : BOOLEAN, replay : {"none", "asked", "read"}, upto : 0..Len(log)]
      BY <1>0, <1>15 DEF Suspend, Gone
    <3>1. Rest'
      BY <1>0, <1>15, <2>1, <3>3, <3>4 DEF Suspend, Rest, Positions, logVars, clientVars
    <3>2. Structure'
      BY <1>0, <1>15 DEF Suspend, Structure, Gone, LiveOnly, logVars, clientVars
    <3> QED
      BY <1>0, <1>15, <3>1, <3>2, ShapeParts DEF Suspend, logVars, clientVars
<1>16. CASE ReceiveEvent
  <2>1. PICK p \in Positions : wire' \in Seq(Frames) /\ TakeEvent(p) /\ wire # <<>>
    BY <1>16, TakenFrame
  <2>2. cursor' \in 0..Len(log) /\ seen' \subseteq Positions /\ dirty' \in BOOLEAN
    BY <1>0, <2>1 DEF TakeEvent, Rest, Positions, Highest
  <2>3. Rest' /\ Structure'
    BY <1>0, <1>16, <2>2 DEF ReceiveEvent, Rest, Structure, Positions, logVars, Gone
  <2> QED
    BY <1>16, <2>1, <2>3, ShapeParts DEF ReceiveEvent, logVars
<1>17. CASE ReceiveMarker
  <2>1. Tail(wire) \in Seq(Frames) /\ Head(wire) \in Frames
    BY <1>17, HeadFrame DEF ReceiveMarker
  <2>4. PICK n \in 1..Len(log) : n = Head(wire).from
    BY <2>1 DEF Frames, Positions
  <2>2. cursor' \in 0..Len(log)
    <3>2. cursor' = cursor \/ cursor' = Highest(cursor, n)
      BY <1>17, <2>4 DEF ReceiveMarker
    <3>1. cursor' = cursor \/ cursor' = n
      BY <3>2 DEF Highest
    <3>3. cursor \in 0..Len(log)
      BY <1>0 DEF Rest
    <3>4. n \in 0..Len(log)
      BY <2>4
    <3> QED
      BY <3>1, <3>3, <3>4
  <2>5. peer' = peer /\ dirty' \in BOOLEAN /\ wire # <<>>
    BY <1>17 DEF ReceiveMarker
  <2>3. Rest'
    BY <1>0, <1>17, <2>2, <2>5 DEF ReceiveMarker, Rest, Positions, logVars
  <2>6. Structure'
    BY <1>0, <1>17, <2>5 DEF ReceiveMarker, Structure, logVars, Gone
  <2> QED
    BY <1>17, <2>1, <2>3, <2>6, ShapeParts DEF ReceiveMarker, logVars
<1>18. CASE Read
  <2>3. fetch' \in [on : BOOLEAN, answer : 0..Len(log)]
    <3>1. Len(log) \in 0..Len(log)
      BY <1>0
    <3> QED
      BY <1>18, <3>1 DEF Read
  <2>1. Rest'
    BY <1>0, <1>18, <2>3 DEF Read, Rest, Positions, logVars, clientVars
  <2>2. Structure'
    BY <1>0, <1>18 DEF Read, Rest, Structure, Gone, logVars, clientVars, readVars
  <2> QED
    BY <1>0, <1>18, <2>1, <2>2, ShapeParts DEF Read, logVars, clientVars
<1>19. CASE ReadAnswered
  BY <1>0, <1>19, ShapeParts DEF ReadAnswered, Rest, Structure, Gone, Idle, LiveOnly, Positions, logVars, clientVars
<1>20. CASE ReadFails
  <2>1. left' \in [break : Nat, fault : Nat, reject : Nat]
    BY <1>20, SpendType DEF ReadFails
  <2>2. dirty' \in BOOLEAN /\ fetch' \in [on : BOOLEAN, answer : 0..Len(log)] /\ ~fetch'.on
    BY <1>0, <1>20 DEF ReadFails, Idle
  <2>3. Rest'
    BY <1>0, <1>20, <2>1, <2>2 DEF ReadFails, Rest, Positions, logVars, clientVars
  <2>4. Structure'
    BY <1>0, <1>20, <2>2 DEF ReadFails, Structure, Gone, logVars, clientVars
  <2> QED
    BY <1>0, <1>20, <2>3, <2>4, ShapeParts DEF ReadFails, logVars, clientVars
<1>21. CASE UNCHANGED syncVars
  BY <1>0, <1>21, ShapeParts
     DEF syncVars, Rest, Structure, Gone, LiveOnly, Positions, logVars, clientVars, readVars
<1> QED
  BY <1>1, <1>2, <1>3, <1>4, <1>5, <1>6, <1>7, <1>8, <1>9, <1>10, <1>11, <1>12, <1>13, <1>14,
     <1>15, <1>16, <1>17, <1>18, <1>19, <1>20, <1>21, <1>22 DEF SyncNext

LEMMA SyncStartsWell == SyncInit => ShapeOK
<1> SUFFICES ASSUME SyncInit PROVE ShapeOK
  OBVIOUS
<1>1. log = <<>> /\ log \in Seq(BOOLEAN) /\ Len(log) = 0 /\ wire = <<>>
  BY DEF SyncInit
<1>2. wire \in Seq([from : Positions, upto : Positions, sync : BOOLEAN])
  BY <1>1
<1>3. left \in [break : Nat, fault : Nat, reject : Nat] /\ kind \in Kinds
  BY SyncAssumption DEF SyncAssumption, SyncInit
<1>6. fetch \in [on : BOOLEAN, answer : 0..Len(log)]
  BY <1>1 DEF SyncInit, Idle
<1>7. peer \in [phase : {"gone", "authenticating", "subscribed"}, since : Nat \cup {LiveOnly},
                early : BOOLEAN, replay : {"none", "asked", "read"}, upto : 0..Len(log)]
  BY <1>1 DEF SyncInit, Gone
<1>8. dirty \in BOOLEAN /\ seen \subseteq Positions
  BY DEF SyncInit
<1>9. /\ pub \in 0..Len(log) /\ rows \in pub..Len(log) /\ cursor \in 0..Len(log)
      /\ view \in 0..Len(log) /\ server \in {"down", "listening", "up"}
      /\ socket \in {"closed", "open", "denied"}
  BY <1>1 DEF SyncInit
<1>4. SyncTypeOK
  BY <1>1, <1>2, <1>3, <1>6, <1>7, <1>8, <1>9 DEF SyncTypeOK
<1>5. Structure
  BY <1>1 DEF SyncInit, Structure, Gone, Idle, LiveOnly
<1> QED
  BY <1>4, <1>5 DEF ShapeOK

\* The log only grows, the publisher's cursor and the rows it has read stay inside
\* it, and every frame on the wire names positions of the log.
THEOREM SyncTypeCorrect == SyncSpec => []SyncTypeOK
<1>1. ShapeOK => SyncTypeOK
  BY DEF ShapeOK
<1> QED
  BY <1>1, SyncStartsWell, ShapeStep, PTL DEF SyncSpec


-------------------------------------------------------------------------------
(* Nothing is forgotten.                                                     *)

\* The timing the code relies on and does not enforce (README, section 5).
Timely == QuietStart /\ "web" \notin EarlyReads /\ "sdk" \notin Overtaken \cup LostReplays

FollowedEvents == {p \in Positions : log[p]}

\* The client has the event at p, or reads for it.
Got(p) == Known(p) \/ Reading(p)

\* A frame of events with p is on the wire.
Carried(p) == \E i \in DOMAIN wire : ~wire[i].sync /\ p \in Followed(wire[i])

\* The client must learn of p: for sdk, something before it was taken or is on its way.
Started(p) == kind = "sdk" => \E s \in Positions : s < p /\ (s \in seen \/ Carried(s))

\* p arrives without a catch-up.
Live(p) ==
  \/ Got(p)
  \/ peer.phase = "subscribed" /\ (OnWire(p) \/ (server = "up" /\ pub < p))

\* The catch-up of this connection brings p.  Where the read after connecting is
\* never early it does not matter.
Promised(p) ==
  /\ kind = "sdk" \/ peer.early
  /\ peer.since < p
  /\ \/ peer.phase = "authenticating"
     \/ peer.replay = "asked"
     \/ peer.replay = "read" /\ p <= peer.upto

\* A connection brings every event the client must learn of.
Covers == peer.phase # "gone" => \A p \in FollowedEvents : Started(p) => Live(p) \/ Promised(p)

\* What web and ios rely on: they read after connecting, and ios read what it has seen.
ReadsAgain ==
  kind # "sdk" =>
    /\ peer.phase = "authenticating" => wire = <<>> /\ (peer.early \/ dirty)
    /\ kind = "ios" /\ peer.phase # "gone" => /\ peer.since # LiveOnly
                                              /\ \A p \in seen : Got(p)

\* The cursor of sdk passes an event only when the event is there or read.
NothingBehind == kind = "sdk" => \A p \in Owed : p <= cursor => Got(p)

\* p, or a marker, is in one of the first i frames.
Within(i, p) == \E k \in 1..i : wire[k].sync \/ p \in Followed(wire[k])

\* Before an event on the wire comes everything it would make the cursor pass.
NoGap(i) ==
  \A q \in Followed(wire[i]), p \in FollowedEvents :
    p < q /\ Started(p) => Got(p) \/ Within(i, p)
NoGaps == kind = "sdk" => \A i \in DOMAIN wire : ~wire[i].sync => NoGap(i)

\* Until its first event sdk follows the publisher only, in order.
BeforeFirst ==
  kind = "sdk" /\ seen = {} =>
    /\ cursor = 0 /\ peer.since = LiveOnly
    /\ \A i \in DOMAIN wire : ~wire[i].sync
    /\ server = "up" => \A q \in Positions : Carried(q) => q <= pub
    /\ \A i, j \in DOMAIN wire : i < j =>
         \A a \in Followed(wire[i]), b \in Followed(wire[j]) : a < b

\* Later nothing comes that is older than its first event.
AfterFirst ==
  kind = "sdk" /\ seen # {} =>
    /\ server = "up" => \E s \in seen : s <= pub
    /\ \A q \in Positions : Carried(q) => \E s \in seen : s <= q
    /\ peer.since # LiveOnly => \E s \in seen : s <= peer.since

\* The catch-up of sdk starts at its cursor and comes first.
CatchUpFirst ==
  kind = "sdk" =>
    /\ \A s \in seen : s <= cursor
    /\ peer.since <= cursor
    /\ peer.phase = "authenticating" \/ peer.replay # "none" => wire = <<>>
    /\ peer.phase = "authenticating" /\ peer.since = LiveOnly => seen = {}

Delivery ==
  /\ Covers /\ ReadsAgain /\ NothingBehind /\ NoGaps
  /\ BeforeFirst /\ AfterFirst /\ CatchUpFirst

SyncInv == ShapeOK /\ Delivery

\* Positions and the publisher's numbers, for the arithmetic below.
LEMMA SyncNumbers ==
  ASSUME ShapeOK
  PROVE  /\ Len(log) \in Nat /\ pub \in Nat /\ pub <= Len(log)
         /\ cursor \in Nat /\ peer.since \in Int /\ LiveOnly = -1
         /\ peer.since <= Len(log)
         /\ peer.phase \in {"gone", "authenticating", "subscribed"}
         /\ seen \subseteq Positions /\ wire \in Seq(Frames) /\ Len(wire) \in Nat
         /\ DOMAIN wire = 1..Len(wire)
         /\ \A i \in DOMAIN wire : wire[i] \in Frames
         /\ \A i \in DOMAIN wire : Followed(wire[i]) \subseteq FollowedEvents
         /\ \A p \in Positions : p \in Nat /\ p >= 1 /\ p <= Len(log)
         /\ FollowedEvents \subseteq Positions
<1>1. /\ Len(log) \in Nat /\ pub \in Nat /\ pub <= Len(log) /\ cursor \in Nat
      /\ peer.phase \in {"gone", "authenticating", "subscribed"}
      /\ peer.since <= Len(log) /\ peer.since \in Int /\ LiveOnly = -1
      /\ seen \subseteq Positions /\ wire \in Seq(Frames)
  BY DEF ShapeOK, SyncTypeOK, Structure, Frames, LiveOnly
<1>2. /\ Len(wire) \in Nat /\ DOMAIN wire = 1..Len(wire)
      /\ \A i \in DOMAIN wire : wire[i] \in Frames
  BY <1>1, SequenceEnds
<1>3. \A p \in Positions : p \in Nat /\ p >= 1 /\ p <= Len(log)
  BY <1>1 DEF Positions
<1>4. \A i \in DOMAIN wire : Followed(wire[i]) \subseteq FollowedEvents
  BY <1>1, <1>2 DEF Followed, FollowedEvents, Frames, Positions
<1> QED
  BY <1>1, <1>2, <1>3, <1>4 DEF FollowedEvents

\* What is on the wire depends on the log and the frames only.
LEMMA SameWire ==
  ASSUME UNCHANGED <<log, wire>>
  PROVE  /\ Positions' = Positions /\ FollowedEvents' = FollowedEvents
         /\ \A i : Followed(wire[i])' = Followed(wire[i])
         /\ \A p : Carried(p)' = Carried(p) /\ OnWire(p)' = OnWire(p)
         /\ \A i, p : Within(i, p)' = Within(i, p)
<1>1. Positions' = Positions /\ \A i : Followed(wire[i])' = Followed(wire[i])
  BY DEF Positions, Followed
<1> QED
  BY <1>1 DEF FollowedEvents, Carried, OnWire, Within

LEMMA NoWire ==
  ASSUME UNCHANGED log, wire' = <<>>
  PROVE  /\ Positions' = Positions /\ FollowedEvents' = FollowedEvents
         /\ DOMAIN wire' = {}
         /\ \A p : ~Carried(p)'
<1>1. Positions' = Positions /\ DOMAIN wire' = {}
  BY DEF Positions
<1> QED
  BY <1>1 DEF FollowedEvents, Carried

\* A position the client must learn of, once it is committed.
LEMMA OwedStarts ==
  /\ \A p : p \in Owed => p \in FollowedEvents
  /\ ShapeOK => \A p \in Owed : Started(p)
  /\ ShapeOK => \A p \in FollowedEvents : Started(p) /\ (kind = "sdk" => wire = <<>>) => p \in Owed
<1>1. \A p : p \in Owed => p \in FollowedEvents
  BY DEF Owed, FollowedEvents
<1>2. ASSUME ShapeOK PROVE \A p \in Owed : Started(p)
  BY <1>2, SyncNumbers DEF Owed, Started
<1>3. ASSUME ShapeOK, NEW p \in FollowedEvents, Started(p), kind = "sdk" => wire = <<>>
      PROVE  p \in Owed
  BY <1>3 DEF Owed, FollowedEvents, Started, Carried
<1> QED
  BY <1>1, <1>2, <1>3

\* Reading only ever helps, and a suspension concerns ios.
LEMMA GotStays ==
  ASSUME ShapeOK, [SyncNext]_syncVars, kind = "ios" => ~Suspend
  PROVE  \A p \in Positions : Got(p) => Got(p)'
<1>1. /\ view \in Nat /\ fetch.answer \in Nat /\ (fetch.on => view <= fetch.answer)
      /\ Len(log) \in Nat /\ view <= Len(log) /\ fetch.answer <= Len(log)
      /\ dirty \in BOOLEAN /\ fetch.on \in BOOLEAN
  BY DEF ShapeOK, SyncTypeOK, Structure
<1>2. ASSUME UNCHANGED <<kind, view, fetch>>, seen \subseteq seen', dirty => dirty'
      PROVE  \A p \in Positions : Got(p) => Got(p)'
  BY <1>2 DEF Got, Known, Reading
<1>3. CASE Suspend
  BY <1>3 DEF Suspend
<1>4. CASE Read
  BY <1>1, <1>4 DEF Read, Got, Known, Reading, clientVars, Positions
<1>5. CASE ReadAnswered
  BY <1>1, <1>5 DEF ReadAnswered, Got, Known, Reading, clientVars, Positions
<1>6. CASE ReadFails
  BY <1>6 DEF ReadFails, Got, Reading
<1>7. CASE ReceiveEvent
  <2>1. PICK p \in Positions : TakeEvent(p)
    BY <1>7, TakenFrame
  <2> QED
    BY <1>2, <1>7, <2>1 DEF ReceiveEvent, TakeEvent
<1>8. CASE ReceiveMarker
  BY <1>2, <1>8 DEF ReceiveMarker
<1>9. ASSUME NEW early \in BOOLEAN, Connect(early) PROVE \A p \in Positions : Got(p) => Got(p)'
  BY <1>2, <1>9 DEF Connect, clientVars
<1>10. CASE ~(Suspend \/ Read \/ ReadAnswered \/ ReadFails \/ ReceiveEvent \/ ReceiveMarker
              \/ \E early \in BOOLEAN : Connect(early))
  <2>1. UNCHANGED <<clientVars, readVars>>
    BY <1>10 DEF SyncNext, syncVars, AppendEvent, PublisherStart, DrainRead, DrainFails, DrainPublish,
                 ServerStop, ServerStart, Subscribe, Reject, ReplayRead, ReplayFails, ReplaySend, Drop,
                 NoticeClose
  <2> QED
    BY <1>2, <2>1 DEF clientVars, readVars
<1> QED
  BY <1>3, <1>4, <1>5, <1>6, <1>7, <1>8, <1>9, <1>10

\* The connection ends, or stays away.
LEMMA EndsStep ==
  ASSUME SyncInv, [SyncNext]_syncVars,
         ServerStop \/ ServerStart \/ Reject \/ Drop \/ NoticeClose \/ Suspend
  PROVE  Delivery'
<1> USE DEF SyncInv, Delivery
<1>1. /\ UNCHANGED <<log, kind, cursor, seen>> /\ peer' = Gone
      /\ wire' = wire \/ wire' = <<>>
      /\ server' = "up" => server = "up" /\ pub' = pub
      /\ kind = "sdk" => ~Suspend
  BY DEF ServerStop, ServerStart, Reject, Drop, NoticeClose, Suspend, logVars, clientVars, ShapeOK, Structure
<1>2. /\ peer'.phase = "gone" /\ peer'.since = LiveOnly /\ peer'.replay = "none"
  BY <1>1 DEF Gone
<1>3. kind = "sdk" => \A p \in Positions : Got(p) => Got(p)'
  BY <1>1, GotStays
<1>4. /\ Positions' = Positions /\ FollowedEvents' = FollowedEvents
      /\ \A p : Carried(p)' => Carried(p)
  BY <1>1, SameWire, NoWire
<1>5. \A p : Started(p)' => Started(p)
  BY <1>1, <1>4 DEF Started
<1>6. Covers' /\ ReadsAgain'
  BY <1>2 DEF Covers, ReadsAgain
<1>7. NothingBehind'
  <2>1. Owed' = Owed
    BY <1>1, <1>4 DEF Owed
  <2> QED
    BY <1>1, <1>3, <2>1 DEF NothingBehind, Owed
<1>8. NoGaps'
  <2>1. CASE wire' = wire
    <3>1. \A i, p : Followed(wire[i])' = Followed(wire[i]) /\ Within(i, p)' = Within(i, p)
      BY <1>1, <2>1, SameWire
    <3>2. FollowedEvents \subseteq Positions
      BY DEF FollowedEvents
    <3> QED
      BY <1>1, <1>3, <1>4, <1>5, <2>1, <3>1, <3>2 DEF NoGaps, NoGap
  <2>2. CASE wire' = <<>>
    BY <2>2 DEF NoGaps
  <2> QED
    BY <1>1, <2>1, <2>2
<1>9. BeforeFirst'
  <2>1. CASE wire' = wire
    <3>1. \A i : Followed(wire[i])' = Followed(wire[i])
      BY <1>1, <2>1, SameWire
    <3> QED
      BY <1>1, <1>2, <1>4, <2>1, <3>1 DEF BeforeFirst
  <2>2. CASE wire' = <<>>
    BY <1>1, <1>2, <1>4, <2>2 DEF BeforeFirst
  <2> QED
    BY <1>1, <2>1, <2>2
<1>10. AfterFirst'
  BY <1>1, <1>2, <1>4 DEF AfterFirst
<1>11. CatchUpFirst'
  BY <1>1, <1>2, SyncNumbers DEF CatchUpFirst
<1> QED
  BY <1>6, <1>7, <1>8, <1>9, <1>10, <1>11

\* Reads of the client and of the publisher.
LEMMA ReadsStep ==
  ASSUME SyncInv, [SyncNext]_syncVars,
         DrainRead \/ DrainFails \/ Read \/ ReadAnswered \/ ReadFails \/ UNCHANGED syncVars
  PROVE  Delivery'
<1> USE DEF SyncInv, Delivery
<1>1. /\ UNCHANGED <<log, server, pub, kind, cursor, seen, peer, wire>>
      /\ peer.phase = "authenticating" => peer.early \/ (dirty => dirty')
  BY DEF DrainRead, DrainFails, Read, ReadAnswered, ReadFails, logVars, clientVars, readVars, syncVars
<1>2. \A p \in Positions : Got(p) => Got(p)'
  <2>1. ~Suspend
    BY DEF DrainRead, DrainFails, Read, ReadAnswered, ReadFails, Suspend, Spend, syncVars, readVars, ShapeOK, Structure
  <2> QED
    BY <2>1, GotStays
<1>3. /\ Positions' = Positions /\ FollowedEvents' = FollowedEvents
      /\ \A i : Followed(wire[i])' = Followed(wire[i])
      /\ \A p : Carried(p)' = Carried(p) /\ OnWire(p)' = OnWire(p)
      /\ \A i, p : Within(i, p)' = Within(i, p)
      /\ FollowedEvents \subseteq Positions /\ seen \subseteq Positions
  BY <1>1, SameWire, SyncNumbers
<1>4. \A p : Started(p)' = Started(p) /\ Promised(p)' = Promised(p)
  BY <1>1, <1>3 DEF Started, Promised
<1>5. \A p \in Positions : Live(p) => Live(p)'
  BY <1>1, <1>2, <1>3 DEF Live
<1>6. Covers'
  BY <1>1, <1>3, <1>4, <1>5 DEF Covers
<1>7. ReadsAgain'
  BY <1>1, <1>2, <1>3 DEF ReadsAgain
<1>8. NothingBehind'
  <2>1. Owed' = Owed
    BY <1>1, <1>3 DEF Owed
  <2> QED
    BY <1>1, <1>2, <2>1 DEF NothingBehind, Owed
<1>9. NoGaps'
  BY <1>1, <1>2, <1>3, <1>4 DEF NoGaps, NoGap
<1>10. BeforeFirst' /\ AfterFirst' /\ CatchUpFirst'
  BY <1>1, <1>3 DEF BeforeFirst, AfterFirst, CatchUpFirst
<1> QED
  BY <1>6, <1>7, <1>8, <1>9, <1>10

\* Only a suspension takes a due read back, and only for ios.
LEMMA GotMore ==
  ASSUME ShapeOK, UNCHANGED <<kind, view, fetch>>, seen \subseteq seen', dirty => dirty'
  PROVE  \A p : Got(p) => Got(p)'
  BY DEF Got, Known, Reading

\* The publisher skips what was there before it: without a connection between,
\* everything followed was on its way already.
LEMMA PublisherStep ==
  ASSUME SyncInv, PublisherStart
  PROVE  Delivery'
<1> USE DEF SyncInv, Delivery
<1>1. /\ UNCHANGED <<log, kind, cursor, seen, peer, wire, dirty, fetch, view>>
      /\ server = "listening" /\ pub' = Len(log)
  BY DEF PublisherStart, clientVars, readVars
<1>2. \A p : Got(p) => Got(p)'
  BY <1>1, GotMore
<1>3. /\ Positions' = Positions /\ FollowedEvents' = FollowedEvents
      /\ \A i : Followed(wire[i])' = Followed(wire[i])
      /\ \A p : Carried(p)' = Carried(p) /\ OnWire(p)' = OnWire(p)
      /\ \A i, p : Within(i, p)' = Within(i, p)
      /\ FollowedEvents \subseteq Positions /\ seen \subseteq Positions
      /\ \A p \in Positions : p <= Len(log)
  BY <1>1, SameWire, SyncNumbers
<1>4. \A p : Started(p)' = Started(p) /\ Promised(p)' = Promised(p)
  BY <1>1, <1>3 DEF Started, Promised
<1>5. \A p : Live(p) => Live(p)'
  BY <1>1, <1>2, <1>3 DEF Live
<1>6. Covers'
  BY <1>1, <1>3, <1>4, <1>5 DEF Covers
<1>7. ReadsAgain' /\ CatchUpFirst'
  BY <1>1, <1>2, <1>3 DEF ReadsAgain, CatchUpFirst
<1>8. NothingBehind'
  <2>1. Owed' = Owed
    BY <1>1, <1>3 DEF Owed
  <2> QED
    BY <1>1, <1>2, <2>1 DEF NothingBehind
<1>9. NoGaps'
  BY <1>1, <1>2, <1>3, <1>4 DEF NoGaps, NoGap
<1>10. BeforeFirst'
  BY <1>1, <1>3 DEF BeforeFirst
<1>11. AfterFirst'
  BY <1>1, <1>3 DEF AfterFirst
<1> QED
  BY <1>6, <1>7, <1>8, <1>9, <1>10, <1>11

\* The subscribe frame is applied: what it promised is asked for.
LEMMA SubscribeStep ==
  ASSUME SyncInv, Timely, Subscribe
  PROVE  Delivery'
<1> USE DEF SyncInv, Delivery
<1>1. /\ UNCHANGED <<log, server, pub, kind, cursor, seen, wire, dirty, fetch, view>>
      /\ peer.phase = "authenticating" /\ peer'.phase = "subscribed"
      /\ peer'.since = peer.since /\ peer'.early = peer.early
      /\ peer'.replay = IF peer.since = LiveOnly THEN "none" ELSE "asked"
      /\ peer.early => kind \in EarlyReads
      /\ kind \in {"sdk", "web", "ios"} /\ peer.since \in Nat \cup {LiveOnly}
  BY SyncAssumption DEF Subscribe, logVars, clientVars, readVars, ShapeOK, SyncTypeOK, Structure, SyncAssumption
<1>2. \A p : Got(p) => Got(p)'
  BY <1>1, GotMore
<1>3. /\ Positions' = Positions /\ FollowedEvents' = FollowedEvents
      /\ \A i : Followed(wire[i])' = Followed(wire[i])
      /\ \A p : Carried(p)' = Carried(p) /\ OnWire(p)' = OnWire(p)
      /\ \A i, p : Within(i, p)' = Within(i, p)
      /\ FollowedEvents \subseteq Positions /\ seen \subseteq Positions
      /\ \A p \in Positions : p <= Len(log)
  BY <1>1, SameWire, SyncNumbers
<1>4. \A p : Started(p)' = Started(p)
  BY <1>1, <1>3 DEF Started
<1>6. ASSUME NEW p \in FollowedEvents, Started(p) PROVE Live(p)' \/ Promised(p)'
  <2>1. Got(p) \/ Promised(p)
    BY <1>1, <1>6 DEF Covers, Live
  <2>2. CASE Got(p)
    BY <1>2, <2>2 DEF Live
  <2>3. CASE Promised(p)
    <3>1. kind = "sdk" \/ (kind = "ios" /\ peer.early)
      BY <1>1, <2>3 DEF Promised, Timely
    <3>2. peer.since # LiveOnly
      <4>1. CASE kind = "sdk"
        BY <1>1, <1>6, <4>1 DEF CatchUpFirst, Started, Carried
      <4>2. CASE kind = "ios"
        BY <1>1, <4>2 DEF ReadsAgain
      <4> QED
        BY <3>1, <4>1, <4>2
    <3> QED
      BY <1>1, <2>3, <3>2 DEF Promised
  <2> QED
    BY <2>1, <2>2, <2>3
<1>7. Covers'
  BY <1>1, <1>3, <1>4, <1>6 DEF Covers
<1>8. ReadsAgain' /\ CatchUpFirst'
  BY <1>1, <1>2, <1>3 DEF ReadsAgain, CatchUpFirst
<1>9. NothingBehind'
  <2>1. Owed' = Owed
    BY <1>1, <1>3 DEF Owed
  <2> QED
    BY <1>1, <1>2, <2>1 DEF NothingBehind
<1>10. NoGaps'
  BY <1>1, <1>2, <1>3, <1>4 DEF NoGaps, NoGap
<1>11. BeforeFirst' /\ AfterFirst'
  BY <1>1, <1>3 DEF BeforeFirst, AfterFirst
<1> QED
  BY <1>7, <1>8, <1>9, <1>10, <1>11

\* The catch-up is read, or lost where the client reads everything anyway.
LEMMA ReplayReadStep ==
  ASSUME SyncInv, Timely, ReplayRead \/ ReplayFails
  PROVE  Delivery'
<1> USE DEF SyncInv, Delivery
<1>1. /\ UNCHANGED <<log, server, pub, kind, cursor, seen, wire, dirty, fetch, view>>
      /\ peer.replay = "asked" /\ peer.phase = "subscribed"
      /\ peer'.phase = peer.phase /\ peer'.since = peer.since /\ peer'.early = peer.early
      /\ \/ peer'.replay = "read" /\ peer'.upto = Len(log)
         \/ peer'.replay = "none" /\ kind # "sdk" /\ ~peer.early
  BY DEF ReplayRead, ReplayFails, Timely, logVars, clientVars, readVars, ShapeOK, SyncTypeOK, Structure
<1>2. \A p : Got(p) => Got(p)'
  BY <1>1, GotMore
<1>3. /\ Positions' = Positions /\ FollowedEvents' = FollowedEvents
      /\ \A i : Followed(wire[i])' = Followed(wire[i])
      /\ \A p : Carried(p)' = Carried(p) /\ OnWire(p)' = OnWire(p)
      /\ \A i, p : Within(i, p)' = Within(i, p)
      /\ FollowedEvents \subseteq Positions /\ seen \subseteq Positions
      /\ \A p \in Positions : p <= Len(log)
  BY <1>1, SameWire, SyncNumbers
<1>4. \A p : Started(p)' = Started(p)
  BY <1>1, <1>3 DEF Started
<1>5. \A p : Live(p) => Live(p)'
  BY <1>1, <1>2, <1>3 DEF Live
<1>6. \A p \in FollowedEvents : Promised(p) => Promised(p)'
  BY <1>1, <1>3 DEF Promised
<1>7. Covers'
  BY <1>1, <1>3, <1>4, <1>5, <1>6 DEF Covers
<1>8. ReadsAgain' /\ CatchUpFirst'
  BY <1>1, <1>2, <1>3 DEF ReadsAgain, CatchUpFirst
<1>9. NothingBehind'
  <2>1. Owed' = Owed
    BY <1>1, <1>3 DEF Owed
  <2> QED
    BY <1>1, <1>2, <2>1 DEF NothingBehind
<1>10. NoGaps'
  BY <1>1, <1>2, <1>3, <1>4 DEF NoGaps, NoGap
<1>11. BeforeFirst' /\ AfterFirst'
  BY <1>1, <1>3 DEF BeforeFirst, AfterFirst
<1> QED
  BY <1>7, <1>8, <1>9, <1>10, <1>11

\* A new connection asks for what comes after the cursor, or reads.
LEMMA ConnectStep ==
  ASSUME SyncInv, NEW early \in BOOLEAN, Connect(early)
  PROVE  Delivery'
<1> USE DEF SyncInv, Delivery
<1>1. /\ UNCHANGED <<log, server, pub, kind, cursor, seen, fetch, view>>
      /\ wire = <<>> /\ wire' = <<>> /\ dirty' = (dirty \/ kind # "sdk")
      /\ peer'.phase = "authenticating" /\ peer'.since = SinceCursor /\ peer'.replay = "none"
  BY DEF Connect, Gone, logVars, clientVars, ShapeOK, Structure
<1>2. /\ \A p : Got(p) => Got(p)'
      /\ kind # "sdk" => \A p : Got(p)'
  <2>1. dirty => dirty'
    BY <1>1
  <2> QED
    BY <1>1, <2>1, GotMore DEF Got, Reading
<1>3. /\ Positions' = Positions /\ FollowedEvents' = FollowedEvents
      /\ \A p : ~Carried(p)' /\ ~Carried(p)
      /\ FollowedEvents \subseteq Positions /\ seen \subseteq Positions
      /\ \A p \in Positions : p \in Nat /\ p >= 1
      /\ cursor \in Nat /\ LiveOnly = -1
  BY <1>1, NoWire, SyncNumbers DEF Carried
<1>4. \A p : Started(p)' = Started(p)
  BY <1>1, <1>3 DEF Started
<1>5. kind = "sdk" => (\A s \in seen : s <= cursor) /\ (cursor = 0 => seen = {})
  BY <1>3 DEF CatchUpFirst
<1>6. kind = "sdk" => SinceCursor = IF cursor = 0 THEN LiveOnly ELSE cursor
  BY DEF SinceCursor
<1>7. Covers'
  <2>1. ASSUME NEW p \in FollowedEvents, Started(p), kind = "sdk" PROVE Got(p) \/ Promised(p)'
    <3>1. p \in Owed
      BY <1>1, <2>1, OwedStarts
    <3>2. CASE p <= cursor
      BY <2>1, <3>1, <3>2 DEF NothingBehind
    <3>3. CASE ~(p <= cursor)
      <4>1. cursor < p /\ SinceCursor < p
        BY <1>3, <1>6, <2>1, <3>3
      <4> QED
        BY <1>1, <2>1, <4>1 DEF Promised
    <3> QED
      BY <3>2, <3>3
  <2> QED
    BY <1>1, <1>2, <1>3, <1>4, <2>1 DEF Covers, Live
<1>8. ReadsAgain'
  <2>1. kind = "ios" => SinceCursor # LiveOnly
    BY <1>3 DEF SinceCursor
  <2> QED
    BY <1>1, <1>2, <2>1 DEF ReadsAgain
<1>9. NothingBehind'
  <2>1. Owed' = Owed
    BY <1>1, <1>3 DEF Owed
  <2> QED
    BY <1>1, <1>2, <2>1 DEF NothingBehind
<1>10. NoGaps'
  BY <1>1 DEF NoGaps
<1>11. BeforeFirst'
  BY <1>1, <1>3, <1>6 DEF BeforeFirst
<1>12. AfterFirst'
  <2>1. kind = "sdk" /\ seen # {} /\ SinceCursor # LiveOnly => \E s \in seen : s <= SinceCursor
    BY <1>5, <1>6
  <2> QED
    BY <1>1, <1>3, <2>1 DEF AfterFirst
<1>13. CatchUpFirst'
  BY <1>1, <1>3, <1>5, <1>6 DEF CatchUpFirst
<1> QED
  BY <1>7, <1>8, <1>9, <1>10, <1>11, <1>12, <1>13

\* A marker makes the client read everything.
LEMMA MarkerStep ==
  ASSUME SyncInv, ReceiveMarker
  PROVE  Delivery'
<1> USE DEF SyncInv, Delivery
<1>1. /\ UNCHANGED <<log, server, pub, kind, seen, peer>> /\ dirty' = TRUE
      /\ wire # <<>> /\ wire' = Tail(wire) /\ wire[1].sync /\ 1 \in DOMAIN wire
      /\ cursor' = IF kind = "web" THEN cursor ELSE Highest(cursor, Head(wire).from)
  <2>1. wire # <<>> /\ Head(wire).sync
    BY DEF ReceiveMarker
  <2>2. Head(wire) = wire[1] /\ 1 \in DOMAIN wire
    BY <2>1, HeadFrame, SyncNumbers
  <2> QED
    BY <2>1, <2>2 DEF ReceiveMarker, logVars
<1>2. \A p : Got(p)'
  BY <1>1 DEF Got, Reading
<1>3. cursor <= cursor' /\ peer.since \in Int
  <2>1. Head(wire) \in Frames /\ Head(wire).from \in Nat
    BY <1>1, HeadFrame, SyncNumbers DEF Frames
  <2> QED
    BY <1>1, <2>1, SyncNumbers DEF Highest
<1>4. /\ Positions' = Positions /\ FollowedEvents' = FollowedEvents
      /\ \A p : Carried(p)' => Carried(p)
  <2>1. /\ DOMAIN Tail(wire) = 1..Len(Tail(wire)) /\ Len(Tail(wire)) = Len(wire) - 1
        /\ \A i \in 1..Len(Tail(wire)) : Tail(wire)[i] = wire[i + 1]
        /\ DOMAIN wire = 1..Len(wire) /\ Len(wire) \in Nat
    BY <1>1, HeadFrame, SyncNumbers, SequenceEnds
  <2>2. ASSUME NEW p, Carried(p)' PROVE Carried(p)
    <3>1. PICK i \in DOMAIN wire' : ~wire'[i].sync /\ p \in Followed(wire[i])'
      BY <2>2 DEF Carried
    <3>2. i + 1 \in DOMAIN wire /\ wire'[i] = wire[i + 1]
      BY <1>1, <2>1, <3>1
    <3>3. Followed(wire[i])' = Followed(wire[i + 1])
      BY <1>1, <3>2 DEF Followed
    <3> QED
      BY <3>1, <3>2, <3>3 DEF Carried
  <2> QED
    BY <1>1, <2>2 DEF FollowedEvents, Positions
<1>5. Covers' /\ ReadsAgain' /\ NothingBehind' /\ NoGaps'
  <2>1. ReadsAgain'
    BY <1>1, <1>2 DEF ReadsAgain
  <2> QED
    BY <1>2, <2>1 DEF Covers, Live, NothingBehind, NoGaps, NoGap
<1>6. BeforeFirst'
  BY <1>1 DEF BeforeFirst
<1>7. AfterFirst'
  BY <1>1, <1>4 DEF AfterFirst
<1>8. CatchUpFirst'
  <2>1. \A s \in seen : s \in Int
    BY SyncNumbers
  <2>2. cursor' \in Int /\ cursor \in Int
    BY <1>1, SyncNumbers, HeadFrame DEF Highest, Frames
  <2> QED
    BY <1>1, <1>3, <2>1, <2>2 DEF CatchUpFirst
<1> QED
  BY <1>5, <1>6, <1>7, <1>8

\* A commit: what was said of the events so far stays.
LEMMA AppendStep ==
  ASSUME SyncInv, Timely, NEW followed \in BOOLEAN, AppendEvent(followed)
  PROVE  Delivery'
<1> USE DEF SyncInv, Delivery
<1>0. PICK N : N = Len(log)
  OBVIOUS
<1>1. /\ UNCHANGED <<server, pub, kind, cursor, seen, wire, peer, dirty, fetch, view>>
      /\ server = "up"
  BY DEF AppendEvent, Timely, clientVars, readVars
<1>2. /\ N \in Nat /\ Positions = 1..N /\ Positions' = 1..(N + 1)
      /\ \A k \in Positions : log'[k] = log[k]
  BY <1>0, AppendRows, SyncNumbers DEF Positions
<1>3. \A p : Got(p)' = Got(p)
  BY <1>1 DEF Got, Known, Reading
<1>4. /\ FollowedEvents' \subseteq FollowedEvents \cup {N + 1}
      /\ FollowedEvents \subseteq Positions /\ FollowedEvents' \cap Positions = FollowedEvents
  BY <1>2 DEF FollowedEvents
<1>5. \A i \in DOMAIN wire : Followed(wire[i])' = Followed(wire[i]) /\ Followed(wire[i]) \subseteq Positions
  <2>1. ASSUME NEW i \in DOMAIN wire PROVE wire[i].from \in Positions /\ wire[i].upto \in Positions
    BY <2>1, SyncNumbers DEF Frames
  <2>2. ASSUME NEW i \in DOMAIN wire PROVE wire[i].from..wire[i].upto \subseteq Positions
    BY <1>2, <2>1
  <2> QED
    BY <1>1, <1>2, <2>2 DEF Followed
<1>6. /\ \A p : Carried(p)' = Carried(p) /\ OnWire(p)' = OnWire(p)
      /\ \A p : Carried(p) => p \in Positions
      /\ \A i \in DOMAIN wire : \A p : Within(i, p)' = Within(i, p)
  <2>1. DOMAIN wire = 1..Len(wire) /\ Len(wire) \in Nat
    BY SyncNumbers
  <2>2. \A i \in DOMAIN wire : 1..i \subseteq DOMAIN wire
    BY <2>1
  <2> QED
    BY <1>1, <1>5, <2>2 DEF Carried, OnWire, Within
<1>7. \A p \in Positions : Started(p)' = Started(p)
  <2>1. seen \subseteq Positions
    BY SyncNumbers
  <2> QED
    BY <1>1, <1>2, <1>6, <2>1 DEF Started
<1>8. \A p \in Positions : p \in Owed' <=> p \in Owed
  BY <1>1, <1>2 DEF Owed
<1>9. Covers'
  <2>1. ASSUME NEW p \in FollowedEvents, Started(p)', peer.phase # "gone"
        PROVE  Live(p)' \/ Promised(p)'
    BY <1>1, <1>3, <1>4, <1>6, <1>7, <2>1 DEF Covers, Live, Promised
  <2>2. ASSUME peer.phase # "gone" PROVE Live(N + 1)' \/ Promised(N + 1)'
    <3>1. pub < N + 1 /\ peer.since < N + 1 /\ peer.phase \in {"authenticating", "subscribed"}
      BY <1>0, <1>2, <2>2, SyncNumbers
    <3>2. CASE peer.phase = "subscribed"
      BY <1>1, <3>1, <3>2 DEF Live
    <3>3. CASE peer.phase = "authenticating"
      <4>1. kind = "sdk" \/ peer.early \/ dirty
        BY <3>3 DEF ReadsAgain
      <4>2. CASE dirty
        BY <1>1, <4>2 DEF Live, Got, Reading
      <4>3. CASE kind = "sdk" \/ peer.early
        BY <1>1, <3>1, <3>3, <4>3 DEF Promised
      <4> QED
        BY <4>1, <4>2, <4>3
    <3> QED
      BY <3>1, <3>2, <3>3
  <2> QED
    BY <1>1, <1>4, <2>1, <2>2 DEF Covers
<1>10. ReadsAgain' /\ CatchUpFirst'
  BY <1>1, <1>3 DEF ReadsAgain, CatchUpFirst
<1>11. NothingBehind'
  <2>1. \A p \in Owed' : p \in Positions'
    BY DEF Owed
  <2>3. cursor <= N /\ cursor \in Nat
    BY <1>0 DEF ShapeOK, SyncTypeOK
  <2>2. \A p \in Owed' : p <= cursor => p \in Owed
    BY <1>2, <1>8, <2>1, <2>3
  <2> QED
    BY <1>1, <1>3, <2>2 DEF NothingBehind
<1>12. NoGaps'
  <2>1. ASSUME NEW i \in DOMAIN wire, ~wire[i].sync, kind = "sdk",
               NEW q \in Followed(wire[i]), NEW p \in FollowedEvents', p < q, Started(p)'
        PROVE  Got(p) \/ Within(i, p)
    <3>1. q \in Positions /\ p \in Positions
      BY <1>2, <1>4, <1>5, <2>1
    <3>2. p \in FollowedEvents /\ Started(p)
      BY <1>4, <1>7, <2>1, <3>1
    <3> QED
      BY <2>1, <3>2 DEF NoGaps, NoGap
  <2> QED
    BY <1>1, <1>3, <1>5, <1>6, <2>1 DEF NoGaps, NoGap
<1>13. BeforeFirst'
  BY <1>1, <1>2, <1>5, <1>6 DEF BeforeFirst
<1>14. AfterFirst'
  BY <1>1, <1>2, <1>6 DEF AfterFirst
<1> QED
  BY <1>9, <1>10, <1>11, <1>12, <1>13, <1>14

\* A frame more on the wire.
LEMMA LongerWire ==
  ASSUME ShapeOK, UNCHANGED log, NEW w \in Seq(Frames), NEW s \in Frames, w = wire,
         NEW n, n = Len(wire) + 1,
         wire' = Append(w, s)
  PROVE  /\ Len(wire) \in Nat /\ DOMAIN wire = 1..Len(wire) /\ DOMAIN wire' = 1..n
         /\ wire'[n] = s /\ Followed(wire[n])' = Followed(s)
         /\ \A i \in DOMAIN wire : wire'[i] = wire[i] /\ Followed(wire[i])' = Followed(wire[i])
         /\ \A p : OnWire(p) => OnWire(p)'
         /\ \A p : s.sync \/ p \in Followed(s) => OnWire(p)'
         /\ \A p : Carried(p)' <=> Carried(p) \/ (~s.sync /\ p \in Followed(s))
         /\ \A i \in DOMAIN wire : \A p : Within(i, p)' <=> Within(i, p)
         /\ \A p : Within(n, p)' <=> OnWire(p) \/ s.sync \/ p \in Followed(s)
<1>1. /\ Len(wire) \in Nat /\ DOMAIN wire = 1..Len(wire)
      /\ Append(w, s)[Len(w) + 1] = s /\ \A i \in 1..Len(w) : Append(w, s)[i] = w[i]
      /\ Len(Append(w, s)) = Len(w) + 1 /\ Append(w, s) \in Seq(Frames)
  BY SequenceEnds
<1>2. DOMAIN Append(w, s) = 1..Len(Append(w, s))
  BY <1>1, SequenceEnds
<1>3. /\ DOMAIN wire' = 1..(Len(wire) + 1) /\ wire'[Len(wire) + 1] = s
      /\ \A i \in DOMAIN wire : wire'[i] = wire[i]
  BY <1>1, <1>2
<1>5. /\ Followed(wire[n])' = Followed(s)
      /\ \A i \in DOMAIN wire : Followed(wire[i])' = Followed(wire[i])
  BY <1>3 DEF Followed
<1>6. DOMAIN wire' = DOMAIN wire \cup {n} /\ \A i \in DOMAIN wire : 1..i \subseteq DOMAIN wire
  BY <1>1, <1>3
<1>7. 1..n = DOMAIN wire \cup {n} /\ wire'[n] = s
  BY <1>1, <1>3
<1>8. /\ \A p : OnWire(p) => OnWire(p)'
      /\ \A p : s.sync \/ p \in Followed(s) => OnWire(p)'
      /\ \A p : Carried(p)' <=> Carried(p) \/ (~s.sync /\ p \in Followed(s))
  <2>1. \A p : OnWire(p) => OnWire(p)'
    BY <1>3, <1>5, <1>6 DEF OnWire
  <2>2. \A p : s.sync \/ p \in Followed(s) => OnWire(p)'
    BY <1>5, <1>6, <1>7 DEF OnWire
  <2>3. \A p : Carried(p)' => Carried(p) \/ (~s.sync /\ p \in Followed(s))
    BY <1>3, <1>5, <1>6, <1>7 DEF Carried
  <2>4. \A p : Carried(p) \/ (~s.sync /\ p \in Followed(s)) => Carried(p)'
    BY <1>3, <1>5, <1>6, <1>7 DEF Carried
  <2> QED
    BY <2>1, <2>2, <2>3, <2>4
<1>9. \A i \in DOMAIN wire : \A p : Within(i, p)' <=> Within(i, p)
  BY <1>3, <1>5, <1>6 DEF Within
<1>10. \A p : Within(n, p)' <=> OnWire(p) \/ s.sync \/ p \in Followed(s)
  BY <1>3, <1>5, <1>7 DEF Within, OnWire
<1> QED
  BY <1>1, <1>3, <1>5, <1>8, <1>9, <1>10

\* The publisher's rows go out to whoever is subscribed by now.
LEMMA PublishStep ==
  ASSUME SyncInv, Timely, DrainPublish
  PROVE  Delivery'
<1> USE DEF SyncInv, Delivery
<1>1. /\ UNCHANGED <<log, server, kind, cursor, seen, peer, dirty, fetch, view>>
      /\ pub' = rows /\ pub < rows /\ rows \in Positions /\ pub + 1 \in Positions
      /\ server = "up" /\ pub \in Nat /\ rows \in Nat
      /\ wire' = IF peer.phase = "subscribed" THEN Push(wire, Span(pub + 1, rows)) ELSE wire
      /\ kind = "sdk" => peer.replay = "none"
  <2>1. /\ pub \in Nat /\ rows \in Nat /\ pub < rows /\ rows <= Len(log) /\ Len(log) \in Nat
        /\ server # "up" => pub = 0 /\ rows = 0
    BY DEF DrainPublish, ShapeOK, SyncTypeOK, Structure
  <2> QED
    BY <2>1 DEF DrainPublish, Timely, Positions, clientVars, readVars
<1>2. \A p : Got(p)' = Got(p)
  BY <1>1 DEF Got, Known, Reading
<1>3. /\ Positions' = Positions /\ FollowedEvents' = FollowedEvents /\ FollowedEvents \subseteq Positions
      /\ seen \subseteq Positions /\ \A p \in Positions : p \in Nat
      /\ \A p : Promised(p)' = Promised(p)
  BY <1>1, SyncNumbers DEF FollowedEvents, Positions, Promised
<1>4. ReadsAgain' /\ NothingBehind'
  <2>1. Owed' = Owed
    BY <1>1, <1>3 DEF Owed
  <2>2. peer.phase = "authenticating" => wire' = wire
    BY <1>1
  <2> QED
    BY <1>1, <1>2, <2>1, <2>2 DEF ReadsAgain, NothingBehind
<1>5. CatchUpFirst'
  BY <1>1 DEF CatchUpFirst, ShapeOK, Structure
<1>6. CASE wire' = wire /\ (peer.phase = "subscribed" => \A p \in FollowedEvents : ~(pub < p /\ p <= rows))
  <2>1. /\ \A i : Followed(wire[i])' = Followed(wire[i])
        /\ \A p : Carried(p)' = Carried(p) /\ OnWire(p)' = OnWire(p)
        /\ \A i, p : Within(i, p)' = Within(i, p)
    BY <1>1, <1>6, SameWire
  <2>2. \A p : Started(p)' = Started(p)
    BY <1>1, <1>3, <2>1 DEF Started
  <2>3. \A p \in FollowedEvents : Live(p) => Live(p)'
    BY <1>1, <1>2, <1>3, <1>6, <2>1 DEF Live
  <2>4. Covers'
    BY <1>1, <1>3, <2>2, <2>3 DEF Covers
  <2>5. NoGaps'
    BY <1>1, <1>2, <1>3, <1>6, <2>1, <2>2 DEF NoGaps, NoGap
  <2>6. BeforeFirst' /\ AfterFirst'
    <3>1. \A q \in Positions : q <= pub => q <= rows
      BY <1>1, <1>3
    <3>2. BeforeFirst'
      BY <1>1, <1>3, <1>6, <2>1, <3>1 DEF BeforeFirst
    <3>3. AfterFirst'
      BY <1>1, <1>3, <2>1, <3>1 DEF AfterFirst
    <3> QED
      BY <3>2, <3>3
  <2> QED
    BY <1>4, <1>5, <2>4, <2>5, <2>6
<1>7. ASSUME peer.phase = "subscribed", NEW s \in Frames, s = Span(pub + 1, rows), wire' = Append(wire, s)
      PROVE  Delivery'
  <2>8. PICK n : n = Len(wire) + 1
    OBVIOUS
  <2>0. wire \in Seq(Frames) /\ ~s.sync /\ Followed(s) = {p \in (pub + 1)..rows : log[p]}
    BY <1>7, SyncNumbers, SpanFrame
  <2>1. /\ Len(wire) \in Nat /\ DOMAIN wire = 1..Len(wire) /\ DOMAIN wire' = 1..n
        /\ wire'[n] = s /\ Followed(wire[n])' = Followed(s)
        /\ \A i \in DOMAIN wire : wire'[i] = wire[i] /\ Followed(wire[i])' = Followed(wire[i])
        /\ \A p : OnWire(p) => OnWire(p)'
        /\ \A p : p \in Followed(s) => OnWire(p)'
        /\ \A p : Carried(p)' <=> Carried(p) \/ p \in Followed(s)
        /\ \A i \in DOMAIN wire : \A p : Within(i, p)' <=> Within(i, p)
        /\ \A p : Within(n, p)' <=> OnWire(p) \/ p \in Followed(s)
    BY <1>1, <1>7, <2>0, <2>8, LongerWire
  <2>2. /\ \A p \in Positions : p \in Followed(s) <=> p \in FollowedEvents /\ pub < p /\ p <= rows
        /\ Followed(s) \subseteq FollowedEvents
    <3>1. \A p \in (pub + 1)..rows : p \in Positions
      BY <1>1 DEF Positions, ShapeOK, SyncTypeOK
    <3> QED
      BY <1>1, <1>3, <2>0, <3>1 DEF FollowedEvents
  <2>3. \A p \in Positions : p <= pub => (Started(p)' <=> Started(p))
    BY <1>1, <1>3, <2>1, <2>2 DEF Started
  <2>4. Covers'
    <3>1. ASSUME NEW p \in FollowedEvents, Started(p)' PROVE Live(p)' \/ Promised(p)'
      <4>1. CASE p <= pub
        <5>1. Live(p) \/ Promised(p)
          BY <1>3, <1>7, <2>3, <3>1, <4>1 DEF Covers
        <5>2. ~(pub < p)
          BY <1>1, <1>3, <4>1
        <5> QED
          BY <1>1, <1>2, <1>3, <1>7, <2>1, <5>1, <5>2 DEF Live
      <4>2. CASE pub < p /\ p <= rows
        BY <1>1, <1>3, <1>7, <2>1, <2>2, <4>2 DEF Live
      <4>3. CASE rows < p
        BY <1>1, <1>7, <4>3 DEF Live
      <4> QED
        BY <1>1, <1>3, <4>1, <4>2, <4>3
    <3> QED
      BY <1>3, <3>1 DEF Covers
  <2>5. NoGaps'
    <3>1. ASSUME kind = "sdk", NEW i \in DOMAIN wire, ~wire[i].sync, NEW q \in Followed(wire[i]),
                 NEW p \in FollowedEvents, p < q, Started(p)'
          PROVE  Got(p) \/ Within(i, p)
      <4>1. q \in Positions /\ Carried(q)
        BY <3>1, SyncNumbers DEF Carried
      <4>2. PICK a \in Positions : a < p /\ (a \in seen \/ Carried(a) \/ a \in Followed(s))
        BY <1>1, <1>3, <2>1, <3>1 DEF Started
      <4>3. Started(p)
        <5>1. CASE a \in seen \/ Carried(a)
          BY <4>2, <5>1 DEF Started
        <5>2. CASE a \in Followed(s)
          <6>1. pub < a
            BY <2>2, <5>2
          <6>2. ~(q <= pub)
            BY <1>1, <1>3, <3>1, <4>1, <4>2, <6>1
          <6>3. seen # {}
            BY <1>1, <3>1, <4>1, <6>2 DEF BeforeFirst
          <6>4. PICK b \in seen : b <= pub
            BY <1>1, <3>1, <6>3 DEF AfterFirst
          <6>5. b < p /\ b \in Positions
            BY <1>1, <1>3, <4>2, <6>1, <6>4
          <6> QED
            BY <6>5 DEF Started
        <5> QED
          BY <4>2, <5>1, <5>2
      <4> QED
        BY <3>1, <4>3 DEF NoGaps, NoGap
    <3>2. ASSUME kind = "sdk", NEW q \in Followed(s), NEW p \in FollowedEvents, p < q, Started(p)'
          PROVE  Got(p) \/ OnWire(p) \/ p \in Followed(s)
      <4>1. q \in Positions /\ q <= rows
        BY <1>3, <2>2
      <4>2. CASE p <= pub
        <5>1. Live(p) \/ Promised(p)
          BY <1>3, <1>7, <2>3, <3>2, <4>2 DEF Covers
        <5>2. ~(pub < p) /\ ~Promised(p)
          BY <1>1, <1>3, <1>7, <3>2, <4>2 DEF Promised
        <5> QED
          BY <5>1, <5>2 DEF Live
      <4>3. CASE ~(p <= pub)
        BY <1>1, <1>3, <2>2, <3>2, <4>1, <4>3
      <4> QED
        BY <4>2, <4>3
    <3>3. ASSUME kind = "sdk", NEW i \in DOMAIN wire', ~wire'[i].sync PROVE NoGap(i)'
      <4>1. CASE i \in DOMAIN wire
        BY <1>2, <1>3, <2>1, <3>1, <3>3, <4>1 DEF NoGap
      <4>2. CASE i = n
        BY <1>2, <1>3, <2>1, <3>2, <3>3, <4>2 DEF NoGap
      <4> QED
        BY <2>1, <2>8, <3>3, <4>1, <4>2
    <3> QED
      BY <1>1, <3>3 DEF NoGaps
  <2>6. BeforeFirst'
    <3> SUFFICES ASSUME kind = "sdk", seen = {} PROVE BeforeFirst'
      BY <1>1 DEF BeforeFirst
    <3>1. \A i \in DOMAIN wire' : ~wire'[i].sync
      <4>1. \A i \in DOMAIN wire : ~wire[i].sync
        BY DEF BeforeFirst
      <4> QED
        BY <2>0, <2>1, <2>8, <4>1
    <3>2. \A q \in Positions : Carried(q) => q <= pub
      BY <1>1 DEF BeforeFirst
    <3>3. \A q \in Positions : Carried(q)' => q <= rows
      BY <1>1, <1>3, <2>1, <2>2, <3>2
    <3>4. ASSUME NEW i \in DOMAIN wire', NEW j \in DOMAIN wire', i < j,
                 NEW a \in Followed(wire[i])', NEW b \in Followed(wire[j])'
          PROVE  a < b
      <4>1. i \in DOMAIN wire
        BY <2>1, <2>8, <3>4
      <4>2. a \in Followed(wire[i]) /\ a \in Positions /\ Carried(a)
        <5>1. a \in Followed(wire[i]) /\ ~wire[i].sync
          BY <2>1, <3>1, <3>4, <4>1
        <5> QED
          BY <4>1, <5>1, SyncNumbers DEF Carried
      <4>3. CASE j \in DOMAIN wire
        <5>1. b \in Followed(wire[j])
          BY <2>1, <3>4, <4>3
        <5>2. \A k, l \in DOMAIN wire : k < l =>
                \A x \in Followed(wire[k]), y \in Followed(wire[l]) : x < y
          BY DEF BeforeFirst
        <5> QED
          BY <3>4, <4>1, <4>2, <4>3, <5>1, <5>2
      <4>4. CASE j = n
        <5>1. b \in Followed(s)
          BY <2>1, <3>4, <4>4
        <5>2. pub < b /\ b \in Positions
          BY <1>3, <2>2, <5>1
        <5> QED
          BY <1>1, <1>3, <3>2, <4>2, <5>2
      <4> QED
        BY <2>1, <2>8, <3>4, <4>3, <4>4
    <3> QED
      BY <1>1, <1>3, <3>1, <3>3, <3>4 DEF BeforeFirst
  <2>7. AfterFirst'
    <3> SUFFICES ASSUME kind = "sdk", seen # {} PROVE AfterFirst'
      BY <1>1 DEF AfterFirst
    <3>1. PICK a \in seen : a <= pub
      BY <1>1 DEF AfterFirst
    <3>2. a \in Nat /\ a <= rows
      BY <1>1, <1>3, <3>1
    <3>3. ASSUME NEW q \in Positions, q \in Followed(s) PROVE a <= q
      BY <1>1, <1>3, <2>2, <3>1, <3>2, <3>3
    <3>4. \A q \in Positions : Carried(q)' => \E b \in seen : b <= q
      BY <2>1, <3>3 DEF AfterFirst
    <3> QED
      BY <1>1, <1>3, <3>2, <3>4 DEF AfterFirst
  <2> QED
    BY <1>4, <1>5, <2>4, <2>5, <2>6, <2>7
<1>8. CASE peer.phase # "subscribed"
  BY <1>1, <1>6, <1>8
<1>9. CASE peer.phase = "subscribed"
  <2>1. PICK s : s = Span(pub + 1, rows)
    OBVIOUS
  <2>2. s \in Frames /\ Followed(s) = {p \in (pub + 1)..rows : log[p]}
    BY <1>1, <2>1, SpanFrame
  <2>3. \/ wire' = Append(wire, s)
        \/ wire' = wire /\ Followed(s) = {}
    BY <1>1, <1>9, <2>1, PushFrame
  <2>4. CASE wire' = Append(wire, s)
    BY <1>7, <1>9, <2>1, <2>2, <2>4
  <2>5. CASE wire' = wire /\ Followed(s) = {}
    <3>1. \A p \in FollowedEvents : ~(pub < p /\ p <= rows)
      BY <1>1, <1>3, <2>2, <2>5 DEF FollowedEvents
    <3> QED
      BY <1>6, <2>5, <3>1
  <2> QED
    BY <2>3, <2>4, <2>5
<1> QED
  BY <1>8, <1>9

\* The catch-up comes after the cursor, before anything else, and brings all it promised.
LEMMA ReplayStep ==
  ASSUME SyncInv, ReplaySend
  PROVE  Delivery'
<1> USE DEF SyncInv, Delivery
<1>1. /\ UNCHANGED <<log, server, pub, kind, cursor, seen, dirty, fetch, view>>
      /\ peer.replay = "read" /\ peer.phase = "subscribed" /\ peer.since # LiveOnly
      /\ peer'.phase = "subscribed" /\ peer'.since = peer.since /\ peer'.early = peer.early
      /\ peer'.replay = "none"
  BY DEF ReplaySend, logVars, clientVars, readVars, ShapeOK, SyncTypeOK, Structure
<1>2. \A p : Got(p)' = Got(p)
  BY <1>1 DEF Got, Known, Reading
<1>3. /\ Positions' = Positions /\ FollowedEvents' = FollowedEvents /\ FollowedEvents \subseteq Positions
      /\ seen \subseteq Positions /\ \A p \in Positions : p \in Nat /\ p >= 1 /\ p <= Len(log)
      /\ pub \in Nat /\ cursor \in Nat /\ Len(log) \in Nat
  BY <1>1, SyncNumbers DEF FollowedEvents, Positions
<1>4. /\ peer.since \in Nat /\ peer.upto \in 0..Len(log) /\ Limit \in Nat
      /\ peer.since + Limit \in Nat
  BY ReplayFrames, SyncAssumption DEF ShapeOK, SyncTypeOK, SyncAssumption
<1>5. PICK s : s = Span(peer.since + 1, Lowest(peer.upto, peer.since + Limit))
  OBVIOUS
<1>6. /\ ~s.sync /\ Followed(s) \subseteq FollowedEvents
      /\ \A p \in FollowedEvents : p \in Followed(s) <=>
           peer.since < p /\ p <= peer.upto /\ p <= peer.since + Limit
  <2>1. /\ ~s.sync
        /\ Followed(s) = {p \in (peer.since + 1)..Lowest(peer.upto, peer.since + Limit) : log[p]}
    BY <1>5, SpanFrame
  <2>2. /\ Lowest(peer.upto, peer.since + Limit) \in Nat
        /\ Lowest(peer.upto, peer.since + Limit) <= Len(log)
        /\ \A p \in Nat : p <= Lowest(peer.upto, peer.since + Limit) <=>
             p <= peer.upto /\ p <= peer.since + Limit
    BY <1>3, <1>4 DEF Lowest
  <2>3. \A p \in (peer.since + 1)..Lowest(peer.upto, peer.since + Limit) : p \in Positions
    BY <1>3, <1>4, <2>2 DEF Positions
  <2> QED
    BY <1>3, <1>4, <2>1, <2>2, <2>3 DEF FollowedEvents
<1>7. PICK mid \in Seq(Frames) :
        /\ \/ mid = Append(wire, s) /\ s \in Frames
           \/ mid = wire /\ Followed(s) = {}
        /\ \/ /\ wire' = Append(mid, Marker(peer.since + Limit + 1))
              /\ Marker(peer.since + Limit + 1) \in Frames
              /\ peer.upto > peer.since + Limit
           \/ wire' = mid /\ peer.upto <= peer.since + Limit
  BY <1>5, ReplayFrames
\* What the longer wire holds.
<1>8. /\ wire \in Seq(Frames) /\ Len(wire) \in Nat /\ DOMAIN wire = 1..Len(wire)
  BY SyncNumbers
<1>9. PICK m : m = Marker(peer.since + Limit + 1)
  OBVIOUS
<1>10. m.sync = TRUE
  BY <1>9, SpanFrame
<1>11. /\ Len(mid) \in Nat /\ DOMAIN mid = 1..Len(mid)
       /\ Len(wire) <= Len(mid) /\ Len(mid) <= Len(wire) + 1
       /\ \A i \in DOMAIN wire : mid[i] = wire[i]
       /\ \A i \in DOMAIN mid : i \in DOMAIN wire \/ (i = Len(wire) + 1 /\ mid[i] = s)
       /\ Followed(s) # {} => Len(wire) + 1 \in DOMAIN mid /\ mid[Len(wire) + 1] = s
  <2>1. CASE mid = wire /\ Followed(s) = {}
    BY <1>8, <2>1
  <2>2. CASE mid = Append(wire, s) /\ s \in Frames
    <3>1. /\ Len(mid) = Len(wire) + 1 /\ mid[Len(wire) + 1] = s
          /\ \A i \in 1..Len(wire) : mid[i] = wire[i]
          /\ mid \in Seq(Frames)
      BY <1>8, <2>2, SequenceEnds
    <3>2. DOMAIN mid = 1..Len(mid)
      BY <3>1, SequenceEnds
    <3> QED
      BY <1>8, <3>1, <3>2
  <2> QED
    BY <1>7, <2>1, <2>2
<1>12. /\ DOMAIN wire \subseteq DOMAIN wire' /\ \A i \in DOMAIN wire : wire'[i] = wire[i]
       /\ \A i \in DOMAIN wire' :
            i \in DOMAIN wire \/ (i = Len(wire) + 1 /\ wire'[i] = s) \/ wire'[i].sync
       /\ Followed(s) # {} => \E i \in DOMAIN wire' : wire'[i] = s
       /\ peer.upto > peer.since + Limit => \E i \in DOMAIN wire' : wire'[i].sync
       /\ DOMAIN wire' \subseteq Nat
  <2>1. CASE wire' = mid /\ peer.upto <= peer.since + Limit
    BY <1>4, <1>8, <1>11, <2>1
  <2>2. CASE wire' = Append(mid, m) /\ m \in Frames
    <3>1. /\ Len(wire') = Len(mid) + 1 /\ wire'[Len(mid) + 1] = m
          /\ \A i \in 1..Len(mid) : wire'[i] = mid[i]
          /\ wire' \in Seq(Frames)
      BY <1>7, <2>2, SequenceEnds
    <3>2. DOMAIN wire' = 1..Len(wire')
      BY <3>1, SequenceEnds
    <3> QED
      BY <1>8, <1>10, <1>11, <3>1, <3>2
  <2> QED
    BY <1>7, <1>9, <2>1, <2>2
<1>13. \A i : /\ i \in DOMAIN wire => Followed(wire[i])' = Followed(wire[i])
              /\ wire'[i] = s => Followed(wire[i])' = Followed(s)
  BY <1>1, <1>12 DEF Followed
<1>14. /\ \A p : OnWire(p) => OnWire(p)'
       /\ \A p \in FollowedEvents : peer.since < p /\ p <= peer.upto => OnWire(p)'
       /\ \A p : Carried(p)' => Carried(p) \/ p \in Followed(s)
  <2>1. \A p : OnWire(p) => OnWire(p)'
    BY <1>12, <1>13 DEF OnWire
  <2>2. ASSUME NEW p \in FollowedEvents, peer.since < p, p <= peer.upto PROVE OnWire(p)'
    <3>1. CASE p <= peer.since + Limit
      <4>1. p \in Followed(s)
        BY <1>6, <2>2, <3>1
      <4> QED
        BY <1>12, <1>13, <4>1 DEF OnWire
    <3>2. CASE ~(p <= peer.since + Limit)
      <4>1. peer.upto > peer.since + Limit
        BY <1>3, <1>4, <2>2, <3>2
      <4> QED
        BY <1>12, <4>1 DEF OnWire
    <3> QED
      BY <3>1, <3>2
  <2>3. \A p : Carried(p)' => Carried(p) \/ p \in Followed(s)
    BY <1>12, <1>13 DEF Carried
  <2> QED
    BY <2>1, <2>2, <2>3
\* What sdk has before the catch-up, and that it starts nothing new.
<1>15. kind = "sdk" => /\ wire = <<>> /\ DOMAIN wire = {} /\ seen # {} /\ peer.since <= cursor
                       /\ \E a \in seen : a <= peer.since
  <2>1. kind = "sdk" => wire = <<>> /\ seen # {} /\ peer.since <= cursor
    BY <1>1 DEF CatchUpFirst, BeforeFirst
  <2> QED
    BY <1>1, <2>1 DEF AfterFirst
<1>16. \A p \in Positions : Started(p)' => Started(p)
  <2>1. ASSUME kind = "sdk", NEW p \in Positions, NEW b \in Positions, b < p,
               b \in seen \/ Carried(b) \/ b \in Followed(s)
        PROVE  \E a \in Positions : a < p /\ (a \in seen \/ Carried(a))
    <3>1. PICK a \in seen : a <= peer.since
      BY <1>15, <2>1
    <3>2. CASE b \in Followed(s)
      <4>1. peer.since < b
        BY <1>6, <3>2
      <4> QED
        BY <1>3, <1>4, <2>1, <3>1, <4>1
    <3> QED
      BY <2>1, <3>2
  <2> QED
    BY <1>1, <1>3, <1>14, <2>1 DEF Started
<1>17. Covers'
  <2>1. ASSUME NEW p \in FollowedEvents, Started(p)' PROVE Live(p)'
    <3>1. Live(p) \/ Promised(p)
      BY <1>1, <1>3, <1>16, <2>1 DEF Covers
    <3>2. Promised(p) => peer.since < p /\ p <= peer.upto
      BY <1>1 DEF Promised
    <3> QED
      BY <1>1, <1>2, <1>14, <3>1, <3>2 DEF Live
  <2> QED
    BY <1>3, <2>1 DEF Covers
<1>18. ReadsAgain' /\ NothingBehind' /\ CatchUpFirst'
  <2>1. Owed' = Owed
    BY <1>1, <1>3 DEF Owed
  <2> QED
    BY <1>1, <1>2, <2>1 DEF ReadsAgain, NothingBehind, CatchUpFirst
<1>19. NoGaps'
  <2>1. ASSUME kind = "sdk", NEW i \in DOMAIN wire', ~wire'[i].sync PROVE NoGap(i)'
    <3>1. i = Len(wire) + 1 /\ wire'[i] = s /\ i \in 1..i
      BY <1>8, <1>12, <1>15, <2>1
    <3>2. ASSUME NEW q \in Followed(s), NEW p \in FollowedEvents, p < q, Started(p)'
          PROVE  Got(p) \/ p \in Followed(s)
      <4>1. p \in Owed
        BY <1>3, <1>15, <1>16, <2>1, <3>2, OwedStarts
      <4>2. CASE p <= peer.since
        <5>1. p <= cursor
          BY <1>3, <1>4, <1>15, <2>1, <4>2
        <5> QED
          BY <2>1, <4>1, <5>1 DEF NothingBehind
      <4>3. CASE ~(p <= peer.since)
        BY <1>3, <1>4, <1>6, <3>2, <4>3
      <4> QED
        BY <4>2, <4>3
    <3>3. Followed(wire[i])' = Followed(s)
      BY <1>13, <3>1
    <3>4. ASSUME NEW p, p \in Followed(s) PROVE Within(i, p)'
      BY <3>1, <3>3, <3>4 DEF Within
    <3> QED
      BY <1>2, <1>3, <3>2, <3>3, <3>4 DEF NoGap
  <2> QED
    BY <1>1, <2>1 DEF NoGaps
<1>20. BeforeFirst'
  BY <1>1, <1>15 DEF BeforeFirst
<1>21. AfterFirst'
  <2>1. ASSUME kind = "sdk", NEW q \in Positions, Carried(q)' PROVE \E a \in seen : a <= q
    <3>1. PICK a \in seen : a <= peer.since
      BY <1>15, <2>1
    <3>2. Carried(q) \/ q \in Followed(s)
      BY <1>14, <2>1
    <3>3. CASE q \in Followed(s)
      <4>1. peer.since < q
        BY <1>6, <3>3
      <4> QED
        BY <1>3, <1>4, <3>1, <4>1
    <3>4. CASE Carried(q)
      BY <1>15, <2>1, <3>4 DEF Carried
    <3> QED
      BY <3>2, <3>3, <3>4
  <2> QED
    BY <1>1, <1>3, <2>1 DEF AfterFirst
<1> QED
  BY <1>17, <1>18, <1>19, <1>20, <1>21

\* Taking an event off the wire takes nothing else off: every frame that is left
\* was there, behind the same frames and perhaps the first.
LEMMA TakenWire ==
  ASSUME ShapeOK, ReceiveEvent
  PROVE  \E p \in FollowedEvents :
           /\ TakeEvent(p) /\ Carried(p) /\ 1 \in DOMAIN wire /\ ~wire[1].sync /\ p \in Followed(wire[1])
           /\ \A q \in Followed(wire[1]) : p <= q
           /\ \A q : OnWire(q) => OnWire(q)' \/ q = p
           /\ \A q : Carried(q)' => Carried(q)
           /\ \A i \in DOMAIN wire' : \E j \in DOMAIN wire :
                /\ wire'[i].sync = wire[j].sync
                /\ Followed(wire[i])' \subseteq Followed(wire[j])
                /\ \A q : Within(j, q) => Within(i, q)' \/ q = p
<1>1. PICK p \in Positions :
           /\ wire # <<>> /\ ~wire[1].sync /\ p \in Followed(wire[1])
           /\ \A q \in Followed(wire[1]) : p <= q
           /\ TakeEvent(p)
           /\ wire' \in Seq(Frames)
           /\ \/ wire' = Tail(wire) /\ Followed(wire[1]) = {p}
              \/ /\ Len(wire') = Len(wire) /\ \A i \in 2..Len(wire) : wire'[i] = wire[i]
                 /\ ~wire'[1].sync /\ wire'[1].upto = wire[1].upto /\ wire'[1].from = p + 1
  BY TakenFrame
<1>2. /\ wire \in Seq(Frames) /\ Len(wire) \in Nat /\ DOMAIN wire = 1..Len(wire)
      /\ Len(wire) > 0 /\ Len(Tail(wire)) = Len(wire) - 1
      /\ \A i \in 1..Len(Tail(wire)) : Tail(wire)[i] = wire[i + 1]
      /\ \A i \in DOMAIN wire : Followed(wire[i]) \subseteq FollowedEvents
      /\ FollowedEvents \subseteq Positions /\ \A q \in Positions : q \in Nat
      /\ log' = log
  BY <1>1, HeadFrame, SyncNumbers DEF ReceiveEvent, logVars
<1>3. DOMAIN wire' = 1..Len(wire') /\ 1 \in DOMAIN wire /\ p \in Nat
  BY <1>1, <1>2, SequenceEnds
<1>4. p \in FollowedEvents /\ Carried(p)
  BY <1>1, <1>2, <1>3 DEF Carried
<1>5. ASSUME wire' = Tail(wire), Followed(wire[1]) = {p}
      PROVE  /\ \A q : OnWire(q) => OnWire(q)' \/ q = p
             /\ \A i \in DOMAIN wire' : \E j \in DOMAIN wire :
                  /\ wire'[i].sync = wire[j].sync
                  /\ Followed(wire[i])' \subseteq Followed(wire[j])
                  /\ \A q : Within(j, q) => Within(i, q)' \/ q = p
  <2>1. /\ DOMAIN wire' = 1..(Len(wire) - 1)
        /\ \A i \in 1..(Len(wire) - 1) : wire'[i] = wire[i + 1]
    BY <1>2, <1>3, <1>5
  <2>2. \A i \in 1..(Len(wire) - 1) : Followed(wire[i])' = Followed(wire[i + 1])
    BY <1>2, <2>1 DEF Followed
  <2>3. ASSUME NEW q, NEW n \in 1..Len(wire), q # p, NEW k \in 1..n, wire[k].sync \/ q \in Followed(wire[k])
        PROVE  k - 1 \in 1..(n - 1) /\ (wire'[k - 1].sync \/ q \in Followed(wire[k - 1])')
    <3>1. k # 1
      BY <1>1, <1>5, <2>3
    <3>2. k - 1 \in 1..(Len(wire) - 1) /\ k - 1 \in 1..(n - 1) /\ (k - 1) + 1 = k
      BY <1>2, <2>3, <3>1
    <3>3. wire'[k - 1] = wire[k]
      BY <2>1, <3>2
    <3>4. PICK l : l = k - 1
      OBVIOUS
    <3>5. Followed(wire[l])' = Followed(wire[k])
      BY <1>2, <3>3, <3>4 DEF Followed
    <3> QED
      BY <2>3, <3>2, <3>3, <3>4, <3>5
  <2>4. \A q : OnWire(q) => OnWire(q)' \/ q = p
    <3>1. ASSUME NEW q, OnWire(q), q # p PROVE OnWire(q)'
      <4>1. PICK k \in 1..Len(wire) : wire[k].sync \/ q \in Followed(wire[k])
        BY <1>2, <3>1 DEF OnWire
      <4>2. Len(wire) \in 1..Len(wire)
        BY <1>2
      <4>3. k - 1 \in 1..(Len(wire) - 1) /\ (wire'[k - 1].sync \/ q \in Followed(wire[k - 1])')
        BY <2>3, <3>1, <4>1, <4>2
      <4> QED
        BY <2>1, <4>3 DEF OnWire
    <3> QED
      BY <3>1
  <2>5. ASSUME NEW i \in DOMAIN wire'
        PROVE  \E j \in DOMAIN wire :
                  /\ wire'[i].sync = wire[j].sync
                  /\ Followed(wire[i])' \subseteq Followed(wire[j])
                  /\ \A q : Within(j, q) => Within(i, q)' \/ q = p
    <3>1. i \in 1..(Len(wire) - 1) /\ i + 1 \in 1..Len(wire) /\ (i + 1) - 1 = i
      BY <1>2, <2>1, <2>5
    <3>2. ASSUME NEW q, Within(i + 1, q), q # p PROVE Within(i, q)'
      <4>1. PICK k \in 1..(i + 1) : wire[k].sync \/ q \in Followed(wire[k])
        BY <3>2 DEF Within
      <4>2. k - 1 \in 1..i /\ (wire'[k - 1].sync \/ q \in Followed(wire[k - 1])')
        <5>1. PICK n \in 1..Len(wire) : n = i + 1 /\ n - 1 = i
          BY <3>1
        <5> QED
          BY <2>3, <3>2, <4>1, <5>1
      <4> QED
        BY <4>2 DEF Within
    <3> QED
      BY <1>2, <2>1, <2>2, <3>1, <3>2
  <2> QED
    BY <2>4, <2>5
<1>6. ASSUME Len(wire') = Len(wire), \A i \in 2..Len(wire) : wire'[i] = wire[i],
             ~wire'[1].sync, wire'[1].upto = wire[1].upto, wire'[1].from = p + 1
      PROVE  /\ \A q : OnWire(q) => OnWire(q)' \/ q = p
             /\ \A i \in DOMAIN wire' : \E j \in DOMAIN wire :
                  /\ wire'[i].sync = wire[j].sync
                  /\ Followed(wire[i])' \subseteq Followed(wire[j])
                  /\ \A q : Within(j, q) => Within(i, q)' \/ q = p
  <2>1. DOMAIN wire' = DOMAIN wire /\ \A i \in DOMAIN wire : i = 1 \/ i \in 2..Len(wire)
    BY <1>2, <1>3, <1>6
  <2>2. \A i \in 2..Len(wire) : Followed(wire[i])' = Followed(wire[i]) /\ wire'[i].sync = wire[i].sync
    BY <1>2, <1>6 DEF Followed
  <2>3. Followed(wire[1])' = {q \in (p + 1)..wire[1].upto : log[q]}
    BY <1>2, <1>6 DEF Followed
  <2>4. /\ wire[1].from \in Nat /\ wire[1].upto \in Nat /\ wire[1].from <= p
        /\ Followed(wire[1]) = {q \in wire[1].from..wire[1].upto : log[q]}
    <3>1. wire[1] \in Frames
      BY <1>2, <1>3, SequenceEnds
    <3>2. wire[1].from \in Nat /\ wire[1].upto \in Nat
      BY <1>2, <3>1 DEF Frames
    <3> QED
      BY <1>1, <3>2 DEF Followed
  <2>5. /\ Followed(wire[1])' \subseteq Followed(wire[1])
        /\ \A q \in Followed(wire[1]) : q \in Followed(wire[1])' \/ q = p
    BY <1>1, <1>3, <2>3, <2>4
  <2>6. /\ \A i \in DOMAIN wire : wire'[i].sync = wire[i].sync /\ Followed(wire[i])' \subseteq Followed(wire[i])
        /\ \A i \in DOMAIN wire : \A q \in Followed(wire[i]) : q \in Followed(wire[i])' \/ q = p
    <3>1. ~wire[1].sync /\ wire'[1].sync \in BOOLEAN /\ wire[1].sync \in BOOLEAN
      <4>1. wire[1] \in Frames /\ wire'[1] \in Frames
        BY <1>1, <1>2, <1>3, <2>1, SequenceEnds
      <4> QED
        BY <1>1, <4>1 DEF Frames
    <3>2. wire'[1].sync = wire[1].sync
      BY <1>6, <3>1
    <3> QED
      BY <2>1, <2>2, <2>5, <3>2
  <2>7. \A i \in DOMAIN wire : 1..i \subseteq DOMAIN wire
    BY <1>2
  <2>8. \A i \in DOMAIN wire : \A q : Within(i, q) => Within(i, q)' \/ q = p
    BY <2>1, <2>6, <2>7 DEF Within
  <2>9. \A q : OnWire(q) => OnWire(q)' \/ q = p
    BY <2>1, <2>6 DEF OnWire
  <2> QED
    BY <2>1, <2>6, <2>8, <2>9
<1>7. /\ \A q : OnWire(q) => OnWire(q)' \/ q = p
      /\ \A i \in DOMAIN wire' : \E j \in DOMAIN wire :
           /\ wire'[i].sync = wire[j].sync
           /\ Followed(wire[i])' \subseteq Followed(wire[j])
           /\ \A q : Within(j, q) => Within(i, q)' \/ q = p
  BY <1>1, <1>5, <1>6
<1>8. \A q : Carried(q)' => Carried(q)
  BY <1>7 DEF Carried
<1> QED
  BY <1>1, <1>3, <1>4, <1>7, <1>8

\* The client takes an event: web and ios read, sdk moves its cursor over it.
LEMMA EventStep ==
  ASSUME SyncInv, ReceiveEvent
  PROVE  Delivery'
<1> USE DEF SyncInv, Delivery
<1>1. PICK p \in FollowedEvents :
           /\ TakeEvent(p) /\ Carried(p) /\ 1 \in DOMAIN wire /\ ~wire[1].sync /\ p \in Followed(wire[1])
           /\ \A q \in Followed(wire[1]) : p <= q
           /\ \A q : OnWire(q) => OnWire(q)' \/ q = p
           /\ \A q : Carried(q)' => Carried(q)
           /\ \A i \in DOMAIN wire' : \E j \in DOMAIN wire :
                /\ wire'[i].sync = wire[j].sync
                /\ Followed(wire[i])' \subseteq Followed(wire[j])
                /\ \A q : Within(j, q) => Within(i, q)' \/ q = p
  BY TakenWire
<1>2. /\ UNCHANGED <<log, server, pub, kind, fetch, view, peer>> /\ wire # <<>>
      /\ cursor' = IF kind = "web" THEN cursor ELSE Highest(cursor, p)
      /\ seen' = IF kind = "web" THEN seen ELSE seen \cup {p}
      /\ dirty' = (dirty \/ kind = "web" \/ (kind = "ios" /\ p \notin seen))
      /\ kind \in {"sdk", "web", "ios"}
  BY <1>1, SyncAssumption DEF ReceiveEvent, TakeEvent, logVars, ShapeOK, SyncTypeOK, SyncAssumption
<1>3. /\ Positions' = Positions /\ FollowedEvents' = FollowedEvents /\ FollowedEvents \subseteq Positions
      /\ seen \subseteq Positions /\ \A q \in Positions : q \in Nat /\ q >= 1
      /\ pub \in Nat /\ cursor \in Nat /\ p \in Nat /\ p \in Positions /\ peer.since \in Int
  BY <1>1, <1>2, SyncNumbers DEF FollowedEvents, Positions
<1>4. \A q : Got(q) => Got(q)'
  <2>1. (dirty => dirty') /\ seen \subseteq seen'
    BY <1>2
  <2> QED
    BY <1>2, <2>1, GotMore
<1>5. \A q : Promised(q)' = Promised(q)
  BY <1>2 DEF Promised
<1>6. CASE kind # "sdk"
  <2>1. peer.phase # "gone" => Got(p)'
    <3>1. CASE dirty'
      BY <3>1 DEF Got, Reading
    <3>2. CASE ~dirty' /\ peer.phase # "gone"
      <4>1. kind = "ios" /\ p \in seen
        BY <1>2, <1>6, <3>2
      <4>2. Got(p)
        BY <3>2, <4>1 DEF ReadsAgain
      <4> QED
        BY <1>4, <4>2
    <3> QED
      BY <3>1, <3>2
  <2>2. \A q : peer.phase # "gone" /\ Live(q) => Live(q)'
    BY <1>1, <1>2, <1>4, <2>1 DEF Live
  <2>3. \A q : Started(q) /\ Started(q)'
    BY <1>2, <1>6 DEF Started
  <2>4. Covers'
    BY <1>2, <1>3, <1>5, <2>2, <2>3 DEF Covers
  <2>5. ReadsAgain'
    <3>1. peer.phase = "authenticating" => FALSE
      BY <1>2, <1>6 DEF ReadsAgain
    <3>2. kind = "ios" /\ peer.phase # "gone" => \A q \in seen' : Got(q)'
      <4>1. kind = "ios" /\ peer.phase # "gone" => \A q \in seen : Got(q)
        BY <1>6 DEF ReadsAgain
      <4> QED
        BY <1>2, <1>4, <2>1, <4>1
    <3> QED
      BY <1>2, <1>6, <3>1, <3>2 DEF ReadsAgain
  <2>6. NothingBehind' /\ NoGaps' /\ BeforeFirst' /\ AfterFirst' /\ CatchUpFirst'
    BY <1>2, <1>6 DEF NothingBehind, NoGaps, BeforeFirst, AfterFirst, CatchUpFirst
  <2> QED
    BY <2>4, <2>5, <2>6
<1>7. CASE kind = "sdk"
  <2>1. seen' = seen \cup {p} /\ cursor' = Highest(cursor, p) /\ Got(p)'
    BY <1>2, <1>7 DEF Got, Known
  <2>2. cursor' \in Nat /\ cursor <= cursor' /\ p <= cursor' /\ (cursor' = cursor \/ cursor' = p)
    BY <1>3, <2>1 DEF Highest
  <2>3. \A q : Started(q)' => Started(q)
    BY <1>1, <1>2, <1>3, <1>7, <2>1 DEF Started
  <2>4. Covers'
    <3>1. \A q : Live(q) => Live(q)'
      BY <1>1, <1>2, <1>4, <2>1 DEF Live
    <3> QED
      BY <1>2, <1>3, <1>5, <2>3, <3>1 DEF Covers
  <2>5. ReadsAgain'
    BY <1>2, <1>7 DEF ReadsAgain
  <2>6. seen # {} => \E a \in seen : a <= p
    BY <1>1, <1>3, <1>7 DEF AfterFirst
  <2>7. NothingBehind'
    <3>1. ASSUME NEW q \in Owed', q <= cursor' PROVE Got(q)'
      <4>1. /\ q \in FollowedEvents /\ q \in Positions /\ q \in Nat
            /\ \E a \in seen \cup {p} : a < q
        BY <1>2, <1>3, <1>7, <2>1, <3>1 DEF Owed, FollowedEvents
      <4>2. Started(q)
        BY <1>1, <1>3, <1>7, <4>1 DEF Started
      <4>3. CASE q <= cursor
        <5>1. seen # {}
          BY <1>3, <1>7, <4>1, <4>3 DEF BeforeFirst
        <5>2. PICK a \in seen : a <= p
          BY <2>6, <5>1
        <5>3. q \in Owed
          BY <1>3, <4>1, <5>2 DEF Owed, FollowedEvents
        <5> QED
          BY <1>4, <1>7, <4>3, <5>3 DEF NothingBehind
      <4>4. CASE ~(q <= cursor)
        <5>1. q <= p
          BY <1>3, <2>2, <3>1, <4>1, <4>4
        <5>2. CASE q = p
          BY <2>1, <5>2
        <5>3. CASE q < p
          <6>1. NoGap(1)
            BY <1>1, <1>7 DEF NoGaps
          <6>2. Got(q) \/ Within(1, q)
            BY <1>1, <4>1, <4>2, <5>3, <6>1 DEF NoGap
          <6>3. ~Within(1, q)
            <7>1. q \notin Followed(wire[1])
              BY <1>1, <1>3, <4>1, <5>3
            <7>2. 1..1 = {1}
              OBVIOUS
            <7> QED
              BY <1>1, <7>1, <7>2 DEF Within
          <6> QED
            BY <1>4, <6>2, <6>3
        <5> QED
          BY <1>3, <4>1, <5>1, <5>2, <5>3
      <4> QED
        BY <4>3, <4>4
    <3> QED
      BY <3>1 DEF NothingBehind
  <2>8. NoGaps'
    <3>1. ASSUME NEW i \in DOMAIN wire', ~wire'[i].sync PROVE NoGap(i)'
      <4>1. PICK j \in DOMAIN wire :
              /\ wire'[i].sync = wire[j].sync
              /\ Followed(wire[i])' \subseteq Followed(wire[j])
              /\ \A q : Within(j, q) => Within(i, q)' \/ q = p
        BY <1>1, <3>1
      <4>2. NoGap(j)
        BY <1>7, <3>1, <4>1 DEF NoGaps
      <4>3. ASSUME NEW q \in Followed(wire[i])', NEW x \in FollowedEvents, x < q, Started(x)'
            PROVE  Got(x)' \/ Within(i, x)'
        <5>1. Got(x) \/ Within(j, x)
          BY <2>3, <4>1, <4>2, <4>3 DEF NoGap
        <5> QED
          BY <1>4, <2>1, <4>1, <5>1
      <4> QED
        BY <1>3, <4>3 DEF NoGap
    <3> QED
      BY <3>1 DEF NoGaps
  <2>9. BeforeFirst'
    BY <2>1 DEF BeforeFirst
  <2>10. AfterFirst'
    <3>1. server = "up" => \E a \in seen' : a <= pub
      <4>1. CASE seen = {}
        BY <1>1, <1>3, <1>7, <2>1, <4>1 DEF BeforeFirst
      <4>2. CASE seen # {}
        BY <1>7, <2>1, <4>2 DEF AfterFirst
      <4> QED
        BY <4>1, <4>2
    <3>2. ASSUME NEW q \in Positions, Carried(q) PROVE \E a \in seen' : a <= q
      <4>1. CASE seen = {}
        <5>1. PICK i \in DOMAIN wire : q \in Followed(wire[i])
          BY <3>2 DEF Carried
        <5>2. i = 1 \/ 1 < i
          BY <5>1, SyncNumbers
        <5>3. CASE 1 < i
          <6>1. \A k, l \in DOMAIN wire : k < l =>
                  \A x \in Followed(wire[k]), y \in Followed(wire[l]) : x < y
            BY <1>7, <4>1 DEF BeforeFirst
          <6>2. p < q
            BY <1>1, <5>1, <5>3, <6>1
          <6> QED
            BY <1>3, <2>1, <6>2
        <5>4. CASE i = 1
          BY <1>1, <2>1, <5>1, <5>4
        <5> QED
          BY <5>2, <5>3, <5>4
      <4>2. CASE seen # {}
        BY <1>7, <2>1, <3>2, <4>2 DEF AfterFirst
      <4> QED
        BY <4>1, <4>2
    <3>3. peer.since # LiveOnly => \E a \in seen' : a <= peer.since
      <4>1. CASE seen = {}
        BY <1>7, <4>1 DEF BeforeFirst
      <4>2. CASE seen # {}
        BY <1>7, <2>1, <4>2 DEF AfterFirst
      <4> QED
        BY <4>1, <4>2
    <3> QED
      BY <1>1, <1>2, <1>3, <3>1, <3>2, <3>3 DEF AfterFirst
  <2>11. CatchUpFirst'
    <3>1. /\ \A s \in seen : s <= cursor
          /\ peer.since <= cursor
          /\ ~(peer.phase = "authenticating" \/ peer.replay # "none")
      BY <1>2, <1>7 DEF CatchUpFirst
    <3>2. \A s \in seen' : s <= cursor'
      BY <1>3, <2>1, <2>2, <3>1
    <3>3. peer.since <= cursor'
      BY <1>3, <2>2, <3>1
    <3> QED
      BY <1>2, <3>1, <3>2, <3>3 DEF CatchUpFirst
  <2> QED
    BY <2>4, <2>5, <2>7, <2>8, <2>9, <2>10, <2>11
<1> QED
  BY <1>6, <1>7

LEMMA DeliveryStep == Timely /\ SyncInv /\ [SyncNext]_syncVars => SyncInv'
<1> SUFFICES ASSUME Timely, SyncInv, [SyncNext]_syncVars PROVE SyncInv'
  OBVIOUS
<1>1. ShapeOK'
  BY ShapeStep DEF SyncInv
<1>2. ASSUME ServerStop \/ ServerStart \/ Reject \/ Drop \/ NoticeClose \/ Suspend PROVE Delivery'
  BY <1>2, EndsStep
<1>3. ASSUME DrainRead \/ DrainFails \/ Read \/ ReadAnswered \/ ReadFails \/ UNCHANGED syncVars
      PROVE  Delivery'
  BY <1>3, ReadsStep
<1>4. ASSUME PublisherStart PROVE Delivery'
  BY <1>4, PublisherStep
<1>5. ASSUME Subscribe PROVE Delivery'
  BY <1>5, SubscribeStep
<1>6. ASSUME ReplayRead \/ ReplayFails PROVE Delivery'
  BY <1>6, ReplayReadStep
<1>7. ASSUME ReplaySend PROVE Delivery'
  BY <1>7, ReplayStep
<1>8. ASSUME DrainPublish PROVE Delivery'
  BY <1>8, PublishStep
<1>9. ASSUME ReceiveEvent PROVE Delivery'
  BY <1>9, EventStep
<1>10. ASSUME ReceiveMarker PROVE Delivery'
  BY <1>10, MarkerStep
<1>11. ASSUME NEW followed \in BOOLEAN, AppendEvent(followed) PROVE Delivery'
  BY <1>11, AppendStep
<1>12. ASSUME NEW early \in BOOLEAN, Connect(early) PROVE Delivery'
  BY <1>12, ConnectStep
<1>13. Delivery'
  BY <1>2, <1>3, <1>4, <1>5, <1>6, <1>7, <1>8, <1>9, <1>10, <1>11, <1>12 DEF SyncNext
<1> QED
  BY <1>1, <1>13 DEF SyncInv

LEMMA DeliveryInit == SyncInit => SyncInv
<1> SUFFICES ASSUME SyncInit PROVE SyncInv
  OBVIOUS
<1>1. ShapeOK
  BY SyncStartsWell
<1>2. /\ log = <<>> /\ Len(log) = 0 /\ wire = <<>> /\ seen = {} /\ cursor = 0 /\ peer = Gone
      /\ DOMAIN wire = {} /\ Positions = {}
  BY DEF SyncInit, Positions
<1>3. peer.phase = "gone" /\ peer.since = LiveOnly /\ peer.replay = "none" /\ LiveOnly = -1
  BY <1>2 DEF Gone, LiveOnly
<1>4. Covers /\ ReadsAgain /\ NothingBehind /\ NoGaps
  BY <1>2, <1>3 DEF Covers, ReadsAgain, NothingBehind, NoGaps, Owed
<1>5. BeforeFirst /\ AfterFirst /\ CatchUpFirst
  BY <1>2, <1>3 DEF BeforeFirst, AfterFirst, CatchUpFirst, Carried
<1> QED
  BY <1>1, <1>4, <1>5 DEF SyncInv, Delivery

LEMMA DeliveryForgetsNothing == Timely /\ SyncInv => NothingForgotten
<1> SUFFICES ASSUME Timely, SyncInv, NEW p \in Owed, ~Got(p), ~Disconnected(p) PROVE Subscribed(p)
  BY DEF NothingForgotten, Got
<1> USE DEF SyncInv, Delivery
<1>1. p \in FollowedEvents /\ Started(p) /\ p \in Nat /\ cursor \in Nat
      /\ peer.phase \in {"gone", "authenticating", "subscribed"} /\ peer.since \in Int
      /\ kind \in {"sdk", "web", "ios"} /\ peer.since \in Nat \cup {LiveOnly}
  BY OwedStarts, SyncNumbers, SyncAssumption DEF ShapeOK, SyncTypeOK, SyncAssumption
<1>2. kind = "sdk" => cursor < p
  BY <1>1 DEF NothingBehind
<1>3. socket = "open" /\ peer.phase # "gone"
  BY <1>2 DEF Disconnected
<1>4. Live(p) \/ Promised(p)
  BY <1>1, <1>3 DEF Covers
<1>5. CASE Live(p)
  BY <1>3, <1>5 DEF Live, Subscribed
<1>6. CASE Promised(p)
  <2>1. CASE peer.phase = "authenticating"
    <3>1. peer.since # LiveOnly
      <4>1. CASE kind = "sdk"
        BY <1>1, <2>1, <4>1 DEF CatchUpFirst, Started, Carried
      <4>2. CASE kind # "sdk"
        <5>1. kind = "ios"
          BY <1>1, <1>6, <4>2 DEF Promised, Timely, ShapeOK, Structure
        <5> QED
          BY <1>3, <5>1 DEF ReadsAgain
      <4> QED
        BY <4>1, <4>2
    <3>2. LiveOnly < peer.since
      BY <1>1, <3>1 DEF LiveOnly
    <3> QED
      BY <1>3, <1>6, <2>1, <3>2 DEF Promised, Subscribed
  <2>2. CASE peer.phase # "authenticating"
    <3>1. peer.replay # "none" /\ peer.phase = "subscribed"
      BY <1>1, <1>3, <1>6, <2>2 DEF Promised
    <3> QED
      BY <1>3, <1>6, <3>1 DEF Promised, Subscribed
  <2> QED
    BY <2>1, <2>2
<1> QED
  BY <1>4, <1>5, <1>6

\* With the timing the code relies on, an event the client should know of and
\* does not is always still to come, over any number of commits, lost connections,
\* suspensions, restarts, failed reads and batches.
THEOREM NothingIsForgotten ==
  ASSUME Timely
  PROVE  SyncSpec => []NothingForgotten
<1>1. SyncInv /\ [SyncNext]_syncVars => SyncInv'
  BY DeliveryStep
<1>2. SyncInv => NothingForgotten
  BY DeliveryForgetsNothing
<1> QED
  BY <1>1, <1>2, DeliveryInit, PTL DEF SyncSpec

===============================================================================
