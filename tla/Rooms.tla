-------------------------------- MODULE Rooms --------------------------------
(***************************************************************************)
(* A room as a whole, from the keyboard of one member to the screens of    *)
(* the others: how a message is posted (RoomComposer) and how a client     *)
(* shows those there are (RoomTimeline).  What is posted twice and what is *)
(* shown late do not depend on one another: each has its own behaviours.   *)
(***************************************************************************)
EXTENDS RoomTimeline, RoomComposer

TimelineSpec == TimelineInit /\ [][TimelineNext]_timelineVars
ComposerSpec == ComposerInit /\ [][ComposerNext]_composerVars
RoomSpec == TimelineSpec /\ ComposerSpec

\* What is typed once is in the room at most once and with its login only, and
\* what is in the room is shown without a gap, a removed message never again
\* (RoomConversation.tsx, RoomMessagesViewModel.swift, message-service.ts).
RoomHolds == TimelineHolds /\ ComposerHolds
===============================================================================
