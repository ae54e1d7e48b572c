----------------------------- MODULE MCCommandReplay -----------------------------
(* Two commands for TLC, as users give them: assign a task, review it. *)
EXTENDS CommandReplay

CONSTANTS assign, review
===============================================================================
