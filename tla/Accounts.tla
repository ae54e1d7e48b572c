------------------------------- MODULE Accounts -------------------------------
(***************************************************************************)
(* Accounts as a whole: signing in (Login), and the sessions, devices and  *)
(* sockets that come of it (Access).  They write different tables, and     *)
(* Access begins from any member that Login may have found.                *)
(***************************************************************************)
EXTENDS Login, Access

AccountsSpec == LoginSpec /\ AccessSpec

\* Sign-in is single-use and tied to its browser, a subject keeps its account
\* (auth-routes.ts, auth-service.ts); nothing issued before a suspension works
\* after it, and the sockets of a dead credential are closed (device-service.ts,
\* member-suspension-service.ts, ws/device-connections.ts).
AccountsHold == LoginHolds /\ AccessHolds
===============================================================================
