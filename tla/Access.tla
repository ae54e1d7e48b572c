-------------------------------- MODULE Access --------------------------------
(***************************************************************************)
(* Who may act and over which socket: sign-in and sessions                 *)
(* (auth/auth-service.ts, auth-routes.ts, request-auth.ts), the pairing and *)
(* revocation of devices (device-service.ts), the suspension of members    *)
(* (member-suspension-service.ts), and the registry of device sockets      *)
(* (ws/device-connections.ts) with the two WebSocket routes that fill it.  *)
(*                                                                         *)
(* A step is a transaction, a read whose result is used later, or the      *)
(* continuation that uses it.  A credential is a session or one of the two *)
(* tokens of a device.  A clock tick is the 30 seconds after which a       *)
(* client socket is checked again.                                         *)
(***************************************************************************)
EXTENDS FiniteSets, Integers

CONSTANTS Members, Codes, Devices, Sessions, Sockets,
          CodeLife, SessionLife, ControlLife,   \* lifetimes, in ticks
          LastTick,                             \* bound: the last instant
          MaxSuspensions                        \* bound: per member

ASSUME AccessAssumption ==
  CodeLife \in Nat /\ SessionLife \in Nat /\ ControlLife \in Nat /\ LastTick \in Nat

VARIABLES suspended,   \* members that are suspended
          epoch,       \* ghost: suspensions of a member so far
          code,        \* pairing codes
          claim,       \* claim[d]: the code a claim for d has found pending
          device,      \* devices
          session,     \* sessions
          signing,     \* members between provisionUser and createSession
          socket,      \* sockets of clients and nodes
          closing,     \* pairs of a device and the kinds of sockets a handler
                       \* has still to close
          now          \* the clock

memberVars == <<suspended, epoch>>
pairingVars == <<code, claim>>
accessVars == <<memberVars, pairingVars, device, session, signing, socket,
                closing, now>>

Absent == [is |-> "none"]
AllKinds == {"control", "node"}
Never == LastTick + 9   \* later than any expiry
Credentials == {<<"session", s>> : s \in Sessions} \cup
               {<<kind, d>> : kind \in {"control", "node"}, d \in Devices}

AccessInit ==
  /\ suspended = {}
  /\ epoch = [u \in Members |-> 0]
  /\ code = [c \in Codes |-> Absent]
  /\ claim = [d \in Devices |-> {}]
  /\ device = [d \in Devices |-> Absent]
  /\ session = [s \in Sessions |-> Absent]
  /\ signing = {}
  /\ socket = [k \in Sockets |-> Absent]
  /\ closing = {}
  /\ now = 0

----------------------------------------------------------------------------
(* Sessions *)

\* The callback of an OAuth flow: provisionUser rejects a suspended member ...
ProvisionUser(u) ==
  /\ u \notin suspended
  /\ signing' = signing \cup {u}
  /\ UNCHANGED <<memberVars, pairingVars, device, session, socket, closing, now>>

\* ... and createSession looks again in a transaction of its own.
CreateSession(u, s) ==
  /\ u \in signing
  /\ session[s] = Absent
  /\ signing' = signing \ {u}
  /\ session' = IF u \in suspended THEN session
                ELSE [session EXCEPT ![s] = [is |-> "active", user |-> u,
                                             expires |-> now + SessionLife,
                                             dead |-> Never, epoch |-> epoch[u]]]
  /\ UNCHANGED <<memberVars, pairingVars, device, socket, closing, now>>

----------------------------------------------------------------------------
(* Devices *)

CreatePairing(u, c) ==
  /\ u \notin suspended
  /\ code[c] = Absent
  /\ code' = [code EXCEPT ![c] = [is |-> "pending", user |-> u,
                                  expires |-> now + CodeLife, epoch |-> epoch[u]]]
  /\ UNCHANGED <<memberVars, claim, device, session, signing, socket, closing, now>>

\* claimPairing before its transaction: the expiry of a late code is committed.
ReadPairing(d, c) ==
  /\ device[d] = Absent /\ claim[d] = {}
  /\ code[c].is = "pending"
  /\ IF code[c].expires <= now
       THEN /\ code' = [code EXCEPT ![c].is = "expired"]
            /\ UNCHANGED claim
       ELSE /\ claim' = [claim EXCEPT ![d] = {c}]
            /\ UNCHANGED code
  /\ UNCHANGED <<memberVars, device, session, signing, socket, closing, now>>

\* The transaction: refused for a suspended member, or when another claim or a
\* suspension has taken the code since.
ClaimPairing(d) ==
  \E c \in claim[d] :
    /\ claim' = [claim EXCEPT ![d] = {}]
    /\ IF code[c].is = "pending" /\ code[c].user \notin suspended
         THEN /\ code' = [code EXCEPT ![c].is = "claimed"]
              /\ device' = [device EXCEPT ![d] =
                   [is |-> "active", user |-> code[c].user, code |-> c,
                    tokens |-> AllKinds,
                    expires |-> now + ControlLife, dead |-> Never,
                    epoch |-> code[c].epoch]]
         ELSE UNCHANGED <<code, device>>
    /\ UNCHANGED <<memberVars, session, signing, socket, closing, now>>

\* A device loses tokens; `dead` is a ghost, when a control token stopped.
Without(d, kinds) ==
  [device[d] EXCEPT !.tokens = @ \ kinds,
                    !.dead = IF "control" \in device[d].tokens \cap kinds THEN now ELSE @]
Revoked(d) == [Without(d, AllKinds) EXCEPT !.is = "revoked"]

\* The route of a device's revocation: the transaction of revokeDevice, and in
\* its continuation closeForDevice.
RevokeDevice(d) ==
  /\ device[d] # Absent
  /\ device' = IF device[d].is = "active" THEN [device EXCEPT ![d] = Revoked(d)] ELSE device
  /\ closing' = closing \cup {<<d, AllKinds>>}
  /\ UNCHANGED <<memberVars, pairingVars, session, signing, socket, now>>

----------------------------------------------------------------------------
(* Members *)

EndSession(s) ==
  IF session[s].is = "active" THEN [session[s] EXCEPT !.is = "revoked", !.dead = now]
  ELSE session[s]

OwnedBy(u) == {d \in Devices : device[d] # Absent /\ device[d].user = u}

\* Mutant: pending pairing codes are forgotten.
MutSuspend(u) ==
  /\ epoch[u] < MaxSuspensions
  /\ suspended' = suspended \cup {u}
  /\ epoch' = [epoch EXCEPT ![u] = @ + 1]
  /\ device' = [d \in Devices |-> IF d \in OwnedBy(u) THEN Revoked(d) ELSE device[d]]
  /\ session' = [s \in Sessions |->
       IF session[s] # Absent /\ session[s].user = u
       THEN EndSession(s) ELSE session[s]]
  /\ closing' = closing \cup (OwnedBy(u) \X {AllKinds})
  /\ UNCHANGED <<pairingVars, signing, socket, now>>

\* setMemberSuspension(true); the route closes the sockets of the devices
\* afterwards.
Suspend(u) ==
  /\ epoch[u] < MaxSuspensions
  /\ suspended' = suspended \cup {u}
  /\ epoch' = [epoch EXCEPT ![u] = @ + 1]
  /\ device' = [d \in Devices |-> IF d \in OwnedBy(u) THEN Revoked(d) ELSE device[d]]
  /\ session' = [s \in Sessions |->
       IF session[s] # Absent /\ session[s].user = u
       THEN EndSession(s) ELSE session[s]]
  /\ code' = [c \in Codes |->
       IF code[c].is = "pending" /\ code[c].user = u
       THEN [code[c] EXCEPT !.is = "expired"] ELSE code[c]]
  /\ closing' = closing \cup (OwnedBy(u) \X {AllKinds})
  /\ UNCHANGED <<claim, signing, socket, now>>

\* setMemberSuspension(false): nothing comes back by itself.
Reinstate(u) ==
  /\ u \in suspended
  /\ suspended' = suspended \ {u}
  /\ UNCHANGED <<epoch, pairingVars, device, session, signing, socket, closing, now>>

----------------------------------------------------------------------------
(* Credentials and sockets *)

\* resolveSession, resolveDeviceToken and resolveRequestPrincipal.
Valid(cred) ==
  IF cred[1] = "session"
  THEN LET s == session[cred[2]]
       IN  s.is = "active" /\ s.expires > now /\ s.user \notin suspended
  ELSE LET d == device[cred[2]]
       IN  /\ d.is = "active"
           /\ cred[1] \in d.tokens
           /\ cred[1] = "control" => d.expires > now
           /\ d.user \notin suspended

Live == {k \in Sockets : socket[k].is = "live"}

\* The sockets the registry holds for a device.
Registered(d) == {k \in Live : socket[k].cred[2] = d /\ socket[k].cred[1] # "session"}

Closed(K) == [k \in Sockets |-> IF k \in K THEN [is |-> "closed"] ELSE socket[k]]

\* closeForDevice, the continuation of a revocation, suspension or logout.
CloseForDevice(d, kinds) ==
  /\ <<d, kinds>> \in closing
  /\ socket' = Closed({k \in Registered(d) : socket[k].cred[1] \in kinds})
  /\ closing' = closing \ {<<d, kinds>>}
  /\ UNCHANGED <<memberVars, pairingVars, device, session, signing, now>>

\* A socket opens and its credential is read; the handler goes on later, and
\* joins the hub or the registry without looking again.
Authenticate(k, cred) ==
  /\ socket[k] = Absent
  /\ Valid(cred)
  /\ socket' = [socket EXCEPT ![k] = [is |-> "granted", cred |-> cred,
                                      checked |-> FALSE, straddled |-> FALSE]]
  /\ UNCHANGED <<memberVars, pairingVars, device, session, signing, closing, now>>

\* `straddled` records that the credential died between the two steps.
JoinRegistry(k) ==
  /\ socket[k].is = "granted"
  /\ socket' = [socket EXCEPT ![k].is = "live", ![k].checked = TRUE,
                              ![k].straddled = ~Valid(socket[k].cred)]
  /\ UNCHANGED <<memberVars, pairingVars, device, session, signing, closing, now>>

\* The timer of a client socket; nodes have none.
Revalidate(k) ==
  /\ k \in Live
  /\ socket[k].cred[1] # "node"
  /\ ~socket[k].checked
  /\ socket' = IF Valid(socket[k].cred)
               THEN [socket EXCEPT ![k].checked = TRUE]
               ELSE Closed({k})
  /\ UNCHANGED <<memberVars, pairingVars, device, session, signing, closing, now>>

Hangup(k) ==
  /\ socket[k].is \in {"granted", "live"}
  /\ socket' = Closed({k})
  /\ UNCHANGED <<memberVars, pairingVars, device, session, signing, closing, now>>

\* POST /auth/logout with a session: its row only.
LogoutSession(s) ==
  /\ Valid(<<"session", s>>)
  /\ session' = [session EXCEPT ![s] = EndSession(s)]
  /\ UNCHANGED <<memberVars, pairingVars, device, signing, socket, closing, now>>

\* POST /auth/logout with a control token: the token, and then the control
\* sockets of the device; its node stays.
LogoutControl(d) ==
  /\ Valid(<<"control", d>>)
  /\ device' = [device EXCEPT ![d] = Without(d, {"control"})]
  /\ closing' = closing \cup {<<d, {"control"}>>}
  /\ UNCHANGED <<memberVars, pairingVars, session, signing, socket, now>>

\* Thirty seconds pass; every client socket was checked in them, and no
\* authentication takes that long.
AccessTick ==
  /\ now < LastTick
  /\ \A k \in Sockets : socket[k].is # "granted"
  /\ \A k \in Live : socket[k].cred[1] # "node" => socket[k].checked
  /\ now' = now + 1
  /\ socket' = [k \in Sockets |->
       IF k \in Live THEN [socket[k] EXCEPT !.checked = FALSE] ELSE socket[k]]
  /\ UNCHANGED <<memberVars, pairingVars, device, session, signing, closing>>

AccessNext ==
  \/ \E u \in Members :
       \/ ProvisionUser(u) \/ Suspend(u) \/ Reinstate(u)
       \/ \E s \in Sessions : CreateSession(u, s)
       \/ \E c \in Codes : CreatePairing(u, c)
  \/ \E d \in Devices :
       \/ \E c \in Codes : ReadPairing(d, c)
       \/ ClaimPairing(d) \/ RevokeDevice(d) \/ LogoutControl(d)
       \/ \E kinds \in {AllKinds, {"control"}} : CloseForDevice(d, kinds)
  \/ \E s \in Sessions : LogoutSession(s)
  \/ \E k \in Sockets :
       \/ \E cred \in Credentials : Authenticate(k, cred)
       \/ JoinRegistry(k) \/ Revalidate(k) \/ Hangup(k)
  \/ AccessTick

AccessSpec == AccessInit /\ [][AccessNext]_accessVars

----------------------------------------------------------------------------
(* Properties *)

\* A credential that works was issued, down to the pairing code it comes from,
\* after the last suspension of its member.
NothingOutlivesSuspension ==
  \A cred \in Credentials : Valid(cred) =>
    LET row == IF cred[1] = "session" THEN session[cred[2]] ELSE device[cred[2]]
    IN  row.epoch = epoch[row.user] /\ row.user \notin suspended

\* A code makes one device.
CodeUsedOnce ==
  \A d, e \in Devices :
    (device[d] # Absent /\ device[e] # Absent /\ device[d].code = device[e].code) => d = e

\* Once the handler that revoked a device has closed its sockets, none is left
\* but one whose authentication the revocation overtook.
RevokedIsCut ==
  \A d \in Devices :
    (device[d].is = "revoked" /\ <<d, AllKinds>> \notin closing) =>
      \A k \in Registered(d) : socket[k].straddled

\* A client socket outlives its credential by less than two checks, whichever
\* way the credential ended.
ClientsAreChecked ==
  \A k \in Live : socket[k].cred[1] # "node" =>
    LET cred == socket[k].cred
        row == IF cred[1] = "session" THEN session[cred[2]] ELSE device[cred[2]]
        since == IF socket[k].checked THEN now ELSE now - 1
    IN  row.dead >= since /\ row.expires >= since

\* However sign-ins, pairings, claims, revocations, suspensions and logouts of
\* devices and members cross authentications under way (device-service.ts,
\* member-suspension-service.ts, request-auth.ts, device-connections.ts),
\* nothing issued before a suspension works after it, a pairing code makes one
\* device, and the sockets of a dead credential are closed.
AccessHolds ==
  NothingOutlivesSuspension /\ CodeUsedOnce /\ RevokedIsCut /\ ClientsAreChecked
=============================================================================
