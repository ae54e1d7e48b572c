-------------------------------- MODULE Login --------------------------------
(***************************************************************************)
(* Signing in with the identity provider: the flow rows and the flow       *)
(* cookie of auth/auth-routes.ts and auth-service.ts (createOauthFlow,     *)
(* consumeOauthFlow), the identity of validateIdToken, and provisionUser,  *)
(* which finds, links or creates the user.  Access takes up the session    *)
(* from there.                                                             *)
(*                                                                         *)
(* People open several tabs, reload the page of the callback, pass its     *)
(* address on to another browser, or let a flow grow old, and the provider *)
(* gives a subject another mail address, perhaps one that was somebody     *)
(* else's.                                                                 *)
(***************************************************************************)
EXTENDS Integers

CONSTANTS Browsers, Subjects,  \* subjects of the identity provider
          Mails, Admitted,     \* addresses, and those that authConfig admits
          OldUser, OldMail,    \* users of earlier sign-ins and their addresses
          LastFlow, LastCall   \* bounds: flows started, callbacks requested

VARIABLES flow,      \* rows: status, expiry passed; ghost: the browser that began it
          cookie,    \* the flow whose binding a browser's flow cookie holds, 0: none
          call,      \* requests of the callback
          mail,      \* the table of users: mail[u], "" when there is no user u
          identity,  \* the table of identities: the user of a subject, 0: none
          opened     \* sessions created: of which callback, and for whom

loginVars == <<flow, cookie, call, mail, identity, opened>>

Flows == 1..LastFlow
Calls == 1..LastCall
Users == Calls \cup {OldUser[s] : s \in Subjects}   \* a call creates at most one

\* Those who have signed in before have an account and an address each.
ASSUME LoginAssumption ==
  /\ LastFlow \in Nat /\ LastCall \in Nat /\ "" \notin Mails
  /\ OldUser \in [Subjects -> Nat] /\ OldMail \in [{OldUser[s] : s \in Subjects} -> Mails]
  /\ \A s \in Subjects : OldUser[s] > LastCall
  /\ \A s, t \in Subjects :
       OldUser[s] = OldUser[t] \/ OldMail[OldUser[s]] = OldMail[OldUser[t]] => s = t

NoFlow == [is |-> "none"]
NoCall == [at |-> "none", browser |-> "", flow |-> 0, subject |-> "", binding |-> 0,
           mail |-> "", user |-> 0]

LoginInit ==
  /\ flow = [f \in Flows |-> NoFlow]
  /\ cookie = [b \in Browsers |-> 0]
  /\ call = [k \in Calls |-> NoCall]
  /\ \/ mail = [u \in Users |-> ""] /\ identity = [s \in Subjects |-> 0]
     \/ mail = [u \in Users |-> IF u \in Calls THEN "" ELSE OldMail[u]] /\ identity = OldUser
  /\ opened = {}

-------------------------------------------------------------------------------
(* The browser and the provider *)

\* The cookie of an earlier flow is overwritten.
StartFlow(b, f) ==
  /\ flow[f] = NoFlow /\ \A g \in 1..(f - 1) : flow[g] # NoFlow
  /\ flow' = [flow EXCEPT ![f] = [is |-> "pending", late |-> FALSE, by |-> b]]
  /\ cookie' = [cookie EXCEPT ![b] = f]
  /\ UNCHANGED <<call, mail, identity, opened>>

\* The lifetime of a row passes; a cookie of its age is of no more use.
FlowAges(f) ==
  /\ flow[f].is = "pending" /\ ~flow[f].late
  /\ flow' = [flow EXCEPT ![f].late = TRUE]
  /\ UNCHANGED <<cookie, call, mail, identity, opened>>

\* The provider sends the browser to the callback for the chosen subject; the
\* address may be opened again, and elsewhere.
OpenCallback(b, f, s, k) ==
  /\ call[k].at = "none" /\ \A j \in 1..(k - 1) : call[j].at # "none"
  /\ flow[f] # NoFlow
  /\ call' = [call EXCEPT ![k] = [NoCall EXCEPT !.at = "arrived", !.browser = b,
                                    !.flow = f, !.subject = s, !.binding = cookie[b]]]
  /\ UNCHANGED <<flow, cookie, mail, identity, opened>>

-------------------------------------------------------------------------------
(* The callback *)

To(k, at) == [call EXCEPT ![k].at = at]
Failed(k) == [call EXCEPT ![k] = [NoCall EXCEPT !.at = "failed", !.browser = call[k].browser]]

\* consumeOauthFlow reads the row: the browser is checked before it is taken,
\* and a late row is marked in passing.
CheckFlow(k) ==
  LET row == flow[call[k].flow]
      lapsed == row.is = "pending" /\ row.late /\ call[k].binding # 0
      fits == row.is = "pending" /\ ~row.late /\ call[k].binding = call[k].flow
  IN  /\ call[k].at = "arrived"
      /\ flow' = IF lapsed THEN [flow EXCEPT ![call[k].flow].is = "expired"] ELSE flow
      /\ call' = IF fits THEN To(k, "checked") ELSE Failed(k)
      /\ UNCHANGED <<cookie, mail, identity, opened>>

\* Mutant: the row is taken without asking whether it is still pending.
MutTakeFlow(k) ==
  /\ call[k].at = "checked"
  /\ flow' = [flow EXCEPT ![call[k].flow].is = "consumed"]
  /\ call' = To(k, "taken")
  /\ UNCHANGED <<cookie, mail, identity, opened>>

\* It takes the row, if no other callback has meanwhile.
TakeFlow(k) ==
  LET free == flow[call[k].flow].is = "pending"
  IN  /\ call[k].at = "checked"
      /\ flow' = IF free THEN [flow EXCEPT ![call[k].flow].is = "consumed"] ELSE flow
      /\ call' = IF free THEN To(k, "taken") ELSE Failed(k)
      /\ UNCHANGED <<cookie, mail, identity, opened>>

\* The code is exchanged and the identity token validated, or one of them
\* fails.  The token names the subject's address of the moment, which may have
\* been its own or another's before.
Identify(k) ==
  /\ call[k].at = "taken"
  /\ \/ \E m \in Mails : call' = [call EXCEPT ![k].at = "identified", ![k].mail = m]
     \/ call' = Failed(k)
  /\ UNCHANGED <<flow, cookie, mail, identity, opened>>

WithMail(m) == {u \in Users : mail[u] = m}

\* provisionUser: the policy, on every sign-in; then the user of the subject,
\* else the one with that address, else a new one.  users.email is unique:
\* a known user cannot take an address that is another's.
ResolveUser(k) ==
  LET m == call[k].mail
      s == call[k].subject
      known == {identity[s]} \ {0}
      found == IF known # {} THEN known ELSE WithMail(m)
      user == IF found = {} THEN k ELSE CHOOSE u \in found : TRUE
  IN  /\ call[k].at = "identified"
      /\ IF m \in Admitted /\ WithMail(m) \subseteq {user}
           THEN /\ mail' = [mail EXCEPT ![user] = m]
                /\ identity' = [identity EXCEPT ![s] = user]
                /\ call' = [call EXCEPT ![k].at = "provisioned", ![k].user = user]
           ELSE /\ call' = Failed(k)
                /\ UNCHANGED <<mail, identity>>
      /\ UNCHANGED <<flow, cookie, opened>>

OpenSession(k) ==
  /\ call[k].at = "provisioned"
  /\ opened' = opened \cup {[flow |-> call[k].flow, browser |-> call[k].browser,
                             subject |-> call[k].subject, user |-> call[k].user, call |-> k]}
  /\ call' = To(k, "signed_in")
  /\ UNCHANGED <<flow, cookie, mail, identity>>

\* Every answer clears the flow cookie, whichever flow it has come to hold.
AnswerCall(k) ==
  /\ call[k].at \in {"signed_in", "failed"}
  /\ cookie' = [cookie EXCEPT ![call[k].browser] = 0]
  /\ call' = [call EXCEPT ![k] = [NoCall EXCEPT !.at = "answered"]]
  /\ UNCHANGED <<flow, mail, identity, opened>>

LoginNext ==
  \/ \E b \in Browsers, f \in Flows :
       \/ StartFlow(b, f)
       \/ \E s \in Subjects, k \in Calls : OpenCallback(b, f, s, k)
  \/ \E f \in Flows : FlowAges(f)
  \/ \E k \in Calls : CheckFlow(k) \/ TakeFlow(k) \/ Identify(k)
                        \/ ResolveUser(k) \/ OpenSession(k) \/ AnswerCall(k)

LoginSpec == LoginInit /\ [][LoginNext]_loginVars

-------------------------------------------------------------------------------
(* Properties *)

\* A flow opens one session, in the browser that began it, although its
\* callback is repeated, opened elsewhere, or raced by one of another flow.
OneSessionPerFlow ==
  /\ \A o, p \in opened : o.flow = p.flow => o = p
  /\ \A o \in opened : flow[o.flow].by = o.browser

\* The session is of the account that was chosen, whatever happened to its
\* address while the callback was under way.
SessionOfTheSubject == \A o \in opened : o.user = identity[o.subject]

\* No two accounts share an address, and an account has a way in.
AccountsApart ==
  /\ \A u, v \in Users : mail[u] = mail[v] /\ mail[u] # "" => u = v
  /\ \A u \in Users : mail[u] # "" <=> \E s \in Subjects : identity[s] = u

\* Several tabs, repeated callbacks and addresses that change hands
\* (auth-routes.ts, auth-service.ts): sign-in is single-use and tied to its
\* browser, a subject keeps its account, and accounts stay distinct.
LoginHolds == OneSessionPerFlow /\ SessionOfTheSubject /\ AccountsApart
===============================================================================
