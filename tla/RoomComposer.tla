----------------------------- MODULE RoomComposer -----------------------------
(***************************************************************************)
(* How a message reaches a room once: the composer of the web's            *)
(* RoomConversation.tsx with its stored draft (roomDrafts.ts), the sending *)
(* half of the iOS RoomMessagesViewModel.swift, and postMessage of         *)
(* services/message-service.ts.                                            *)
(*                                                                         *)
(* A text is the number of what the user has typed, a key that of an       *)
(* attempt to send.  A screen that is left and opened again is a mount;    *)
(* requests may reach the server after their sender has given up.          *)
(***************************************************************************)
EXTENDS FiniteSets, Integers

CONSTANTS LastText, LastTry, LastMount, LastSession   \* bounds of the counters

VARIABLES client,    \* "browser" or "phone"
          draft,     \* the draft on the screen
          disk,      \* the stored draft
          texts, tries, mount, generation,   \* counters; the last: draftGeneration
          calls,     \* attempts whose answer the client waits for
          wire,      \* requests on their way
          stored,    \* messages of the room, with the key they were posted under
          unsure,    \* ghost: keys of attempts given up without an answer
          doubted,   \* ghost: texts refused after such an attempt
          earlier    \* ghost: texts up to this one are of logins that ended

countVars == <<texts, tries, mount, generation>>
ghostVars == <<unsure, doubted, earlier>>
composerVars == <<client, draft, disk, countVars, calls, wire, stored, ghostVars>>

NoKey == 0
Draft(text, key, uncertain) == [text |-> text, key |-> key, uncertain |-> uncertain]
Empty == Draft(0, NoKey, FALSE)

ComposerInit ==
  /\ client \in {"browser", "phone"}
  /\ draft = Empty /\ disk = Empty
  /\ texts = 0 /\ tries = 0 /\ mount = 0 /\ generation = 0
  /\ calls = {} /\ wire = {} /\ stored = {}
  /\ unsure = {} /\ doubted = {} /\ earlier = 0

Sending == \E c \in calls : c.mount = mount
Persist(d) == draft' = d /\ disk' = d
Current(c) == c.mount = mount /\ c.session = generation

-----------------------------------------------------------------------------
(* The user *)

\* An uncertain submission locks its text; another text drops the submission.
Type ==
  /\ ~Sending /\ ~draft.uncertain
  /\ texts < LastText
  /\ texts' = texts + 1
  /\ Persist(Draft(texts', NoKey, FALSE))
  /\ UNCHANGED <<client, tries, mount, generation, calls, wire, stored, ghostVars>>

\* The web drops a refused submission too when the text is edited away and back,
\* or another destination or other people are chosen.
Retouch ==
  /\ client = "browser"
  /\ ~Sending /\ ~draft.uncertain /\ draft.key # NoKey
  /\ Persist([draft EXCEPT !.key = NoKey])
  /\ UNCHANGED <<client, countVars, calls, wire, stored, ghostVars>>

\* Mutant: a retry takes a new key.
MutKeyToSend == tries'
\* The key of a submission is that of its first attempt.
KeyToSend == IF draft.key = NoKey THEN tries' ELSE draft.key

SendDraft ==
  /\ ~Sending /\ draft.text # 0
  /\ tries < LastTry
  /\ tries' = tries + 1
  /\ Persist(Draft(draft.text, KeyToSend, TRUE))
  /\ wire' = wire \cup {[try |-> tries', key |-> draft'.key, text |-> draft.text]}
  /\ calls' = calls \cup {[try |-> tries', key |-> draft'.key, text |-> draft.text,
                           mount |-> mount, session |-> generation, answer |-> "none"]}
  /\ UNCHANGED <<client, texts, mount, generation, stored, ghostVars>>

\* The screen is left and opened again.  A component of the web that is gone
\* takes no answer; a view model of the phone lives until its send returns.
Reopen ==
  /\ mount < LastMount
  /\ mount' = mount + 1
  /\ draft' = disk
  /\ calls' = IF client = "phone" THEN calls ELSE {}
  /\ unsure' = unsure \cup {c.key : c \in calls}
  /\ UNCHANGED <<client, disk, texts, tries, generation, wire, stored, doubted, earlier>>

\* The page is reloaded, the application killed and started.
Restart ==
  /\ mount < LastMount
  /\ mount' = mount + 1
  /\ draft' = disk
  /\ calls' = {}
  /\ unsure' = unsure \cup {c.key : c \in calls}
  /\ UNCHANGED <<client, disk, texts, tries, generation, wire, stored, doubted, earlier>>

\* clearRoomDrafts at the end of a web login.  The phone keeps drafts by user.
ClearDrafts ==
  /\ client = "browser"
  /\ generation < LastSession
  /\ generation' = generation + 1
  /\ Persist(Empty)
  /\ earlier' = texts
  /\ UNCHANGED <<client, texts, tries, mount, calls, wire, stored, unsure, doubted>>

-----------------------------------------------------------------------------
(* The server *)

Answered(r, answer) ==
  calls' = {IF c.try = r.try THEN [c EXCEPT !.answer = answer] ELSE c : c \in calls}

\* postMessage: a key that is known answers with its message.
Post(r) ==
  /\ wire' = wire \ {r}
  /\ stored' = IF \E m \in stored : m.key = r.key THEN stored
               ELSE stored \cup {[key |-> r.key, text |-> r.text, try |-> r.try]}
  /\ Answered(r, "ok")
  /\ UNCHANGED <<client, draft, disk, countVars, ghostVars>>

\* It is refused before that, for the credential or the member.  Refusals for
\* the content come after the look for the key, of a message not yet stored.
RefusePost(r) ==
  /\ wire' = wire \ {r}
  /\ Answered(r, "refused")
  /\ UNCHANGED <<client, draft, disk, countVars, stored, ghostVars>>

-----------------------------------------------------------------------------
(* The answers *)

\* The web's onSuccess and the phone's: a view model that was left clears the
\* stored draft.
TakeSuccess(c) ==
  /\ c.answer = "ok"
  /\ calls' = calls \ {c}
  /\ CASE Current(c) -> Persist(Empty)
       [] ~Current(c) /\ client = "phone" -> disk' = Empty /\ UNCHANGED draft
       [] OTHER -> UNCHANGED <<draft, disk>>
  /\ UNCHANGED <<client, countVars, wire, stored, ghostVars>>

\* A refusal (4xx).  The web keeps the submission for the same text and lets it
\* be edited; the phone forgets it on 400, 403, 422 and 428 and else keeps it.
TakeRefusal(c) ==
  /\ c.answer = "refused"
  /\ calls' = calls \ {c}
  /\ \/ /\ client = "browser"
        /\ IF Current(c) THEN Persist(Draft(c.text, c.key, FALSE))
           ELSE UNCHANGED <<draft, disk>>
     \/ /\ client = "phone"
        /\ disk' = Draft(c.text, NoKey, FALSE)
        /\ draft' = IF Current(c) THEN disk' ELSE draft
     \/ /\ client = "phone"
        /\ UNCHANGED <<draft, disk>>
  /\ doubted' = IF c.key \in unsure THEN doubted \cup {c.text} ELSE doubted
  /\ UNCHANGED <<client, countVars, wire, stored, unsure, earlier>>

\* No answer, or one of a failed server: the exact submission is kept.
GiveUp(c) ==
  /\ calls' = calls \ {c}
  /\ IF client = "browser" /\ Current(c) THEN Persist(Draft(c.text, c.key, TRUE))
     ELSE UNCHANGED <<draft, disk>>
  /\ unsure' = unsure \cup {c.key}
  /\ UNCHANGED <<client, countVars, wire, stored, doubted, earlier>>

ComposerNext ==
  \/ Type \/ Retouch \/ SendDraft \/ Reopen \/ Restart \/ ClearDrafts
  \/ \E r \in wire : Post(r) \/ RefusePost(r)
  \/ \E c \in calls : TakeSuccess(c) \/ TakeRefusal(c) \/ GiveUp(c)

-----------------------------------------------------------------------------
(* Properties *)

\* What the user typed once is in the room at most once, however often it was
\* retried over lost answers, late requests, reloads and screens that were left;
\* except when a retry was refused while an earlier attempt had gone unanswered,
\* for then the client takes the refusal for the whole submission.
StoredOnce ==
  \A t \in 1 .. LastText :
    Cardinality({m \in stored : m.text = t}) <= 1 \/ t \in doubted

\* Nothing typed during a login is on the screen or stored after it has ended,
\* whatever answers come late.
DraftOfSession ==
  \A d \in {draft, disk} : d.text # 0 => d.text > earlier

\* The web lets go of a text only when its message is stored, or the user types
\* another or the login ends.
KeptUntilStored ==
  client = "browser" /\ draft.text \notin {0, draft'.text} =>
    texts' > texts \/ generation' > generation \/ \E m \in stored' : m.text = draft.text

\* All of it, of the composers and postMessage: a text is stored once, stays with
\* its login, and is not let go of before it is stored.
ComposerHolds ==
  [][StoredOnce' /\ DraftOfSession' /\ KeptUntilStored]_composerVars

=============================================================================
