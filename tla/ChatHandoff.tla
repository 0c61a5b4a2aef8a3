------------------------------- MODULE ChatHandoff -------------------------------
(* "Continue here": a conversation of OpenCode is read out of its database   *)
(* (chat-importer/src/opencode.ts) and handed to a new session of the        *)
(* harness (workspace-bridge/src/bridge.ts, rpc-client.ts). OpenCode may be  *)
(* writing meanwhile: the three queries of read() are three snapshots.       *)
EXTENDS Integers, Sequences

CONSTANTS MaxMessages, \* bound: messages of the conversation
          MaxParts,    \* bound: text parts of a message
          MaxTries     \* bound: times the user asks to continue

VARIABLES db,      \* the messages, in order: role, number of text parts, or none legible
          there,   \* the session is in the database
          stage,   \* idle, session, messages, parts, creating, prompting, done, failed
          rows,    \* the messages the second query returned
          chat,    \* what read() made of them: <<index, role, parts>> in order
          session, \* the harness session this try created, 0 if none
          made,    \* sessions the harness has, with the number of prompts of each
          tries,   \* times asked
          before   \* history: the database when this try began

vars == <<db, there, stage, rows, chat, session, made, tries, before>>

Role == {"user", "assistant"}
Message == [role : Role, parts : 0..MaxParts]
Messages == UNION {[1..n -> Message] : n \in 0..MaxMessages}
Entry == [of : 1..MaxMessages, role : Role, parts : 0..MaxParts]

TypeOK ==
    /\ db \in Messages /\ before \in Messages /\ there \in BOOLEAN
    /\ stage \in {"idle", "session", "messages", "parts", "creating", "prompting", "done", "failed"}
    /\ rows \in Messages
    /\ chat \in UNION {[1..n -> Entry] : n \in 0..MaxMessages}
    /\ session \in 0..MaxTries /\ tries \in 0..MaxTries
    /\ made \in [1..MaxTries -> -1..1] /\ Len(rows) <= Len(db)

Init ==
    /\ db = <<>> /\ before = <<>> /\ there = TRUE /\ stage = "idle" /\ rows = <<>> /\ chat = <<>>
    /\ session = 0 /\ tries = 0 /\ made = [s \in 1..MaxTries |-> -1]

-----------------------------------------------------------------------------
(* OpenCode: a message is there before its parts are.                       *)

Say(role) ==
    /\ there /\ Len(db) < MaxMessages
    /\ db' = Append(db, [role |-> role, parts |-> 0])
    /\ UNCHANGED <<there, stage, rows, chat, session, made, tries, before>>

AddPart ==
    /\ there
    /\ \E i \in 1..Len(db) : db[i].parts < MaxParts /\ db' = [db EXCEPT ![i].parts = @ + 1]
    /\ UNCHANGED <<there, stage, rows, chat, session, made, tries, before>>

Delete ==
    /\ there
    /\ there' = FALSE
    /\ UNCHANGED <<db, stage, rows, chat, session, made, tries, before>>

-----------------------------------------------------------------------------
(* read()                                                                   *)

\* continueChat, asked again after a failure or for another copy.
Continue ==
    /\ stage \in {"idle", "done", "failed"} /\ tries < MaxTries
    /\ tries' = tries + 1 /\ before' = db
    /\ stage' = "session" /\ session' = 0 /\ rows' = <<>> /\ chat' = <<>>
    /\ UNCHANGED <<db, there, made>>

\* The database does not open, or the session is not found.
ReadFails ==
    /\ stage = "session"
    /\ stage' = "failed"
    /\ UNCHANGED <<db, there, rows, chat, session, made, tries, before>>

ReadSession ==
    /\ stage = "session" /\ there
    /\ stage' = "messages"
    /\ UNCHANGED <<db, there, rows, chat, session, made, tries, before>>

ReadMessages ==
    /\ stage = "messages"
    /\ rows' = IF there THEN db ELSE <<>>
    /\ stage' = "parts"
    /\ UNCHANGED <<db, there, chat, session, made, tries, before>>

\* Wrong: the user's own messages are dropped too when they have no text.
TellsText(m, parts) == parts > 0

\* A message of the assistant without text is left out.
Tells(m, parts) == parts > 0 \/ m.role = "user"

\* Parts of messages that came after the second query belong to none of its rows.
Parts(i) == IF there THEN db[i].parts ELSE 0

Read == [i \in 1..Len(rows) |-> [of |-> i, role |-> rows[i].role, parts |-> Parts(i)]]

\* The loop over the rows.
Told(read) ==
    LET upto[n \in 0..Len(read)] ==
            IF n = 0 THEN <<>>
            ELSE IF Tells(read[n], read[n].parts) THEN Append(upto[n - 1], read[n]) ELSE upto[n - 1]
    IN  upto[Len(read)]

ReadParts ==
    /\ stage = "parts"
    /\ chat' = Told(Read)
    /\ stage' = "creating"
    /\ UNCHANGED <<db, there, rows, session, made, tries, before>>

-----------------------------------------------------------------------------
(* session.create and session.prompt. A call fails in transport, in its     *)
(* status, its envelope or its result, or at the timeout: the harness may    *)
(* have done what was asked all the same.                                   *)

Create ==
    /\ stage = "creating"
    /\ \/ stage' = "prompting" /\ session' = tries /\ made' = [made EXCEPT ![tries] = 0]
       \/ stage' = "failed" /\ UNCHANGED session /\ made' \in {made, [made EXCEPT ![tries] = 0]}
    /\ UNCHANGED <<db, there, rows, chat, tries, before>>

Prompt ==
    /\ stage = "prompting"
    /\ \/ stage' = "done" /\ made' = [made EXCEPT ![session] = @ + 1]
       \/ stage' = "failed" /\ made' \in {made, [made EXCEPT ![session] = @ + 1]}
    /\ UNCHANGED <<db, there, rows, chat, session, tries, before>>

Next == \/ AddPart \/ Delete \/ Continue \/ ReadFails \/ ReadSession \/ ReadMessages \/ ReadParts \/ Create \/ Prompt
        \/ \E role \in Role : Say(role)

Spec == Init /\ [][Next]_vars

-----------------------------------------------------------------------------
(* What is handed over: while the conversation exists, every text it had     *)
(* when the user asked, each message once, in its order and under its role,  *)
(* and nothing of an assistant without its words; and each session the user  *)
(* is told of was prompted exactly once, no session twice.                   *)
HandoffIsWhole ==
    /\ stage \in {"creating", "prompting", "done"} =>
         /\ \A i, j \in 1..Len(chat) : i < j => chat[i].of < chat[j].of
         /\ \A i \in 1..Len(chat) : chat[i].role = db[chat[i].of].role
         /\ there => \A m \in 1..Len(before) :
               before[m].parts > 0 \/ before[m].role = "user" =>
                   \E i \in 1..Len(chat) : chat[i].of = m /\ chat[i].parts >= before[m].parts
         /\ \A i \in 1..Len(chat) : chat[i].role = "assistant" => chat[i].parts > 0
    /\ stage = "done" => made[session] = 1

\* Nothing is taken back: messages and parts only come.
Grew(old, new) ==
    /\ Len(old) <= Len(new)
    /\ \A m \in 1..Len(old) : new[m].role = old[m].role /\ new[m].parts >= old[m].parts

\* What the queries return was there when the user asked, or came since.
RowsStand ==
    /\ Grew(before, db) /\ Grew(rows, db)
    /\ stage = "parts" /\ there => Grew(before, rows)
    /\ stage \in {"creating", "prompting", "done"} => \A i \in 1..Len(chat) : chat[i].of \in 1..Len(db)

\* The session of a try that goes on was not prompted yet.
TryStands ==
    /\ stage # "idle" => tries > 0
    /\ stage = "prompting" => session > 0 /\ made[session] = 0

(* What it holds by, for the proofs.                                         *)
IInv == TypeOK /\ HandoffIsWhole /\ RowsStand /\ TryStands
=============================================================================
