------------------------------- MODULE GuiBridge -------------------------------
(* The loopback server through which dsh, on its hidden desktop, asks for    *)
(* native windows (dialog-bridge.ts), and the launch it may lead to          *)
(* (interactive-gui.ts). Requests are served side by side; each awaits its   *)
(* body and then Electron, the operating system or the user.                 *)
EXTENDS Naturals

CONSTANT Requests \* requests made while the bridge lives

VARIABLES server, \* listening, closing, closed
          ask,    \* what each request asks
          stage,  \* of each: none, body, opening, launching, picking, done
          reply,  \* the status each was answered with, 0 before
          did     \* history: what was done for it

vars == <<server, ask, stage, reply, did>>

Intent == {"default", "association", "text-editor", "reveal"}

\* What a path names when statSync looks, or an absolute path that is none.
Target == {"document", "page", "script", "directory", "outside", "missing", "not-absolute"}

\* A program for /launch-gui: an interpreter, a console or no program at all is
\* refused, a window may fail to start.
Program == {"window", "refused"}

Ask == [route : {"path"}, intent : Intent, target : Target \ {"outside"}]
       \cup [route : {"directory"}, intent : {"none"}, target : {"document", "directory", "missing", "not-absolute"}]
       \cup [route : {"text"}, intent : {"none"}, target : {"document", "outside", "not-absolute"}]
       \cup [route : {"launch"}, intent : {"none"}, target : Program]
       \cup [route : {"pick"}, intent : {"none"}, target : {"none"}]

Nothing == [route |-> "none", intent |-> "none", target |-> "none"]
Deeds == {"nothing", "shown", "edited", "opened", "browsed", "launched", "asked"}

TypeOK ==
    /\ server \in {"listening", "closing", "closed"}
    /\ ask \in [Requests -> Ask \cup {Nothing}]
    /\ stage \in [Requests -> {"none", "body", "opening", "launching", "picking", "done"}]
    /\ reply \in [Requests -> {0, 200, 400, 401, 403, 404, 413, 500}]
    /\ did \in [Requests -> Deeds]

Init ==
    /\ server = "listening"
    /\ ask = [r \in Requests |-> Nothing] /\ stage = [r \in Requests |-> "none"]
    /\ reply = [r \in Requests |-> 0] /\ did = [r \in Requests |-> "nothing"]

Answer(r, status) ==
    /\ stage' = [stage EXCEPT ![r] = "done"]
    /\ reply' = [reply EXCEPT ![r] = status]

-----------------------------------------------------------------------------
\* Another method or path, or a token that is not this bridge's.
Refuse(r) ==
    /\ server = "listening" /\ stage[r] = "none"
    /\ \E status \in {401, 404} : Answer(r, status)
    /\ UNCHANGED <<server, ask, did>>

Receive(r) ==
    /\ server = "listening" /\ stage[r] = "none"
    /\ \E a \in Ask : ask' = [ask EXCEPT ![r] = a]
    /\ stage' = [stage EXCEPT ![r] = "body"]
    /\ UNCHANGED <<server, reply, did>>

\* The body is over 64 KiB, cut off, not JSON, or names no known intent.
BadBody(r) ==
    /\ stage[r] = "body"
    /\ \/ Answer(r, 413)
       \/ Answer(r, 500)
       \/ ask[r].route = "path" /\ Answer(r, 400)
    /\ UNCHANGED <<server, ask, did>>

\* Wrong: a script is refused under the intent `default' alone.
CheckedDefault(a) ==
    IF a.target = "not-absolute" THEN 400
    ELSE IF a.target = "missing" THEN 500
    ELSE IF a.route = "directory" /\ a.target # "directory" THEN 400
    ELSE IF a.route = "text" /\ a.target = "outside" THEN 403
    ELSE IF a.route = "launch" /\ a.target = "refused" THEN 500
    ELSE IF a.route = "path" /\ a.target = "script" /\ a.intent = "default" THEN 403
    ELSE 0

\* The checks before anything is done, each ending the request: their status,
\* or 0. statSync throws for what is not there.
Checked(a) ==
    IF a.target = "not-absolute" THEN 400
    ELSE IF a.target = "missing" THEN 500
    ELSE IF a.route = "directory" /\ a.target # "directory" THEN 400
    ELSE IF a.route = "text" /\ a.target = "outside" THEN 403
    ELSE IF a.route = "launch" /\ a.target = "refused" THEN 500
    ELSE IF a.route = "path" /\ a.target = "script" /\ a.intent \in {"default", "association"} THEN 403
    ELSE 0

\* What a request that passed them leads to; the editor is launched.
Deed(a) ==
    IF a.route = "pick" THEN "asked"
    ELSE IF a.route = "launch" THEN "launched"
    ELSE IF a.route # "path" THEN "opened"
    ELSE IF a.intent = "reveal" THEN "shown"
    ELSE IF a.intent = "text-editor" /\ a.target # "directory" THEN "edited"
    ELSE IF a.intent = "default" /\ a.target = "page" THEN "browsed"
    ELSE "opened"

\* What its answer then waits for; a file that is shown is answered at once.
Waits(deed) == IF deed = "asked" THEN "picking"
               ELSE IF deed \in {"launched", "edited"} THEN "launching" ELSE "opening"

Dispatch(r) ==
    /\ stage[r] = "body"
    /\ LET a == ask[r]
       IN  IF Checked(a) # 0 THEN Answer(r, Checked(a)) /\ UNCHANGED did
           ELSE /\ did' = [did EXCEPT ![r] = Deed(a)]
                /\ IF Deed(a) = "shown" THEN Answer(r, 200)
                   ELSE stage' = [stage EXCEPT ![r] = Waits(Deed(a))] /\ UNCHANGED reply
    /\ UNCHANGED <<server, ask>>

\* shell.openPath or openExternal settles; a failure leaves nothing open.
Settle(r) ==
    /\ stage[r] = "opening"
    /\ \/ Answer(r, 200) /\ UNCHANGED did
       \/ Answer(r, 500) /\ did' = [did EXCEPT ![r] = "nothing"]
    /\ UNCHANGED <<server, ask>>

\* launchInteractiveGui: half a second passes, or the child exits with 0
\* before; an error or another exit code rejects. What it does later is nobody's.
LaunchSettles(r) ==
    /\ stage[r] = "launching"
    /\ \/ Answer(r, 200) /\ UNCHANGED did
       \/ Answer(r, 500) /\ did' = [did EXCEPT ![r] = "nothing"]
    /\ UNCHANGED <<server, ask>>

\* A folder, null when the user gives up, or the dialog failed.
Picked(r) ==
    /\ stage[r] = "picking"
    /\ \E status \in {200, 500} : Answer(r, status)
    /\ UNCHANGED <<server, ask, did>>

-----------------------------------------------------------------------------
\* close(): nothing new is accepted, what is being served is waited for.
Close ==
    /\ server = "listening"
    /\ server' = "closing"
    /\ UNCHANGED <<ask, stage, reply, did>>

\* Wrong: an open dialog is not waited for.
IdleButForDialogs == \A r \in Requests : stage[r] \in {"none", "picking", "done"}

Idle == \A r \in Requests : stage[r] \in {"none", "done"}

Closed ==
    /\ server = "closing" /\ Idle
    /\ server' = "closed"
    /\ UNCHANGED <<ask, stage, reply, did>>

Next == \/ \E r \in Requests : \/ Refuse(r) \/ Receive(r) \/ BadBody(r) \/ Dispatch(r)
                               \/ Settle(r) \/ LaunchSettles(r) \/ Picked(r)
        \/ Close \/ Closed

Spec == Init /\ [][Next]_vars

-----------------------------------------------------------------------------
(* What was done is what was asked and allowed: a script is never opened by  *)
(* association, an interpreter never launched, nothing outside the settings  *)
(* opened as one of them; success is reported of exactly what happened, a    *)
(* refusal of nothing at all, and no request outlives the bridge.            *)
BridgeIsExact ==
    /\ \A r \in Requests :
         /\ did[r] \in {"opened", "browsed"} =>
               ask[r].target \notin {"script", "outside", "missing", "not-absolute"}
         /\ did[r] \in {"launched", "edited"} => ask[r].target \notin {"refused", "directory"}
         /\ reply[r] = 200 => did[r] # "nothing"
         /\ reply[r] \notin {0, 200, 500} => did[r] = "nothing"
    /\ server = "closed" => \A r \in Requests : (stage[r] = "none") = (reply[r] = 0)

\* How far a request is, what it was answered and what was done for it agree.
InOrder(r) ==
    /\ (reply[r] # 0) = (stage[r] = "done")
    /\ stage[r] \in {"none", "body"} => did[r] = "nothing"
    /\ stage[r] # "none" /\ reply[r] \notin {401, 404} => ask[r] \in Ask
    /\ stage[r] \in {"opening", "launching", "picking"} => did[r] # "nothing"

(* What it holds by, for the proofs.                                         *)
IInv == /\ TypeOK /\ BridgeIsExact
        /\ \A r \in Requests : InOrder(r)
        /\ server = "closed" => Idle
=============================================================================
