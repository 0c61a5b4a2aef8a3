---------------------------------- MODULE Ocr ----------------------------------
(* Text out of an image (ocr.ts): the image of the renderer goes to a        *)
(* temporary file, a hidden tesseract reads it, and whichever comes first of *)
(* its end, its error, too much output and the timeout settles the call.     *)
EXTENDS Naturals

CONSTANT Calls \* calls of ocr:extract, which may overlap

VARIABLES win,    \* process.platform === 'win32'
          found,  \* cachedBinaryPath: unasked, installed, hoped for in PATH
          stage,  \* of each call: none, writing, running, unlinking, done
          temp,   \* its file: none, part, whole
          proc,   \* its tesseract: none, running, killed (still there), gone
          answer, \* none, text, error
          spoke,  \* what tesseract printed: none, text, too much
          lost    \* history: why its file could not be removed, or "no"

vars == <<win, found, stage, temp, proc, answer, spoke, lost>>

TypeOK ==
    /\ win \in BOOLEAN /\ found \in {"unasked", "installed", "hoped-for"}
    /\ stage \in [Calls -> {"none", "writing", "running", "unlinking", "done"}]
    /\ temp \in [Calls -> {"none", "part", "whole"}]
    /\ proc \in [Calls -> {"none", "running", "killed", "gone"}]
    /\ answer \in [Calls -> {"none", "text", "error"}]
    /\ spoke \in [Calls -> {"none", "text", "too-much"}]
    /\ lost \in [Calls -> {"no", "not-written", "in-use"}]

Init ==
    /\ win \in BOOLEAN /\ found = "unasked"
    /\ stage = [c \in Calls |-> "none"] /\ temp = [c \in Calls |-> "none"]
    /\ proc = [c \in Calls |-> "none"] /\ answer = [c \in Calls |-> "none"]
    /\ spoke = [c \in Calls |-> "none"] /\ lost = [c \in Calls |-> "no"]

\* Settling the promise; the finally of extractText follows.
Settle(c, a) ==
    /\ answer' = [answer EXCEPT ![c] = a]
    /\ stage' = [stage EXCEPT ![c] = "unlinking"]

-----------------------------------------------------------------------------
\* resolveTesseractBinary keeps its first answer, as isOcrAvailable does; the
\* name in PATH ends the list, so there always is one. A bad argument is refused.
Extract(c) ==
    /\ stage[c] = "none"
    /\ found' \in IF found = "unasked" THEN {"installed", "hoped-for"} ELSE {found}
    /\ \/ /\ stage' = [stage EXCEPT ![c] = "writing"] /\ temp' = [temp EXCEPT ![c] = "part"]
          /\ UNCHANGED answer
       \/ /\ stage' = [stage EXCEPT ![c] = "done"] /\ answer' = [answer EXCEPT ![c] = "error"]
          /\ UNCHANGED temp
    /\ UNCHANGED <<win, proc, spoke, lost>>

\* writeFile is awaited before the try whose finally removes the file.
WriteFails(c) ==
    /\ stage[c] = "writing"
    /\ stage' = [stage EXCEPT ![c] = "done"] /\ answer' = [answer EXCEPT ![c] = "error"]
    /\ lost' = [lost EXCEPT ![c] = "not-written"]
    /\ UNCHANGED <<win, found, temp, proc, spoke>>

\* launchHidden may throw, inside the promise: the call is settled.
Launch(c) ==
    /\ stage[c] = "writing"
    /\ temp' = [temp EXCEPT ![c] = "whole"]
    /\ \/ /\ stage' = [stage EXCEPT ![c] = "running"] /\ proc' = [proc EXCEPT ![c] = "running"]
          /\ UNCHANGED answer
       \/ Settle(c, "error") /\ UNCHANGED proc
    /\ UNCHANGED <<win, found, spoke, lost>>

PrintOut(c) ==
    /\ proc[c] = "running" /\ stage[c] = "running" /\ spoke[c] = "none"
    /\ spoke' = [spoke EXCEPT ![c] = "text"]
    /\ UNCHANGED <<win, found, stage, temp, proc, answer, lost>>

\* Wrong: the call is settled, the program left to itself.
FailLeaving(c) == Settle(c, "error") /\ UNCHANGED proc

\* fail(): kill, then reject. The program goes when the system gets to it.
Fail(c) == Settle(c, "error") /\ proc' = [proc EXCEPT ![c] = "killed"]

TooMuch(c) ==
    /\ proc[c] = "running" /\ stage[c] = "running" /\ spoke[c] = "text"
    /\ spoke' = [spoke EXCEPT ![c] = "too-much"]
    /\ Fail(c)
    /\ UNCHANGED <<win, found, temp, lost>>

Timeout(c) ==
    /\ proc[c] = "running" /\ stage[c] = "running"
    /\ Fail(c)
    /\ UNCHANGED <<win, found, temp, spoke, lost>>

\* 'error': there is no such program, when the name was only hoped for.
NoProgram(c) ==
    /\ proc[c] = "running" /\ stage[c] = "running" /\ spoke[c] = "none" /\ found = "hoped-for"
    /\ proc' = [proc EXCEPT ![c] = "gone"]
    /\ Settle(c, "error")
    /\ UNCHANGED <<win, found, temp, spoke, lost>>

\* Wrong: the exit code alone is looked at.
ResultOf(c, code) == IF code = 0 THEN "text" ELSE "error"

\* No text is an error too.
Result(c, code) == IF code = 0 /\ spoke[c] = "text" THEN "text" ELSE "error"

\* 'close', ignored when the call is settled already.
Exit(c) ==
    /\ proc[c] \in {"running", "killed"}
    /\ proc' = [proc EXCEPT ![c] = "gone"]
    /\ IF stage[c] # "running" THEN UNCHANGED <<stage, answer>>
       ELSE \E code \in {0, 1} : Settle(c, Result(c, code))
    /\ UNCHANGED <<win, found, temp, spoke, lost>>

\* unlink, whose failure is swallowed: Windows keeps a file a program reads.
Unlink(c) ==
    /\ stage[c] = "unlinking"
    /\ stage' = [stage EXCEPT ![c] = "done"]
    /\ IF win /\ proc[c] = "killed"
       THEN lost' = [lost EXCEPT ![c] = "in-use"] /\ UNCHANGED temp
       ELSE temp' = [temp EXCEPT ![c] = "none"] /\ UNCHANGED lost
    /\ UNCHANGED <<win, found, proc, answer, spoke>>

Next == \E c \in Calls :
            \/ Extract(c) \/ WriteFails(c) \/ Launch(c) \/ PrintOut(c) \/ TooMuch(c)
            \/ Timeout(c) \/ NoProgram(c) \/ Exit(c) \/ Unlink(c)

Spec == Init /\ [][Next]_vars

-----------------------------------------------------------------------------
\* What one call has left.
LeavesNothing(c) ==
    /\ stage[c] \in {"unlinking", "done"} => proc[c] # "running"
    /\ answer[c] = "text" => proc[c] = "gone" /\ spoke[c] = "text"
    /\ stage[c] = "done" /\ temp[c] # "none" =>
          /\ lost[c] # "no" /\ answer[c] = "error"
          /\ lost[c] = "in-use" => win

(* A call that is over has no tesseract that nobody told to stop; its text   *)
(* is all of what a tesseract that ended well printed, within the limit; and *)
(* the user's image is left behind only where the disk failed, or where it   *)
(* was cut off on Windows.                                                   *)
OcrLeavesNothing == \A c \in Calls : LeavesNothing(c)

-----------------------------------------------------------------------------
\* What a call has at each stage: its file from its first write on, a program
\* to be stopped only while it runs, an answer once it is settled.
StageAgrees(c) ==
    /\ stage[c] \in {"none", "writing", "running"} => answer[c] = "none" /\ lost[c] = "no"
    /\ stage[c] \in {"none", "writing"} => proc[c] = "none"
    /\ stage[c] = "none" => temp[c] = "none"
    /\ stage[c] = "unlinking" => answer[c] # "none" /\ lost[c] = "no"
    /\ stage[c] = "done" => answer[c] # "none"

StagesAgree == \A c \in Calls : StageAgrees(c)

\* The inductive invariant of the proofs.
IInv == TypeOK /\ StagesAgree /\ OcrLeavesNothing
=============================================================================
