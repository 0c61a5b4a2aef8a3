----------------------------- MODULE HarnessPage -----------------------------
(* The page of dsh in the main window: which dsh it shows, whose calls the   *)
(* shell hears (renderer-security.ts, ipc.ts), and how the model selector    *)
(* follows the refresh (model-refresh-state.ts, the preload bridge).         *)
EXTENDS Naturals, Sequences

CONSTANTS MaxDsh,     \* bound: dsh processes that become ready
          MaxWindows, \* bound: main windows opened
          MaxRevision \* bound: changes of the refresh state

VARIABLES url,      \* currentUrl of the supervisor, the number of its dsh or None
          ready,    \* dsh processes that became ready
          main,     \* the main window: none, shown or hidden
          windows,  \* main windows opened
          first,    \* the harnessUrl createMainWindow was given
          page,     \* whose page the view shows, None before the first load
          cleaning, \* the URLs to load once the cookies are cleaned
          overtaken,\* history: cookies were being cleaned when the newest address was given
          revision, \* of the refresh state; it is loading at the odd ones
          pushes,   \* refresh states on their way to the page
          request,  \* the selector's getRefreshState: none, asked, answered
          answer,   \* the revision on its way back
          mounted,  \* the selector listens
          shown,    \* latestRevision of the selector, None before the first
          quitting  \* shuttingDown

dsh == <<url, ready>>
view == <<main, windows, first, page, cleaning, overtaken>>
selector == <<pushes, request, answer, mounted, shown>>
vars == <<dsh, view, revision, selector, quitting>>

None == 0
Foreign == MaxDsh + 1 \* any address but those of this shell's dsh
Dsh == 1..MaxDsh

TypeOK ==
    /\ url \in Dsh \cup {None} /\ ready \in 0..MaxDsh
    /\ main \in {"none", "shown", "hidden"} /\ windows \in 0..MaxWindows
    /\ first \in Dsh \cup {None} /\ page \in Dsh \cup {None, Foreign}
    /\ cleaning \subseteq Dsh /\ overtaken \in BOOLEAN
    /\ revision \in 1..MaxRevision
    /\ pushes \in Seq(1..MaxRevision)
    /\ request \in {"none", "asked", "answered"} /\ answer \in 1..MaxRevision
    /\ mounted \in BOOLEAN /\ shown \in 0..MaxRevision /\ quitting \in BOOLEAN

Init ==
    /\ url = None /\ ready = 0
    /\ main = "none" /\ windows = 0 /\ first = None /\ page = None
    /\ cleaning = {} /\ overtaken = FALSE
    /\ revision = 2 \* idle; the numbers start at 0 in the code
    /\ pushes = <<>> /\ request = "none" /\ answer = 2 /\ mounted = FALSE /\ shown = None
    /\ quitting = FALSE

-----------------------------------------------------------------------------
(* The window and its page. A load drops the document and what it had heard. *)

Load(u) ==
    /\ page' = u
    /\ pushes' = <<>> /\ request' = "none" /\ mounted' = FALSE /\ shown' = None
    /\ UNCHANGED answer

\* createMainWindow: the page is loaded when the loopback cookies of earlier
\* shells are gone.
CreateMainWindow(u) ==
    /\ windows < MaxWindows
    /\ main' = "shown" /\ windows' = windows + 1 /\ first' = u
    /\ overtaken' = (cleaning # {}) /\ cleaning' = cleaning \cup {u}
    /\ Load(None)

\* loadURL of the view that is there now.
CookiesCleaned ==
    \E u \in cleaning :
        /\ cleaning' = cleaning \ {u}
        /\ IF main = "none" THEN UNCHANGED <<page, selector>> ELSE Load(u)
        /\ UNCHANGED <<dsh, main, windows, first, overtaken, revision, quitting>>

\* Wrong: only a window that is missing is given the new address.
OnReadyKeeps(u) == UNCHANGED <<view, selector>>

\* "Move the existing trusted view to that generation."
OnReady(u) ==
    /\ overtaken' = (cleaning # {})
    /\ Load(u)
    /\ UNCHANGED <<main, windows, first, cleaning>>

DshReady ==
    /\ url = None /\ ready < MaxDsh
    /\ url' = ready + 1 /\ ready' = ready + 1
    /\ IF main = "none"
       THEN CreateMainWindow(url')
       ELSE OnReady(url')
    /\ UNCHANGED <<revision, quitting>>

\* It ends, or a restart of the menu, the tray or the page stops it.
DshGone ==
    /\ url # None /\ url' = None
    /\ UNCHANGED <<ready, view, revision, selector, quitting>>

\* The tray, or `activate'.
ShowMainWindow ==
    /\ \/ /\ main # "none" /\ main' = "shown"
          /\ UNCHANGED <<windows, first, page, cleaning, overtaken, selector>>
       \/ main = "none" /\ url # None /\ CreateMainWindow(url)
    /\ UNCHANGED <<dsh, revision, quitting>>

\* The cross hides the window, but for a shell that quits.
CloseMainWindow ==
    /\ main = "shown" /\ ~quitting /\ main' = "hidden"
    /\ UNCHANGED <<dsh, windows, first, page, cleaning, overtaken, revision, selector, quitting>>

WindowGone ==
    /\ main # "none" /\ main' = "none"
    /\ Load(None)
    /\ UNCHANGED <<dsh, windows, first, cleaning, overtaken, revision, quitting>>

\* Wrong: an address is blocked only while dsh is there to compare it with.
BlockedWhileUp(u) == url # None /\ u # url

\* blockUntrustedNavigation: the origin of dsh, or the one the window was
\* opened with while there is no dsh.
Blocked(u) == u # (IF url # None THEN url ELSE first)

Navigate ==
    \E u \in Dsh \cup {Foreign} :
        /\ main # "none" /\ page # None /\ ~Blocked(u)
        /\ Load(u)
        /\ UNCHANGED <<dsh, main, windows, first, cleaning, overtaken, revision, quitting>>

-----------------------------------------------------------------------------
(* Calls of the page. Only the top frame of the view is heard, and only from *)
(* the origin of the dsh that runs.                                         *)

Trusted == main # "none" /\ url # None /\ page = url

\* A refusal is an error the selector ignores.
GetRefreshState ==
    /\ request = "asked"
    /\ \/ Trusted /\ request' = "answered" /\ answer' = revision
       \/ ~Trusted /\ request' = "none" /\ UNCHANGED answer
    /\ UNCHANGED <<dsh, view, revision, pushes, mounted, shown, quitting>>

\* harness:restart and mcp:setEnabled.
Restart ==
    /\ Trusted /\ url' = None
    /\ UNCHANGED <<ready, view, revision, selector, quitting>>

-----------------------------------------------------------------------------
(* The refresh state: every change is sent to the view that is there.        *)

Publish ==
    /\ revision < MaxRevision
    /\ revision' = revision + 1
    /\ pushes' = IF main # "none" /\ mounted THEN Append(pushes, revision') ELSE pushes
    /\ UNCHANGED <<dsh, view, request, answer, mounted, shown, quitting>>

\* The timer, a retry, or models:refresh, which joins the run in flight.
RunStarts == revision % 2 = 0 /\ Publish
RunEnds == revision % 2 = 1 /\ Publish

\* The selector subscribes, then asks for the state it may have missed.
Mount ==
    /\ page # None /\ ~mounted
    /\ mounted' = TRUE /\ request' = "asked"
    /\ UNCHANGED <<dsh, view, revision, pushes, answer, shown, quitting>>

\* Wrong: the order of arrival decides.
ApplyAll(r) == shown' = r

\* An answer may be older than a state that was pushed since.
Apply(r) == shown' = IF r > shown THEN r ELSE shown

HearPush ==
    /\ pushes # <<>>
    /\ Apply(Head(pushes)) /\ pushes' = Tail(pushes)
    /\ UNCHANGED <<dsh, view, revision, request, answer, mounted, quitting>>

HearAnswer ==
    /\ request = "answered"
    /\ Apply(answer) /\ request' = "none"
    /\ UNCHANGED <<dsh, view, revision, pushes, answer, mounted, quitting>>

Quit ==
    /\ ~quitting /\ quitting' = TRUE
    /\ UNCHANGED <<dsh, view, revision, selector>>

Next == \/ DshReady \/ DshGone \/ Restart
        \/ CookiesCleaned \/ ShowMainWindow \/ CloseMainWindow \/ WindowGone \/ Navigate
        \/ RunStarts \/ RunEnds \/ Mount \/ GetRefreshState \/ HearPush \/ HearAnswer \/ Quit

Spec == Init /\ [][Next]_vars

-----------------------------------------------------------------------------
(* The view never shows a page of another origin, and while dsh is there the *)
(* window shows that dsh, once its cookies are cleaned. A dsh that becomes   *)
(* ready while they are being cleaned may be overtaken by the one before.    *)
PageIsCurrent ==
    /\ page # Foreign
    /\ main # "none" /\ url # None /\ cleaning = {} /\ ~overtaken => page = url

(* With nothing on its way, a selector of the current page shows the state   *)
(* the refresh is in, whatever it missed before it listened and in whatever  *)
(* order the answer and the pushes arrived.                                  *)
SelectorAgrees ==
    mounted /\ page = url /\ request = "none" /\ pushes = <<>> => shown = revision

\* Addresses are of dsh processes there have been; none is given twice.
AddressesStand ==
    /\ url <= ready /\ first <= ready /\ cleaning \subseteq 1..ready
    /\ page \in 0..ready /\ (main # "none" => first # None)
    /\ main # "none" /\ url # None /\ ~overtaken => cleaning \subseteq {url}

\* The state of the refresh was shown, or is on its way, to a selector that
\* asked; nothing newer than it is.
Coming == {pushes[i] : i \in 1..Len(pushes)} \cup {r \in {answer} : request = "answered"}
StateIsComing ==
    /\ \A r \in Coming \cup {shown} : r <= revision
    /\ main = "none" => page = None
    /\ page = None => ~mounted
    /\ ~mounted => request = "none" /\ pushes = <<>>
    /\ mounted /\ page = url /\ request # "asked" => revision \in Coming \cup {shown}

(* What both hold by, for the proofs.                                        *)
IInv == TypeOK /\ PageIsCurrent /\ SelectorAgrees /\ AddressesStand /\ StateIsComing
=============================================================================
