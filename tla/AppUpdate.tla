------------------------------ MODULE AppUpdate ------------------------------
(* The update checks of a running shell, the dialogs they lead to and the    *)
(* button in the window (updater.ts, index.ts). What an update of dsh does   *)
(* on disk is RuntimeInstall; here it succeeds or fails.                     *)
EXTENDS Naturals

CONSTANT Clicks \* clicks on the button, each an updateFromIndicator() of its own

VARIABLES dev,      \* a source checkout: no release checks, local builds
          check,    \* checkInFlight of the service: the request it waits for
          shared,   \* updateCheckInFlight of index.ts
          latest,   \* latestUpdateResult
          asked,    \* where each click is
          known,    \* electron-updater holds the update its own check found
          activity, \* updateActivity, shown by the tray
          running,  \* localUpdateRunning
          builds,   \* local builds that run
          leaving,  \* quitAndInstall() was called
          button,   \* updateIndicatorView
          answers   \* anchor queries of the page: the newest placement's, or older

vars == <<dev, check, shared, latest, asked, known, activity, running, builds, leaving,
          button, answers>>
service == <<dev, check, known>>
window == <<latest, button, answers>>
tray == <<activity, running, builds, leaving>>

Result == [harness : BOOLEAN, release : {"none", "same", "newer"}, upstream : BOOLEAN,
           failed : BOOLEAN]
NoResult == [harness |-> FALSE, release |-> "none", upstream |-> FALSE, failed |-> FALSE]

Working == {"install", "recheck", "download"}

TypeOK ==
    /\ dev \in BOOLEAN /\ known \in BOOLEAN
    /\ check \in {"no", "upstream", "harness", "release"} /\ shared \in BOOLEAN
    /\ latest \in Result
    /\ asked \in [Clicks -> {"no", "check", "harness?", "release?", "upstream?", "notice"}
                            \cup Working]
    /\ activity \in {"idle", "downloading", "installing"}
    /\ running \in BOOLEAN /\ builds \in Nat /\ leaving \in BOOLEAN
    /\ button \in {"absent", "hidden", "fallback", "anchored"}
    /\ answers \subseteq {"newest", "older"}

Init ==
    /\ dev \in BOOLEAN /\ check = "no" /\ shared = FALSE /\ latest = NoResult
    /\ asked = [c \in Clicks |-> "no"] /\ known = FALSE
    /\ activity = "idle" /\ running = FALSE /\ builds = 0 /\ leaving = FALSE
    /\ button = "absent" /\ answers = {}

-----------------------------------------------------------------------------
(* The button. updateUpdateIndicatorBounds() counts its placements and asks  *)
(* the page where to put the button; an answer counts for the newest only.   *)

\* isNewerVersion is Resolution!IsNewer.
Available(r) == r.harness \/ r.release = "newer" \/ (dev /\ r.upstream)

Place(r) ==
    IF Available(r)
    THEN /\ button' = "fallback"
         /\ answers' = {"newest"} \cup {a \in {"older"} : answers # {}}
    ELSE /\ button' = "hidden"
         /\ answers' = {a \in {"older"} : answers # {}}

UpdateBounds(r) == IF button = "absent" THEN UNCHANGED <<button, answers>> ELSE Place(r)

\* createMainWindow, a resize, a finished load and a new locale place it too.
Relayout == button # "absent" /\ Place(latest) /\ UNCHANGED <<service, shared, latest, asked, tray>>
OpenWindow == button = "absent" /\ Place(latest) /\ UNCHANGED <<service, shared, latest, asked, tray>>

WindowClosed ==
    /\ button # "absent" /\ button' = "absent"
    /\ UNCHANGED <<service, shared, latest, asked, tray, answers>>

\* Wrong: every answer counts.
CountsAll(a) == button # "absent"

Counts(a) == a = "newest" /\ button # "absent"

Answer ==
    \E a \in answers :
        /\ answers' = answers \ {a}
        /\ \/ Counts(a) /\ button' = "anchored"
           \/ UNCHANGED button \* not counted, no trigger on the page, or the script failed
        /\ UNCHANGED <<service, shared, latest, asked, tray>>

-----------------------------------------------------------------------------
(* The check: upstream, then dsh, then the release, one request at a time.   *)

\* check() of the service joins the one in flight.
JoinService == check' = IF check = "no" THEN "upstream" ELSE check

\* checkForUpdates() of index.ts, from the timer or from a click.
TimerChecks ==
    /\ ~shared /\ shared' = TRUE /\ JoinService
    /\ UNCHANGED <<dev, known, window, asked, tray>>

Click(c) ==
    /\ button \in {"fallback", "anchored"} /\ asked[c] = "no"
    /\ asked' = [asked EXCEPT ![c] = "check"]
    /\ shared' = TRUE /\ (IF shared THEN UNCHANGED check ELSE JoinService)
    /\ UNCHANGED <<dev, known, window, tray>>

NextRequest ==
    /\ \/ check = "upstream" /\ check' = "harness"
       \/ check = "harness" /\ ~dev /\ check' = "release"
    /\ UNCHANGED <<dev, shared, window, asked, known, tray>>

\* What presentUpdateResult() shows first.
Presented(r) ==
    IF r.harness THEN "harness?"
    ELSE IF r.release # "none" THEN "release?"
    ELSE IF r.upstream /\ dev THEN "upstream?"
    ELSE "notice"

\* Wrong: a download that waits for the check is not woken.
WokenClick(r, c) == IF asked[c] = "check" THEN Presented(r) ELSE asked[c]

\* Who waited for the check goes on: a click with its dialog, a download
\* with downloadUpdate(), or with an error when there is no version.
Woken(r, c) ==
    IF asked[c] = "check" THEN Presented(r)
    ELSE IF asked[c] # "recheck" THEN asked[c]
    ELSE IF r.release = "none" THEN "notice" ELSE "download"

\* The last of the recheck's failures resets the tray before its error box.
CheckEnds(r) ==
    /\ check = (IF dev THEN "harness" ELSE "release")
    /\ dev => r.release = "none"
    /\ r.failed => r.release = "none" /\ ~r.harness
    /\ check' = "no" /\ shared' = FALSE
    /\ known' = (IF dev THEN known ELSE r.release = "newer")
    /\ asked' = [c \in Clicks |-> Woken(r, c)]
    /\ activity' = IF r.release = "none" /\ (\E c \in Clicks : asked[c] = "recheck")
                   THEN "idle" ELSE activity
    /\ IF shared THEN latest' = r /\ UpdateBounds(r) ELSE UNCHANGED window
    /\ UNCHANGED <<dev, running, builds, leaving>>

-----------------------------------------------------------------------------
(* The dialogs are of no window: a second click opens a second one.          *)

Dismiss(c) ==
    /\ asked[c] \in {"harness?", "release?", "upstream?", "notice"}
    /\ asked' = [asked EXCEPT ![c] = "no"]
    /\ UNCHANGED <<service, shared, window, tray>>

AcceptHarness(c) ==
    /\ asked[c] = "harness?"
    /\ asked' = [asked EXCEPT ![c] = "install"] /\ activity' = "downloading"
    /\ UNCHANGED <<service, shared, window, running, builds, leaving>>

HarnessInstalled(c) ==
    /\ asked[c] = "install"
    /\ asked' = [asked EXCEPT ![c] = "notice"] /\ activity' = "idle"
    /\ UNCHANGED <<service, shared, window, running, builds, leaving>>

\* Wrong: the download trusts the check the dialog came from.
AcceptReleaseUnchecked(c) ==
    /\ asked[c] = "release?"
    /\ asked' = [asked EXCEPT ![c] = "download"] /\ activity' = "downloading"
    /\ UNCHANGED <<service, shared, window, running, builds, leaving>>

\* downloadAndInstall() checks again, joining a check in flight.
AcceptRelease(c) ==
    /\ asked[c] = "release?"
    /\ asked' = [asked EXCEPT ![c] = "recheck"] /\ activity' = "downloading"
    /\ JoinService
    /\ UNCHANGED <<dev, known, shared, window, running, builds, leaving>>

\* electron-updater refuses a download without an update of its own check.
DownloadFails(c) ==
    /\ asked[c] = "download"
    /\ asked' = [asked EXCEPT ![c] = "notice"] /\ activity' = "idle"
    /\ UNCHANGED <<service, shared, window, running, builds, leaving>>

Downloaded(c) ==
    /\ asked[c] = "download" /\ known
    /\ asked' = [asked EXCEPT ![c] = "no"] /\ activity' = "installing" /\ leaving' = TRUE
    /\ UNCHANGED <<service, shared, window, running, builds>>

\* runLocalUpstreamUpdate.
AcceptUpstream(c) ==
    /\ asked[c] = "upstream?"
    /\ asked' = [asked EXCEPT ![c] = "no"]
    /\ running' = TRUE /\ builds' = IF running THEN builds ELSE builds + 1
    /\ UNCHANGED <<service, shared, window, activity, leaving>>

BuildEnds ==
    /\ builds > 0
    /\ builds' = builds - 1 /\ running' = FALSE
    /\ UNCHANGED <<service, shared, window, asked, activity, leaving>>

Next ==
    \/ Relayout \/ OpenWindow \/ WindowClosed \/ Answer \/ TimerChecks \/ NextRequest
    \/ BuildEnds
    \/ \E r \in Result : CheckEnds(r)
    \/ \E c \in Clicks :
           \/ Click(c) \/ Dismiss(c) \/ AcceptHarness(c) \/ HarnessInstalled(c)
           \/ AcceptRelease(c) \/ DownloadFails(c) \/ Downloaded(c) \/ AcceptUpstream(c)

Spec == Init /\ [][Next]_vars

-----------------------------------------------------------------------------
(* The button is in the window exactly while the newest result offers an     *)
(* update: no late answer of the page brings it back.                        *)
ButtonTellsTruth == button # "absent" => (button # "hidden") = Available(latest)

(* Nobody waits for a check that is not running, whoever started it; the     *)
(* tray speaks of a download only while one is asked for, of an installation *)
(* only when the shell is about to leave; one local build at a time.         *)
UpdatesAreSound ==
    /\ shared => check # "no"
    /\ \A c \in Clicks : /\ asked[c] = "check" => shared
                         /\ asked[c] = "recheck" => check # "no"
    /\ activity = "downloading" => \E c \in Clicks : asked[c] \in Working
    /\ activity = "installing" => leaving
    /\ builds <= 1 /\ (running <=> builds = 1)

\* A placement that is still to be answered is one of an offered update.
AnswersAreDue == "newest" \in answers /\ button # "absent" => button # "hidden"

(* What both hold together by, for the proofs.                               *)
IInv == TypeOK /\ ButtonTellsTruth /\ UpdatesAreSound /\ AnswersAreDue

(* "Always perform a fresh preflight": a download starts with the end of a   *)
(* check that named a version, never from a result that has aged.            *)
DownloadIsChecked ==
    [][\A c \in Clicks : asked[c] # "download" /\ asked'[c] = "download"
                         => check # "no" /\ check' = "no"]_vars
=============================================================================
