------------------------------- MODULE Catalogue -------------------------------
(* What one refresh makes of the gateway's routes (model-refresher.ts): they  *)
(* are listed, each is probed on its own, and the profile dsh reads is        *)
(* rewritten. When refreshes happen is ModelRefresh's; here several happen    *)
(* one after the other, with restarts of the shell between them.              *)
EXTENDS Naturals, FiniteSets

CONSTANTS LastRoute,   \* routes are 0 (the router, "auto") to this, best first
          Reviewed,    \* routes in one of the two tables of context windows
          MaxRefreshes \* bound

Route == 0..LastRoute
Unlisted == 9 \* of a route the list did not have
None == 0     \* no window is known
ReviewedWindow == 3
Declared == {1, 2}
Window == Declared \cup {None, ReviewedWindow}

VARIABLES stage,    \* idle, probing
          refreshes,
          listed,   \* the window the list declares of each route, or Unlisted
          probe,    \* how far the probe of each route is, and how it ended
          profile,  \* the managed provider's models: window, selectable
          disk,     \* lastKnownGood of model-catalog.json
          format,   \* of that file: missing, unreadable, old, new
          known,    \* history: the last window declared since the shell started
          answered  \* history: routes whose last answer was a completion

vars == <<stage, refreshes, listed, probe, profile, disk, format, known, answered>>

\* Of a probe: what it waits for, or its end. "plain" called no tool.
Waiting == {"completion", "tool-call"}
Responding == {"tools", "plain"}
Failing == {"http", "invalid-response", "transport"}

Bare == [r \in Route |-> [window |-> None, selectable |-> FALSE]]

TypeOK ==
    /\ stage \in {"idle", "probing"} /\ refreshes \in 0..MaxRefreshes
    /\ listed \in [Route -> Declared \cup {None, Unlisted}]
    /\ probe \in [Route -> Waiting \cup Responding \cup Failing \cup {"none"}]
    /\ profile \in [Route -> [window : Window, selectable : BOOLEAN]]
    /\ disk \subseteq Route /\ answered \subseteq Route
    /\ format \in {"missing", "unreadable", "old", "new"}
    /\ known \in [Route -> Declared \cup {None}]

Init ==
    /\ stage = "idle" /\ refreshes = 0
    /\ listed = [r \in Route |-> Unlisted] /\ probe = [r \in Route |-> "none"]
    /\ profile = Bare
    /\ format \in {"missing", "unreadable", "old", "new"}
    /\ disk \in SUBSET Route /\ (format \in {"missing", "unreadable"} => disk = {})
    /\ answered = disk
    /\ known = [r \in Route |-> None]

-----------------------------------------------------------------------------
\* listModelIds, in the packaged order. The router is added, as the list never
\* has it; other routes are dropped; when there is no list, all are probed.
ListsMade ==
    {[r \in Route |-> None]} \cup
    {[r \in Route |-> IF r = 0 THEN None ELSE l[r]] : l \in [Route -> Declared \cup {None, Unlisted}]}

List ==
    /\ stage = "idle" /\ refreshes < MaxRefreshes
    /\ refreshes' = refreshes + 1 /\ stage' = "probing"
    /\ \E l \in ListsMade :
          /\ listed' = l
          /\ probe' = [r \in Route |-> IF l[r] = Unlisted THEN "none" ELSE "completion"]
          /\ known' = [r \in Route |-> IF l[r] \in Declared THEN l[r] ELSE known[r]]
    /\ UNCHANGED <<profile, disk, format, answered>>

\* probeModels, one route: an answer that is a completion is followed by the
\* request for a tool call; another status, an answer that is none, and no
\* answer before the timeout end the probe.
Complete(r) ==
    /\ probe[r] = "completion"
    /\ probe' \in {[probe EXCEPT ![r] = e] : e \in Failing \cup {"tool-call"}}
    /\ answered' = IF probe'[r] = "tool-call" THEN answered \cup {r}
                   ELSE IF probe'[r] = "transport" THEN answered ELSE answered \ {r}
    /\ UNCHANGED <<stage, refreshes, listed, profile, disk, format, known>>

\* probeToolCalling: whatever goes wrong, the route responds, without tools.
CallTool(r) ==
    /\ probe[r] = "tool-call"
    /\ probe' \in {[probe EXCEPT ![r] = e] : e \in Responding}
    /\ UNCHANGED <<stage, refreshes, listed, profile, disk, format, known, answered>>

-----------------------------------------------------------------------------
\* Wrong: what the profile has is not looked at.
WindowListed(r) ==
    IF listed[r] \in Declared THEN listed[r]
    ELSE IF r \in Reviewed THEN ReviewedWindow ELSE None

\* mergeModelCapabilities: declared, else as the profile has it, else reviewed.
WindowOf(r) ==
    IF listed[r] \in Declared THEN listed[r]
    ELSE IF profile[r].window # None THEN profile[r].window
    ELSE IF r \in Reviewed THEN ReviewedWindow ELSE None

\* Wrong: a route that calls no tool is offered.
SelectableAnyway(r) == probe[r] \in Responding

\* The router is offered when it answers, a route when it calls tools.
Selectable(r) == probe[r] = "tools" \/ (r = 0 /\ probe[r] = "plain")

\* readLastKnownGoodByProvider; an old file has the responders, a new one the set.
LastKnownGood == IF format \in {"old", "new"} THEN disk ELSE {}

\* Wrong: a route the gateway answered for with an error is kept too.
RetainedAll == {r \in Route : probe[r] \in Responding
                              \/ (probe[r] \in Failing /\ r \in LastKnownGood)}

\* Kept: what responds, and what responded before and was not reached now.
Retained == {r \in Route : probe[r] \in Responding
                           \/ (probe[r] = "transport" /\ r \in LastKnownGood)}

\* The end of refreshModels and syncProviderModels: every packaged route stays
\* in the profile, in its order, so that a pinned turn can go on. A route that
\* was not listed is left without a probe and is forgotten on disk.
Publish ==
    /\ stage = "probing"
    /\ \A r \in Route : probe[r] \notin Waiting
    /\ stage' = "idle"
    /\ profile' = [r \in Route |-> [window |-> WindowOf(r), selectable |-> Selectable(r)]]
    /\ disk' = Retained /\ format' = "new"
    /\ answered' = answered \ {r \in Route : probe[r] = "none"}
    /\ UNCHANGED <<refreshes, listed, probe, known>>

\* The shell ends, at any moment, and starts: seedProviders writes bare routes.
Restart ==
    /\ refreshes < MaxRefreshes
    /\ stage' = "idle" /\ profile' = Bare
    /\ known' = [r \in Route |-> None] /\ answered' = disk
    /\ probe' = [r \in Route |-> "none"] /\ listed' = [r \in Route |-> Unlisted]
    /\ UNCHANGED <<refreshes, disk, format>>

Next == \/ List \/ Publish \/ Restart
        \/ \E r \in Route : Complete(r) \/ CallTool(r)

Spec == Init /\ [][Next]_vars

-----------------------------------------------------------------------------
(* After every refresh: a route is offered only on the proof this refresh     *)
(* brought, what was declared of a route in this life is not lost by a list   *)
(* that does not say it, or is not there, and what is remembered as good are  *)
(* the routes whose last answer, in whatever refresh it came, was a good one. *)
CatalogueIsProven ==
    stage = "idle" =>
        /\ \A r \in Route : profile[r].selectable =>
              probe[r] = "tools" \/ (r = 0 /\ probe[r] = "plain")
        /\ \A r \in Route : known[r] # None => profile[r].window = known[r]
        /\ disk \subseteq answered
        /\ format \in {"old", "new"} => answered = disk

(* What it holds by, for the proofs. Between refreshes no probe waits, and    *)
(* only what proved itself is offered.                                        *)
OfferedIsProven ==
    stage = "idle" => \A r \in Route :
        /\ probe[r] \notin Waiting
        /\ profile[r].selectable => Selectable(r)

(* A window that was declared is in the profile, or in the list that is about *)
(* to be merged into it.                                                      *)
WindowsAreKept ==
    \A r \in Route : known[r] # None =>
        IF stage = "probing" /\ listed[r] \in Declared
        THEN listed[r] = known[r]
        ELSE profile[r].window = known[r]

(* How the last answer of each route stands to the file: the same between     *)
(* refreshes and until the answer of this one comes, which then decides.      *)
FileIsTrue ==
    /\ format \notin {"old", "new"} => disk = {}
    /\ stage = "idle" => answered = disk
    /\ stage = "probing" => \A r \in Route :
           /\ probe[r] \in Responding \cup {"tool-call"} => r \in answered
           /\ probe[r] \in {"http", "invalid-response"} => r \notin answered
           /\ probe[r] \in {"completion", "transport"} => (r \in answered <=> r \in disk)

IInv == TypeOK /\ OfferedIsProven /\ WindowsAreKept /\ FileIsTrue
=============================================================================
