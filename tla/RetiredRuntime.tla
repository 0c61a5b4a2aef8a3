---------------------------- MODULE RetiredRuntime ----------------------------
(* What a shell of today removes of the runtime of older ones                *)
(* (retired-runtime.ts): nobody waits for it, it may die or fail at every    *)
(* file, and the next start goes on where it finds the disk.                 *)
EXTENDS Naturals

CONSTANT MaxLives \* bound: starts of the shell

VARIABLES route,   \* llm-pi-ai.providers['freecode-omniroute'] of settings.yaml
          default, \* agent-default-model
          lease,   \* model-fallback-state.json: none, owned, or another's
          listed,  \* model-catalog.json lists the retired provider
          cache,   \* omniroute-runtime: none, verified, unverified, part
          data,    \* omniroute-data: none, whole, part
          linked,  \* one of the two is a junction
          marker,  \* .freecode-retired-runtime-cleanup.json
          pc,      \* off, the next file, done or failed
          was,     \* history: the disk before the first start
          lives

settings == <<route, default, lease, listed>>
runtime == <<cache, data, linked, marker>>
vars == <<settings, runtime, pc, was, lives>>

Steps == {"settings", "lease", "catalog", "links", "marker", "cache", "data", "unmark"}

TypeOK ==
    /\ route \in {"none", "owned", "user"} /\ lease \in {"none", "owned", "other"}
    /\ default \in {"none", "retired", "leased", "configured", "user"}
    /\ listed \in BOOLEAN /\ linked \in BOOLEAN /\ marker \in BOOLEAN
    /\ cache \in {"none", "verified", "unverified", "part"} /\ data \in {"none", "whole", "part"}
    /\ pc \in {"off", "done", "failed"} \cup Steps
    /\ was \in [route : {"none", "owned", "user"}, default : {"none", "retired", "user"},
                cache : {"none", "verified", "unverified"}, data : {"none", "whole"},
                lease : {"none", "owned", "other"}]
    /\ lives \in 0..MaxLives

Init ==
    /\ was \in [route : {"none", "owned", "user"}, default : {"none", "retired", "user"},
                cache : {"none", "verified", "unverified"}, data : {"none", "whole"},
                lease : {"none", "owned", "other"}]
    /\ was.default = "retired" => was.route # "none" \/ was.lease = "owned"
    /\ route = was.route /\ default = was.default /\ lease = was.lease
    /\ cache = was.cache /\ data = was.data
    /\ listed \in BOOLEAN /\ linked \in BOOLEAN /\ (linked => cache # "none")
    /\ marker = FALSE /\ pc = "off" /\ lives = 0

-----------------------------------------------------------------------------
Start ==
    /\ pc \in {"off", "done", "failed"} /\ lives < MaxLives
    /\ pc' = "settings" /\ lives' = lives + 1
    /\ UNCHANGED <<settings, runtime, was>>

\* The process ends.
Exit == pc \in Steps /\ pc' = "off" /\ UNCHANGED <<settings, runtime, was, lives>>

\* A file cannot be read, written or removed: the rest waits for a next start.
Fails == pc \in Steps /\ pc' = "failed" /\ UNCHANGED <<settings, runtime, was, lives>>

GoTo(p) == pc' = p /\ UNCHANGED <<was, lives>>

\* One atomic write. The route goes when nobody changed it, and a default
\* that named it with it; a leased choice is what the user had before.
Settings ==
    /\ pc = "settings"
    /\ route' = IF route = "owned" THEN "none" ELSE route
    /\ IF (route = "owned" \/ lease = "owned") /\ default = "retired"
       THEN default' \in IF lease = "owned" THEN {"leased"} ELSE {"configured", "none"}
       ELSE UNCHANGED default
    /\ GoTo("lease")
    /\ UNCHANGED <<lease, listed, runtime>>

DropLease ==
    /\ pc = "lease"
    /\ lease' = IF lease = "owned" THEN "none" ELSE lease
    /\ GoTo("catalog")
    /\ UNCHANGED <<route, default, listed, runtime>>

DropCatalog ==
    /\ pc = "catalog"
    /\ listed' = FALSE /\ GoTo("links")
    /\ UNCHANGED <<route, default, lease, runtime>>

\* A junction is not followed: it would delete what is another's.
CheckLinks ==
    /\ pc = "links"
    /\ IF linked THEN GoTo("failed") ELSE GoTo("marker")
    /\ UNCHANGED <<settings, runtime>>

\* Wrong: the receipt alone tells whose the files are.
MarkReceiptOnly ==
    /\ pc = "marker"
    /\ IF cache = "verified" THEN marker' = TRUE /\ GoTo("cache") ELSE GoTo("done") /\ UNCHANGED marker
    /\ UNCHANGED <<settings, cache, data, linked>>

\* The marker outlives the receipt, which the first removal may take away.
Mark ==
    /\ pc = "marker"
    /\ IF cache = "verified" \/ marker
       THEN marker' = TRUE /\ GoTo("cache")
       ELSE GoTo("done") /\ UNCHANGED marker
    /\ UNCHANGED <<settings, cache, data, linked>>

\* rm is recursive: it may be cut short with any file gone.
RemoveCache ==
    /\ pc = "cache"
    /\ \/ cache' = "none" /\ GoTo("data")
       \/ cache # "none" /\ cache' = "part" /\ UNCHANGED <<pc, was, lives>>
    /\ UNCHANGED <<settings, data, linked, marker>>

RemoveData ==
    /\ pc = "data"
    /\ \/ data' = "none" /\ GoTo("unmark")
       \/ data # "none" /\ data' = "part" /\ UNCHANGED <<pc, was, lives>>
    /\ UNCHANGED <<settings, cache, linked, marker>>

Unmark ==
    /\ pc = "unmark"
    /\ marker' = FALSE /\ GoTo("done")
    /\ UNCHANGED <<settings, cache, data, linked>>

Next == \/ Start \/ Exit \/ Fails \/ Settings \/ DropLease \/ DropCatalog \/ CheckLinks
        \/ Mark \/ RemoveCache \/ RemoveData \/ Unmark

Spec == Init /\ [][Next]_vars

-----------------------------------------------------------------------------
(* A cleanup that comes to its end, after any number of starts that died or  *)
(* failed before, has removed all that was the retired runtime's; none ever  *)
(* touches a route, a default or a directory that is the user's.             *)
RetirementIsWhole ==
    /\ pc = "done" =>
        /\ was.cache = "verified" => cache = "none" /\ data = "none" /\ ~marker
        /\ route # "owned" /\ lease # "owned" /\ ~listed
        /\ was.route = "owned" => default # "retired"
    /\ was.cache = "unverified" => cache = "unverified" /\ data = was.data
    /\ was.route = "user" => route = "user"
    /\ was.default = "user" => default = "user"

-----------------------------------------------------------------------------
\* What a start has done so far stays done.
StepsStand ==
    /\ pc \in {"done"} \cup (Steps \ {"settings"}) => route # "owned"
    /\ pc \in {"done"} \cup (Steps \ {"settings", "lease"}) => lease # "owned"
    /\ pc \in {"done"} \cup (Steps \ {"settings", "lease", "catalog"}) => ~listed
    /\ was.route = "owned" /\ route # "owned" => default # "retired"

\* The marker is there from before the first file goes until the last is gone,
\* and only where the receipt told whose they are.
MarkerCovers ==
    /\ pc \in {"cache", "data", "unmark"} => marker
    /\ pc = "data" => cache = "none"
    /\ pc = "unmark" => cache = "none" /\ data = "none"
    /\ was.cache = "verified" /\ ~marker => cache = "verified" \/ (cache = "none" /\ data = "none")
    /\ was.cache = "unverified" => ~marker
    /\ pc = "done" => cache # "verified" /\ ~marker

\* The inductive invariant of the proofs.
IInv == TypeOK /\ StepsStand /\ MarkerCovers /\ RetirementIsWhole
=============================================================================
