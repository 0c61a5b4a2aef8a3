----------------------------- MODULE RuntimePackaging -----------------------------
(* How a release gets its harness: scripts/package-runtime.sh installs and   *)
(* builds the vendored checkout, records a hash of its sources, makes a      *)
(* stage of it that Node resolves without links, and copies that to the      *)
(* desktop's resources. The checkout is shared between Windows and WSL, and  *)
(* is edited and pulled; the script may fail or be cut off anywhere.         *)
EXTENDS Naturals

CONSTANTS Workspace, Runtime, Tool, \* packages: the harness's own, what it needs, what builds it
          Platform,                 \* the systems the checkout is used from
          MaxVersion, MaxRuns       \* bounds: versions of the sources, runs of the script

Package == Workspace \cup Runtime \cup Tool
Face == {"host", "client", "web"}
None == "none"
Kept == {"none", "link", "dir"} \* how a package is found in node_modules

VARIABLES source,   \* the version of the vendored sources
          lib,      \* the version each face of the checkout was compiled from
          recorded, \* the version whose hash the lock file holds
          files,    \* the platforms whose files lie in the checkout's node_modules
          mark,     \* what .freecode-install-platform names, or None
          platform, \* of this run
          step,     \* idle, clean, install, build, record, stage, link, prune, copy, unlink,
            \* describe, ready
          toBuild,  \* faces this run has still to build
          stage,    \* the temporary tree: the bundles, and how each package is kept
          out,      \* the same for the desktop's resources
          moved,    \* history: the sources changed after this run began
          runs

vars == <<source, lib, recorded, files, mark, platform, step, toBuild, stage, out, moved, runs>>

Version == 0..MaxVersion
Tree == [lib : [Face -> Version], at : [Package -> Kept]]
Empty == [lib |-> [f \in Face |-> 0], at |-> [p \in Package |-> "none"]]
Packaged == [lib |-> [f \in Face |-> 0], at |-> [p \in Package |-> IF p \in Tool THEN "none" ELSE "dir"]]

TypeOK ==
    /\ source \in Version /\ lib \in [Face -> Version] /\ recorded \in Version
    /\ files \subseteq Platform /\ mark \in Platform \cup {None} /\ platform \in Platform
    /\ step \in {"idle", "clean", "install", "build", "record", "stage", "link", "prune", "copy", "unlink", "describe", "ready"}
    /\ toBuild \subseteq Face /\ stage \in Tree /\ out \in Tree
    /\ moved \in BOOLEAN /\ runs \in 0..MaxRuns

\* A checkout from which a release was packaged.
Init ==
    /\ source = 0 /\ lib = [f \in Face |-> 0] /\ recorded = 0
    /\ platform \in Platform /\ files = {platform} /\ mark = platform
    /\ step = "idle" /\ toBuild = {} /\ stage = Empty /\ out = Packaged
    /\ moved = FALSE /\ runs = 0

-----------------------------------------------------------------------------
(* The checkout                                                             *)

\* Wrong: an unmarked tree is taken for one of this platform.
RecreatesMarked == mark # None /\ mark # platform

\* Dependencies of another or of an unknown platform are thrown away, and so
\* are those with a stale link.
Recreates == mark # platform

Begin(p) ==
    /\ step \in {"idle", "ready"} /\ runs < MaxRuns
    /\ runs' = runs + 1 /\ platform' = p /\ step' = "clean"
    /\ toBuild' = Face /\ moved' = FALSE
    /\ UNCHANGED <<source, lib, recorded, files, mark, stage, out>>

Clean ==
    /\ step = "clean"
    /\ step' = "install"
    /\ \/ files' = {} /\ mark' = None
       \/ ~Recreates /\ UNCHANGED <<files, mark>>
    /\ UNCHANGED <<source, lib, recorded, platform, toBuild, stage, out, moved, runs>>

\* What a completed install of this platform left is used again; otherwise
\* pnpm installs. The mark is written last.
Install ==
    /\ step = "install"
    /\ \/ mark = platform /\ UNCHANGED files
       \/ files' = files \cup {platform}
    /\ mark' = platform /\ step' = "build"
    /\ UNCHANGED <<source, lib, recorded, platform, toBuild, stage, out, moved, runs>>

Build(f) ==
    /\ step = "build" /\ f \in toBuild
    /\ lib' = [lib EXCEPT ![f] = source]
    /\ toBuild' = toBuild \ {f}
    /\ step' = IF toBuild = {f} THEN "record" ELSE "build"
    /\ UNCHANGED <<source, recorded, files, mark, platform, stage, out, moved, runs>>

\* verify-vendor-bundles-fresh.mjs --write: the hash of the sources as they are.
Record ==
    /\ step = "record"
    /\ recorded' = source /\ step' = "stage"
    /\ UNCHANGED <<source, lib, files, mark, platform, toBuild, stage, out, moved, runs>>

-----------------------------------------------------------------------------
(* The stage                                                                *)

\* Sources and bundles are copied without node_modules and installed anew: the
\* workspace's packages become links, others directories or links into pnpm's
\* store. That pnpm failed is not noticed by itself.
Stage ==
    /\ step = "stage"
    /\ \E kept \in [Package \ Workspace -> Kept], linked \in {"none", "link"} :
          stage' = [lib |-> lib, at |-> [p \in Package |-> IF p \in Workspace THEN linked ELSE kept[p]]]
    /\ step' = "link"
    /\ UNCHANGED <<source, lib, recorded, files, mark, platform, toBuild, out, moved, runs>>

\* Wrong: packages that are there already, as links, are left.
MaterialOfMissing(p) == IF p \in Workspace /\ stage.at[p] = "none" THEN "dir" ELSE stage.at[p]

\* materialize-runtime.mjs: each package of the workspace is copied to where a
\* package is looked for; nested node_modules and .bin go.
Material(p) == IF p \in Workspace THEN "dir" ELSE stage.at[p]

Materialize ==
    /\ step = "link"
    /\ stage' = [stage EXCEPT !.at = [p \in Package |-> Material(p)]]
    /\ step' = "prune"
    /\ UNCHANGED <<source, lib, recorded, files, mark, platform, toBuild, out, moved, runs>>

\* verify-runtime-closure.mjs: no optional provider, no development tool.
ClosureIsClean(tree) == \A p \in Tool : tree.at[p] = "none"

\* A native package nobody installed ends the run; a link counts as installed.
NativeInstalled == \A p \in Runtime : stage.at[p] # "none"

\* Optional providers and tools are removed, addons are rebuilt and looked for;
\* what the resources held goes.
Prune ==
    /\ step = "prune"
    /\ NativeInstalled
    /\ stage' = [stage EXCEPT !.at = [p \in Package |-> IF p \in Tool THEN "none" ELSE @[p]]]
    /\ step' = "copy" /\ out' = Empty
    /\ UNCHANGED <<source, lib, recorded, files, mark, platform, toBuild, moved, runs>>

-----------------------------------------------------------------------------
(* The desktop's resources                                                  *)

\* copy-runtime-stage.mjs: links are copied as links, to what they point to in
\* the stage, so that none is broken yet and none is replaced.
Copy ==
    /\ step = "copy"
    /\ out' = stage
    /\ step' = "unlink"
    /\ UNCHANGED <<source, lib, recorded, files, mark, platform, toBuild, stage, moved, runs>>

\* Then every link is removed.
Unlink ==
    /\ step = "unlink"
    /\ out' = [out EXCEPT !.at = [p \in Package |-> IF @[p] = "link" THEN "none" ELSE @[p]]]
    /\ step' = "describe"
    /\ UNCHANGED <<source, lib, recorded, files, mark, platform, toBuild, stage, moved, runs>>

\* What was made is verified again, and the manifest and the pins are written.
Describe ==
    /\ step = "describe" /\ ClosureIsClean(out)
    /\ step' = "ready"
    /\ UNCHANGED <<source, lib, recorded, files, mark, platform, toBuild, stage, out, moved, runs>>

\* The script ends early. What it was removing or copying may be half done; the
\* stage is removed.
Stops ==
    /\ step \notin {"idle", "ready"}
    /\ step' = "idle" /\ stage' = Empty /\ toBuild' = {}
    /\ \/ step = "clean" /\ Recreates /\ files' = files /\ mark' = None /\ UNCHANGED out
       \/ step = "install" /\ files' = files \cup {platform} /\ UNCHANGED <<mark, out>>
       \/ /\ step = "copy" /\ UNCHANGED <<files, mark>>
          /\ \E some \in SUBSET Package :
                out' = [stage EXCEPT !.at = [p \in Package |-> IF p \in some THEN stage.at[p] ELSE "none"]]
       \/ UNCHANGED <<files, mark, out>>
    /\ UNCHANGED <<source, lib, recorded, platform, moved, runs>>

-----------------------------------------------------------------------------
(* People                                                                   *)

\* Somebody edits the sources, or pulls a commit: the lock file is in git, the
\* compiled bundles are not.
Edit == recorded' = recorded
Pull == recorded' = source'

Change ==
    /\ source < MaxVersion
    /\ source' = source + 1 /\ moved' = TRUE
    /\ Edit \/ Pull
    /\ UNCHANGED <<lib, files, mark, platform, step, toBuild, stage, out, runs>>

Next ==
    \/ \E p \in Platform : Begin(p)
    \/ Clean \/ Install \/ (\E f \in Face : Build(f)) \/ Record
    \/ Stage \/ Materialize \/ Prune \/ Copy \/ Unlink \/ Describe \/ Stops \/ Change

Spec == Init /\ [][Next]_vars

-----------------------------------------------------------------------------
(* A build uses no dependency installed from another platform, whichever     *)
(* removals and installs were cut off before; and the resources of a run     *)
(* that reports success hold every package of the workspace and every        *)
(* directory of the stage, no tool and no link, and are built from the       *)
(* sources as recorded, when nobody changed them meanwhile.                  *)
PackagedIsWhole ==
    /\ step = "build" => files = {platform}
    /\ step = "ready" =>
          /\ \A p \in Package : out.at[p] = IF p \in Tool \/ stage.at[p] # "dir" THEN "none" ELSE "dir"
          /\ \A p \in Workspace : out.at[p] = "dir"
          /\ ~moved => recorded = source /\ \A f \in Face : out.lib[f] = source

-----------------------------------------------------------------------------
\* What is marked is what is there.
MarkIsTrue ==
    /\ mark # None => files = {mark}
    /\ step = "install" => mark = platform \/ (mark = None /\ files = {})
    /\ step = "build" => mark = platform

\* Unless the sources move, every face built in this run is of them, the lock
\* file says so, and what is staged and copied is what was built.
BuiltIsSource ==
    /\ step \in {"clean", "install"} => toBuild = Face
    /\ step \in {"record", "stage", "link", "prune", "copy", "unlink", "describe", "ready"} => toBuild = {}
    /\ ~moved /\ step # "idle" => \A f \in Face \ toBuild : lib[f] = source
    /\ ~moved /\ step \in {"stage", "link", "prune", "copy", "unlink", "describe", "ready"} => recorded = source
    /\ ~moved /\ step \in {"link", "prune", "copy", "unlink", "describe", "ready"} =>
          \A f \in Face : stage.lib[f] = source
    /\ step \in {"unlink", "describe", "ready"} => out.lib = stage.lib

\* How the packages lie in the stage and in the resources as the run goes on.
TreesAreClean ==
    /\ step \in {"prune", "copy", "unlink", "describe", "ready"} =>
          \A p \in Workspace : stage.at[p] = "dir"
    /\ step \in {"copy", "unlink", "describe", "ready"} => \A p \in Tool : stage.at[p] = "none"
    /\ step = "unlink" => out.at = stage.at
    /\ step \in {"describe", "ready"} =>
          \A p \in Package : out.at[p] = IF stage.at[p] = "link" THEN "none" ELSE stage.at[p]

\* The inductive invariant of the proofs.
IInv == TypeOK /\ MarkIsTrue /\ BuiltIsSource /\ TreesAreClean
=============================================================================
