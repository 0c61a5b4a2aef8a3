-------------------------------- MODULE PatchStack --------------------------------
(* The ordered stack of patches over the vendored harness, as the build      *)
(* applies it (scripts/apply-upstream-patches.mjs, patch-stack-replay.mjs).  *)
(* A line stands for a hunk and its context; its version is the last patch   *)
(* that rewrote it, 0 as upstream has it. Patch p was made on a tree with    *)
(* all earlier patches, so it expects the version the last of them left.     *)
EXTENDS Integers, FiniteSets, FiniteSetsExt

CONSTANTS File, MaxLine, \* files under the vendor prefix, bound: lines of each
          Patches,       \* bound: patches of the manifest, in their order
          MaxRuns, MaxEdits \* bounds: runs of the script, edits made by hand

Line == File \X (1..MaxLine)
Patch == 1..Patches
Edited == -1  \* what somebody wrote by hand
Broken == [l \in Line |-> -2]  \* a scratch copy in which git apply failed

VARIABLES touches, \* the lines each patch rewrites
          tree,    \* the version of every line
          stage,   \* idle, applying, done, died
          next,    \* the next patch of the loop
          stacked, \* patches found to be applied by replaying them as a group
          cause,   \* of the last death
          began,   \* history: the tree when this run began
          runs, edits

vars == <<touches, tree, stage, next, stacked, cause, began, runs, edits>>

Version == {Edited, 0} \cup Patch

TypeOK ==
    /\ touches \in [Patch -> SUBSET Line]
    /\ tree \in [Line -> Version] /\ began \in [Line -> Version]
    /\ stage \in {"idle", "applying", "done", "died"}
    /\ next \in 1..(Patches + 1) /\ stacked \subseteq Patch
    /\ cause \in {"none", "manifest", "replay", "mismatch", "git", "whitespace", "stopped"}
    /\ runs \in 0..MaxRuns /\ edits \in 0..MaxEdits

\* The version patch p finds, when the patches before it have been applied.
From(p, l) == Max({0} \cup {q \in 1..(p - 1) : l \in touches[q]})
Last(l) == From(Patches + 1, l)

Upstream == [l \in Line |-> 0]
Patched == [l \in Line |-> Last(l)]

Init ==
    /\ touches \in [Patch -> (SUBSET Line) \ {{}}]
    /\ tree \in {Upstream, Patched}
    /\ stage = "idle" /\ next = 1 /\ stacked = {} /\ cause = "none"
    /\ began = tree /\ runs = 0 /\ edits = 0

-----------------------------------------------------------------------------
(* git apply                                                                *)

\* --check: every hunk, with its context, is there; and with --reverse.
Applies(p, t) == \A l \in touches[p] : t[l] = From(p, l)
Reverses(p, t) == \A l \in touches[p] : t[l] = p

Apply(p, t) == IF Applies(p, t) THEN [l \in Line |-> IF l \in touches[p] THEN p ELSE t[l]] ELSE Broken
Reverse(p, t) ==
    IF Reverses(p, t) THEN [l \in Line |-> IF l \in touches[p] THEN From(p, l) ELSE t[l]] ELSE Broken

-----------------------------------------------------------------------------
(* verifyOverlappingAppliedPatches                                          *)

\* A patch that fits neither way: a later one rewrote its lines, or an earlier
\* one is missing, or the tree has diverged.
Overlapping == {p \in Patch : ~Applies(p, tree) /\ ~Reverses(p, tree)}

\* The patches that are replayed with them: those that fit neither way or
\* reverse, and share a file with one of the group. The files of two groups are
\* disjoint, so replaying each or all at once is the same.
Share(p, q) == \E k \in touches[p], l \in touches[q] : k[1] = l[1]
Grouped ==
    LET candidates == Overlapping \cup {p \in Patch : Reverses(p, tree)}
        grown[n \in 0..Patches] ==
            IF n = 0 THEN Overlapping
            ELSE grown[n - 1] \cup {q \in candidates : \E p \in grown[n - 1] : Share(p, q)}
    IN  grown[Patches]

\* Wrong: a patch that does not come off, or not go on, is passed over.
ReplaysLeniently(group) ==
    LET off[n \in 1..(Patches + 1)] ==
            IF n = Patches + 1 THEN tree
            ELSE IF n \in group /\ Reverses(n, off[n + 1]) THEN Reverse(n, off[n + 1]) ELSE off[n + 1]
        on[n \in 0..Patches] ==
            IF n = 0 THEN off[1]
            ELSE IF n \in group /\ Applies(n, on[n - 1]) THEN Apply(n, on[n - 1]) ELSE on[n - 1]
    IN  on[Patches] = tree

\* replayGroup, in a scratch copy: the group comes off in reverse order, goes on
\* again in order, and leaves what was there.
Replays(group) ==
    LET off[n \in 1..(Patches + 1)] ==
            IF n = Patches + 1 THEN tree
            ELSE IF n \in group THEN Reverse(n, off[n + 1]) ELSE off[n + 1]
        on[n \in 0..Patches] ==
            IF n = 0 THEN off[1]
            ELSE IF n \in group THEN Apply(n, on[n - 1]) ELSE on[n - 1]
    IN  on[Patches] = tree

-----------------------------------------------------------------------------
(* The script                                                               *)

Die(why) == stage' = "died" /\ cause' = why

\* Undeclared or missing patches, two of one order, a path outside the vendor
\* prefix: all are refused before anything is applied.
Begin ==
    /\ stage # "applying" /\ runs < MaxRuns
    /\ runs' = runs + 1 /\ began' = tree /\ next' = 1
    /\ \/ Die("manifest") /\ stacked' = {}
       \/ /\ Replays(Grouped)
          /\ stage' = "applying" /\ stacked' = Grouped /\ cause' = "none"
       \/ /\ ~Replays(Grouped)
          /\ Die("replay") /\ stacked' = {}
    /\ UNCHANGED <<touches, tree, edits>>

\* One turn of the loop: replayed already, applied now, or applied before.
Turn ==
    /\ stage = "applying" /\ next <= Patches
    /\ \/ /\ next \notin stacked /\ Applies(next, tree)
          /\ \/ tree' = Apply(next, tree) /\ next' = next + 1 /\ UNCHANGED <<stage, cause>>
             \/ Die("git") /\ UNCHANGED <<tree, next>>
       \/ /\ next \in stacked \/ (~Applies(next, tree) /\ Reverses(next, tree))
          /\ next' = next + 1
          /\ UNCHANGED <<tree, stage, cause>>
       \/ /\ next \notin stacked /\ ~Applies(next, tree) /\ ~Reverses(next, tree)
          /\ Die("mismatch")
          /\ UNCHANGED <<tree, next>>
    /\ UNCHANGED <<touches, stacked, began, runs, edits>>

\* The script ends while git writes one file after the other.
Stopped ==
    /\ stage = "applying"
    /\ Die("stopped")
    /\ \/ UNCHANGED tree
       \/ /\ next <= Patches /\ next \notin stacked /\ Applies(next, tree)
          /\ \E files \in SUBSET File :
                tree' = [l \in Line |-> IF l[1] \in files THEN Apply(next, tree)[l] ELSE tree[l]]
    /\ UNCHANGED <<touches, next, stacked, began, runs, edits>>

\* git diff --check over the patched paths ends the run.
Finish ==
    /\ stage = "applying" /\ next = Patches + 1
    /\ \/ stage' = "done" /\ UNCHANGED cause
       \/ Die("whitespace")
    /\ UNCHANGED <<touches, tree, next, stacked, began, runs, edits>>

\* Somebody edits a line, or takes one back from another commit.
Edit ==
    /\ stage # "applying" /\ edits < MaxEdits
    /\ edits' = edits + 1 /\ stage' = "idle"
    /\ \E l \in Line : \E v \in {Edited, 0} \cup {p \in Patch : l \in touches[p]} :
          tree' = [tree EXCEPT ![l] = v]
    /\ UNCHANGED <<touches, next, stacked, cause, began, runs>>

Next == Begin \/ Turn \/ Stopped \/ Finish \/ Edit

Spec == Init /\ [][Next]_vars

-----------------------------------------------------------------------------
(* A run that reports success leaves every line the stack touches as the     *)
(* last patch made it, whatever the tree was; and once the stack has been    *)
(* verified the loop meets no patch that fits neither way, so that no run    *)
(* stops half-way of its own accord.                                         *)
PatchingIsWhole ==
    /\ stage = "done" => \A p \in Patch : \A l \in touches[p] : tree[l] = Last(l)
    /\ cause # "mismatch"

-----------------------------------------------------------------------------
\* Patch p, or a later one over it, is in the tree on line l.
IsIn(p, l) == tree[l] \in Patch /\ tree[l] >= p /\ l \in touches[tree[l]]

\* What the loop has passed and what was replayed is in the tree; each other
\* patch still fits, one way or the other.
LoopIsSound ==
    stage = "applying" => \A p \in Patch :
        /\ p \in stacked \/ p < next => \A l \in touches[p] : IsIn(p, l)
        /\ p \notin stacked /\ p >= next => Applies(p, tree) \/ Reverses(p, tree)

\* The inductive invariant of the proofs.
IInv == TypeOK /\ (\A p \in Patch : touches[p] # {}) /\ LoopIsSound /\ PatchingIsWhole
=============================================================================
