---------------------------- MODULE ToolResolution ----------------------------
(* Which git, caveman and rtk the shell's helpers use (git-resolver.ts,      *)
(* caveman-resolver.ts, sandbox-diagnostics.ts). What was found is kept for  *)
(* the life of the process while programs come and go on the machine.        *)
EXTENDS Naturals

CONSTANT MaxChanges \* bound: programs installed, broken or removed meanwhile

\* Places a program may be in. PATH has two directories; `bundled' and `root'
\* are those of the payload, `program-files' is tried by git alone.
Place == {"bundled", "root", "path1", "path2", "program-files"}

\* What is asked: git with or without the payload's directory, with the PATH
\* of the process or an empty one; caveman and rtk.
PayloadQuery == {"payload-path", "payload-alone"}
EmptyQuery == {"payload-alone", "empty-path"}
GitQuery == PayloadQuery \cup EmptyQuery \cup {"path"}
Query == GitQuery \cup {"caveman", "rtk"}

\* Where an answer may come from; the rest is left empty.
Looked(q) == IF q \in GitQuery THEN Place \ {"root"} ELSE Place \ {"program-files"}

VARIABLES win,     \* process.platform === 'win32'
          asks,    \* the question; another one has an entry of its own
          at,      \* what is in each place: none, broken, works
          cache,   \* its entry of GIT_ENV_CACHE or resolutionCache
          then,    \* history: what the machine was like at the first answer
          report,  \* the last validateGit: what worked, and the error
          changes

vars == <<win, asks, at, cache, then, report, changes>>

Unasked == "unasked"
Nowhere == "nowhere"
Class == {"executable-not-found", "sandbox-denied", "not-a-repository", "network-denied",
          "timeout", "git-failed", "none"}
Cause == {"ok", "permission", "repository", "network", "timed-out", "killed", "other"}

TypeOK ==
    /\ win \in BOOLEAN /\ asks \in Query
    /\ at \in [Place -> {"none", "broken", "works"}]
    /\ then \in [Place -> {"none", "broken", "works"}]
    /\ cache \in Place \cup {Unasked, Nowhere}
    /\ report \in [rev : BOOLEAN, status : BOOLEAN, diff : BOOLEAN, error : Class]
    /\ changes \in 0..MaxChanges

Init ==
    /\ win \in BOOLEAN /\ asks \in Query
    /\ at \in [Place -> {"none", "broken", "works"}]
    /\ \A p \in Place \ Looked(asks) : at[p] = "none"
    /\ cache = Unasked /\ then = at
    /\ report = [rev |-> TRUE, status |-> TRUE, diff |-> TRUE, error |-> "none"]
    /\ changes = 0

-----------------------------------------------------------------------------
\* The order in which places are tried.
Rank == [p \in Place |-> IF p = "bundled" THEN 1 ELSE IF p = "root" THEN 2
                         ELSE IF p = "path1" THEN 3 ELSE IF p = "path2" THEN 4 ELSE 5]
First(places) == CHOOSE p \in places : \A o \in places : Rank[p] <= Rank[o]

\* findInPath and the first line of `where': what is there first, run or not.
InPath(m) == IF m["path1"] # "none" THEN {"path1"} ELSE IF m["path2"] # "none" THEN {"path2"} ELSE {}

\* What resolveGitPath tries.
GitPlaces(q, m, w) ==
    (IF q \in PayloadQuery THEN {"bundled"} ELSE {})
    \cup (IF q \in EmptyQuery THEN {} ELSE InPath(m))
    \cup (IF w /\ q \notin EmptyQuery THEN {"program-files"} ELSE {})

\* Wrong: a git that does not answer is taken.
ResolvedUntested(q, m, w) ==
    {p \in (IF q \in GitQuery THEN GitPlaces(q, m, w) ELSE {"bundled", "root"} \cup InPath(m)) :
        m[p] # "none"}

\* A git answers to --version; for caveman and rtk the file alone is looked for.
Resolved(q, m, w) ==
    IF q \in GitQuery THEN {p \in GitPlaces(q, m, w) : m[p] = "works"}
    ELSE {p \in {"bundled", "root"} \cup InPath(m) : m[p] # "none"}

\* A git that is nowhere is an error and is looked for again; that caveman or
\* rtk is nowhere is remembered.
Resolve ==
    /\ cache = Unasked
    /\ LET found == Resolved(asks, at, win)
       IN  cache' = IF found # {} THEN First(found)
                    ELSE IF asks \in GitQuery THEN Unasked ELSE Nowhere
    /\ then' = at
    /\ UNCHANGED <<win, asks, at, report, changes>>

Change ==
    /\ changes < MaxChanges
    /\ \E p \in Looked(asks), s \in {"none", "broken", "works"} : at' = [at EXCEPT ![p] = s]
    /\ changes' = changes + 1
    /\ UNCHANGED <<win, asks, cache, then, report>>

-----------------------------------------------------------------------------
\* classifyGitError reads the words of stderr. A git that is killed at the
\* timeout has said nothing.
ClassOf(c) ==
    CASE c = "permission" -> "sandbox-denied"
      [] c = "repository" -> "not-a-repository"
      [] c = "network" -> "network-denied"
      [] c = "timed-out" -> "timeout"
      [] OTHER -> "git-failed"

Report(rev, status, diff, error) ==
    report' = [rev |-> rev, status |-> status, diff |-> diff, error |-> error]

\* Wrong: only the status is looked at.
ChecksStatus(status, diff) == status = "ok"

ChecksPass(status, diff) == status = "ok" /\ diff = "ok"

\* validateGit resolves, or takes the cached path although it may be gone; then
\* rev-parse, status and diff run, the last two only in a repository.
Validate ==
    /\ asks \in GitQuery /\ cache # Unasked
    /\ \/ at[cache] # "works" /\ Report(FALSE, FALSE, FALSE, "git-failed")
       \/ /\ at[cache] = "works"
          /\ \E rev \in Cause, status, diff \in {"ok", "other"} :
                IF rev # "ok" THEN Report(FALSE, FALSE, FALSE, ClassOf(rev))
                ELSE Report(TRUE, status = "ok", diff = "ok",
                            IF ChecksPass(status, diff) THEN "none" ELSE "git-failed")
    /\ UNCHANGED <<win, asks, at, cache, then, changes>>

NotFound ==
    /\ asks \in GitQuery /\ cache = Unasked /\ Resolved(asks, at, win) = {}
    /\ Report(FALSE, FALSE, FALSE, "executable-not-found")
    /\ UNCHANGED <<win, asks, at, cache, then, changes>>

Next == Resolve \/ Change \/ Validate \/ NotFound

Spec == Init /\ [][Next]_vars

-----------------------------------------------------------------------------
(* What was found stood where it is said to stand when it was looked for; a  *)
(* git had answered, and none of a better place had; an empty PATH never     *)
(* leads out of the payload. A report without an error is one in which all   *)
(* three commands worked.                                                    *)
ResolutionIsHonest ==
    /\ cache = Nowhere => \A p \in Place \ {"program-files"} : then[p] = "none"
    /\ cache \in Place => then[cache] # "none"
    /\ asks \in GitQuery /\ cache \in Place =>
          /\ then[cache] = "works"
          /\ asks \in EmptyQuery => cache = "bundled"
          /\ asks \in PayloadQuery /\ then["bundled"] = "works" => cache = "bundled"
    /\ (report.error = "none") = (report.rev /\ report.status /\ report.diff)

-----------------------------------------------------------------------------
\* The inductive invariant of the proofs.
IInv == TypeOK /\ ResolutionIsHonest
=============================================================================
