------------------------------- MODULE Preflight -------------------------------
(* The check of the shipped layout before the harness is started             *)
(* (preflight.ts, phoenix-payload.ts, headless-runtime-capability.ts), while *)
(* the installer that relaunched the app may still be writing. The files are *)
(* read one after the other; nothing keeps the installer out.                *)
EXTENDS Naturals, Sequences

CONSTANT MaxAttempts \* attempts of awaitHarnessLayout


\* One part of each kind: a file asked for by name alone (the command line's
\* bin.js), a directory (packages, node_modules), the picker's bundle (asked
\* what the manifest is asked), a broker bundle, the gateway's program, its
\* receipt, and the models' file, whose hash is in the receipt (as are those of
\* program and license).
Part == {"cli", "modules", "picker", "brokers", "exe", "receipt", "models"}

\* old and new are whole; stale is a new one that lacks what it should contain.
Content == {"none", "empty", "old", "new", "stale"}
WholeContent == {"old", "new"}

VARIABLES win,      \* platform win32
          faulty,   \* the part the new release ships stale, or "none"
          disk,     \* what is in each part
          attempt,  \* 0 before the first look
          next,     \* the read to do next
          receipt,  \* the release of the receipt read in this look
          clean,    \* nothing missing and no warning so far in this look
          verdict,  \* "looking", "retrying", "ok", "failed"
          sound,    \* history: the layout was sound when this look began
          replaced  \* history: something whole was replaced since then

vars == <<win, faulty, disk, attempt, next, receipt, clean, verdict, sound, replaced>>

\* What the check would ask of one moment. bin.js may be empty and a directory
\* half full: only their being there is asked.
Sound(d) ==
    /\ d["cli"] # "none" /\ d["modules"] \notin {"none", "empty"}
    /\ \A p \in Part \ {"cli", "modules"} : d[p] \in WholeContent
    /\ d["exe"] = d["receipt"] /\ d["models"] = d["receipt"]

-----------------------------------------------------------------------------
(* The reads of one look, in their order: criticalPaths, then               *)
(* verifyPhoenixPayload, verifyBridgeInvariant, assertHeadlessDesktopRuntime *)
(* and verifyManifestInvariant.                                             *)

There(p) == [part |-> p, asks |-> "there"]
Bytes(p) == [part |-> p, asks |-> "bytes"]

Reads == <<There("cli"), There("modules"), There("picker"), There("exe"), There("receipt"),
           There("models"), Bytes("receipt"), Bytes("exe"), Bytes("models"), Bytes("models"),
           Bytes("picker"), Bytes("brokers")>>

\* Wrong: the hashes are not compared with the receipt.
PassesUnhashed(r, d, of) ==
    LET c == d[r.part]
    IN  IF r.asks = "there" THEN c # "none" /\ (r.part = "modules" => c # "empty")
        ELSE c \in WholeContent \/ (c = "none" /\ r.part = "picker")

\* A picker that is not there was reported by the first pass.
Passes(r, d, of) ==
    LET c == d[r.part]
    IN  IF r.asks = "there" THEN c # "none" /\ (r.part = "modules" => c # "empty")
        ELSE /\ c \in WholeContent \/ (c = "none" /\ r.part = "picker")
             /\ r.part \in {"exe", "models"} => c = of

-----------------------------------------------------------------------------
TypeOK ==
    /\ win \in BOOLEAN /\ faulty \in Part \cup {"none"}
    /\ disk \in [Part -> Content]
    /\ attempt \in 0..MaxAttempts /\ next \in 1..Len(Reads) + 1
    /\ receipt \in Content /\ clean \in BOOLEAN
    /\ verdict \in {"looking", "retrying", "ok", "failed"}
    /\ sound \in BOOLEAN /\ replaced \in BOOLEAN

Init ==
    /\ win \in BOOLEAN /\ faulty \in Part \cup {"none"}
    /\ disk \in {[p \in Part |-> c] : c \in {"none", "old"}}
    /\ attempt = 0 /\ next = 1 /\ receipt = "none" /\ clean = TRUE
    /\ verdict = "retrying" /\ sound = FALSE /\ replaced = FALSE

-----------------------------------------------------------------------------
\* Wrong: a retry keeps what the look before it complained about.
LookKeeping ==
    /\ verdict = "retrying" /\ attempt < MaxAttempts
    /\ attempt' = attempt + 1
    /\ next' = 1 /\ receipt' = "none" /\ clean' = (win /\ clean)
    /\ sound' = Sound(disk) /\ replaced' = FALSE
    /\ verdict' = "looking"
    /\ UNCHANGED <<win, faulty, disk>>

\* awaitHarnessLayout: the first look, or the next one after the delay. Off
\* Windows every look ends in the warning that there is no payload for it.
Look ==
    /\ verdict = "retrying" /\ attempt < MaxAttempts
    /\ attempt' = attempt + 1
    /\ next' = 1 /\ receipt' = "none" /\ clean' = win
    /\ sound' = Sound(disk) /\ replaced' = FALSE
    /\ verdict' = "looking"
    /\ UNCHANGED <<win, faulty, disk>>

Read ==
    /\ verdict = "looking" /\ next <= Len(Reads)
    /\ LET r == Reads[next]
       IN  /\ clean' = (clean /\ Passes(r, disk, receipt))
           /\ receipt' = IF r = Bytes("receipt") THEN disk["receipt"] ELSE receipt
    /\ next' = next + 1
    /\ UNCHANGED <<win, faulty, disk, attempt, verdict, sound, replaced>>

Judge ==
    /\ verdict = "looking" /\ next > Len(Reads)
    /\ verdict' = IF clean THEN "ok" ELSE IF attempt < MaxAttempts THEN "retrying" ELSE "failed"
    /\ UNCHANGED <<win, faulty, disk, attempt, next, receipt, clean, sound, replaced>>

-----------------------------------------------------------------------------
(* The installer, a process of its own that stops anywhere: a file is there, *)
(* empty, before its bytes are.                                             *)
Written(p) == IF p = faulty THEN "stale" ELSE "new"

Create(p) ==
    /\ disk[p] \in {"none", "old"}
    /\ \A q \in Part : disk[q] # "empty"
    /\ disk' = [disk EXCEPT ![p] = "empty"]
    /\ replaced' = (replaced \/ disk[p] = "old")
    /\ UNCHANGED <<win, faulty, attempt, next, receipt, clean, verdict, sound>>

Fill(p) ==
    /\ disk[p] = "empty"
    /\ disk' = [disk EXCEPT ![p] = Written(p)]
    /\ UNCHANGED <<win, faulty, attempt, next, receipt, clean, verdict, sound, replaced>>

Next == \/ Look \/ Read \/ Judge
        \/ \E p \in Part : Create(p) \/ Fill(p)

Spec == Init /\ [][Next]_vars

-----------------------------------------------------------------------------
(* Without anything replaced under the look, a layout that is let through is *)
(* complete, its gateway, receipt and models of one release; and on Windows  *)
(* one that was complete when the last look began is not turned away: an     *)
(* install that settles in time is absorbed, a broken one never passes.      *)
VerdictIsTrue ==
    /\ verdict = "ok" /\ ~replaced => Sound(disk)
    /\ verdict = "failed" /\ win /\ ~replaced => ~sound

-----------------------------------------------------------------------------
\* While nothing whole is replaced, what a look has read and let pass stays so.
ReadsStand ==
    verdict \in {"looking", "ok"} /\ clean /\ ~replaced =>
        /\ next > 1 => disk["cli"] # "none"
        /\ next > 2 => disk["modules"] \notin {"none", "empty"}
        /\ next > 3 => disk["picker"] # "none"
        /\ next > 7 => disk["receipt"] \in WholeContent /\ receipt = disk["receipt"]
        /\ next > 8 => disk["exe"] \in WholeContent /\ disk["exe"] = disk["receipt"]
        /\ next > 9 => disk["models"] \in WholeContent /\ disk["models"] = disk["receipt"]
        /\ next > 11 => disk["picker"] \in WholeContent
        /\ next > 12 => disk["brokers"] \in WholeContent

\* A layout that was sound when the look began stays so, and passes every read.
SoundStands ==
    sound /\ win /\ ~replaced => Sound(disk) /\ verdict \in {"looking", "ok"} /\ clean

\* A look that is over has read everything.
LookIsOver == verdict = "ok" => clean /\ next = Len(Reads) + 1

\* The inductive invariant of the proofs.
IInv == TypeOK /\ ReadsStand /\ SoundStands /\ LookIsOver /\ VerdictIsTrue
=============================================================================
