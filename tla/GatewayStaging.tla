------------------------------ MODULE GatewayStaging ------------------------------
(* The gateway the installer ships: built with PyInstaller from pinned       *)
(* sources (scripts/build-freellmpool.mjs) and staged with a receipt that    *)
(* names them (scripts/freellmpool-staging.mjs), which packaging verifies.   *)
(* A build takes minutes, in which files may be edited; any script may be    *)
(* cut off, and the staging run by itself.                                   *)
EXTENDS Integers, Sequences

CONSTANTS MaxVersion, \* bound: versions of each part of the sources
          MaxBuilds   \* bound: builds

Part == {"code", "catalog", "lock"} \* what is compiled, the model ids, the pinned toolchain
None == -1
Order == <<"binary", "receipt", "catalog">> \* the order in which files are staged

VARIABLES source,   \* the version of each part
          metadata, \* the toolchain the last build recorded, or None
          binary,   \* the gateway beside the sources: of which code, of which build
          written,  \* the receipt beside the sources
          staged,   \* the staged files
          stage,    \* idle, building, staging
          copied,   \* how many files this staging has copied
          made,     \* the code as this build began
          whole,    \* history: the last staging ended a build during which nothing was edited
          verified, \* the last script run was a verification that passed
          builds

vars == <<source, metadata, binary, written, staged, stage, copied, made, whole, verified, builds>>

Version == 0..MaxVersion
Binary == [code : Version \cup {None}, build : 0..MaxBuilds]
Receipt == [sources : [Part -> Version], metadata : Version \cup {None}, binary : Binary]
NoBinary == [code |-> None, build |-> 0]
NoReceipt == [sources |-> [p \in Part |-> 0], metadata |-> None, binary |-> NoBinary]

TypeOK ==
    /\ source \in [Part -> Version] /\ metadata \in Version \cup {None}
    /\ binary \in Binary /\ written \in Receipt
    /\ staged \in [binary : Binary, receipt : Receipt, catalog : Version \cup {None}]
    /\ stage \in {"idle", "building", "staging"} /\ copied \in 0..Len(Order)
    /\ made \in Version /\ whole \in BOOLEAN /\ verified \in BOOLEAN /\ builds \in 0..MaxBuilds

Init ==
    /\ source = [p \in Part |-> 0] /\ metadata = None
    /\ binary = NoBinary /\ written = NoReceipt
    /\ staged = [binary |-> NoBinary, receipt |-> NoReceipt, catalog |-> None]
    /\ stage = "idle" /\ copied = 0 /\ made = 0 /\ whole = FALSE /\ verified = FALSE /\ builds = 0

-----------------------------------------------------------------------------
(* Sources                                                                  *)

\* Somebody edits or updates a part.
Edit(p) ==
    /\ source[p] < MaxVersion
    /\ source' = [source EXCEPT ![p] = @ + 1]
    /\ whole' = (whole /\ stage = "idle") /\ verified' = FALSE
    /\ UNCHANGED <<metadata, binary, written, staged, stage, copied, made, builds>>

\* Wrong: only what the build recorded is fingerprinted, not what it compiles.
SourceFingerprintOfPins(p) == IF p = "code" THEN 0 ELSE source[p]

\* The digest covers every file of the sources and of the build.
SourceFingerprint(p) == source[p]

ReceiptNow == [sources |-> [p \in Part |-> SourceFingerprint(p)], metadata |-> metadata, binary |-> binary]

\* The recorded toolchain is the pinned one, the binary a console executable.
Stageable == metadata = source["lock"] /\ binary # NoBinary

-----------------------------------------------------------------------------
(* Building and staging                                                     *)

\* The pins are checked and the toolchain is recorded; PyInstaller is started.
BuildBegins ==
    /\ stage = "idle" /\ builds < MaxBuilds
    /\ builds' = builds + 1
    /\ metadata' = source["lock"] /\ made' = source["code"]
    /\ stage' = "building" /\ whole' = TRUE /\ verified' = FALSE
    /\ UNCHANGED <<source, binary, written, staged, copied>>

\* A file is compiled as it was at some moment of the build; the binary is
\* copied beside the sources.
BuildEnds ==
    /\ stage = "building"
    /\ \E c \in made..source["code"] : binary' = [code |-> c, build |-> builds]
    /\ stage' = "staging" /\ copied' = 0
    /\ UNCHANGED <<source, metadata, written, staged, made, whole, verified, builds>>

\* --stage-built: what lies beside the sources is staged as it is.
StageBuilt ==
    /\ stage = "idle" /\ Stageable
    /\ stage' = "staging" /\ copied' = 0 /\ whole' = FALSE /\ verified' = FALSE
    /\ UNCHANGED <<source, metadata, binary, written, staged, made, builds>>

\* The receipt is made from one reading of the sources and written beside them;
\* then file after file is copied.
Receipted ==
    /\ stage = "staging" /\ copied = 0 /\ Stageable
    /\ written' = ReceiptNow
    /\ copied' = 1 /\ staged' = [staged EXCEPT !.binary = binary]
    /\ UNCHANGED <<source, metadata, binary, stage, made, whole, verified, builds>>

CopyNext ==
    /\ stage = "staging" /\ copied \in 1..(Len(Order) - 1)
    /\ copied' = copied + 1
    /\ staged' = IF Order[copied + 1] = "receipt" THEN [staged EXCEPT !.receipt = written]
                 ELSE [staged EXCEPT !.catalog = source["catalog"]]
    /\ UNCHANGED <<source, metadata, binary, written, stage, made, whole, verified, builds>>

\* The script ends, or anything in it throws: what it wrote stays.
Ends ==
    /\ stage # "idle"
    /\ stage' = "idle" /\ copied' = 0
    /\ whole' = (whole /\ stage = "staging" /\ copied = Len(Order))
    /\ UNCHANGED <<source, metadata, binary, written, staged, made, verified, builds>>

-----------------------------------------------------------------------------
(* Verification                                                             *)

\* Wrong: the staged catalogue is trusted when the one of the sources fits.
StagedCatalogAny(r) == r.sources["catalog"] = source["catalog"]

StagedBinary(r) == r.binary = binary /\ r.binary = staged.binary
StagedCatalog(r) == r.sources["catalog"] = source["catalog"] /\ r.sources["catalog"] = staged.catalog

Verify ==
    /\ stage = "idle" /\ staged.receipt # NoReceipt
    /\ verified' = LET r == staged.receipt IN
          /\ Stageable
          /\ r.sources = [p \in Part |-> SourceFingerprint(p)] /\ r.metadata = metadata
          /\ StagedBinary(r) /\ StagedCatalog(r)
    /\ UNCHANGED <<source, metadata, binary, written, staged, stage, copied, made, whole, builds>>

Next == (\E p \in Part : Edit(p)) \/ BuildBegins \/ BuildEnds \/ StageBuilt \/ Receipted \/ CopyNext \/ Ends \/ Verify

Spec == Init /\ [][Next]_vars

-----------------------------------------------------------------------------
(* What packaging takes after a verification is one staging, complete and of *)
(* the sources as they are; and when that staging ended a build in which     *)
(* nothing was edited, the gateway shipped was compiled from those sources.  *)
VerifiedIsBuilt ==
    verified =>
        /\ staged.binary = binary /\ staged.catalog = source["catalog"]
        /\ staged.receipt.sources = source /\ metadata = source["lock"]
        /\ whole => staged.binary.code = source["code"]

-----------------------------------------------------------------------------
\* A verification stands only while no script runs.
VerifiedAtRest == verified => stage = "idle"

\* While nothing is edited, what a build compiles, writes and stages is of the
\* code it began with; and so is what it leaves staged when it was not cut off.
WholeIsOne ==
    whole =>
        /\ stage # "idle" => source["code"] = made
        /\ stage = "staging" =>
              /\ binary.code = made
              /\ copied > 0 => staged.binary = binary /\ written.sources = source
              /\ copied > 1 => staged.receipt = written
        /\ stage = "idle" => staged.binary.code = made /\ staged.receipt.sources["code"] = made

\* The inductive invariant of the proofs.
IInv == TypeOK /\ VerifiedAtRest /\ WholeIsOne /\ VerifiedIsBuilt
=============================================================================
