----------------------------- MODULE UvxBootstrap -----------------------------
(* Which uvx the MCP servers are started with (uvx-bootstrap.ts): the one of *)
(* the payload, the user's, or the managed one, which is downloaded once and *)
(* kept over the lives of the shell.                                        *)
EXTENDS Naturals

CONSTANT MaxLives \* bound: starts of the shell

VARIABLES vendored, \* resources/freecode/uv/uvx.exe: none, exe, or broken by the installer
          path,     \* what where.exe finds: none, exe, or a file that is no program
          managed,  \* tools/uvx.exe: none, exe, part, or broken by the user
          temp,     \* the temporary file beside it: none, part, full
          work,     \* the directory of the download
          archive,  \* none, verified
          pc,       \* where ensureUvxCommand is
          uvx,      \* its result: none, vendored, path, managed
          lives

files == <<vendored, path, managed, temp, work, archive>>
vars == <<files, pc, uvx, lives>>

TypeOK ==
    /\ vendored \in {"none", "exe", "broken"} /\ path \in {"none", "exe", "other"}
    /\ managed \in {"none", "exe", "part", "broken"} /\ temp \in {"none", "part", "full"}
    /\ work \in {"none", "empty", "extracted"} /\ archive \in {"none", "verified"}
    /\ pc \in {"off", "look", "where", "managed", "download", "extract", "copy", "copied",
               "rename", "renamed", "sweep", "up"}
    /\ uvx \in {"none", "vendored", "path", "managed"}
    /\ lives \in 0..MaxLives

Init ==
    /\ vendored \in {"none", "exe", "broken"} /\ path \in {"none", "exe", "other"}
    /\ managed \in {"none", "broken"}
    /\ temp = "none" /\ work = "none" /\ archive = "none"
    /\ pc = "off" /\ uvx = "none" /\ lives = 0

Start ==
    /\ pc = "off" /\ lives < MaxLives
    /\ pc' = "look" /\ uvx' = "none" /\ lives' = lives + 1
    /\ UNCHANGED files

Chosen(u) == pc' = "up" /\ uvx' = u /\ UNCHANGED <<files, lives>>
GoTo(p) == pc' = p /\ UNCHANGED <<uvx, lives>>

\* The payload's is taken when the file is there; its bytes are not looked at.
LookVendored ==
    /\ pc = "look"
    /\ \/ vendored # "none" /\ Chosen("vendored")
       \/ vendored = "none" /\ GoTo("where") /\ UNCHANGED files

\* where.exe may also time out, which reads as nothing found.
LookPath ==
    /\ pc = "where"
    /\ \/ path = "exe" /\ Chosen("path")
       \/ GoTo("managed") /\ UNCHANGED files

\* Wrong: any file will do.
IsExecutableAny(f) == f # "none"

\* isWindowsExecutable reads the two bytes MZ, which part of a program has too.
IsExecutable(f) == f \in {"exe", "part"}

LookManaged ==
    /\ pc = "managed"
    /\ \/ IsExecutable(managed) /\ Chosen("managed")
       \/ /\ ~IsExecutable(managed)
          /\ GoTo("download") /\ work' = "empty"
          /\ UNCHANGED <<vendored, path, managed, temp, archive>>

\* HTTP, host, size and digest are checked before anything is written.
Download ==
    /\ pc = "download"
    /\ archive' = "verified" /\ GoTo("extract")
    /\ UNCHANGED <<vendored, path, managed, temp, work>>

Extract ==
    /\ pc = "extract"
    /\ work' = "extracted" /\ GoTo("copy")
    /\ UNCHANGED <<vendored, path, managed, temp, archive>>

\* Wrong: the program is written where it is looked for.
CopyInPlace ==
    \/ /\ pc = "copy" /\ managed' = "part" /\ GoTo("copied")
       /\ UNCHANGED <<vendored, path, temp, work, archive>>
    \/ /\ pc = "copied" /\ managed' = "exe" /\ GoTo("renamed")
       /\ UNCHANGED <<vendored, path, temp, work, archive>>

Copy ==
    \/ /\ pc = "copy" /\ temp' = "part" /\ GoTo("copied")
       /\ UNCHANGED <<vendored, path, managed, work, archive>>
    \/ /\ pc = "copied" /\ temp' = "full" /\ GoTo("rename")
       /\ UNCHANGED <<vendored, path, managed, work, archive>>

Rename ==
    /\ pc = "rename"
    /\ managed' = "exe" /\ temp' = "none" /\ GoTo("renamed")
    /\ UNCHANGED <<vendored, path, work, archive>>

Renamed ==
    /\ pc = "renamed" /\ IsExecutable(managed)
    /\ pc' = "sweep" /\ uvx' = "managed"
    /\ UNCHANGED <<files, lives>>

\* No network, a wrong digest, a failed Expand-Archive, a full disk: the shell
\* goes on without uvx.
Fails == pc \in {"download", "extract", "copy", "copied", "rename"} /\ GoTo("sweep") /\ UNCHANGED files

\* The finally block; what it cannot remove stays.
Sweep ==
    /\ pc = "sweep"
    /\ work' = "none" /\ archive' = "none" /\ temp' = "none" /\ GoTo("up")
    /\ UNCHANGED <<vendored, path, managed>>

\* The next life has names of its own: what is left of these is not swept.
Exit ==
    /\ pc # "off" /\ pc' = "off"
    /\ work' = "none" /\ archive' = "none" /\ temp' = "none"
    /\ UNCHANGED <<vendored, path, managed, uvx, lives>>

Next == \/ Start \/ LookVendored \/ LookPath \/ LookManaged \/ Download \/ Extract
        \/ Copy \/ Rename \/ Renamed \/ Fails \/ Sweep \/ Exit

Spec == Init /\ [][Next]_vars

-----------------------------------------------------------------------------
(* However the download ends, in whatever step the shell dies, the file the  *)
(* next life trusts is a whole program of the verified archive, and what is  *)
(* returned, but for the payload's own, can be run.                         *)
UvxIsWhole ==
    /\ managed # "part"
    /\ pc = "up" /\ uvx = "managed" => managed = "exe"
    /\ pc = "up" /\ uvx = "path" => path = "exe"

-----------------------------------------------------------------------------
\* A result is that of this life, and stands for the file it was taken for.
ResultStands ==
    /\ pc \notin {"off", "sweep", "up"} => uvx = "none"
    /\ pc = "sweep" => uvx \in {"none", "managed"}
    /\ pc = "renamed" \/ (pc \in {"sweep", "up"} /\ uvx = "managed") => managed = "exe"

\* The inductive invariant of the proofs.
IInv == TypeOK /\ ResultStands /\ UvxIsWhole
=============================================================================
