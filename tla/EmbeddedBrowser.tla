--------------------------- MODULE EmbeddedBrowser ---------------------------
(* The browser panel of embedded-browser.ts: its tabs, the window they are  *)
(* shown in and the file they are restored from. Handlers that await only   *)
(* settled promises are one step; pages and bounds are left out.            *)
EXTENDS Naturals, Sequences, SequencesExt

CONSTANTS Tab,        \* tab ids
          FirstTab,   \* "tab-1", the tab of an empty profile
          MaxTabs,    \* MAX_TABS
          MaxWindows, \* main windows per life of the shell
          MaxLives    \* lives of the shell

VARIABLES phase,   \* of the shell: down, up, closing, closed
          life,    \* which life it is
          disk,    \* browser-state.json
          saved,   \* savedTabs, read at startup
          tabs,    \* ids in the order of the map
          active,  \* activeTabId
          visible,
          windows, \* main windows opened in this life
          shellWin,\* the mainWindow of index.ts, 0 if none
          win,     \* the mainWindow of the browser
          chrome,  \* the window its sidebar and toolbar were added to, 0 if none
          placed,  \* tabs whose view is a child of win
          serving, \* the request being served: none, its body read, its page waited for
          kept,    \* history: the tabs as they were last changed
          writer   \* history: what disk was last written from

vars == <<phase, life, disk, saved, tabs, active, visible, windows, shellWin, win,
          chrome, placed, serving, kept, writer>>

NoTab == 0
State(ts, a) == [tabs |-> ts, active |-> a]
TabSeq == UNION {[1..n -> Tab] : n \in 0..MaxTabs}

TypeOK ==
    /\ phase \in {"down", "up", "closing", "closed"} /\ life \in 0..MaxLives
    /\ disk \in [tabs : TabSeq, active : Tab \cup {NoTab}]
    /\ saved \in TabSeq /\ tabs \in TabSeq /\ kept \in TabSeq
    /\ active \in Tab \cup {NoTab} /\ visible \in BOOLEAN
    /\ windows \in 0..MaxWindows /\ {shellWin, win, chrome} \subseteq 0..MaxWindows
    /\ placed \subseteq Tab /\ serving \in {"none", "body", "page"} /\ writer \in {"nobody", "tabs", "empty-map", "late-request"}

Init ==
    /\ phase = "down" /\ life = 0
    /\ disk = State(<<>>, NoTab) /\ saved = <<>> /\ tabs = <<>> /\ kept = <<FirstTab>>
    /\ active = NoTab /\ visible = FALSE
    /\ windows = 0 /\ shellWin = 0 /\ win = 0 /\ chrome = 0 /\ placed = {}
    /\ serving = "none" /\ writer = "nobody"

-----------------------------------------------------------------------------
(* Steps the handlers share. Each names the tabs and the active tab it       *)
(* leaves behind; persist() writes both.                                    *)

Persist(ts, a) == disk' = State(ts, a)

\* ensureTabs: the saved tabs are opened the first time anything needs a tab.
Ensured == IF tabs = <<>> THEN saved ELSE tabs
EnsuredActive == IF tabs # <<>> \/ active \in ToSet(saved) THEN active ELSE Head(saved)

\* The window show() ends up in: its own, or the shell's.
Target(w) == IF win # 0 THEN win ELSE w

Settle(ts, a) ==
    /\ tabs' = ts /\ active' = a /\ Persist(ts, a)
    /\ kept' = IF phase = "closing" THEN kept ELSE ts
    /\ writer' = IF phase = "closing" THEN "late-request" ELSE "tabs"

\* attachWindow adds every tab to the window; ensureChrome adds the sidebar
\* and the toolbar only when they do not exist yet.
Attach(w, ts) ==
    /\ win' = w
    /\ placed' = IF w = 0 THEN {} ELSE ToSet(ts)
    /\ chrome' = IF chrome = 0 THEN w ELSE chrome

\* What the agent or the user may ask of the tabs ts, with a the active one.
Selected(ts, a) == {State(ts, t) : t \in ToSet(ts)}
\* Wrong: the limit is not looked at.
OpenedUnbounded(ts, a) == {State(Append(ts, t), t) : t \in Tab \ ToSet(ts)}

Opened(ts, a) == IF Len(ts) >= MaxTabs THEN {}
                 ELSE {State(Append(ts, t), t) : t \in Tab \ ToSet(ts)}
\* Wrong: the closed tab stays the active one.
ClosedActive(ts, a) ==
    UNION {LET rest == RemoveAt(ts, i)
           IN  IF rest = <<>> THEN Opened(rest, a) ELSE {State(rest, a)} : i \in 1..Len(ts)}

Closed(ts, a) ==
    UNION {LET rest == RemoveAt(ts, i)
               next == IF a # ts[i] THEN a ELSE IF rest = <<>> THEN NoTab ELSE Head(rest)
           IN  IF rest = <<>> THEN Opened(rest, next) ELSE {State(rest, next)} : i \in 1..Len(ts)}

-----------------------------------------------------------------------------
(* The life of the shell.                                                   *)

\* Wrong: the last tab is not restored.
RestoredFront == IF Len(disk.tabs) < 2 THEN <<FirstTab>> ELSE Front(disk.tabs)

\* The slice to MAX_TABS never cuts: the file has no other writer.
Restored == IF disk.tabs = <<>> THEN <<FirstTab>> ELSE disk.tabs

\* createEmbeddedBrowser.
Start ==
    /\ phase = "down" /\ life < MaxLives
    /\ phase' = "up" /\ life' = life + 1
    /\ saved' = Restored
    /\ active' = IF disk.active \in ToSet(Restored) THEN disk.active ELSE Head(Restored)
    /\ tabs' = <<>> /\ visible' = FALSE /\ placed' = {} /\ serving' = "none"
    /\ windows' = 0 /\ shellWin' = 0 /\ win' = 0 /\ chrome' = 0
    /\ UNCHANGED <<disk, kept, writer>>

\* createMainWindow of index.ts ends in attachWindow.
OpenWindow ==
    /\ phase = "up" /\ shellWin = 0 /\ windows < MaxWindows
    /\ windows' = windows + 1 /\ shellWin' = windows'
    /\ Settle(Ensured, EnsuredActive) /\ Attach(windows', Ensured)
    /\ UNCHANGED <<phase, life, saved, visible, serving>>

\* The window is destroyed: the tabs live on, without a place.
WindowGone ==
    /\ phase \in {"up", "closing"} /\ shellWin # 0
    /\ shellWin' = 0 /\ win' = 0 /\ placed' = {} /\ visible' = FALSE
    /\ UNCHANGED <<phase, life, disk, saved, tabs, active, windows, chrome, serving, kept, writer>>

\* The menu, the rail and every request but "status" show the panel.
Show ==
    /\ phase = "up" /\ Target(shellWin) # 0
    /\ visible' = TRUE
    /\ Settle(Ensured, EnsuredActive) /\ Attach(Target(shellWin), Ensured)
    /\ UNCHANGED <<phase, life, saved, windows, shellWin, serving>>

Hide ==
    /\ phase = "up" /\ visible
    /\ visible' = FALSE
    /\ UNCHANGED <<phase, life, disk, saved, tabs, active, windows, shellWin, win, chrome,
                   placed, serving, kept, writer>>

-----------------------------------------------------------------------------
(* Requests of the agent and clicks in the sidebar.                         *)

Receive ==
    /\ phase = "up" /\ serving = "none"
    /\ serving' = "body"
    /\ UNCHANGED <<phase, life, disk, saved, tabs, active, visible, windows, shellWin, win,
                   chrome, placed, kept, writer>>

\* rpc: the tabs are ensured, the panel is shown, then the action happens. It
\* does not ask whether close() has run since the request was received.
Rpc ==
    /\ phase \in {"up", "closing"} /\ serving = "body"
    /\ serving' \in {"none", "page"}
    /\ LET w == Target(shellWin)
           ts == Ensured
           a == EnsuredActive
       IN  /\ visible' = (visible \/ w # 0)
           /\ \E s \in {State(ts, a)} \cup Selected(ts, a) \cup Opened(ts, a) \cup Closed(ts, a) :
                  Settle(s.tabs, s.active) /\ Attach(w, s.tabs)
    /\ UNCHANGED <<phase, life, saved, windows, shellWin>>

\* What waits for a page (navigate, wait, reload, scripts) is answered.
PageAnswers ==
    /\ phase \in {"up", "closing"} /\ serving = "page"
    /\ serving' = "none"
    /\ UNCHANGED <<phase, life, disk, saved, tabs, active, visible, windows, shellWin, win,
                   chrome, placed, kept, writer>>

Click ==
    /\ phase = "up" /\ win # 0 /\ chrome = win
    /\ \E s \in Selected(tabs, active) \cup Opened(tabs, active) \cup Closed(tabs, active) :
           Settle(s.tabs, s.active) /\ Attach(win, s.tabs)
    /\ UNCHANGED <<phase, life, saved, visible, windows, shellWin, serving>>

-----------------------------------------------------------------------------
(* close() persists, closes every view and waits for the requests.          *)

Close ==
    /\ phase = "up"
    /\ phase' = "closing"
    /\ Persist(tabs, active)
    /\ writer' = IF tabs = <<>> THEN "empty-map" ELSE "tabs"
    /\ tabs' = <<>> /\ chrome' = 0 /\ win' = 0 /\ placed' = {}
    /\ UNCHANGED <<life, saved, active, visible, windows, shellWin, serving, kept>>

ServerClosed ==
    /\ phase = "closing" /\ serving = "none"
    /\ phase' = "closed"
    /\ UNCHANGED <<life, disk, saved, tabs, active, visible, windows, shellWin, win, chrome,
                   placed, serving, kept, writer>>

\* The end of the process, after close(), at its timeout or in a crash.
Exit ==
    /\ phase # "down"
    /\ phase' = "down"
    /\ UNCHANGED <<life, disk, saved, tabs, active, visible, windows, shellWin, win, chrome,
                   placed, serving, kept, writer>>

Next == \/ Start \/ OpenWindow \/ WindowGone \/ Show \/ Hide \/ Receive \/ Rpc \/ PageAnswers
        \/ Click \/ Close \/ ServerClosed \/ Exit

Spec == Init /\ [][Next]_vars

-----------------------------------------------------------------------------
(* While tabs are open the active one is among them, no id is used twice,   *)
(* the limit holds, each has its place in the window that is there, and the *)
(* file says the same: a crash at any moment costs no tab.                  *)
TabsAreSound ==
    phase \in {"up", "closing"} /\ tabs # <<>> =>
        /\ active \in ToSet(tabs)
        /\ \A i, j \in 1..Len(tabs) : i # j => tabs[i] # tabs[j]
        /\ Len(tabs) <= MaxTabs
        /\ win # 0 => placed = ToSet(tabs)
        /\ disk = State(tabs, active)

(* A shell that wrote its own tabs last is followed by one that opens them. *)
RestoredAsLeft == phase = "up" /\ tabs = <<>> /\ writer = "tabs" => saved = kept

\* No id twice, and none too many.
Sound(ts) ==
    /\ ts \in TabSeq
    /\ \A i, j \in 1..Len(ts) : i # j => ts[i] # ts[j]

\* What the tabs come from when there are none, and where they go.
FileStands ==
    /\ Sound(disk.tabs) /\ Sound(kept) /\ Sound(saved)
    /\ phase # "down" => saved # <<>>
    /\ phase = "up" /\ tabs # <<>> => kept = tabs
    /\ writer = "tabs" => disk.tabs = kept /\ kept # <<>>

(* What both hold by, for the proofs.                                       *)
IInv == TypeOK /\ TabsAreSound /\ RestoredAsLeft /\ FileStands

(* RELEASE-NOTES-v0.2.0.md, "persistent tabs": the next life opens the tabs *)
(* of the last one, whether or not a window was shown in between.           *)
PersistentTabs ==
    phase = "up" /\ tabs = <<>> /\ writer # "late-request" => saved = kept
=============================================================================
