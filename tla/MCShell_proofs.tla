----------------------------- MODULE MCShell_proofs -----------------------------
(* Proofs about what MCShell composes with the refresh of the models, for     *)
(* every value of the constants: what the shell shows and does for the user.  *)
EXTENDS MCShell, SequenceTheorems, WellFoundedInduction, TLAPS

(* Sequences of bounded length.                                               *)
LEMMA BoundedSeq ==
  ASSUME NEW S, NEW max \in Nat, NEW s
  PROVE  s \in UNION {[1..n -> S] : n \in 0..max} <=> s \in Seq(S) /\ Len(s) \in 0..max
<1>1. ASSUME NEW n \in 0..max, s \in [1..n -> S]
      PROVE  s \in Seq(S) /\ Len(s) \in 0..max
  <2>1. n \in Nat
    OBVIOUS
  <2>2. s \in Seq(S)
    BY <1>1, <2>1, SeqDef
  <2>3. DOMAIN s = 1..n /\ DOMAIN s = 1..Len(s) /\ Len(s) \in Nat
    BY <1>1, <2>2, LenProperties
  <2>4. Len(s) = n
    BY <2>1, <2>3
  <2> QED
    BY <2>2, <2>4
<1>2. ASSUME s \in Seq(S), Len(s) \in 0..max
      PROVE  s \in UNION {[1..n -> S] : n \in 0..max}
  BY <1>2, LenProperties
<1> QED
  BY <1>1, <1>2

-----------------------------------------------------------------------------
(* The browser panel, for any tabs, limit, windows and lives.                 *)
LEMMA BrowserBounds ==
  /\ MaxTabs \in Nat \ {0} /\ MaxWindows \in Nat /\ Lives \in Nat /\ FirstTab \in Tabs
  /\ 0 \in 0..Lives /\ 0 \in 0..MaxWindows
BY ShellAssumption

(* The sequences of tabs are those within the limit.                          *)
LEMMA TabsAre ==
  ASSUME NEW s
  PROVE  s \in B!TabSeq <=> s \in Seq(Tabs) /\ Len(s) \in 0..MaxTabs
BY BrowserBounds, BoundedSeq DEF B!TabSeq

(* The tabs of a sequence are its entries.                                    *)
LEMMA TabsIn ==
  ASSUME NEW s \in Seq(Tabs)
  PROVE  /\ \A t : t \in B!ToSet(s) <=> \E i \in 1..Len(s) : s[i] = t
         /\ B!ToSet(s) \subseteq Tabs /\ Len(s) \in Nat /\ (s # <<>> => Len(s) > 0 /\ Head(s) \in B!ToSet(s))
<1>1. DOMAIN s = 1..Len(s) /\ Len(s) \in Nat
  BY LenProperties
<1>2. \A i \in 1..Len(s) : s[i] \in Tabs
  BY ElementOfSeq
<1>3. s # <<>> => Len(s) > 0 /\ Head(s) = s[1]
  BY EmptySeq
<1> QED
  BY <1>1, <1>2, <1>3 DEF B!ToSet

(* Tabs as they should be, with the active one among them.                    *)
Fit(ts, a) == B!Sound(ts) /\ ts # <<>> /\ a \in B!ToSet(ts)

(* The tab a browser without any opens.                                       *)
LEMMA OneTab == B!Sound(<<FirstTab>>) /\ <<FirstTab>> # <<>>
<1>1. <<FirstTab>> \in Seq(Tabs) /\ Len(<<FirstTab>>) = 1
  BY BrowserBounds
<1>2. <<FirstTab>> \in B!TabSeq
  <2>1. 1 \in 0..MaxTabs
    BY BrowserBounds
  <2> QED
    BY <1>1, <2>1, TabsAre
<1>3. \A i, j \in 1..1 : ~(i # j)
  OBVIOUS
<1> QED
  BY <1>1, <1>2, <1>3, EmptySeq DEF B!Sound

(* A browser that has opened none.                                            *)
LEMMA NoTabs == B!Sound(<<>>) /\ Len(<<>>) = 0
<1>1. <<>> \in Seq(Tabs) /\ Len(<<>>) = 0
  BY EmptySeq
<1>2. <<>> \in B!TabSeq
  <2>1. 0 \in 0..MaxTabs
    BY BrowserBounds
  <2> QED
    BY <1>1, <2>1, TabsAre
<1>3. 1..0 = {}
  OBVIOUS
<1> QED
  BY <1>1, <1>2, <1>3 DEF B!Sound

(* newTab adds a tab that is not there and selects it, or changes nothing at  *)
(* the limit.                                                                 *)
LEMMA OpenedGood ==
  ASSUME NEW ts, B!Sound(ts), NEW a, NEW s \in B!Opened(ts, a)
  PROVE  Fit(s.tabs, s.active)
<1>1. Len(ts) < MaxTabs /\ ts \in Seq(Tabs) /\ Len(ts) \in Nat
  BY TabsAre, BrowserBounds DEF B!Opened, B!Sound
<1>2. PICK t \in Tabs \ B!ToSet(ts) : s = B!State(Append(ts, t), t)
  BY <1>1 DEF B!Opened
<1> DEFINE d == Append(ts, t)
<1>3. s.tabs = d /\ s.active = t
  BY <1>2 DEF B!State
<1>4. /\ d \in Seq(Tabs) /\ d # <<>> /\ Len(d) = Len(ts) + 1 /\ d[Len(ts) + 1] = t
      /\ \A i \in 1..Len(ts) : d[i] = ts[i]
  BY <1>1, AppendProperties
<1> HIDE DEF d
<1>5. d \in B!TabSeq
  BY <1>1, <1>4, TabsAre, BrowserBounds
<1>6. \A i \in 1..Len(d) : i \in 1..Len(ts) \/ i = Len(ts) + 1
  BY <1>1, <1>4
<1>7. \A i \in 1..Len(ts) : ts[i] # t
  BY <1>1, TabsIn
<1>8. \A i, j \in 1..Len(d) : i # j => d[i] # d[j]
  BY <1>4, <1>6, <1>7 DEF B!Sound
<1>9. t \in B!ToSet(d)
  <2>1. Len(ts) + 1 \in 1..Len(d)
    BY <1>1, <1>4
  <2> QED
    BY <1>4, <2>1, TabsIn
<1> QED
  BY <1>3, <1>4, <1>5, <1>8, <1>9 DEF Fit, B!Sound

(* closeTab takes one entry out and keeps the others.                         *)
LEMMA RemovedSound ==
  ASSUME NEW ts, B!Sound(ts), NEW i \in 1..Len(ts)
  PROVE  /\ B!Sound(B!RemoveAt(ts, i))
         /\ \A t \in B!ToSet(ts) : t # ts[i] => t \in B!ToSet(B!RemoveAt(ts, i))
<1> DEFINE l == SubSeq(ts, 1, i - 1)
           r == SubSeq(ts, i + 1, Len(ts))
           rest == l \o r
<1>1. ts \in Seq(Tabs) /\ Len(ts) \in 0..MaxTabs /\ Len(ts) \in Nat /\ i \in Nat /\ MaxTabs \in Nat
  BY TabsAre, BrowserBounds DEF B!Sound
<1>2. \A j \in 1..Len(ts) : ts[j] \in Tabs
  BY <1>1, ElementOfSeq
<1>3. l \in Seq(Tabs) /\ Len(l) = i - 1 /\ \A j \in 1..(i - 1) : l[j] = ts[j]
  <2>1. \A j \in 1..(i - 1) : ts[j] \in Tabs
    BY <1>1, <1>2
  <2>2. /\ l \in Seq(Tabs) /\ Len(l) = (IF 1 <= i - 1 THEN (i - 1) - 1 + 1 ELSE 0)
        /\ \A j \in 1..((i - 1) - 1 + 1) : l[j] = ts[1 + j - 1]
    BY <1>1, <2>1, SubSeqProperties
  <2> HIDE DEF l
  <2> QED
    BY <1>1, <2>2
<1>4. r \in Seq(Tabs) /\ Len(r) = Len(ts) - i /\ \A j \in 1..(Len(ts) - i) : r[j] = ts[i + j]
  <2>1. \A j \in (i + 1)..Len(ts) : ts[j] \in Tabs
    BY <1>1, <1>2
  <2>2. /\ r \in Seq(Tabs) /\ Len(r) = (IF i + 1 <= Len(ts) THEN Len(ts) - (i + 1) + 1 ELSE 0)
        /\ \A j \in 1..(Len(ts) - (i + 1) + 1) : r[j] = ts[(i + 1) + j - 1]
    BY <1>1, <2>1, SubSeqProperties
  <2> HIDE DEF r
  <2>3. \A j \in 1..(Len(ts) - i) : j \in 1..(Len(ts) - (i + 1) + 1) /\ (i + 1) + j - 1 = i + j
    BY <1>1
  <2>4. Len(r) = Len(ts) - i
    BY <1>1, <2>2
  <2> QED
    BY <2>2, <2>3, <2>4
<1> HIDE DEF l, r
<1>5. /\ rest \in Seq(Tabs) /\ Len(rest) = Len(l) + Len(r)
      /\ \A j \in 1..(Len(l) + Len(r)) : rest[j] = IF j <= Len(l) THEN l[j] ELSE r[j - Len(l)]
  BY <1>3, <1>4, ConcatProperties
<1>6. B!RemoveAt(ts, i) = rest
  BY DEF B!RemoveAt, l, r
<1> HIDE DEF rest
<1>7. Len(rest) = Len(ts) - 1
  BY <1>1, <1>3, <1>4, <1>5
<1>8. \A j \in 1..(Len(ts) - 1) : rest[j] = IF j < i THEN ts[j] ELSE ts[j + 1]
  <2> SUFFICES ASSUME NEW j \in 1..(Len(ts) - 1)
               PROVE  rest[j] = IF j < i THEN ts[j] ELSE ts[j + 1]
    OBVIOUS
  <2>1. j \in 1..(Len(l) + Len(r))
    BY <1>5, <1>7
  <2>2. CASE j < i
    <3>1. j <= Len(l) /\ j \in 1..(i - 1)
      BY <1>1, <1>3, <2>2
    <3> QED
      BY <1>3, <1>5, <2>1, <2>2, <3>1
  <2>3. CASE ~(j < i)
    <3>1. ~(j <= Len(l)) /\ j - Len(l) \in 1..(Len(ts) - i) /\ i + (j - Len(l)) = j + 1
      BY <1>1, <1>3, <2>3
    <3> QED
      BY <1>4, <1>5, <2>1, <2>3, <3>1
  <2> QED
    BY <2>2, <2>3
<1>9. \A j, k \in 1..Len(rest) : j # k => rest[j] # rest[k]
  <2> SUFFICES ASSUME NEW j \in 1..(Len(ts) - 1), NEW k \in 1..(Len(ts) - 1), j # k
               PROVE  rest[j] # rest[k]
    BY <1>7
  <2> DEFINE at(n) == IF n < i THEN n ELSE n + 1
  <2>1. at(j) \in 1..Len(ts) /\ at(k) \in 1..Len(ts) /\ at(j) # at(k)
    BY <1>1
  <2>2. rest[j] = ts[at(j)] /\ rest[k] = ts[at(k)]
    BY <1>8
  <2> HIDE DEF at
  <2> QED
    BY <2>1, <2>2 DEF B!Sound
<1>10. rest \in B!TabSeq
  <2>1. Len(rest) \in 0..MaxTabs
    BY <1>1, <1>7
  <2> QED
    BY <1>5, <2>1, TabsAre
<1>11. ASSUME NEW t \in B!ToSet(ts), t # ts[i]
       PROVE  t \in B!ToSet(rest)
  <2>1. PICK j \in 1..Len(ts) : ts[j] = t
    BY <1>1, TabsIn
  <2>2. j # i
    BY <1>11, <2>1
  <2>3. CASE j < i
    <3>1. j \in 1..(Len(ts) - 1)
      BY <1>1, <2>3
    <3> QED
      BY <1>5, <1>7, <1>8, <2>1, <2>3, <3>1, TabsIn
  <2>4. CASE j > i
    <3>1. j - 1 \in 1..(Len(ts) - 1) /\ ~(j - 1 < i) /\ (j - 1) + 1 = j
      BY <1>1, <2>4
    <3>2. rest[j - 1] = t
      BY <1>8, <2>1, <3>1
    <3> QED
      BY <1>5, <1>7, <3>1, <3>2, TabsIn
  <2> QED
    BY <1>1, <2>2, <2>3, <2>4
<1> QED
  BY <1>6, <1>9, <1>10, <1>11 DEF B!Sound

(* Whatever is asked of tabs as they should be leaves such tabs.              *)
LEMMA ChangedGood ==
  ASSUME NEW ts, NEW a, Fit(ts, a),
         NEW s \in {B!State(ts, a)} \cup B!Selected(ts, a) \cup B!Opened(ts, a) \cup B!Closed(ts, a)
  PROVE  Fit(s.tabs, s.active)
<1>1. CASE s = B!State(ts, a)
  BY <1>1 DEF B!State
<1>2. CASE s \in B!Selected(ts, a)
  BY <1>2 DEF B!Selected, B!State, Fit
<1>3. CASE s \in B!Opened(ts, a)
  BY <1>3, OpenedGood DEF Fit
<1>4. CASE s \in B!Closed(ts, a)
  <2>1. PICK i \in 1..Len(ts) :
          LET rest == B!RemoveAt(ts, i)
              next == IF a # ts[i] THEN a ELSE IF rest = <<>> THEN B!NoTab ELSE Head(rest)
          IN  s \in IF rest = <<>> THEN B!Opened(rest, next) ELSE {B!State(rest, next)}
    BY <1>4 DEF B!Closed
  <2> DEFINE rest == B!RemoveAt(ts, i)
             next == IF a # ts[i] THEN a ELSE IF rest = <<>> THEN B!NoTab ELSE Head(rest)
  <2>2. B!Sound(rest) /\ \A t \in B!ToSet(ts) : t # ts[i] => t \in B!ToSet(rest)
    BY RemovedSound DEF Fit
  <2>3. s \in IF rest = <<>> THEN B!Opened(rest, next) ELSE {B!State(rest, next)}
    BY <2>1
  <2>4. CASE rest = <<>>
    <3> HIDE DEF rest, next
    <3>1. s \in B!Opened(rest, next)
      BY <2>3, <2>4
    <3> QED
      BY <2>2, <3>1, OpenedGood
  <2>5. CASE rest # <<>>
    <3>1. next \in B!ToSet(rest)
      <4>1. rest \in Seq(Tabs)
        BY <2>2, TabsAre DEF B!Sound
      <4>2. Head(rest) \in B!ToSet(rest)
        <5> HIDE DEF rest
        <5> QED
          BY <2>5, <4>1, TabsIn
      <4> HIDE DEF rest
      <4> QED
        BY <2>2, <2>5, <4>2 DEF Fit
    <3> HIDE DEF rest, next
    <3>2. s.tabs = rest /\ s.active = next
      BY <2>3, <2>5 DEF B!State
    <3> QED
      BY <2>2, <2>5, <3>1, <3>2 DEF Fit
  <2> QED
    BY <2>4, <2>5
<1> QED
  BY <1>1, <1>2, <1>3, <1>4

(* Wherever they come from, the tabs the handlers work on are as they should  *)
(* be.                                                                        *)
LEMMA EnsuredGood ==
  ASSUME B!IInv, bPhase \in {"up", "closing"}
  PROVE  Fit(B!Ensured, B!EnsuredActive)
<1>1. CASE bTabs # <<>>
  BY <1>1 DEF B!IInv, B!TypeOK, B!TabsAreSound, B!Ensured, B!EnsuredActive, Fit, B!Sound
<1>2. CASE bTabs = <<>>
  <2>1. B!Sound(bSaved) /\ bSaved # <<>> /\ bSaved \in Seq(Tabs)
    BY TabsAre DEF B!IInv, B!FileStands, B!Sound
  <2>2. Head(bSaved) \in B!ToSet(bSaved)
    BY <2>1, TabsIn
  <2> QED
    BY <1>2, <2>1, <2>2 DEF B!Ensured, B!EnsuredActive, Fit
<1> QED
  BY <1>1, <1>2

(* A handler that leaves such tabs keeps the invariant.                       *)
LEMMA SettleKeepsTabs ==
  ASSUME B!IInv, NEW ts, NEW a, Fit(ts, a), NEW w \in 0..MaxWindows, B!Settle(ts, a), B!Attach(w, ts),
         bPhase \in {"up", "closing"}, UNCHANGED <<bPhase, bLife, bSaved>>,
         bVisible' \in BOOLEAN, bWindows' \in 0..MaxWindows, bShellWin' \in 0..MaxWindows,
         bServing' \in {"none", "body", "page"}
  PROVE  B!IInv'
<1> USE DEF B!IInv
<1>1. /\ ts \in B!TabSeq /\ ts # <<>> /\ B!Sound(ts) /\ a \in B!ToSet(ts) /\ a \in Tabs /\ B!ToSet(ts) \subseteq Tabs
      /\ Len(ts) <= MaxTabs
  BY TabsAre, TabsIn, BrowserBounds DEF Fit, B!Sound
<1>2. bTabs' = ts /\ bActive' = a /\ bDisk' = B!State(ts, a) /\ bKept' = IF bPhase = "closing" THEN bKept ELSE ts
  BY DEF B!Settle, B!Persist
<1>3. /\ bDisk' \in [tabs : B!TabSeq, active : Tabs \cup {B!NoTab}]
      /\ bDisk'.tabs = ts /\ bDisk'.active = a
  BY <1>1, <1>2 DEF B!State
<1>4. bWin' \in 0..MaxWindows /\ bChrome' \in 0..MaxWindows /\ bPlaced' \subseteq Tabs
      /\ (bWin' # 0 => bPlaced' = B!ToSet(ts))
  BY <1>1 DEF B!Attach, B!TypeOK
<1>5. bWriter' \in {"tabs", "late-request"} /\ (bWriter' = "tabs" => bPhase = "up")
  BY DEF B!Settle
<1>6. B!TypeOK'
  BY <1>1, <1>2, <1>3, <1>4, <1>5 DEF B!TypeOK
<1>7. B!TabsAreSound'
  BY <1>1, <1>2, <1>4 DEF B!TabsAreSound, B!Sound
<1>8. B!RestoredAsLeft'
  BY <1>1, <1>2 DEF B!RestoredAsLeft
<1>9. B!FileStands'
  <2>1. B!Sound(bDisk.tabs)' /\ B!Sound(bKept)' /\ B!Sound(bSaved)'
    BY <1>1, <1>2, <1>3 DEF B!FileStands, B!Sound, B!TabSeq
  <2> QED
    BY <1>1, <1>2, <1>3, <1>5, <2>1 DEF B!FileStands
<1> QED
  BY <1>6, <1>7, <1>8, <1>9

(* createEmbeddedBrowser reads what the last life has written.                *)
LEMMA StartKeeps ==
  ASSUME B!IInv, B!Start
  PROVE  B!IInv'
<1> USE DEF B!IInv, B!Start
<1>1. B!Sound(B!Restored) /\ B!Restored # <<>>
  BY OneTab DEF B!Restored, B!FileStands
<1>2. B!Restored \in B!TabSeq /\ Head(B!Restored) \in Tabs
  <2>1. B!Restored \in B!TabSeq /\ B!Restored \in Seq(Tabs)
    BY <1>1, TabsAre DEF B!Sound
  <2>2. B!ToSet(B!Restored) \subseteq Tabs /\ Head(B!Restored) \in B!ToSet(B!Restored)
    BY <1>1, <2>1, TabsIn
  <2> QED
    BY <2>1, <2>2
<1>3. <<>> \in B!TabSeq
  BY NoTabs DEF B!Sound
<1>4. bActive' \in Tabs \cup {B!NoTab}
  BY <1>2 DEF B!TypeOK
<1>5. bLife' \in 0..Lives
  BY BrowserBounds DEF B!TypeOK
<1>6. B!TypeOK'
  BY <1>2, <1>3, <1>4, <1>5, BrowserBounds DEF B!TypeOK
<1>7. B!TabsAreSound'
  BY DEF B!TabsAreSound
<1>8. B!FileStands'
  BY <1>1 DEF B!FileStands, B!Sound, B!TabSeq
<1>9. B!RestoredAsLeft'
  BY DEF B!RestoredAsLeft, B!FileStands, B!Restored
<1> QED
  BY <1>6, <1>7, <1>8, <1>9

(* close() writes the tabs that were opened.                                  *)
LEMMA CloseKeeps ==
  ASSUME B!IInv, B!Close
  PROVE  B!IInv'
<1> USE DEF B!IInv, B!Close
<1>1. bDisk' = B!State(bTabs, bActive) /\ bDisk'.tabs = bTabs
  BY DEF B!Persist, B!State
<1>2. B!Sound(bTabs)
  BY NoTabs DEF B!TypeOK, B!TabsAreSound, B!Sound
<1>3. <<>> \in B!TabSeq
  BY NoTabs DEF B!Sound
<1>4. bDisk' \in [tabs : B!TabSeq, active : Tabs \cup {B!NoTab}]
  BY <1>1 DEF B!TypeOK, B!State
<1>5. B!TypeOK'
  BY <1>3, <1>4, BrowserBounds DEF B!TypeOK
<1>6. B!FileStands'
  BY <1>1, <1>2 DEF B!FileStands, B!Sound, B!TabSeq
<1> QED
  BY <1>5, <1>6 DEF B!TabsAreSound, B!RestoredAsLeft

(* What leaves the tabs alone.                                                *)
LEMMA TabsStay ==
  ASSUME B!IInv, UNCHANGED <<bLife, bDisk, bSaved, bTabs, bActive, bWindows, bChrome, bKept, bWriter>>,
         bPhase' = bPhase \/ (bPhase = "closing" /\ bPhase' = "closed") \/ bPhase' = "down",
         bVisible' \in BOOLEAN, bShellWin' \in 0..MaxWindows, bServing' \in {"none", "body", "page"},
         UNCHANGED <<bWin, bPlaced>> \/ (bWin' = 0 /\ bPlaced' = {})
  PROVE  B!IInv'
<1> USE DEF B!IInv
<1>1. B!TypeOK'
  BY BrowserBounds DEF B!TypeOK
<1>2. B!TabsAreSound'
  BY DEF B!TypeOK, B!TabsAreSound
<1>3. B!RestoredAsLeft' /\ B!FileStands'
  BY DEF B!TypeOK, B!RestoredAsLeft, B!FileStands, B!Sound, B!TabSeq
<1> QED
  BY <1>1, <1>2, <1>3

(* The window the panel is shown in is there or none.                         *)
LEMMA TargetWindow == B!TypeOK => B!Target(bShellWin) \in 0..MaxWindows
BY DEF B!TypeOK, B!Target

(* The handlers that make, select and close tabs, and write the file after    *)
(* each.                                                                      *)
LEMMA HandlersKeep ==
  ASSUME B!IInv, B!OpenWindow \/ B!Show \/ B!Rpc \/ B!Click
  PROVE  B!IInv'
<1>1. CASE B!OpenWindow
  <2>1. bWindows' \in 0..MaxWindows /\ bPhase = "up"
    BY <1>1, BrowserBounds DEF B!OpenWindow, B!IInv, B!TypeOK
  <2>2. Fit(B!Ensured, B!EnsuredActive)
    BY <2>1, EnsuredGood
  <2> QED
    BY <1>1, <2>1, <2>2, SettleKeepsTabs DEF B!OpenWindow, B!IInv, B!TypeOK
<1>2. CASE B!Show
  <2>1. bPhase = "up" /\ B!Target(bShellWin) \in 0..MaxWindows
    BY <1>2, TargetWindow DEF B!Show, B!IInv
  <2>2. Fit(B!Ensured, B!EnsuredActive)
    BY <2>1, EnsuredGood
  <2> QED
    BY <1>2, <2>1, <2>2, SettleKeepsTabs DEF B!Show, B!IInv, B!TypeOK
<1>3. CASE B!Rpc
  <2> DEFINE ts == B!Ensured
             a == B!EnsuredActive
             w == B!Target(bShellWin)
  <2>1. bPhase \in {"up", "closing"} /\ w \in 0..MaxWindows
    BY <1>3, TargetWindow DEF B!Rpc, B!IInv
  <2>2. PICK s \in {B!State(ts, a)} \cup B!Selected(ts, a) \cup B!Opened(ts, a) \cup B!Closed(ts, a) :
          B!Settle(s.tabs, s.active) /\ B!Attach(w, s.tabs)
    BY <1>3 DEF B!Rpc
  <2>3. Fit(ts, a)
    BY <2>1, EnsuredGood
  <2>4. bVisible' \in BOOLEAN
    BY <1>3, Zenon DEF B!Rpc
  <2>5. bServing' \in {"none", "body", "page"} /\ UNCHANGED <<bPhase, bLife, bSaved, bWindows, bShellWin>>
    BY <1>3 DEF B!Rpc
  <2> HIDE DEF ts, a, w
  <2>6. Fit(s.tabs, s.active)
    BY <2>3, ChangedGood
  <2> QED
    BY <2>1, <2>2, <2>4, <2>5, <2>6, SettleKeepsTabs DEF B!IInv, B!TypeOK
<1>4. CASE B!Click
  <2>1. PICK s \in B!Selected(bTabs, bActive) \cup B!Opened(bTabs, bActive) \cup B!Closed(bTabs, bActive) :
          B!Settle(s.tabs, s.active) /\ B!Attach(bWin, s.tabs)
    BY <1>4 DEF B!Click
  <2>2. bPhase = "up" /\ bWin \in 0..MaxWindows
    BY <1>4 DEF B!Click, B!IInv, B!TypeOK
  <2>3. Fit(s.tabs, s.active)
    <3>1. CASE bTabs = <<>>
      <4>1. B!ToSet(bTabs) = {} /\ 1..Len(bTabs) = {} /\ B!Sound(bTabs)
        BY <3>1, NoTabs, TabsAre, TabsIn DEF B!Sound
      <4>2. s \in B!Opened(bTabs, bActive)
        BY <2>1, <4>1 DEF B!Selected, B!Closed
      <4> QED
        BY <4>1, <4>2, OpenedGood
    <3>2. CASE bTabs # <<>>
      <4>1. Fit(bTabs, bActive)
        BY <2>2, <3>2 DEF B!IInv, B!TypeOK, B!TabsAreSound, Fit, B!Sound
      <4> QED
        BY <2>1, <4>1, ChangedGood
    <3> QED
      BY <3>1, <3>2
  <2> QED
    BY <1>4, <2>1, <2>2, <2>3, SettleKeepsTabs DEF B!Click, B!IInv, B!TypeOK
<1> QED
  BY <1>1, <1>2, <1>3, <1>4

(* The invariant of the embedded browser.                                     *)
LEMMA BrowserInductive == B!Spec => []B!IInv
<1>1. B!Init => B!IInv
  <2> SUFFICES ASSUME B!Init
               PROVE  B!IInv
    OBVIOUS
  <2>1. <<>> \in B!TabSeq /\ <<FirstTab>> \in B!TabSeq /\ B!Sound(<<>>) /\ B!Sound(<<FirstTab>>)
    BY NoTabs, OneTab DEF B!Sound
  <2>2. bDisk \in [tabs : B!TabSeq, active : Tabs \cup {B!NoTab}] /\ bDisk.tabs = <<>>
    BY <2>1 DEF B!Init, B!State
  <2>3. B!TypeOK
    BY <2>1, <2>2, BrowserBounds DEF B!Init, B!TypeOK
  <2>4. B!FileStands
    BY <2>1, <2>2 DEF B!Init, B!FileStands
  <2> QED
    BY <2>3, <2>4 DEF B!Init, B!IInv, B!TabsAreSound, B!RestoredAsLeft
<1>2. ASSUME B!IInv, [B!Next]_(B!vars)
      PROVE  B!IInv'
  <2> USE <1>2
  <2>1. CASE B!WindowGone
    BY <2>1, TabsStay, BrowserBounds DEF B!WindowGone, B!IInv, B!TypeOK
  <2>2. CASE B!Hide \/ B!Receive \/ B!PageAnswers \/ B!ServerClosed \/ B!Exit \/ UNCHANGED B!vars
    BY <2>2, TabsStay DEF B!Hide, B!Receive, B!PageAnswers, B!ServerClosed, B!Exit, B!vars, B!IInv, B!TypeOK
  <2> QED
    BY <2>1, <2>2, StartKeeps, CloseKeeps, HandlersKeep DEF B!Next
<1> QED
  BY <1>1, <1>2, PTL DEF B!Spec

-----------------------------------------------------------------------------
(* The page of dsh, for any numbers of processes, windows and changes.        *)
LEMMA PageBounds ==
  /\ MaxDsh \in Nat /\ MaxWindows \in Nat /\ MaxRevision \in Nat /\ 2 \in 1..MaxRevision
  /\ 0 \in 0..MaxDsh /\ 0 \in 0..MaxWindows /\ 0 \in 0..MaxRevision
BY ShellAssumption

(* The page that was just loaded has been pushed nothing.                     *)
LEMMA NoPushes == <<>> \in Seq(1..MaxRevision) /\ Len(<<>>) = 0
BY EmptySeq

(* The push that arrives next, and those behind it.                           *)
LEMMA FirstPush ==
  ASSUME P!TypeOK, pPushes # <<>>
  PROVE  /\ Head(pPushes) \in 1..MaxRevision /\ Tail(pPushes) \in Seq(1..MaxRevision)
         /\ Len(pPushes) \in Nat \ {0} /\ Len(Tail(pPushes)) = Len(pPushes) - 1 /\ Head(pPushes) = pPushes[1]
         /\ \A i \in 1..Len(Tail(pPushes)) : Tail(pPushes)[i] = pPushes[i + 1]
<1>1. pPushes \in Seq(1..MaxRevision) /\ pPushes # <<>>
  BY DEF P!TypeOK
<1>2. Len(pPushes) \in Nat \ {0}
  BY <1>1, EmptySeq
<1>3. Head(pPushes) = pPushes[1]
  BY <1>1
<1> QED
  BY <1>1, <1>2, <1>3, HeadTailProperties

(* The push that is sent behind the others.                                   *)
LEMMA NextPush ==
  ASSUME P!TypeOK, NEW r \in 1..MaxRevision
  PROVE  /\ Append(pPushes, r) \in Seq(1..MaxRevision) /\ Len(Append(pPushes, r)) = Len(pPushes) + 1
         /\ Len(pPushes) \in Nat /\ Append(pPushes, r)[Len(pPushes) + 1] = r
         /\ \A i \in 1..Len(pPushes) : Append(pPushes, r)[i] = pPushes[i]
BY AppendProperties, LenProperties DEF P!TypeOK

(* A window that is made is one more, of the address it is made for.          *)
LEMMA WindowMade ==
  ASSUME P!TypeOK, NEW u \in 1..MaxDsh, P!CreateMainWindow(u)
  PROVE  /\ pMain' = "shown" /\ pWindows' \in 0..MaxWindows /\ pFirst' = u /\ pCleaning' = pCleaning \cup {u}
         /\ pCleaning' \subseteq 1..MaxDsh /\ pOvertaken' \in BOOLEAN /\ (~pOvertaken' => pCleaning = {})
         /\ pPage' = 0 /\ pPushes' = <<>> /\ pRequest' = "none" /\ pMounted' = FALSE /\ pShown' = 0 /\ pAnswer' = pAnswer
<1> USE DEF P!TypeOK, P!CreateMainWindow, P!Load, P!None, P!Dsh
<1>1. pWindows' \in 0..MaxWindows
  BY PageBounds
<1>2. pOvertaken' \in BOOLEAN /\ (~pOvertaken' => pCleaning = {})
  BY Zenon
<1> QED
  BY <1>1, <1>2

(* Neither a dsh, a window, a navigation nor a push leaves the types.         *)
LEMMA PageTypes ==
  ASSUME P!IInv, [P!Next]_(P!vars)
  PROVE  P!TypeOK'
<1> USE PageBounds, NoPushes DEF P!IInv, P!TypeOK, P!Dsh, P!None, P!Foreign,
        P!dsh, P!view, P!selector, P!AddressesStand
<1>1. CASE P!DshReady
  <2>1. pUrl' = pReady + 1 /\ pReady' = pReady + 1 /\ pUrl' \in 1..MaxDsh /\ pReady \in 0..MaxDsh
        /\ pReady' \in 0..MaxDsh /\ UNCHANGED <<pRevision, pQuitting>>
    BY <1>1 DEF P!DshReady
  <2>2. CASE pMain = "none"
    <3>1. P!CreateMainWindow(pUrl')
      BY <1>1, <2>2 DEF P!DshReady
    <3> HIDE DEF P!IInv, P!TypeOK, P!AddressesStand
    <3>2. /\ pMain' = "shown" /\ pWindows' \in 0..MaxWindows /\ pFirst' = pUrl' /\ pCleaning' = pCleaning \cup {pUrl'}
          /\ pCleaning' \subseteq 1..MaxDsh /\ pOvertaken' \in BOOLEAN /\ (~pOvertaken' => pCleaning = {})
          /\ pPage' = 0 /\ pPushes' = <<>> /\ pRequest' = "none" /\ pMounted' = FALSE /\ pShown' = 0 /\ pAnswer' = pAnswer
      <4>1. P!TypeOK
        BY DEF P!IInv
      <4> QED
        BY <2>1, <3>1, <4>1, WindowMade
    <3> QED
      BY <2>1, <3>2 DEF P!IInv, P!TypeOK, P!AddressesStand
  <2>3. CASE pMain # "none"
    <3>1. P!OnReady(pUrl')
      BY <1>1, <2>3 DEF P!DshReady
    <3>2. pOvertaken' \in BOOLEAN /\ (~pOvertaken' => pCleaning = {})
      BY <3>1, Zenon DEF P!OnReady
    <3>3. UNCHANGED <<pMain, pWindows, pFirst, pCleaning, pAnswer>> /\ pPage' = pUrl' /\ pPushes' = <<>>
          /\ pRequest' = "none" /\ pMounted' = FALSE /\ pShown' = 0
      BY <3>1 DEF P!OnReady, P!Load
    <3> QED
      BY <2>1, <2>3, <3>2, <3>3
  <2> QED
    BY <2>2, <2>3
<1>2. CASE P!DshGone
  BY <1>2 DEF P!DshGone
<1>3. CASE P!Restart
  BY <1>3 DEF P!Restart, P!Trusted
<1>4. CASE P!CookiesCleaned
  BY <1>4 DEF P!CookiesCleaned, P!Load
<1>5. CASE P!ShowMainWindow
  <2>1. CASE pMain # "none" /\ pMain' = "shown" /\ UNCHANGED <<pWindows, pFirst, pPage, pCleaning, pOvertaken,
                                              pPushes, pRequest, pAnswer, pMounted, pShown, pUrl, pReady, pRevision, pQuitting>>
    BY <2>1
  <2>2. CASE pUrl # 0 /\ P!CreateMainWindow(pUrl) /\ UNCHANGED <<pUrl, pReady, pRevision, pQuitting>>
    <3>1. pUrl \in 1..MaxDsh
      BY <2>2
    <3> HIDE DEF P!IInv, P!TypeOK, P!AddressesStand
    <3>2. /\ pMain' = "shown" /\ pWindows' \in 0..MaxWindows /\ pFirst' = pUrl /\ pCleaning' = pCleaning \cup {pUrl}
          /\ pCleaning' \subseteq 1..MaxDsh /\ pOvertaken' \in BOOLEAN /\ (~pOvertaken' => pCleaning = {})
          /\ pPage' = 0 /\ pPushes' = <<>> /\ pRequest' = "none" /\ pMounted' = FALSE /\ pShown' = 0 /\ pAnswer' = pAnswer
      <4>1. P!TypeOK
        BY DEF P!IInv
      <4> QED
        BY <2>2, <3>1, <4>1, WindowMade
    <3> QED
      BY <2>2, <3>1, <3>2 DEF P!IInv, P!TypeOK, P!AddressesStand
  <2> QED
    BY <1>5, <2>1, <2>2 DEF P!ShowMainWindow
<1>6. CASE P!CloseMainWindow
  BY <1>6 DEF P!CloseMainWindow
<1>7. CASE P!WindowGone
  BY <1>7 DEF P!WindowGone, P!Load
<1>8. CASE P!Navigate
  BY <1>8 DEF P!Navigate, P!Load, P!Blocked
<1>9. CASE P!RunStarts
  <2>1. pRevision' \in 1..MaxRevision
    BY <1>9 DEF P!RunStarts, P!Publish
  <2>2. Append(pPushes, pRevision') \in Seq(1..MaxRevision)
    BY <2>1, NextPush
  <2> QED
    BY <1>9, <2>1, <2>2 DEF P!RunStarts, P!Publish
<1>10. CASE P!RunEnds
  <2>1. pRevision' \in 1..MaxRevision
    BY <1>10 DEF P!RunEnds, P!Publish
  <2>2. Append(pPushes, pRevision') \in Seq(1..MaxRevision)
    BY <2>1, NextPush
  <2> QED
    BY <1>10, <2>1, <2>2 DEF P!RunEnds, P!Publish
<1>11. CASE P!Mount
  BY <1>11 DEF P!Mount
<1>12. CASE P!GetRefreshState
  BY <1>12 DEF P!GetRefreshState, P!Trusted
<1>13. CASE P!HearPush
  <2>1. Head(pPushes) \in 1..MaxRevision /\ Tail(pPushes) \in Seq(1..MaxRevision)
    BY <1>13, FirstPush DEF P!HearPush, P!IInv
  <2> QED
    BY <1>13, <2>1 DEF P!HearPush, P!Apply
<1>14. CASE P!HearAnswer
  BY <1>14 DEF P!HearAnswer, P!Apply
<1>15. CASE P!Quit
  BY <1>15 DEF P!Quit
<1>16. CASE UNCHANGED P!vars
  BY <1>16 DEF P!vars
<1> QED
  BY <1>1, <1>2, <1>3, <1>4, <1>5, <1>6, <1>7, <1>8, <1>9, <1>10, <1>11, <1>12,
     <1>13, <1>14, <1>15, <1>16 DEF P!Next

(* An address comes of the dsh that became ready, and replaces an older one.  *)
LEMMA PageAddresses ==
  ASSUME P!IInv, [P!Next]_(P!vars)
  PROVE  P!AddressesStand'
<1> USE PageBounds DEF P!IInv, P!TypeOK, P!Dsh, P!None, P!Foreign, P!dsh,
        P!view, P!selector, P!AddressesStand
<1>1. CASE P!DshReady
  <2>1. pUrl' = pReady + 1 /\ pReady' = pReady + 1 /\ pUrl' \in 1..MaxDsh /\ pReady \in 0..MaxDsh
        /\ pReady' \in 0..MaxDsh /\ UNCHANGED <<pRevision, pQuitting>>
    BY <1>1 DEF P!DshReady
  <2>2. CASE pMain = "none"
    <3>1. P!CreateMainWindow(pUrl')
      BY <1>1, <2>2 DEF P!DshReady
    <3> HIDE DEF P!IInv, P!TypeOK, P!AddressesStand
    <3>2. /\ pMain' = "shown" /\ pWindows' \in 0..MaxWindows /\ pFirst' = pUrl' /\ pCleaning' = pCleaning \cup {pUrl'}
          /\ pCleaning' \subseteq 1..MaxDsh /\ pOvertaken' \in BOOLEAN /\ (~pOvertaken' => pCleaning = {})
          /\ pPage' = 0 /\ pPushes' = <<>> /\ pRequest' = "none" /\ pMounted' = FALSE /\ pShown' = 0 /\ pAnswer' = pAnswer
      <4>1. P!TypeOK
        BY DEF P!IInv
      <4> QED
        BY <2>1, <3>1, <4>1, WindowMade
    <3> QED
      BY <2>1, <3>2 DEF P!IInv, P!TypeOK, P!AddressesStand
  <2>3. CASE pMain # "none"
    <3>1. P!OnReady(pUrl')
      BY <1>1, <2>3 DEF P!DshReady
    <3>2. pOvertaken' \in BOOLEAN /\ (~pOvertaken' => pCleaning = {})
      BY <3>1, Zenon DEF P!OnReady
    <3>3. UNCHANGED <<pMain, pWindows, pFirst, pCleaning, pAnswer>> /\ pPage' = pUrl' /\ pPushes' = <<>>
          /\ pRequest' = "none" /\ pMounted' = FALSE /\ pShown' = 0
      BY <3>1 DEF P!OnReady, P!Load
    <3> QED
      BY <2>1, <2>3, <3>2, <3>3
  <2> QED
    BY <2>2, <2>3
<1>2. CASE P!DshGone
  BY <1>2 DEF P!DshGone
<1>3. CASE P!Restart
  BY <1>3 DEF P!Restart, P!Trusted
<1>4. CASE P!CookiesCleaned
  BY <1>4 DEF P!CookiesCleaned, P!Load
<1>5. CASE P!ShowMainWindow
  <2>1. CASE pMain # "none" /\ pMain' = "shown" /\ UNCHANGED <<pWindows, pFirst, pPage, pCleaning, pOvertaken,
                                              pPushes, pRequest, pAnswer, pMounted, pShown, pUrl, pReady, pRevision, pQuitting>>
    BY <2>1
  <2>2. CASE pUrl # 0 /\ P!CreateMainWindow(pUrl) /\ UNCHANGED <<pUrl, pReady, pRevision, pQuitting>>
    <3>1. pUrl \in 1..MaxDsh
      BY <2>2
    <3> HIDE DEF P!IInv, P!TypeOK, P!AddressesStand
    <3>2. /\ pMain' = "shown" /\ pWindows' \in 0..MaxWindows /\ pFirst' = pUrl /\ pCleaning' = pCleaning \cup {pUrl}
          /\ pCleaning' \subseteq 1..MaxDsh /\ pOvertaken' \in BOOLEAN /\ (~pOvertaken' => pCleaning = {})
          /\ pPage' = 0 /\ pPushes' = <<>> /\ pRequest' = "none" /\ pMounted' = FALSE /\ pShown' = 0 /\ pAnswer' = pAnswer
      <4>1. P!TypeOK
        BY DEF P!IInv
      <4> QED
        BY <2>2, <3>1, <4>1, WindowMade
    <3> QED
      BY <2>2, <3>1, <3>2 DEF P!IInv, P!TypeOK, P!AddressesStand
  <2> QED
    BY <1>5, <2>1, <2>2 DEF P!ShowMainWindow
<1>6. CASE P!CloseMainWindow
  BY <1>6 DEF P!CloseMainWindow
<1>7. CASE P!WindowGone
  BY <1>7 DEF P!WindowGone, P!Load
<1>8. CASE P!Navigate
  BY <1>8 DEF P!Navigate, P!Load, P!Blocked
<1>9. CASE P!RunStarts
  BY <1>9 DEF P!RunStarts, P!Publish
<1>10. CASE P!RunEnds
  BY <1>10 DEF P!RunEnds, P!Publish
<1>11. CASE P!Mount
  BY <1>11 DEF P!Mount
<1>12. CASE P!GetRefreshState
  BY <1>12 DEF P!GetRefreshState, P!Trusted
<1>13. CASE P!HearPush
  BY <1>13 DEF P!HearPush, P!Apply
<1>14. CASE P!HearAnswer
  BY <1>14 DEF P!HearAnswer, P!Apply
<1>15. CASE P!Quit
  BY <1>15 DEF P!Quit
<1>16. CASE UNCHANGED P!vars
  BY <1>16 DEF P!vars
<1> QED
  BY <1>1, <1>2, <1>3, <1>4, <1>5, <1>6, <1>7, <1>8, <1>9, <1>10, <1>11, <1>12,
     <1>13, <1>14, <1>15, <1>16 DEF P!Next

(* The page follows the address, and no other origin is let through.          *)
LEMMA PageCurrent ==
  ASSUME P!IInv, [P!Next]_(P!vars)
  PROVE  P!PageIsCurrent'
<1> USE PageBounds DEF P!IInv, P!TypeOK, P!Dsh, P!None, P!Foreign, P!dsh,
        P!view, P!selector, P!AddressesStand, P!PageIsCurrent
<1>1. CASE P!DshReady
  <2>1. pUrl' = pReady + 1 /\ pReady' = pReady + 1 /\ pUrl' \in 1..MaxDsh /\ pReady \in 0..MaxDsh
        /\ pReady' \in 0..MaxDsh /\ UNCHANGED <<pRevision, pQuitting>>
    BY <1>1 DEF P!DshReady
  <2>2. CASE pMain = "none"
    <3>1. P!CreateMainWindow(pUrl')
      BY <1>1, <2>2 DEF P!DshReady
    <3> HIDE DEF P!IInv, P!TypeOK, P!AddressesStand, P!PageIsCurrent
    <3>2. /\ pMain' = "shown" /\ pWindows' \in 0..MaxWindows /\ pFirst' = pUrl' /\ pCleaning' = pCleaning \cup {pUrl'}
          /\ pCleaning' \subseteq 1..MaxDsh /\ pOvertaken' \in BOOLEAN /\ (~pOvertaken' => pCleaning = {})
          /\ pPage' = 0 /\ pPushes' = <<>> /\ pRequest' = "none" /\ pMounted' = FALSE /\ pShown' = 0 /\ pAnswer' = pAnswer
      <4>1. P!TypeOK
        BY DEF P!IInv
      <4> QED
        BY <2>1, <3>1, <4>1, WindowMade
    <3> QED
      BY <2>1, <3>2 DEF P!IInv, P!TypeOK, P!AddressesStand, P!PageIsCurrent
  <2>3. CASE pMain # "none"
    <3>1. P!OnReady(pUrl')
      BY <1>1, <2>3 DEF P!DshReady
    <3>2. pOvertaken' \in BOOLEAN /\ (~pOvertaken' => pCleaning = {})
      BY <3>1, Zenon DEF P!OnReady
    <3>3. UNCHANGED <<pMain, pWindows, pFirst, pCleaning, pAnswer>> /\ pPage' = pUrl' /\ pPushes' = <<>>
          /\ pRequest' = "none" /\ pMounted' = FALSE /\ pShown' = 0
      BY <3>1 DEF P!OnReady, P!Load
    <3> QED
      BY <2>1, <2>3, <3>2, <3>3
  <2> QED
    BY <2>2, <2>3
<1>2. CASE P!DshGone
  BY <1>2 DEF P!DshGone
<1>3. CASE P!Restart
  BY <1>3 DEF P!Restart, P!Trusted
<1>4. CASE P!CookiesCleaned
  BY <1>4 DEF P!CookiesCleaned, P!Load
<1>5. CASE P!ShowMainWindow
  <2>1. CASE pMain # "none" /\ pMain' = "shown" /\ UNCHANGED <<pWindows, pFirst, pPage, pCleaning, pOvertaken,
                                              pPushes, pRequest, pAnswer, pMounted, pShown, pUrl, pReady, pRevision, pQuitting>>
    BY <2>1
  <2>2. CASE pUrl # 0 /\ P!CreateMainWindow(pUrl) /\ UNCHANGED <<pUrl, pReady, pRevision, pQuitting>>
    <3>1. pUrl \in 1..MaxDsh
      BY <2>2
    <3> HIDE DEF P!IInv, P!TypeOK, P!AddressesStand, P!PageIsCurrent
    <3>2. /\ pMain' = "shown" /\ pWindows' \in 0..MaxWindows /\ pFirst' = pUrl /\ pCleaning' = pCleaning \cup {pUrl}
          /\ pCleaning' \subseteq 1..MaxDsh /\ pOvertaken' \in BOOLEAN /\ (~pOvertaken' => pCleaning = {})
          /\ pPage' = 0 /\ pPushes' = <<>> /\ pRequest' = "none" /\ pMounted' = FALSE /\ pShown' = 0 /\ pAnswer' = pAnswer
      <4>1. P!TypeOK
        BY DEF P!IInv
      <4> QED
        BY <2>2, <3>1, <4>1, WindowMade
    <3> QED
      BY <2>2, <3>1, <3>2 DEF P!IInv, P!TypeOK, P!AddressesStand, P!PageIsCurrent
  <2> QED
    BY <1>5, <2>1, <2>2 DEF P!ShowMainWindow
<1>6. CASE P!CloseMainWindow
  BY <1>6 DEF P!CloseMainWindow
<1>7. CASE P!WindowGone
  BY <1>7 DEF P!WindowGone, P!Load
<1>8. CASE P!Navigate
  BY <1>8 DEF P!Navigate, P!Load, P!Blocked
<1>9. CASE P!RunStarts
  BY <1>9 DEF P!RunStarts, P!Publish
<1>10. CASE P!RunEnds
  BY <1>10 DEF P!RunEnds, P!Publish
<1>11. CASE P!Mount
  BY <1>11 DEF P!Mount
<1>12. CASE P!GetRefreshState
  BY <1>12 DEF P!GetRefreshState, P!Trusted
<1>13. CASE P!HearPush
  BY <1>13 DEF P!HearPush, P!Apply
<1>14. CASE P!HearAnswer
  BY <1>14 DEF P!HearAnswer, P!Apply
<1>15. CASE P!Quit
  BY <1>15 DEF P!Quit
<1>16. CASE UNCHANGED P!vars
  BY <1>16 DEF P!vars
<1> QED
  BY <1>1, <1>2, <1>3, <1>4, <1>5, <1>6, <1>7, <1>8, <1>9, <1>10, <1>11, <1>12,
     <1>13, <1>14, <1>15, <1>16 DEF P!Next

(* A page that is left had nothing to come.                                   *)
LEMMA LeftPage ==
  ASSUME P!IInv, pPushes' = <<>>, pRequest' = "none", pMounted' = FALSE, pShown' = 0,
         UNCHANGED pRevision, pMain' = "none" => pPage' = 0
  PROVE  P!StateIsComing'
<1>1. P!Coming' = {}
  BY NoPushes DEF P!Coming
<1>2. pRevision \in Nat
  BY PageBounds DEF P!IInv, P!TypeOK
<1> QED
  BY <1>1, <1>2 DEF P!StateIsComing, P!None

(* Nor is there more to come when an address is lost.                         *)
LEMMA LostAddress ==
  ASSUME P!IInv, pUrl' \in {pUrl, 0}, UNCHANGED <<pPage, pPushes, pRequest, pAnswer, pMounted, pShown, pRevision>>,
         pMain' = "none" => pMain = "none"
  PROVE  P!StateIsComing'
<1>1. P!Coming' = P!Coming
  BY DEF P!Coming
<1> QED
  BY <1>1 DEF P!IInv, P!StateIsComing, P!None

(* What is on its way is a push or the answer.                                *)
LEMMA ComingIs ==
  ASSUME NEW r
  PROVE  r \in P!Coming <=> (\E i \in 1..Len(pPushes) : pPushes[i] = r) \/ (pRequest = "answered" /\ pAnswer = r)
BY DEF P!Coming

(* What is on its way is a revision.                                          *)
LEMMA ComingTyped ==
  ASSUME P!TypeOK, NEW r \in P!Coming
  PROVE  r \in 1..MaxRevision
<1>1. CASE \E i \in 1..Len(pPushes) : pPushes[i] = r
  <2>1. PICK i \in 1..Len(pPushes) : pPushes[i] = r
    BY <1>1
  <2>2. pPushes \in Seq(1..MaxRevision)
    BY DEF P!TypeOK
  <2> QED
    BY <2>1, <2>2, ElementOfSeq
<1>2. CASE pAnswer = r
  BY <1>2 DEF P!TypeOK
<1> QED
  BY <1>1, <1>2, ComingIs

(* A new state is pushed to the selector that listens, behind what is on its  *)
(* way.                                                                       *)
LEMMA PublishKeeps ==
  ASSUME P!IInv, P!Publish
  PROVE  P!StateIsComing'
<1> USE DEF P!IInv, P!TypeOK, P!Publish, P!StateIsComing, P!None, P!dsh, P!view
<1>1. pRevision' = pRevision + 1 /\ pRevision \in 1..MaxRevision /\ pRevision' \in 1..MaxRevision /\ MaxRevision \in Nat
  BY PageBounds
<1>2. CASE pMounted
  <2>1. pPushes' = Append(pPushes, pRevision')
    BY <1>2
  <2>2. /\ Len(pPushes') = Len(pPushes) + 1 /\ Len(pPushes) \in Nat /\ pPushes'[Len(pPushes) + 1] = pRevision'
        /\ \A i \in 1..Len(pPushes) : pPushes'[i] = pPushes[i]
    BY <1>1, <2>1, NextPush
  <2>3. \A i \in 1..Len(pPushes') : i \in 1..Len(pPushes) \/ i = Len(pPushes) + 1
    BY <2>2
  <2>4. P!Coming' \subseteq P!Coming \cup {pRevision'} /\ pRevision' \in P!Coming'
    <3>1. ASSUME NEW r \in P!Coming'
          PROVE  r \in P!Coming \cup {pRevision'}
      <4>1. (\E i \in 1..Len(pPushes') : pPushes'[i] = r) \/ (pRequest = "answered" /\ pAnswer = r)
        BY <3>1 DEF P!Coming
      <4> QED
        BY <2>2, <2>3, <4>1, ComingIs
    <3>2. Len(pPushes) + 1 \in 1..Len(pPushes')
      BY <2>2
    <3> QED
      BY <2>2, <3>1, <3>2 DEF P!Coming
  <2>5. \A r \in P!Coming' \cup {pShown'} : r <= pRevision'
    <3>1. \A r \in P!Coming \cup {pShown} : r <= pRevision /\ r \in Int
      BY PageBounds, ComingTyped
    <3> QED
      BY <1>1, <2>4, <3>1
  <2> QED
    BY <1>2, <2>4, <2>5
<1>3. CASE ~pMounted
  <2>1. P!Coming' = P!Coming /\ P!Coming = {}
    BY <1>3, NoPushes DEF P!Coming
  <2> QED
    BY <1>1, <1>3, <2>1
<1> QED
  BY <1>2, <1>3

(* What arrives is shown unless something newer was.                          *)
LEMMA HeardKeeps ==
  ASSUME P!IInv, P!HearPush \/ P!HearAnswer
  PROVE  P!StateIsComing'
<1> USE DEF P!IInv, P!None
<1>1. PICK r : P!Apply(r) /\ r \in P!Coming /\ P!Coming \subseteq P!Coming' \cup {r} /\ P!Coming' \subseteq P!Coming
  <2>1. CASE P!HearPush
    <3> DEFINE r == Head(pPushes)
    <3>1. /\ Len(pPushes) \in Nat \ {0} /\ Len(pPushes') = Len(pPushes) - 1 /\ r = pPushes[1]
          /\ \A i \in 1..Len(pPushes') : pPushes'[i] = pPushes[i + 1]
      BY <2>1, FirstPush DEF P!HearPush
    <3> HIDE DEF r
    <3>2. r \in P!Coming
      BY <3>1, ComingIs
    <3>3. ASSUME NEW q \in P!Coming'
          PROVE  q \in P!Coming
      <4>1. CASE \E i \in 1..Len(pPushes') : pPushes'[i] = q
        <5>1. PICK i \in 1..Len(pPushes') : pPushes'[i] = q
          BY <4>1
        <5>2. i + 1 \in 1..Len(pPushes) /\ pPushes[i + 1] = q
          BY <3>1, <5>1
        <5> QED
          BY <5>2, ComingIs
      <4>2. CASE pRequest = "answered" /\ pAnswer = q
        BY <4>2, ComingIs
      <4> QED
        BY <2>1, <3>3, <4>1, <4>2 DEF P!Coming, P!HearPush
    <3>4. ASSUME NEW q \in P!Coming, q # r
          PROVE  q \in P!Coming'
      <4>1. CASE \E i \in 1..Len(pPushes) : pPushes[i] = q
        <5>1. PICK i \in 1..Len(pPushes) : pPushes[i] = q
          BY <4>1
        <5>2. i # 1
          BY <3>1, <3>4, <5>1
        <5>3. i - 1 \in 1..Len(pPushes') /\ pPushes'[i - 1] = q
          <6>1. i - 1 \in 1..Len(pPushes') /\ (i - 1) + 1 = i
            BY <3>1, <5>2
          <6> QED
            BY <3>1, <5>1, <6>1
        <5> QED
          BY <5>3 DEF P!Coming
      <4>2. CASE pRequest = "answered" /\ pAnswer = q
        BY <2>1, <4>2 DEF P!Coming, P!HearPush
      <4> QED
        BY <3>4, <4>1, <4>2, ComingIs
    <3> QED
      BY <2>1, <3>2, <3>3, <3>4 DEF P!HearPush, r
  <2>2. CASE P!HearAnswer
    BY <2>2 DEF P!HearAnswer, P!Coming
  <2> QED
    BY <2>1, <2>2
<1>2. UNCHANGED <<pUrl, pMain, pPage, pRevision, pMounted>>
  BY DEF P!HearPush, P!HearAnswer, P!dsh, P!view
<1>3. pMounted
  BY <1>1, NoPushes DEF P!StateIsComing, P!HearPush, P!HearAnswer
<1>4. r <= pRevision /\ r \in Int /\ pShown <= pRevision /\ pRevision \in Int /\ pShown \in Int
  <2>1. r \in 1..MaxRevision
    BY <1>1, ComingTyped
  <2> QED
    BY <1>1, <2>1, PageBounds DEF P!StateIsComing, P!TypeOK
<1>5. pShown' \in {r, pShown} /\ (r = pRevision => pShown' = pRevision) /\ (pShown = pRevision => pShown' = pRevision)
  BY <1>1, <1>4 DEF P!Apply
<1>6. pPage = pUrl /\ pRequest' # "asked" => pRevision \in P!Coming' \cup {pShown'}
  <2>1. pRequest' # "asked" => pRequest # "asked"
    BY DEF P!HearPush, P!HearAnswer
  <2>2. pPage = pUrl /\ pRequest # "asked" => pRevision \in P!Coming \cup {pShown}
    BY <1>3 DEF P!StateIsComing
  <2> QED
    BY <1>1, <1>5, <2>1, <2>2
<1> QED
  BY <1>1, <1>2, <1>3, <1>4, <1>5, <1>6 DEF P!StateIsComing

(* The newest state is shown or on its way, through every step of page and    *)
(* refresh.                                                                   *)
LEMMA StateComes ==
  ASSUME P!IInv, [P!Next]_(P!vars)
  PROVE  P!StateIsComing'
<1> USE DEF P!dsh, P!view, P!selector, P!None
<1>1. CASE P!DshReady
  <2>1. pMain' # "none" /\ pPushes' = <<>> /\ pRequest' = "none" /\ pMounted' = FALSE /\ pShown' = 0
    BY <1>1 DEF P!DshReady, P!CreateMainWindow, P!OnReady, P!Load
  <2> QED
    BY <1>1, <2>1, LeftPage DEF P!DshReady
<1>2. CASE P!DshGone \/ P!Restart \/ P!Quit \/ P!CloseMainWindow \/ UNCHANGED P!vars
  BY <1>2, LostAddress DEF P!DshGone, P!Restart, P!Quit, P!CloseMainWindow, P!vars
<1>3. CASE P!CookiesCleaned
  <2>1. CASE pMain = "none"
    BY <1>3, <2>1, LostAddress DEF P!CookiesCleaned
  <2>2. CASE pMain # "none"
    BY <1>3, <2>2, LeftPage DEF P!CookiesCleaned, P!Load
  <2> QED
    BY <2>1, <2>2
<1>4. CASE P!ShowMainWindow
  <2>1. CASE pMain # "none" /\ pMain' = "shown" /\ UNCHANGED <<pPage, pPushes, pRequest, pAnswer, pMounted, pShown>>
    BY <1>4, <2>1, LostAddress DEF P!ShowMainWindow
  <2>2. CASE P!CreateMainWindow(pUrl)
    BY <1>4, <2>2, LeftPage DEF P!ShowMainWindow, P!CreateMainWindow, P!Load
  <2> QED
    BY <1>4, <2>1, <2>2 DEF P!ShowMainWindow
<1>5. CASE P!WindowGone
  BY <1>5, LeftPage DEF P!WindowGone, P!Load
<1>6. CASE P!Navigate
  BY <1>6, LeftPage DEF P!Navigate, P!Load
<1>7. CASE P!Mount
  <2>1. pPushes = <<>> /\ P!Coming' = {}
    BY <1>7, NoPushes DEF P!Mount, P!IInv, P!StateIsComing, P!Coming
  <2> QED
    BY <1>7, <2>1 DEF P!Mount, P!IInv, P!StateIsComing
<1>8. CASE P!GetRefreshState
  <2>1. pMounted /\ pMain # "none" /\ pPage # 0
    BY <1>8 DEF P!GetRefreshState, P!IInv, P!StateIsComing
  <2>2. CASE P!Trusted
    <3>1. P!Coming' \subseteq P!Coming \cup {pRevision} /\ pRevision \in P!Coming'
      BY <1>8, <2>2 DEF P!GetRefreshState, P!Coming
    <3>2. pRevision <= pRevision
      BY PageBounds DEF P!IInv, P!TypeOK
    <3> QED
      BY <1>8, <2>1, <3>1, <3>2 DEF P!GetRefreshState, P!IInv, P!StateIsComing
  <2>3. CASE ~P!Trusted
    <3>1. pPage # pUrl
      BY <2>1, <2>3 DEF P!Trusted
    <3>2. P!Coming' \subseteq P!Coming
      BY <1>8, <2>3 DEF P!GetRefreshState, P!Coming
    <3> QED
      BY <1>8, <2>1, <2>3, <3>1, <3>2 DEF P!GetRefreshState, P!IInv, P!StateIsComing
  <2> QED
    BY <2>2, <2>3
<1> QED
  BY <1>1, <1>2, <1>3, <1>4, <1>5, <1>6, <1>7, <1>8, PublishKeeps, HeardKeeps DEF P!Next, P!RunStarts, P!RunEnds

(* With nothing on its way, what is shown is what there is.                   *)
LEMMA NothingComes == P!TypeOK /\ P!StateIsComing => P!SelectorAgrees
BY NoPushes DEF P!TypeOK, P!StateIsComing, P!Coming, P!SelectorAgrees

(* The invariant of the page of dsh and its selector.                         *)
LEMMA PageInductive == P!Spec => []P!IInv
<1>1. P!Init => P!IInv
  <2> SUFFICES ASSUME P!Init
               PROVE  P!IInv
    OBVIOUS
  <2> USE DEF P!Init, P!None
  <2>1. P!TypeOK
    BY PageBounds, NoPushes DEF P!TypeOK
  <2>2. P!Coming = {}
    BY NoPushes DEF P!Coming
  <2>3. P!StateIsComing
    BY <2>2 DEF P!StateIsComing
  <2> QED
    BY <2>1, <2>3, PageBounds, NothingComes DEF P!IInv, P!PageIsCurrent, P!Foreign, P!AddressesStand
<1>2. P!IInv /\ [P!Next]_(P!vars) => P!IInv'
  <2> SUFFICES ASSUME P!IInv, [P!Next]_(P!vars)
               PROVE  P!IInv'
    OBVIOUS
  <2>1. P!TypeOK' /\ P!StateIsComing'
    BY PageTypes, StateComes
  <2>2. P!SelectorAgrees'
    <3>1. P!TypeOK' /\ P!StateIsComing' => P!SelectorAgrees'
      BY NoPushes DEF P!TypeOK, P!StateIsComing, P!Coming, P!SelectorAgrees
    <3> QED
      BY <2>1, <3>1
  <2> QED
    BY <2>1, <2>2, PageCurrent, PageAddresses DEF P!IInv
<1> QED
  BY <1>1, <1>2, PTL DEF P!Spec

-----------------------------------------------------------------------------
(* The updater, for any number of clicks.                                     *)
LEMMA UpdateTypes ==
  ASSUME A!IInv, [A!Next]_(A!vars)
  PROVE  A!TypeOK'
<1> USE DEF A!IInv, A!window, A!tray, A!service, A!Working, A!TypeOK
<1>1. CASE A!Relayout
  BY <1>1 DEF A!Relayout, A!Place
<1>2. CASE A!OpenWindow
  BY <1>2 DEF A!OpenWindow, A!Place
<1>3. CASE A!WindowClosed
  BY <1>3 DEF A!WindowClosed
<1>4. CASE A!Answer
  BY <1>4 DEF A!Answer, A!Counts
<1>5. CASE A!TimerChecks
  BY <1>5 DEF A!TimerChecks, A!JoinService
<1>6. CASE A!NextRequest
  BY <1>6 DEF A!NextRequest
<1>7. CASE A!BuildEnds
  <2>1. aBuilds' \in Nat
    BY <1>7 DEF A!BuildEnds
  <2>2. aRunning' \in BOOLEAN
    BY <1>7, Zenon DEF A!BuildEnds
  <2> QED
    BY <1>7, <2>1, <2>2 DEF A!BuildEnds
<1>8. ASSUME NEW r \in A!Result, A!CheckEnds(r)
      PROVE  A!TypeOK'
  BY <1>8 DEF A!CheckEnds, A!Woken, A!Presented, A!UpdateBounds, A!Place
<1>9. ASSUME NEW c \in Clicks, A!Click(c)
      PROVE  A!TypeOK'
  BY <1>9 DEF A!Click, A!JoinService
<1>10. ASSUME NEW c \in Clicks, A!Dismiss(c)
      PROVE  A!TypeOK'
  BY <1>10 DEF A!Dismiss
<1>11. ASSUME NEW c \in Clicks, A!AcceptHarness(c)
      PROVE  A!TypeOK'
  BY <1>11 DEF A!AcceptHarness
<1>12. ASSUME NEW c \in Clicks, A!HarnessInstalled(c)
      PROVE  A!TypeOK'
  BY <1>12 DEF A!HarnessInstalled
<1>13. ASSUME NEW c \in Clicks, A!AcceptRelease(c)
      PROVE  A!TypeOK'
  BY <1>13 DEF A!AcceptRelease, A!JoinService
<1>14. ASSUME NEW c \in Clicks, A!DownloadFails(c)
      PROVE  A!TypeOK'
  BY <1>14 DEF A!DownloadFails
<1>15. ASSUME NEW c \in Clicks, A!Downloaded(c)
      PROVE  A!TypeOK'
  BY <1>15 DEF A!Downloaded
<1>16. ASSUME NEW c \in Clicks, A!AcceptUpstream(c)
      PROVE  A!TypeOK'
  BY <1>16 DEF A!AcceptUpstream
<1>17. CASE UNCHANGED A!vars
  BY <1>17 DEF A!vars
<1> QED
  BY <1>1, <1>2, <1>3, <1>4, <1>5, <1>6, <1>7, <1>8, <1>9, <1>10, <1>11, <1>12,
     <1>13, <1>14, <1>15, <1>16, <1>17 DEF A!Next

(* A placement that a later result has overtaken does not count.              *)
LEMMA ButtonTells ==
  ASSUME A!IInv, [A!Next]_(A!vars)
  PROVE  A!ButtonTellsTruth'
<1> USE DEF A!IInv, A!window, A!tray, A!service, A!Working, A!TypeOK,
        A!ButtonTellsTruth, A!AnswersAreDue, A!Available
<1>1. CASE A!Relayout
  BY <1>1 DEF A!Relayout, A!Place
<1>2. CASE A!OpenWindow
  BY <1>2 DEF A!OpenWindow, A!Place
<1>3. CASE A!WindowClosed
  BY <1>3 DEF A!WindowClosed
<1>4. CASE A!Answer
  BY <1>4 DEF A!Answer, A!Counts
<1>5. CASE A!TimerChecks
  BY <1>5 DEF A!TimerChecks, A!JoinService
<1>6. CASE A!NextRequest
  BY <1>6 DEF A!NextRequest
<1>7. CASE A!BuildEnds
  BY <1>7 DEF A!BuildEnds
<1>8. ASSUME NEW r \in A!Result, A!CheckEnds(r)
      PROVE  A!ButtonTellsTruth'
  BY <1>8 DEF A!CheckEnds, A!Woken, A!Presented, A!UpdateBounds, A!Place
<1>9. ASSUME NEW c \in Clicks, A!Click(c)
      PROVE  A!ButtonTellsTruth'
  BY <1>9 DEF A!Click, A!JoinService
<1>10. ASSUME NEW c \in Clicks, A!Dismiss(c)
      PROVE  A!ButtonTellsTruth'
  BY <1>10 DEF A!Dismiss
<1>11. ASSUME NEW c \in Clicks, A!AcceptHarness(c)
      PROVE  A!ButtonTellsTruth'
  BY <1>11 DEF A!AcceptHarness
<1>12. ASSUME NEW c \in Clicks, A!HarnessInstalled(c)
      PROVE  A!ButtonTellsTruth'
  BY <1>12 DEF A!HarnessInstalled
<1>13. ASSUME NEW c \in Clicks, A!AcceptRelease(c)
      PROVE  A!ButtonTellsTruth'
  BY <1>13 DEF A!AcceptRelease, A!JoinService
<1>14. ASSUME NEW c \in Clicks, A!DownloadFails(c)
      PROVE  A!ButtonTellsTruth'
  BY <1>14 DEF A!DownloadFails
<1>15. ASSUME NEW c \in Clicks, A!Downloaded(c)
      PROVE  A!ButtonTellsTruth'
  BY <1>15 DEF A!Downloaded
<1>16. ASSUME NEW c \in Clicks, A!AcceptUpstream(c)
      PROVE  A!ButtonTellsTruth'
  BY <1>16 DEF A!AcceptUpstream
<1>17. CASE UNCHANGED A!vars
  BY <1>17 DEF A!vars
<1> QED
  BY <1>1, <1>2, <1>3, <1>4, <1>5, <1>6, <1>7, <1>8, <1>9, <1>10, <1>11, <1>12,
     <1>13, <1>14, <1>15, <1>16, <1>17 DEF A!Next

(* An answer about the button is due only while an update is offered.         *)
LEMMA AnswersDue ==
  ASSUME A!IInv, [A!Next]_(A!vars)
  PROVE  A!AnswersAreDue'
<1> USE DEF A!IInv, A!window, A!tray, A!service, A!Working, A!TypeOK,
        A!ButtonTellsTruth, A!AnswersAreDue, A!Available
<1>1. CASE A!Relayout
  BY <1>1 DEF A!Relayout, A!Place
<1>2. CASE A!OpenWindow
  BY <1>2 DEF A!OpenWindow, A!Place
<1>3. CASE A!WindowClosed
  BY <1>3 DEF A!WindowClosed
<1>4. CASE A!Answer
  BY <1>4 DEF A!Answer, A!Counts
<1>5. CASE A!TimerChecks
  BY <1>5 DEF A!TimerChecks, A!JoinService
<1>6. CASE A!NextRequest
  BY <1>6 DEF A!NextRequest
<1>7. CASE A!BuildEnds
  BY <1>7 DEF A!BuildEnds
<1>8. ASSUME NEW r \in A!Result, A!CheckEnds(r)
      PROVE  A!AnswersAreDue'
  BY <1>8 DEF A!CheckEnds, A!Woken, A!Presented, A!UpdateBounds, A!Place
<1>9. ASSUME NEW c \in Clicks, A!Click(c)
      PROVE  A!AnswersAreDue'
  BY <1>9 DEF A!Click, A!JoinService
<1>10. ASSUME NEW c \in Clicks, A!Dismiss(c)
      PROVE  A!AnswersAreDue'
  BY <1>10 DEF A!Dismiss
<1>11. ASSUME NEW c \in Clicks, A!AcceptHarness(c)
      PROVE  A!AnswersAreDue'
  BY <1>11 DEF A!AcceptHarness
<1>12. ASSUME NEW c \in Clicks, A!HarnessInstalled(c)
      PROVE  A!AnswersAreDue'
  BY <1>12 DEF A!HarnessInstalled
<1>13. ASSUME NEW c \in Clicks, A!AcceptRelease(c)
      PROVE  A!AnswersAreDue'
  BY <1>13 DEF A!AcceptRelease, A!JoinService
<1>14. ASSUME NEW c \in Clicks, A!DownloadFails(c)
      PROVE  A!AnswersAreDue'
  BY <1>14 DEF A!DownloadFails
<1>15. ASSUME NEW c \in Clicks, A!Downloaded(c)
      PROVE  A!AnswersAreDue'
  BY <1>15 DEF A!Downloaded
<1>16. ASSUME NEW c \in Clicks, A!AcceptUpstream(c)
      PROVE  A!AnswersAreDue'
  BY <1>16 DEF A!AcceptUpstream
<1>17. CASE UNCHANGED A!vars
  BY <1>17 DEF A!vars
<1> QED
  BY <1>1, <1>2, <1>3, <1>4, <1>5, <1>6, <1>7, <1>8, <1>9, <1>10, <1>11, <1>12,
     <1>13, <1>14, <1>15, <1>16, <1>17 DEF A!Next

(* Checks are joined, downloads and builds are one at a time.                 *)
LEMMA UpdatesSound ==
  ASSUME A!IInv, [A!Next]_(A!vars)
  PROVE  A!UpdatesAreSound'
<1> USE DEF A!IInv, A!window, A!tray, A!service, A!Working, A!TypeOK,
        A!UpdatesAreSound
<1>1. CASE A!Relayout
  BY <1>1 DEF A!Relayout, A!Place
<1>2. CASE A!OpenWindow
  BY <1>2 DEF A!OpenWindow, A!Place
<1>3. CASE A!WindowClosed
  BY <1>3 DEF A!WindowClosed
<1>4. CASE A!Answer
  BY <1>4 DEF A!Answer, A!Counts
<1>5. CASE A!TimerChecks
  BY <1>5 DEF A!TimerChecks, A!JoinService
<1>6. CASE A!NextRequest
  BY <1>6 DEF A!NextRequest
<1>7. CASE A!BuildEnds
  <2>1. aBuilds \in {0, 1} /\ (aBuilds = 0 => aRunning = FALSE) /\ (aBuilds = 1 => aRunning = TRUE)
    OBVIOUS
  <2>2. aBuilds' <= 1 /\ (aRunning' <=> aBuilds' = 1)
    BY <1>7, <2>1 DEF A!BuildEnds
  <2> QED
    BY <1>7, <2>2 DEF A!BuildEnds
<1>8. ASSUME NEW r \in A!Result, A!CheckEnds(r)
      PROVE  A!UpdatesAreSound'
  BY <1>8 DEF A!CheckEnds, A!Woken, A!Presented, A!UpdateBounds, A!Place
<1>9. ASSUME NEW c \in Clicks, A!Click(c)
      PROVE  A!UpdatesAreSound'
  BY <1>9 DEF A!Click, A!JoinService
<1>10. ASSUME NEW c \in Clicks, A!Dismiss(c)
      PROVE  A!UpdatesAreSound'
  BY <1>10 DEF A!Dismiss
<1>11. ASSUME NEW c \in Clicks, A!AcceptHarness(c)
      PROVE  A!UpdatesAreSound'
  BY <1>11 DEF A!AcceptHarness
<1>12. ASSUME NEW c \in Clicks, A!HarnessInstalled(c)
      PROVE  A!UpdatesAreSound'
  BY <1>12 DEF A!HarnessInstalled
<1>13. ASSUME NEW c \in Clicks, A!AcceptRelease(c)
      PROVE  A!UpdatesAreSound'
  BY <1>13 DEF A!AcceptRelease, A!JoinService
<1>14. ASSUME NEW c \in Clicks, A!DownloadFails(c)
      PROVE  A!UpdatesAreSound'
  BY <1>14 DEF A!DownloadFails
<1>15. ASSUME NEW c \in Clicks, A!Downloaded(c)
      PROVE  A!UpdatesAreSound'
  BY <1>15 DEF A!Downloaded
<1>16. ASSUME NEW c \in Clicks, A!AcceptUpstream(c)
      PROVE  A!UpdatesAreSound'
  <2>1. aBuilds \in {0, 1} /\ (aBuilds = 0 => aRunning = FALSE) /\ (aBuilds = 1 => aRunning = TRUE)
    OBVIOUS
  <2>2. aBuilds' <= 1 /\ (aRunning' <=> aBuilds' = 1)
    BY <1>16, <2>1 DEF A!AcceptUpstream
  <2> QED
    BY <1>16, <2>2 DEF A!AcceptUpstream
<1>17. CASE UNCHANGED A!vars
  BY <1>17 DEF A!vars
<1> QED
  BY <1>1, <1>2, <1>3, <1>4, <1>5, <1>6, <1>7, <1>8, <1>9, <1>10, <1>11, <1>12,
     <1>13, <1>14, <1>15, <1>16, <1>17 DEF A!Next

(* The invariant of the update dialogs, the button and the tray.              *)
LEMMA UpdatesInductive == A!Spec => []A!IInv
<1>1. A!Init => A!IInv
  <2> SUFFICES ASSUME A!Init
               PROVE  A!IInv
    OBVIOUS
  <2>1. A!TypeOK
    BY DEF A!Init, A!TypeOK, A!Result, A!NoResult, A!Working
  <2>2. A!UpdatesAreSound
    BY DEF A!Init, A!UpdatesAreSound
  <2> QED
    BY <2>1, <2>2 DEF A!Init, A!IInv, A!ButtonTellsTruth, A!AnswersAreDue
<1>2. A!IInv /\ [A!Next]_(A!vars) => A!IInv'
  BY UpdateTypes, ButtonTells, AnswersDue, UpdatesSound DEF A!IInv
<1> QED
  BY <1>1, <1>2, PTL DEF A!Spec

-----------------------------------------------------------------------------
(* The windows dsh asks for, in any number of requests.                       *)

(* What passes the checks is allowed what it leads to.                        *)
LEMMA DeedIsAllowed ==
  ASSUME NEW a \in D!Ask, D!Checked(a) = 0
  PROVE  /\ D!Deed(a) \in D!Deeds \ {"nothing"}
         /\ D!Deed(a) \in {"opened", "browsed"} => a.target \notin {"script", "outside", "missing", "not-absolute"}
         /\ D!Deed(a) \in {"launched", "edited"} => a.target \notin {"refused", "directory"}
BY DEF D!Ask, D!Intent, D!Target, D!Program, D!Checked, D!Deed, D!Deeds

(* The checks of a request end in one of four ways.                           *)
LEMMA CheckedStatus ==
  ASSUME NEW a
  PROVE  D!Checked(a) \in {0, 400, 403, 500}
BY DEF D!Checked

(* What an answer waits for is one of three.                                  *)
LEMMA WaitsStage ==
  ASSUME NEW a
  PROVE  D!Waits(a) \in {"opening", "launching", "picking"}
BY DEF D!Waits

(* A request is dealt with: what it asks, how far it is, what it was answered *)
(* and what was done for it; the others are not touched.                      *)
Moves(r, a, s, n, d) ==
  /\ dServer' = dServer /\ dServer # "closed"
  /\ dAsk' = [dAsk EXCEPT ![r] = a] /\ dStage' = [dStage EXCEPT ![r] = s]
  /\ dReply' = [dReply EXCEPT ![r] = n] /\ dDid' = [dDid EXCEPT ![r] = d]

Allowed(a, s, n, d) ==
  /\ a \in D!Ask \cup {D!Nothing}
  /\ s \in {"none", "body", "opening", "launching", "picking", "done"}
  /\ n \in {0, 200, 400, 401, 403, 404, 413, 500}
  /\ d \in D!Deeds
  /\ (n # 0) = (s = "done")
  /\ s \in {"none", "body"} => d = "nothing"
  /\ s # "none" /\ n \notin {401, 404} => a \in D!Ask
  /\ s \in {"opening", "launching", "picking"} => d # "nothing"
  /\ d \in {"opened", "browsed"} => a.target \notin {"script", "outside", "missing", "not-absolute"}
  /\ d \in {"launched", "edited"} => a.target \notin {"refused", "directory"}
  /\ n = 200 => d # "nothing"
  /\ n \notin {0, 200, 500} => d = "nothing"

(* A step moves one request, in a way its checks allow.                       *)
LEMMA RequestKeeps ==
  ASSUME D!IInv, NEW r \in Dialogs, NEW a, NEW s, NEW n, NEW d, Moves(r, a, s, n, d), Allowed(a, s, n, d)
  PROVE  D!IInv'
<1> USE DEF D!IInv, Moves, Allowed
<1>1. D!TypeOK'
  BY DEF D!TypeOK
<1>2. /\ dAsk'[r] = a /\ dStage'[r] = s /\ dReply'[r] = n /\ dDid'[r] = d
      /\ \A q \in Dialogs \ {r} : /\ dAsk'[q] = dAsk[q] /\ dStage'[q] = dStage[q]
                                /\ dReply'[q] = dReply[q] /\ dDid'[q] = dDid[q]
  BY DEF D!TypeOK
<1>3. D!BridgeIsExact'
  BY <1>2 DEF D!BridgeIsExact
<1>4. \A q \in Dialogs : D!InOrder(q)'
  BY <1>2 DEF D!InOrder
<1> QED
  BY <1>1, <1>3, <1>4

(* What a request is like before it is dealt with.                            *)
LEMMA RequestIs ==
  ASSUME D!IInv, NEW r \in Dialogs
  PROVE  /\ Allowed(dAsk[r], dStage[r], dReply[r], dDid[r])
         /\ dAsk = [dAsk EXCEPT ![r] = dAsk[r]] /\ dStage = [dStage EXCEPT ![r] = dStage[r]]
         /\ dReply = [dReply EXCEPT ![r] = dReply[r]] /\ dDid = [dDid EXCEPT ![r] = dDid[r]]
         /\ dServer = "closed" => dStage[r] \in {"none", "done"}
BY DEF D!IInv, D!TypeOK, D!Idle, D!BridgeIsExact, D!InOrder, Allowed

(* A wrong token or route is answered at once.                                *)
LEMMA RefuseKeeps ==
  ASSUME D!IInv, NEW r \in Dialogs, D!Refuse(r)
  PROVE  D!IInv'
<1>1. PICK n \in {401, 404} : D!Answer(r, n)
  BY DEF D!Refuse
<1>2. dStage[r] = "none"
  BY DEF D!Refuse
<1>3. Moves(r, dAsk[r], "done", n, dDid[r])
  BY <1>1, RequestIs DEF D!Refuse, D!Answer, Moves
<1>4. Allowed(dAsk[r], "done", n, dDid[r])
  BY <1>2, RequestIs DEF Allowed
<1> QED
  BY <1>3, <1>4, RequestKeeps

(* A request that is let in waits for its body.                               *)
LEMMA ReceiveKeeps ==
  ASSUME D!IInv, NEW r \in Dialogs, D!Receive(r)
  PROVE  D!IInv'
<1>1. PICK a \in D!Ask : dAsk' = [dAsk EXCEPT ![r] = a]
  BY DEF D!Receive
<1>2. dStage[r] = "none"
  BY DEF D!Receive
<1>3. Moves(r, a, "body", dReply[r], dDid[r])
  BY <1>1, RequestIs DEF D!Receive, Moves
<1>4. Allowed(a, "body", dReply[r], dDid[r])
  BY <1>2, RequestIs DEF Allowed
<1> QED
  BY <1>3, <1>4, RequestKeeps

(* A body too large or cut off is answered with an error.                     *)
LEMMA BadBodyKeeps ==
  ASSUME D!IInv, NEW r \in Dialogs, D!BadBody(r)
  PROVE  D!IInv'
<1>1. PICK n \in {400, 413, 500} : D!Answer(r, n)
  BY DEF D!BadBody
<1>2. dStage[r] = "body"
  BY DEF D!BadBody
<1>3. Moves(r, dAsk[r], "done", n, dDid[r])
  BY <1>1, <1>2, RequestIs DEF D!BadBody, D!Answer, Moves
<1>4. Allowed(dAsk[r], "done", n, dDid[r])
  BY <1>2, RequestIs DEF Allowed
<1> QED
  BY <1>3, <1>4, RequestKeeps

(* A request is turned away, answered, or waits for what it leads to.         *)
LEMMA DispatchKeeps ==
  ASSUME D!IInv, NEW r \in Dialogs, D!Dispatch(r)
  PROVE  D!IInv'
<1>1. dStage[r] = "body" /\ dAsk[r] \in D!Ask
  BY RequestIs DEF D!Dispatch, Allowed
<1>2. CASE D!Checked(dAsk[r]) # 0
  <2>1. PICK n \in {400, 403, 500} : D!Answer(r, n)
    BY <1>2, CheckedStatus DEF D!Dispatch
  <2>2. Moves(r, dAsk[r], "done", n, dDid[r])
    BY <1>1, <1>2, <2>1, RequestIs DEF D!Dispatch, D!Answer, Moves
  <2>3. Allowed(dAsk[r], "done", n, dDid[r])
    BY <1>1, RequestIs DEF Allowed
  <2> QED
    BY <2>2, <2>3, RequestKeeps
<1>3. CASE D!Checked(dAsk[r]) = 0
  <2>1. PICK d \in D!Deeds \ {"nothing"} : d = D!Deed(dAsk[r])
    BY <1>1, <1>3, DeedIsAllowed
  <2>2. /\ d \in {"opened", "browsed"} =>
              dAsk[r].target \notin {"script", "outside", "missing", "not-absolute"}
        /\ d \in {"launched", "edited"} => dAsk[r].target \notin {"refused", "directory"}
    BY <1>1, <1>3, <2>1, DeedIsAllowed
  <2>3. dDid' = [dDid EXCEPT ![r] = d]
    BY <1>3, <2>1 DEF D!Dispatch
  <2>4. CASE d = "shown"
    <3>1. D!Answer(r, 200)
      BY <1>3, <2>1, <2>4 DEF D!Dispatch
    <3>2. Moves(r, dAsk[r], "done", 200, d)
      BY <1>1, <2>3, <3>1, RequestIs DEF D!Dispatch, D!Answer, Moves
    <3>3. Allowed(dAsk[r], "done", 200, d)
      BY <1>1, <2>1, <2>2, RequestIs DEF Allowed
    <3> QED
      BY <3>2, <3>3, RequestKeeps
  <2>5. CASE d # "shown"
    <3>1. PICK s \in {"opening", "launching", "picking"} : s = D!Waits(d)
      BY WaitsStage
    <3>2. dStage' = [dStage EXCEPT ![r] = s] /\ UNCHANGED dReply
      BY <1>3, <2>1, <2>5, <3>1 DEF D!Dispatch
    <3>3. Moves(r, dAsk[r], s, dReply[r], d)
      BY <1>1, <2>3, <3>2, RequestIs DEF D!Dispatch, Moves
    <3>4. Allowed(dAsk[r], s, dReply[r], d)
      BY <1>1, <2>1, <2>2, <3>1, RequestIs DEF Allowed
    <3> QED
      BY <3>3, <3>4, RequestKeeps
  <2> QED
    BY <2>4, <2>5
<1> QED
  BY <1>2, <1>3

(* What was opened, launched or picked is answered.                           *)
LEMMA SettleKeeps ==
  ASSUME D!IInv, NEW r \in Dialogs, D!Settle(r) \/ D!LaunchSettles(r) \/ D!Picked(r)
  PROVE  D!IInv'
<1>1. dStage[r] \in {"opening", "launching", "picking"} /\ dServer # "closed" /\ UNCHANGED <<dServer, dAsk>>
  BY RequestIs DEF D!Settle, D!LaunchSettles, D!Picked
<1>2. ASSUME NEW n \in {200, 500}, D!Answer(r, n), UNCHANGED dDid
      PROVE  D!IInv'
  <2>1. Moves(r, dAsk[r], "done", n, dDid[r])
    BY <1>1, <1>2, RequestIs DEF D!Answer, Moves
  <2>2. Allowed(dAsk[r], "done", n, dDid[r])
    BY <1>1, RequestIs DEF Allowed
  <2> QED
    BY <2>1, <2>2, RequestKeeps
<1>3. CASE D!Answer(r, 500) /\ dDid' = [dDid EXCEPT ![r] = "nothing"]
  <2>1. Moves(r, dAsk[r], "done", 500, "nothing")
    BY <1>1, <1>3, RequestIs DEF D!Answer, Moves
  <2>2. Allowed(dAsk[r], "done", 500, "nothing")
    BY <1>1, RequestIs DEF Allowed, D!Deeds
  <2> QED
    BY <2>1, <2>2, RequestKeeps
<1> QED
  BY <1>2, <1>3 DEF D!Settle, D!LaunchSettles, D!Picked

(* The invariant of the dialog bridge.                                        *)
LEMMA BridgeInductive == D!Spec => []D!IInv
<1>1. D!Init => D!IInv
  BY DEF D!Init, D!IInv, D!TypeOK, D!BridgeIsExact, D!InOrder, D!Idle, D!Deeds, D!Nothing
<1>2. ASSUME D!IInv, [D!Next]_(D!vars)
      PROVE  D!IInv'
  <2>1. CASE D!Close
    BY <1>2, <2>1 DEF D!Close, D!IInv, D!TypeOK, D!BridgeIsExact, D!InOrder, D!Idle
  <2>2. CASE D!Closed
    BY <1>2, <2>2 DEF D!Closed, D!IInv, D!TypeOK, D!BridgeIsExact, D!InOrder, D!Idle
  <2>3. CASE UNCHANGED D!vars
    BY <1>2, <2>3 DEF D!vars, D!IInv, D!TypeOK, D!BridgeIsExact, D!InOrder, D!Idle
  <2> QED
    BY <1>2, <2>1, <2>2, <2>3, RefuseKeeps, ReceiveKeeps, BadBodyKeeps, DispatchKeeps, SettleKeeps DEF D!Next
<1> QED
  BY <1>1, <1>2, PTL DEF D!Spec

-----------------------------------------------------------------------------
(* What the user is told, of any number of servers.                           *)

(* A report leaves the user with what the backend is, or with nothing.        *)
LEMMA ReportKeeps ==
  ASSUME N!IInv, NEW kind \in N!Kind, NEW state \in N!BackendState, N!Report(kind, state), nQuitting' = nQuitting
  PROVE  /\ nBackend' \in [N!Kind -> N!BackendState \cup {"unknown"}]
         /\ nInformed' \in [N!Kind -> N!BackendState \cup {"unknown"}]
         /\ nLate' = FALSE
         /\ \A k \in N!Kind : ~nQuitting' /\ nInformed'[k] # "unknown" => nInformed'[k] = nBackend'[k]
<1> USE DEF N!IInv, N!TypeOK, N!NoticesAreDue, N!Report, N!Tells
<1>1. nBackend' \in [N!Kind -> N!BackendState \cup {"unknown"}]
  OBVIOUS
<1>2. nInformed' \in [N!Kind -> N!BackendState \cup {"unknown"}]
  OBVIOUS
<1>3. nLate' = FALSE
  BY Zenon
<1>4. \A k \in N!Kind \ {kind} : nBackend'[k] = nBackend[k] /\ nInformed'[k] = nInformed[k]
  OBVIOUS
<1>5. ~nQuitting /\ nInformed'[kind] # "unknown" => nInformed'[kind] = nBackend'[kind]
  BY DEF N!BackendState
<1> QED
  BY <1>1, <1>2, <1>3, <1>4, <1>5

(* reportModelRefreshFailure, whoever calls it.                               *)
LEMMA FailureKeeps ==
  ASSUME N!IInv, N!Failure, nQuitting' = nQuitting, UNCHANGED <<nDryTold, nMcp, nDry, nFailures>>,
         nStarted' \in BOOLEAN, nRejected' \in BOOLEAN
  PROVE  N!IInv'
<1>1. PICK kind \in N!Kind : N!Report(kind, "down")
  BY DEF N!Failure
<1>2. "down" \in N!BackendState
  BY DEF N!BackendState
<1> QED
  BY <1>1, <1>2, ReportKeeps DEF N!IInv, N!TypeOK, N!NoticesAreDue

(* reportNoFreeModels tells of the first dry refresh alone.                   *)
LEMMA AnswersKeep ==
  ASSUME N!IInv, NEW answers \in BOOLEAN, N!ReportAnswers(answers)
  PROVE  nDryTold' \in BOOLEAN /\ nDry' \in 0..1 /\ (nDry' = 1 => nDryTold')
<1> USE DEF N!IInv, N!TypeOK, N!NoticesAreDue, N!ReportAnswers
<1>1. nDryTold' \in BOOLEAN
  BY Zenon
<1>2. CASE answers
  BY <1>1, <1>2
<1>3. CASE ~answers /\ (nDryTold \/ nQuitting)
  <2>1. nDry' = nDry /\ (nDryTold => nDryTold')
    BY <1>3
  <2> QED
    BY <1>1, <2>1
<1>4. CASE ~answers /\ ~(nDryTold \/ nQuitting)
  <2>1. nDryTold'
    BY <1>4
  <2>2. nDry = 0
    BY <1>4
  <2>3. nDry' = 1
    BY <1>4, <2>2 DEF N!More
  <2> QED
    BY <1>1, <2>1, <2>3
<1> QED
  BY <1>2, <1>3, <1>4

(* reportMcpStatus tells of a server that was not failed before.              *)
LEMMA McpKeeps ==
  ASSUME N!IInv, NEW q \in Servers, NEW state \in N!McpState, N!Mcp(q, state)
  PROVE  N!IInv'
<1> USE DEF N!IInv, N!TypeOK, N!Mcp
<1>1. nFailures'[q] \in 0..1 /\ (state # "failed" => nFailures'[q] = 0)
  BY DEF N!NoticesAreDue, N!IsNewFailure, N!More
<1>2. \A p \in Servers \ {q} : nFailures'[p] = nFailures[p] /\ nMcp'[p] = nMcp[p]
  OBVIOUS
<1>3. nMcp'[q] = state
  OBVIOUS
<1>4. nFailures' \in [Servers -> 0..2]
  BY <1>1, <1>2
<1>5. nMcp' \in [Servers -> N!McpState \cup {"unseen"}]
  OBVIOUS
<1>6. N!TypeOK'
  BY <1>4, <1>5
<1> HIDE DEF N!TypeOK
<1>7. \A p \in Servers : nMcp'[p] # "failed" => nFailures'[p] = 0
  BY <1>1, <1>2, <1>3
<1>8. N!NoticesAreDue'
  BY <1>1, <1>2 DEF N!NoticesAreDue
<1> QED
  BY <1>6, <1>7, <1>8

(* The invariant of what the user is told.                                    *)
LEMMA NoticesInductive == N!Spec => []N!IInv
<1>1. N!Init => N!IInv
  <2> SUFFICES ASSUME N!Init
               PROVE  N!IInv
    OBVIOUS
  <2>1. N!TypeOK
    <3>1. nDry \in 0..2 /\ nFailures \in [Servers -> 0..2]
      BY DEF N!Init
    <3>2. /\ nBackend \in [N!Kind -> N!BackendState \cup {"unknown"}]
          /\ nInformed \in [N!Kind -> N!BackendState \cup {"unknown"}]
          /\ nMcp \in [Servers -> N!McpState \cup {"unseen"}]
      BY DEF N!Init
    <3> QED
      BY <3>1, <3>2, Zenon DEF N!Init, N!TypeOK
  <2> QED
    BY <2>1 DEF N!Init, N!IInv, N!NoticesAreDue
<1>2. ASSUME N!IInv, [N!Next]_(N!vars)
      PROVE  N!IInv'
  <2> USE <1>2
  <2>1. CASE N!Started
    <3>1. "pool" \in N!Kind /\ "ready" \in N!BackendState
      BY DEF N!Kind, N!BackendState
    <3> QED
      BY <2>1, <3>1, ReportKeeps DEF N!Started, N!IInv, N!TypeOK, N!NoticesAreDue
  <2>2. CASE N!RefreshFails
    BY <2>2, FailureKeeps DEF N!RefreshFails, N!IInv, N!TypeOK
  <2>3. CASE N!HandlerFails
    BY <2>3, FailureKeeps DEF N!HandlerFails, N!IInv, N!TypeOK
  <2>4. CASE N!Quit
    BY <2>4 DEF N!Quit, N!IInv, N!TypeOK, N!NoticesAreDue
  <2>5. ASSUME NEW answers \in BOOLEAN, NEW state \in {"ready", "degraded"}, N!Catalogue(answers, state)
        PROVE  N!IInv'
    <3>1. "catalog" \in N!Kind /\ state \in N!BackendState
      BY DEF N!Kind, N!BackendState
    <3>2. nDryTold' \in BOOLEAN /\ nDry' \in 0..1 /\ (nDry' = 1 => nDryTold')
      BY <2>5, AnswersKeep DEF N!Catalogue
    <3>3. /\ nBackend' \in [N!Kind -> N!BackendState \cup {"unknown"}]
          /\ nInformed' \in [N!Kind -> N!BackendState \cup {"unknown"}]
          /\ nLate' = FALSE
          /\ \A k \in N!Kind : ~nQuitting' /\ nInformed'[k] # "unknown" => nInformed'[k] = nBackend'[k]
      BY <2>5, <3>1, ReportKeeps DEF N!Catalogue
    <3>4. nDry' \in 0..2 /\ nDry' <= 1
      BY <3>2
    <3>5. UNCHANGED <<nMcp, nQuitting, nStarted, nRejected, nFailures>>
      BY <2>5 DEF N!Catalogue
    <3> QED
      BY <3>2, <3>3, <3>4, <3>5 DEF N!IInv, N!TypeOK, N!NoticesAreDue
  <2>6. CASE UNCHANGED N!vars
    BY <2>6 DEF N!vars, N!IInv, N!TypeOK, N!NoticesAreDue
  <2> QED
    BY <2>1, <2>2, <2>3, <2>4, <2>5, <2>6, McpKeeps DEF N!Next
<1> QED
  BY <1>1, <1>2, PTL DEF N!Spec

(* Induction along 0..n, stated of a set.                                     *)
LEMMA CountUp ==
  ASSUME NEW n \in Nat, NEW Good, 0 \in Good, \A k \in 1..n : k - 1 \in Good => k \in Good
  PROVE  0..n \subseteq Good
<1> DEFINE Rest == (0..n) \ Good
<1> SUFFICES ASSUME Rest # {}
             PROVE  FALSE
  OBVIOUS
<1>1. PICK k \in Rest : \A j \in Rest : ~(<<j, k>> \in OpToRel(<, Nat))
  <2>1. Rest \subseteq Nat
    OBVIOUS
  <2> QED
    BY <2>1, NatLessThanWellFounded, WFMin, Zenon
<1>2. k \in 1..n
  OBVIOUS
<1>3. k - 1 \notin Rest
  <2>1. k - 1 \in Nat /\ k \in Nat /\ k - 1 < k
    BY <1>2
  <2>2. <<k - 1, k>> \in OpToRel(<, Nat)
    BY <2>1 DEF OpToRel
  <2> QED
    BY <1>1, <2>2
<1>4. k - 1 \in Good
  BY <1>2, <1>3
<1> QED
  BY <1>2, <1>4

(* A value that is changed n times, by a function for each time.              *)
Iterates(f, n, x, step) == f = [k \in 0..n |-> IF k = 0 THEN x ELSE step[k][f[k - 1]]]

(* There is one.                                                              *)
LEMMA Iterated ==
  ASSUME NEW n \in Nat, NEW X, NEW x \in X, NEW step \in [1..n -> [X -> X]]
  PROVE  \E f \in [0..n -> X] : Iterates(f, n, x, step)
<1> DEFINE Upto(m, f) == f \in [0..m -> X] /\ f[0] = x /\ \A k \in 1..m : f[k] = step[k][f[k - 1]]
           Reached == {m \in 0..n : \E f : Upto(m, f)}
<1>1. 0 \in Reached
  <2> DEFINE g == [k \in 0..0 |-> x]
  <2>1. g \in [0..0 -> X] /\ g[0] = x /\ 1..0 = {} /\ 0 \in 0..n
    OBVIOUS
  <2>2. Upto(0, g)
    <3> HIDE DEF g
    <3> QED
      BY <2>1
  <2> HIDE DEF g, Upto
  <2> QED
    BY <2>1, <2>2
<1>2. ASSUME NEW m \in 1..n, m - 1 \in Reached
      PROVE  m \in Reached
  <2>1. PICK f : Upto(m - 1, f)
    BY <1>2
  <2> DEFINE g == [k \in 0..m |-> IF k = m THEN step[m][f[m - 1]] ELSE f[k]]
  <2>2. f[m - 1] \in X /\ step[m] \in [X -> X]
    BY <2>1
  <2>3. g \in [0..m -> X]
    BY <2>1, <2>2
  <2>4. g[0] = x
    BY <2>1
  <2>5. \A k \in 1..m : g[k] = step[k][g[k - 1]]
    BY <2>1
  <2>6. Upto(m, g) /\ m \in 0..n
    <3> HIDE DEF g
    <3> QED
      BY <2>3, <2>4, <2>5
  <2> HIDE DEF g, Upto
  <2> QED
    BY <2>6
<1>3. n \in Reached
  <2> HIDE DEF Reached
  <2>1. 0..n \subseteq Reached
    BY <1>1, <1>2, CountUp
  <2> QED
    BY <2>1
<1>4. PICK f : Upto(n, f)
  <2> HIDE DEF Upto
  <2> QED
    BY <1>3
<1>5. Iterates(f, n, x, step)
  <2> DEFINE g == [k \in 0..n |-> IF k = 0 THEN x ELSE step[k][f[k - 1]]]
  <2> SUFFICES ASSUME NEW k \in 0..n
               PROVE  f[k] = g[k]
    BY <1>4 DEF Iterates
  <2>1. k = 0 \/ k \in 1..n
    OBVIOUS
  <2> QED
    BY <1>4, <2>1
<1> QED
  BY <1>4, <1>5
-----------------------------------------------------------------------------
(* The import of a chat, for any numbers of messages, parts and tries.        *)

(* What the loop over the rows has made of the first m of them.               *)
Kept(c, read, m) ==
  /\ c \in Seq(I!Entry) /\ Len(c) <= m
  /\ \A i \in 1..Len(c) : c[i].of \in 1..m /\ c[i] = read[c[i].of] /\ I!Tells(c[i], c[i].parts)
  /\ \A i, j \in 1..Len(c) : i < j => c[i].of < c[j].of
  /\ \A k \in 1..m : I!Tells(read[k], read[k].parts) => \E i \in 1..Len(c) : c[i] = read[k]

(* One turn of the loop of read(): the row is added behind the others or      *)
(* left out.                                                                  *)
LEMMA KeptStep ==
  ASSUME NEW read \in Seq(I!Entry), \A k \in 1..Len(read) : read[k].of = k,
         NEW m \in 1..Len(read), NEW c, Kept(c, read, m - 1)
  PROVE  Kept(IF I!Tells(read[m], read[m].parts) THEN Append(c, read[m]) ELSE c, read, m)
<1>1. CASE ~I!Tells(read[m], read[m].parts)
  <2>1. Kept(c, read, m)
    <3>1. \A k \in 1..m : I!Tells(read[k], read[k].parts) => k \in 1..(m - 1)
      BY <1>1
    <3>2. \A k \in 1..(m - 1) : k \in 1..m
      OBVIOUS
    <3>3. Len(c) <= m
      BY DEF Kept
    <3> QED
      BY <3>1, <3>2, <3>3 DEF Kept
  <2> QED
    BY <1>1, <2>1
<1>2. CASE I!Tells(read[m], read[m].parts)
  <2> DEFINE d == Append(c, read[m])
  <2>1. c \in Seq(I!Entry) /\ read[m] \in I!Entry /\ Len(c) \in Nat /\ Len(c) <= m - 1
    BY ElementOfSeq, LenProperties DEF Kept
  <2>2. /\ d \in Seq(I!Entry) /\ Len(d) = Len(c) + 1
        /\ \A i \in 1..Len(c) : d[i] = c[i]
        /\ d[Len(c) + 1] = read[m]
    BY <2>1, AppendProperties
  <2> HIDE DEF d
  <2>3. Len(d) \in Nat /\ Len(d) <= m
    BY <2>1, <2>2
  <2>4. \A i \in 1..Len(d) : i \in 1..Len(c) \/ i = Len(c) + 1
    BY <2>1, <2>2
  <2>5. ASSUME NEW i \in 1..Len(d)
        PROVE  d[i].of \in 1..m /\ d[i] = read[d[i].of] /\ I!Tells(d[i], d[i].parts)
    <3>1. CASE i \in 1..Len(c)
      <4>1. /\ c[i].of \in 1..(m - 1) /\ c[i] = read[c[i].of] /\ I!Tells(c[i], c[i].parts)
            /\ d[i] = c[i]
        BY <2>2, <3>1 DEF Kept
      <4> QED
        BY <4>1
    <3>2. CASE i = Len(c) + 1
      <4>1. d[i] = read[m] /\ read[m].of = m /\ m \in 1..m
        BY <2>2, <3>2
      <4> QED
        BY <1>2, <4>1
    <3> QED
      BY <2>4, <3>1, <3>2
  <2>6. ASSUME NEW i \in 1..Len(d), NEW j \in 1..Len(d), i < j
        PROVE  d[i].of < d[j].of
    <3>1. i \in 1..Len(c) /\ d[i] = c[i] /\ c[i].of \in 1..(m - 1)
      BY <2>1, <2>2, <2>4, <2>6 DEF Kept
    <3>2. CASE j \in 1..Len(c)
      BY <2>2, <2>6, <3>1, <3>2 DEF Kept
    <3>3. CASE j = Len(c) + 1
      <4>1. d[j].of = m
        BY <2>2, <3>3
      <4> QED
        BY <3>1, <4>1
    <3> QED
      BY <2>4, <3>2, <3>3
  <2>7. ASSUME NEW k \in 1..m, I!Tells(read[k], read[k].parts)
        PROVE  \E i \in 1..Len(d) : d[i] = read[k]
    <3>1. CASE k = m
      <4>1. Len(c) + 1 \in 1..Len(d)
        BY <2>1, <2>2
      <4> QED
        BY <2>2, <3>1, <4>1
    <3>2. CASE k # m
      <4>1. PICK i \in 1..Len(c) : c[i] = read[k]
        <5>1. k \in 1..(m - 1)
          BY <3>2
        <5> QED
          BY <2>7, <5>1 DEF Kept
      <4>2. i \in 1..Len(d) /\ d[i] = c[i]
        BY <2>1, <2>2
      <4> QED
        BY <4>1, <4>2
    <3> QED
      BY <3>1, <3>2
  <2>8. Kept(d, read, m)
    BY <2>2, <2>3, <2>5, <2>6, <2>7 DEF Kept
  <2> QED
    BY <1>2, <2>8 DEF d
<1> QED
  BY <1>1, <1>2

(* The whole loop, row by row.                                                *)
LEMMA ToldIs ==
  ASSUME NEW read \in Seq(I!Entry), \A k \in 1..Len(read) : read[k].of = k
  PROVE  Kept(I!Told(read), read, Len(read))
<1> DEFINE n == Len(read)
           More(k, c) == IF I!Tells(read[k], read[k].parts) THEN Append(c, read[k]) ELSE c
           Upto(f) == [k \in 0..Len(read) |-> IF k = 0 THEN <<>>
                                              ELSE IF I!Tells(read[k], read[k].parts)
                                                   THEN Append(f[k - 1], read[k]) ELSE f[k - 1]]
           step == [k \in 1..n |-> [c \in Seq(I!Entry) |-> More(k, c)]]
           upto == CHOOSE f : f = Upto(f)
<1>1. n \in Nat /\ <<>> \in Seq(I!Entry)
  BY LenProperties, EmptySeq
<1>2. \A k \in 1..n : \A c \in Seq(I!Entry) : More(k, c) \in Seq(I!Entry)
  BY ElementOfSeq, AppendProperties
<1>3. step \in [1..n -> [Seq(I!Entry) -> Seq(I!Entry)]]
  <2> HIDE DEF More
  <2> QED
    BY <1>2
<1>4. PICK f \in [0..n -> Seq(I!Entry)] : Iterates(f, n, <<>>, step)
  <2> HIDE DEF step, n
  <2> QED
    BY <1>1, <1>3, Iterated
<1>5. f = Upto(f)
  <2> SUFFICES ASSUME NEW k \in 0..n
               PROVE  f[k] = Upto(f)[k]
    OBVIOUS
  <2>1. CASE k = 0
    BY <1>4, <2>1 DEF Iterates
  <2>2. CASE k # 0
    <3>1. k \in 1..n /\ k - 1 \in 0..n
      BY <1>1, <2>2
    <3>2. f[k] = step[k][f[k - 1]] /\ f[k - 1] \in Seq(I!Entry)
      <4> HIDE DEF step, n
      <4> QED
        BY <1>4, <2>2, <3>1 DEF Iterates
    <3>3. step[k][f[k - 1]] = More(k, f[k - 1])
      <4> HIDE DEF More
      <4> QED
        BY <3>1, <3>2
    <3> QED
      BY <2>2, <3>1, <3>2, <3>3
  <2> QED
    BY <2>1, <2>2
<1>6. upto = Upto(upto)
  <2> HIDE DEF Upto
  <2> QED
    BY <1>5
<1>7. I!Told(read) = upto[n]
  BY DEF I!Told
<1> HIDE DEF upto
<1> DEFINE Good == {k \in 0..n : Kept(upto[k], read, k)}
<1>8. 0 \in Good
  <2>1. upto[0] = <<>>
    BY <1>1, <1>6
  <2>2. Kept(<<>>, read, 0)
    <3>1. <<>> \in Seq(I!Entry) /\ Len(<<>>) = 0
      BY EmptySeq
    <3> QED
      BY <3>1 DEF Kept
  <2> HIDE DEF Upto, n
  <2> QED
    BY <1>1, <2>1, <2>2
<1>9. ASSUME NEW k \in 1..n, k - 1 \in Good
      PROVE  k \in Good
  <2>1. upto[k] = More(k, upto[k - 1])
    <3>1. k \in 0..n /\ k # 0
      BY <1>1
    <3>2. upto[k] = Upto(upto)[k]
      <4> HIDE DEF Upto
      <4> QED
        BY <1>6
    <3> QED
      BY <3>1, <3>2
  <2>2. Kept(upto[k - 1], read, k - 1)
    BY <1>9
  <2>3. Kept(More(k, upto[k - 1]), read, k)
    BY <2>2, KeptStep
  <2> QED
    BY <1>1, <2>1, <2>3
<1> QED
  <2>1. n \in Good
    <3> HIDE DEF Good, n
    <3>1. 0..n \subseteq Good
      BY <1>1, <1>8, <1>9, CountUp
    <3> QED
      BY <1>1, <3>1
  <2> HIDE DEF Good
  <2> QED
    BY <1>7, <2>1 DEF Good

(* The bounds are numbers, and the counters may begin.                        *)
LEMMA ChatBounds ==
  MaxMessages \in Nat /\ MaxParts \in Nat /\ MaxTries \in Nat /\ 0 \in 0..MaxTries /\ 0 \in 0..MaxMessages
BY ShellAssumption

(* The conversations are the sequences of messages within the bound.          *)
LEMMA MessagesAre ==
  ASSUME NEW s
  PROVE  s \in I!Messages <=> s \in Seq(I!Message) /\ Len(s) \in 0..MaxMessages
BY ChatBounds, BoundedSeq DEF I!Messages

(* What is handed over is a sequence of entries within the bound.             *)
LEMMA ChatsAre ==
  ASSUME NEW s
  PROVE  s \in UNION {[1..n -> I!Entry] : n \in 0..MaxMessages}
         <=> s \in Seq(I!Entry) /\ Len(s) \in 0..MaxMessages
BY ChatBounds, BoundedSeq

(* A row of a conversation has a role and a number of parts.                  *)
LEMMA MessageIs ==
  ASSUME NEW s \in I!Messages, NEW m \in 1..Len(s)
  PROVE  s[m] \in I!Message /\ s[m].role \in I!Role /\ s[m].parts \in 0..MaxParts
<1>1. s \in Seq(I!Message)
  BY MessagesAre
<1>2. s[m] \in I!Message
  BY <1>1, ElementOfSeq
<1> QED
  BY <1>2 DEF I!Message

(* A conversation has grown from nothing and from itself.                     *)
LEMMA NothingGrew ==
  ASSUME NEW s \in I!Messages
  PROVE  I!Grew(s, s) /\ I!Grew(<<>>, s) /\ <<>> \in I!Messages /\ Len(<<>>) = 0
<1>1. \A m \in 1..Len(s) : s[m].parts \in 0..MaxParts
  BY MessageIs
<1>2. Len(s) \in 0..MaxMessages
  BY MessagesAre
<1>3. <<>> \in I!Messages /\ Len(<<>>) = 0
  BY ChatBounds, MessagesAre, EmptySeq
<1> QED
  BY <1>1, <1>2, <1>3, ChatBounds DEF I!Grew

(* Growing twice is growing.                                                  *)
LEMMA GrewOn ==
  ASSUME NEW a \in I!Messages, NEW b \in I!Messages, NEW c \in I!Messages, I!Grew(a, b), I!Grew(b, c)
  PROVE  I!Grew(a, c)
<1>1. Len(a) \in Nat /\ Len(b) \in Nat /\ Len(c) \in Nat
  BY MessagesAre, ChatBounds
<1>2. Len(a) <= Len(b) /\ Len(b) <= Len(c)
  BY DEF I!Grew
<1>3. ASSUME NEW m \in 1..Len(a)
      PROVE  c[m].role = a[m].role /\ c[m].parts >= a[m].parts
  <2>1. m \in 1..Len(b) /\ m \in 1..Len(c)
    BY <1>1, <1>2
  <2>2. a[m].parts \in 0..MaxParts /\ b[m].parts \in 0..MaxParts /\ c[m].parts \in 0..MaxParts
    BY <2>1, MessageIs
  <2>3. b[m].role = a[m].role /\ b[m].parts >= a[m].parts /\ c[m].role = b[m].role /\ c[m].parts >= b[m].parts
    BY <2>1 DEF I!Grew
  <2> QED
    BY <2>2, <2>3, ChatBounds
<1> QED
  BY <1>1, <1>2, <1>3 DEF I!Grew

(* OpenCode writes: what was read so far stays read.                          *)
LEMMA GrowthKeeps ==
  ASSUME I!IInv, iDb' \in I!Messages, I!Grew(iDb, iDb'),
         UNCHANGED <<iThere, iStage, iRows, iChat, iSession, iMade, iTries, iBefore>>
  PROVE  I!IInv'
<1> USE DEF I!IInv
<1>1. iDb \in I!Messages /\ iBefore \in I!Messages /\ iRows \in I!Messages
  BY DEF I!TypeOK
<1>2. I!Grew(iBefore, iDb') /\ I!Grew(iRows, iDb')
  BY <1>1, GrewOn DEF I!RowsStand
<1>3. Len(iDb) \in Nat /\ Len(iDb') \in Nat /\ Len(iDb) <= Len(iDb') /\ Len(iRows) <= Len(iDb')
  BY <1>1, <1>2, MessagesAre, ChatBounds DEF I!Grew
<1>4. I!TypeOK'
  BY <1>3 DEF I!TypeOK
<1>5. iStage \in {"creating", "prompting", "done"} =>
        \A i \in 1..Len(iChat) : iChat[i].of \in 1..Len(iDb') /\ iChat[i].role = iDb'[iChat[i].of].role
  <2> SUFFICES ASSUME iStage \in {"creating", "prompting", "done"}, NEW i \in 1..Len(iChat)
               PROVE  iChat[i].of \in 1..Len(iDb') /\ iChat[i].role = iDb'[iChat[i].of].role
    OBVIOUS
  <2>1. iChat[i].of \in 1..Len(iDb) /\ iChat[i].role = iDb[iChat[i].of].role
    BY DEF I!RowsStand, I!HandoffIsWhole
  <2>2. \A m \in 1..Len(iDb) : m \in 1..Len(iDb') /\ iDb'[m].role = iDb[m].role
    BY <1>3 DEF I!Grew
  <2> QED
    BY <2>1, <2>2
<1>6. I!RowsStand'
  BY <1>2, <1>5 DEF I!RowsStand, I!Grew
<1>7. I!HandoffIsWhole'
  BY <1>5 DEF I!HandoffIsWhole
<1>8. I!TryStands'
  BY DEF I!TryStands
<1> QED
  BY <1>4, <1>6, <1>7, <1>8

(* OpenCode adds a message under the queries.                                 *)
LEMMA SayKeeps ==
  ASSUME I!IInv, NEW role \in I!Role, I!Say(role)
  PROVE  I!IInv'
<1> DEFINE new == [role |-> role, parts |-> 0]
<1>1. iDb \in Seq(I!Message) /\ Len(iDb) \in 0..MaxMessages /\ iDb \in I!Messages
  BY MessagesAre DEF I!IInv, I!TypeOK
<1>2. new \in I!Message
  BY ChatBounds DEF I!Message
<1>3. iDb' = Append(iDb, new) /\ Len(iDb) < MaxMessages
  BY DEF I!Say
<1> HIDE DEF new
<1>4. /\ iDb' \in Seq(I!Message) /\ Len(iDb') = Len(iDb) + 1
      /\ \A m \in 1..Len(iDb) : iDb'[m] = iDb[m]
  BY <1>1, <1>2, <1>3, AppendProperties
<1>5. Len(iDb') \in 0..MaxMessages
  BY <1>1, <1>3, <1>4, ChatBounds
<1>6. iDb' \in I!Messages
  BY <1>4, <1>5, MessagesAre
<1>7. I!Grew(iDb, iDb')
  <2>1. \A m \in 1..Len(iDb) : iDb[m].parts \in 0..MaxParts
    BY <1>1, MessageIs
  <2> QED
    BY <1>1, <1>4, <2>1, ChatBounds DEF I!Grew
<1> QED
  BY <1>6, <1>7, GrowthKeeps DEF I!Say

(* OpenCode adds a part under the queries.                                    *)
LEMMA AddPartKeeps ==
  ASSUME I!IInv, I!AddPart
  PROVE  I!IInv'
<1>1. PICK i \in 1..Len(iDb) : iDb[i].parts < MaxParts /\ iDb' = [iDb EXCEPT ![i].parts = @ + 1]
  BY DEF I!AddPart
<1>2. iDb \in Seq(I!Message) /\ Len(iDb) \in 0..MaxMessages /\ iDb \in I!Messages
  BY MessagesAre DEF I!IInv, I!TypeOK
<1>3. \A m \in 1..Len(iDb) : iDb[m] \in I!Message /\ iDb[m].parts \in 0..MaxParts
  BY <1>2, MessageIs
<1> DEFINE e == [iDb[i] EXCEPT !.parts = @ + 1]
<1>4. e \in I!Message /\ e.role = iDb[i].role /\ e.parts >= iDb[i].parts
  BY <1>1, <1>3, ChatBounds DEF I!Message
<1>5. iDb' = [iDb EXCEPT ![i] = e]
  BY <1>1
<1> HIDE DEF e
<1>6. /\ iDb' \in Seq(I!Message) /\ Len(iDb') = Len(iDb)
      /\ \A m \in 1..Len(iDb) : iDb'[m] = IF m = i THEN e ELSE iDb[m]
  BY <1>2, <1>4, <1>5, ExceptSeq
<1>7. iDb' \in I!Messages
  BY <1>2, <1>6, MessagesAre
<1>8. I!Grew(iDb, iDb')
  BY <1>2, <1>3, <1>4, <1>6, ChatBounds DEF I!Grew
<1> QED
  BY <1>7, <1>8, GrowthKeeps DEF I!AddPart

(* The user asks for a conversation, for the first time or again.             *)
LEMMA ContinueKeeps ==
  ASSUME I!IInv, I!Continue
  PROVE  I!IInv'
<1> USE DEF I!IInv, I!Continue
<1>1. iDb \in I!Messages /\ Len(iDb) \in Nat
  BY MessagesAre, ChatBounds DEF I!TypeOK
<1>2. I!Grew(iDb, iDb) /\ I!Grew(<<>>, iDb) /\ <<>> \in I!Messages /\ Len(<<>>) = 0
  BY <1>1, NothingGrew
<1>3. <<>> \in UNION {[1..n -> I!Entry] : n \in 0..MaxMessages}
  BY <1>2, ChatsAre, EmptySeq, ChatBounds
<1>4. iTries' \in 0..MaxTries /\ iTries' > 0
  BY ChatBounds DEF I!TypeOK
<1>5. I!TypeOK'
  <2>1. iRows' \in I!Messages /\ iBefore' \in I!Messages /\ iDb' \in I!Messages /\ Len(iRows') <= Len(iDb')
    BY <1>1, <1>2
  <2>2. iChat' \in UNION {[1..n -> I!Entry] : n \in 0..MaxMessages}
    BY <1>3
  <2>3. iSession' \in 0..MaxTries /\ iStage' = "session"
    BY ChatBounds
  <2> QED
    BY <1>4, <2>1, <2>2, <2>3 DEF I!TypeOK
<1>6. I!RowsStand'
  BY <1>2 DEF I!RowsStand
<1> QED
  BY <1>4, <1>5, <1>6 DEF I!HandoffIsWhole, I!TryStands

(* The queries that are not the last of read().                               *)
LEMMA QueryKeeps ==
  ASSUME I!IInv, I!ReadFails \/ I!ReadSession \/ I!ReadMessages
  PROVE  I!IInv'
<1> USE DEF I!IInv
<1>1. iDb \in I!Messages /\ iBefore \in I!Messages /\ Len(iDb) \in Nat /\ iRows' \in I!Messages
  BY MessagesAre, ChatBounds, NothingGrew DEF I!TypeOK, I!ReadFails, I!ReadSession, I!ReadMessages
<1>2. I!Grew(iDb, iDb) /\ I!Grew(<<>>, iDb) /\ Len(<<>>) = 0
  BY <1>1, NothingGrew
<1>3. CASE I!ReadFails
  <2>1. I!TypeOK'
    BY <1>3 DEF I!TypeOK, I!ReadFails
  <2>2. I!RowsStand'
    BY <1>3 DEF I!RowsStand, I!ReadFails, I!Grew
  <2> QED
    BY <1>3, <2>1, <2>2 DEF I!HandoffIsWhole, I!TryStands, I!ReadFails
<1>4. CASE I!ReadSession
  <2>1. I!TypeOK'
    BY <1>4 DEF I!TypeOK, I!ReadSession
  <2>2. I!RowsStand'
    BY <1>4 DEF I!RowsStand, I!ReadSession, I!Grew
  <2> QED
    BY <1>4, <2>1, <2>2 DEF I!HandoffIsWhole, I!TryStands, I!ReadSession
<1>5. CASE I!ReadMessages
  <2>1. I!Grew(iRows', iDb') /\ Len(iRows') <= Len(iDb')
    BY <1>2, <1>5 DEF I!ReadMessages, I!Grew
  <2>2. I!TypeOK'
    BY <1>1, <1>5, <2>1 DEF I!TypeOK, I!ReadMessages
  <2>3. I!RowsStand'
    <3>1. I!Grew(iBefore, iDb)
      BY DEF I!RowsStand
    <3>2. iThere => iRows' = iDb
      BY <1>5 DEF I!ReadMessages
    <3> QED
      BY <1>5, <2>1, <3>1, <3>2 DEF I!RowsStand, I!ReadMessages, I!Grew
  <2> QED
    BY <1>5, <2>2, <2>3 DEF I!HandoffIsWhole, I!TryStands, I!ReadMessages
<1> QED
  BY <1>3, <1>4, <1>5

(* The last query, and what is made of its answer.                            *)
LEMMA ReadPartsKeeps ==
  ASSUME I!IInv, I!ReadParts
  PROVE  I!IInv'
<1> USE DEF I!IInv
<1>1. /\ iDb \in I!Messages /\ iBefore \in I!Messages /\ iRows \in I!Messages
      /\ Len(iDb) \in Nat /\ Len(iBefore) \in Nat /\ Len(iRows) \in 0..MaxMessages /\ Len(iRows) <= Len(iDb)
  BY MessagesAre, ChatBounds DEF I!TypeOK
<1>2. \A i \in 1..Len(iRows) : /\ i \in 1..Len(iDb) /\ iRows[i].role \in I!Role /\ I!Parts(i) \in 0..MaxParts
                              /\ iRows[i].role = iDb[i].role
  <2> SUFFICES ASSUME NEW i \in 1..Len(iRows)
               PROVE  /\ i \in 1..Len(iDb) /\ iRows[i].role \in I!Role /\ I!Parts(i) \in 0..MaxParts
                      /\ iRows[i].role = iDb[i].role
    OBVIOUS
  <2>1. i \in 1..Len(iDb)
    BY <1>1
  <2>2. iRows[i].role \in I!Role /\ iDb[i].parts \in 0..MaxParts
    BY <1>1, <2>1, MessageIs
  <2> QED
    BY <2>1, <2>2, ChatBounds DEF I!Parts, I!RowsStand, I!Grew
<1> DEFINE read == I!Read
<1>3. /\ read \in Seq(I!Entry) /\ Len(read) = Len(iRows)
      /\ \A i \in 1..Len(iRows) : read[i] = [of |-> i, role |-> iRows[i].role, parts |-> I!Parts(i)]
  <2>1. read \in [1..Len(iRows) -> I!Entry]
    BY <1>1, <1>2, ChatBounds DEF I!Read, I!Entry
  <2>2. Len(iRows) \in Nat
    BY <1>1, ChatBounds
  <2>3. read \in Seq(I!Entry)
    BY <2>1, <2>2, SeqDef
  <2>4. DOMAIN read = 1..Len(iRows) /\ DOMAIN read = 1..Len(read) /\ Len(read) \in Nat
    BY <2>1, <2>3, LenProperties
  <2>5. Len(read) = Len(iRows)
    BY <2>2, <2>4
  <2> QED
    BY <2>3, <2>5 DEF I!Read
<1> HIDE DEF read
<1>4. Kept(iChat', read, Len(iRows))
  <2>1. iChat' = I!Told(read)
    BY DEF I!ReadParts, read
  <2>2. ASSUME NEW k \in 1..Len(read)
        PROVE  read[k].of = k
    <3>1. read[k] = [of |-> k, role |-> iRows[k].role, parts |-> I!Parts(k)]
      BY <1>3
    <3> QED
      BY <3>1
  <2> QED
    BY <1>3, <2>1, <2>2, ToldIs
<1>5. iChat' \in Seq(I!Entry) /\ Len(iChat') \in 0..MaxMessages
  BY <1>1, <1>4, ChatBounds, LenProperties DEF Kept
<1>6. I!TypeOK'
  BY <1>5, ChatsAre DEF I!TypeOK, I!ReadParts
<1>7. \A i \in 1..Len(iChat') : /\ iChat'[i].of \in 1..Len(iDb)
                                /\ iChat'[i].role = iDb[iChat'[i].of].role
                                /\ iChat'[i].role = "assistant" => iChat'[i].parts > 0
  <2> SUFFICES ASSUME NEW i \in 1..Len(iChat')
               PROVE  /\ iChat'[i].of \in 1..Len(iDb)
                      /\ iChat'[i].role = iDb[iChat'[i].of].role
                      /\ iChat'[i].role = "assistant" => iChat'[i].parts > 0
    OBVIOUS
  <2>1. PICK k \in 1..Len(iRows) : iChat'[i].of = k /\ iChat'[i] = read[k] /\ I!Tells(iChat'[i], iChat'[i].parts)
    BY <1>4 DEF Kept
  <2>2. iChat'[i] = [of |-> k, role |-> iRows[k].role, parts |-> I!Parts(k)]
    BY <1>3, <2>1
  <2> QED
    BY <1>2, <2>1, <2>2 DEF I!Tells
<1>8. iThere => \A m \in 1..Len(iBefore) :
        iBefore[m].parts > 0 \/ iBefore[m].role = "user" =>
          \E i \in 1..Len(iChat') : iChat'[i].of = m /\ iChat'[i].parts >= iBefore[m].parts
  <2> SUFFICES ASSUME iThere, NEW m \in 1..Len(iBefore), iBefore[m].parts > 0 \/ iBefore[m].role = "user"
               PROVE  \E i \in 1..Len(iChat') : iChat'[i].of = m /\ iChat'[i].parts >= iBefore[m].parts
    OBVIOUS
  <2>1. I!Grew(iBefore, iRows) /\ I!Grew(iBefore, iDb)
    BY DEF I!RowsStand, I!ReadParts
  <2>2. m \in 1..Len(iRows)
    BY <1>1, <2>1 DEF I!Grew
  <2>3. /\ iBefore[m].parts \in 0..MaxParts /\ iDb[m].parts \in 0..MaxParts /\ iDb[m].parts >= iBefore[m].parts
        /\ iRows[m].role = iBefore[m].role
    BY <1>1, <1>2, <2>1, <2>2, MessageIs DEF I!Grew
  <2>4. read[m] = [of |-> m, role |-> iRows[m].role, parts |-> iDb[m].parts]
    BY <1>3, <2>2 DEF I!Parts
  <2>5. I!Tells(read[m], read[m].parts)
    BY <2>3, <2>4, ChatBounds DEF I!Tells
  <2>6. PICK i \in 1..Len(iChat') : iChat'[i] = read[m]
    BY <1>4, <2>2, <2>5 DEF Kept
  <2> QED
    BY <2>3, <2>4, <2>6
<1>9. I!HandoffIsWhole'
  <2>1. \A i, j \in 1..Len(iChat') : i < j => iChat'[i].of < iChat'[j].of
    BY <1>4 DEF Kept
  <2> QED
    BY <1>7, <1>8, <2>1 DEF I!HandoffIsWhole, I!ReadParts
<1>10. I!RowsStand'
  BY <1>7 DEF I!RowsStand, I!ReadParts, I!Grew
<1> QED
  BY <1>6, <1>9, <1>10 DEF I!TryStands, I!ReadParts

(* The calls to the harness.                                                  *)
LEMMA CreateKeeps ==
  ASSUME I!IInv, I!Create
  PROVE  I!IInv'
<1> USE DEF I!IInv
<1>1. iTries \in 1..MaxTries /\ iStage = "creating"
  BY ChatBounds DEF I!TypeOK, I!TryStands, I!Create
<1>2. [iMade EXCEPT ![iTries] = 0] \in [1..MaxTries -> -1..1] /\ iMade \in [1..MaxTries -> -1..1]
  BY <1>1 DEF I!TypeOK
<1>3. I!TypeOK'
  BY <1>1, <1>2 DEF I!TypeOK, I!Create
<1>4. I!RowsStand'
  BY <1>1 DEF I!RowsStand, I!Create, I!Grew
<1>5. I!HandoffIsWhole'
  BY <1>1 DEF I!HandoffIsWhole, I!Create
<1>6. I!TryStands'
  BY <1>1 DEF I!TypeOK, I!TryStands, I!Create
<1> QED
  BY <1>3, <1>4, <1>5, <1>6

(* session.prompt hands the conversation to the session of this try.          *)
LEMMA PromptKeeps ==
  ASSUME I!IInv, I!Prompt
  PROVE  I!IInv'
<1> USE DEF I!IInv
<1>1. iSession \in 1..MaxTries /\ iMade[iSession] = 0 /\ iStage = "prompting"
  BY ChatBounds DEF I!TypeOK, I!TryStands, I!Prompt
<1> DEFINE made == [iMade EXCEPT ![iSession] = @ + 1]
<1>2. made \in [1..MaxTries -> -1..1] /\ iMade \in [1..MaxTries -> -1..1] /\ made[iSession] = 1
  BY <1>1 DEF I!TypeOK
<1>3. iMade' \in {iMade, made} /\ (iStage' = "done" => iMade' = made) /\ iStage' \in {"done", "failed"}
  BY DEF I!Prompt
<1> HIDE DEF made
<1>4. I!TypeOK'
  BY <1>2, <1>3 DEF I!TypeOK, I!Prompt
<1>5. I!RowsStand'
  BY <1>1, <1>3 DEF I!RowsStand, I!Prompt, I!Grew
<1>6. I!HandoffIsWhole'
  BY <1>1, <1>2, <1>3 DEF I!HandoffIsWhole, I!Prompt
<1>7. I!TryStands'
  BY <1>1, <1>3 DEF I!TryStands, I!Prompt
<1> QED
  BY <1>4, <1>5, <1>6, <1>7

(* The invariant of the import of a conversation.                             *)
LEMMA HandoffInductive == I!Spec => []I!IInv
<1>1. I!Init => I!IInv
  <2> SUFFICES ASSUME I!Init
               PROVE  I!IInv
    OBVIOUS
  <2>1. <<>> \in I!Messages /\ Len(<<>>) = 0 /\ I!Grew(<<>>, <<>>)
    <3>1. <<>> \in I!Messages /\ Len(<<>>) = 0
      BY ChatBounds, MessagesAre, EmptySeq
    <3> QED
      BY <3>1, NothingGrew
  <2>2. <<>> \in UNION {[1..n -> I!Entry] : n \in 0..MaxMessages}
    BY <2>1, ChatsAre, EmptySeq, ChatBounds
  <2>3. I!TypeOK
    BY <2>1, <2>2, ChatBounds DEF I!Init, I!TypeOK
  <2> QED
    BY <2>1, <2>3 DEF I!Init, I!IInv, I!HandoffIsWhole, I!RowsStand, I!TryStands
<1>2. ASSUME I!IInv, [I!Next]_(I!vars)
      PROVE  I!IInv'
  <2> USE <1>2
  <2>1. CASE I!Delete
    BY <2>1 DEF I!Delete, I!IInv, I!TypeOK, I!HandoffIsWhole, I!RowsStand, I!TryStands, I!Grew
  <2>2. CASE UNCHANGED I!vars
    BY <2>2 DEF I!vars, I!IInv, I!TypeOK, I!HandoffIsWhole, I!RowsStand, I!TryStands, I!Grew
  <2> QED
    BY <2>1, <2>2, SayKeeps, AddPartKeeps, ContinueKeeps, QueryKeeps, ReadPartsKeeps, CreateKeeps, PromptKeeps
       DEF I!Next
<1> QED
  BY <1>1, <1>2, PTL DEF I!Spec

-----------------------------------------------------------------------------
(* The catalogue, for any routes, any reviewed ones and any number of         *)
(* refreshes. The kinds of windows and of answers are expanded throughout.    *)
USE DEF C!Declared, C!Unlisted, C!None, C!ReviewedWindow, C!Window, C!Waiting, C!Responding, C!Failing

(* The first refresh starts from the file of another life.                    *)
LEMMA CatalogueInitHolds == C!Init => C!IInv
<1> SUFFICES ASSUME C!Init
             PROVE  C!IInv
  OBVIOUS
<1> USE DEF C!Init, C!Bare
<1>1. C!TypeOK
  BY ShellAssumption DEF C!TypeOK
<1>2. C!OfferedIsProven
  BY DEF C!OfferedIsProven
<1>3. C!WindowsAreKept
  BY DEF C!WindowsAreKept
<1>4. C!FileIsTrue
  BY DEF C!FileIsTrue
<1> QED
  BY <1>1, <1>2, <1>3, <1>4 DEF C!IInv

(* What a refresh lists is one of the four kinds for each route.              *)
LEMMA CatalogueListsOf == C!ListsMade \subseteq [C!Route -> C!Declared \cup {C!None, C!Unlisted}]
BY DEF C!ListsMade

(* The routes are listed, with their windows or without.                      *)
LEMMA CatalogueListKeeps ==
  ASSUME C!IInv, C!List
  PROVE  C!IInv'
<1> USE DEF C!IInv
<1>0. PICK l \in C!ListsMade :
        /\ cListed' = l
        /\ cProbe' = [r \in C!Route |-> IF l[r] = C!Unlisted THEN "none" ELSE "completion"]
        /\ cKnown' = [r \in C!Route |-> IF l[r] \in C!Declared THEN l[r] ELSE cKnown[r]]
  BY DEF C!List
<1>1. l \in [C!Route -> C!Declared \cup {C!None, C!Unlisted}]
  BY CatalogueListsOf
<1>2. C!TypeOK'
  <2>1. cProbe' \in [C!Route -> C!Waiting \cup C!Responding \cup C!Failing \cup {"none"}]
    BY <1>0
  <2>2. cKnown' \in [C!Route -> C!Declared \cup {C!None}]
    BY <1>0 DEF C!TypeOK
  <2>3. cRefreshes' \in 0..MaxRefreshes
    BY ShellAssumption DEF C!List, C!TypeOK
  <2> QED
    BY <1>0, <1>1, <2>1, <2>2, <2>3 DEF C!List, C!TypeOK
<1>3. C!OfferedIsProven'
  BY DEF C!List, C!OfferedIsProven
<1>4. C!WindowsAreKept'
  BY <1>0, <1>1 DEF C!List, C!TypeOK, C!WindowsAreKept
<1>5. C!FileIsTrue'
  BY <1>0, <1>1 DEF C!List, C!TypeOK, C!FileIsTrue
<1> QED
  BY <1>2, <1>3, <1>4, <1>5

(* A probe of a completion ends.                                              *)
LEMMA CatalogueCompleteKeeps ==
  ASSUME C!IInv, NEW r \in C!Route, C!Complete(r)
  PROVE  C!IInv'
<1> USE DEF C!IInv, C!Complete
<1>1. C!TypeOK'
  BY DEF C!TypeOK
<1>2. C!OfferedIsProven'
  BY DEF C!TypeOK, C!OfferedIsProven, C!Selectable
<1>3. C!WindowsAreKept'
  BY DEF C!TypeOK, C!WindowsAreKept
<1>4. C!FileIsTrue'
  <2>1. PICK e \in C!Failing \cup {"tool-call"} : cProbe' = [cProbe EXCEPT ![r] = e]
    OBVIOUS
  <2>2. cProbe'[r] = e /\ \A q \in C!Route \ {r} : cProbe'[q] = cProbe[q]
    BY <2>1 DEF C!TypeOK
  <2>3. \A q \in C!Route \ {r} : q \in cAnswered' <=> q \in cAnswered
    OBVIOUS
  <2>4. e \in {"http", "invalid-response"} => r \notin cAnswered'
    BY <2>2
  <2>5. e = "tool-call" => r \in cAnswered'
    BY <2>2
  <2>6. e = "transport" /\ cStage = "probing" => (r \in cAnswered' <=> r \in cDisk)
    BY <2>2 DEF C!FileIsTrue
  <2> QED
    BY <2>2, <2>3, <2>4, <2>5, <2>6 DEF C!FileIsTrue, C!OfferedIsProven, C!TypeOK
<1> QED
  BY <1>1, <1>2, <1>3, <1>4

(* A probe of a tool call ends.                                               *)
LEMMA CatalogueCallToolKeeps ==
  ASSUME C!IInv, NEW r \in C!Route, C!CallTool(r)
  PROVE  C!IInv'
<1> USE DEF C!IInv, C!CallTool
<1>1. C!TypeOK'
  BY DEF C!TypeOK
<1>2. C!OfferedIsProven'
  BY DEF C!TypeOK, C!OfferedIsProven, C!Selectable
<1>3. C!WindowsAreKept'
  BY DEF C!TypeOK, C!WindowsAreKept
<1>4. C!FileIsTrue'
  BY DEF C!TypeOK, C!FileIsTrue
<1> QED
  BY <1>1, <1>2, <1>3, <1>4

(* The profile and the file are written from the probes.                      *)
LEMMA CataloguePublishKeeps ==
  ASSUME C!IInv, C!Publish
  PROVE  C!IInv'
<1> USE DEF C!IInv, C!Publish
<1>1. C!TypeOK'
  BY DEF C!TypeOK, C!WindowOf, C!Selectable, C!Retained
<1>2. C!OfferedIsProven'
  BY DEF C!TypeOK, C!OfferedIsProven, C!Selectable
<1>3. C!WindowsAreKept'
  BY DEF C!TypeOK, C!WindowsAreKept, C!WindowOf
<1>4. C!FileIsTrue'
  BY DEF C!TypeOK, C!FileIsTrue, C!Retained, C!LastKnownGood
<1> QED
  BY <1>1, <1>2, <1>3, <1>4

(* seedProviders sets up the profile of the next life.                        *)
LEMMA CatalogueRestartKeeps ==
  ASSUME C!IInv, C!Restart
  PROVE  C!IInv'
<1> USE DEF C!IInv, C!Restart, C!Bare
<1>1. C!TypeOK'
  BY DEF C!TypeOK
<1>2. C!OfferedIsProven'
  BY DEF C!TypeOK, C!OfferedIsProven, C!Selectable
<1>3. C!WindowsAreKept'
  BY DEF C!TypeOK, C!WindowsAreKept
<1>4. C!FileIsTrue'
  BY DEF C!TypeOK, C!FileIsTrue
<1> QED
  BY <1>1, <1>2, <1>3, <1>4

(* Every step of a refresh keeps the invariant.                               *)
LEMMA CatalogueNextKeeps == C!IInv /\ [C!Next]_(C!vars) => C!IInv'
<1> SUFFICES ASSUME C!IInv, [C!Next]_(C!vars)
             PROVE  C!IInv'
  OBVIOUS
<1>1. CASE C!Next
  BY <1>1, CatalogueListKeeps, CatalogueCompleteKeeps, CatalogueCallToolKeeps, CataloguePublishKeeps, CatalogueRestartKeeps DEF C!Next
<1>2. CASE UNCHANGED C!vars
  BY <1>2 DEF C!vars, C!IInv, C!TypeOK, C!OfferedIsProven, C!Selectable, C!WindowsAreKept, C!FileIsTrue
<1> QED
  BY <1>1, <1>2


(* The invariant of the catalogue.                                            *)
LEMMA CatalogueInductive == C!Spec => []C!IInv
BY CatalogueInitHolds, CatalogueNextKeeps, PTL DEF C!Spec

HIDE DEF C!Declared, C!Unlisted, C!None, C!ReviewedWindow, C!Window, C!Waiting, C!Responding, C!Failing

-----------------------------------------------------------------------------
(* Whatever the agent, the user and the crashes of the shell do to the tabs   *)
(* of embedded-browser.ts: the active one is among them, the limit holds, and *)
(* the next life opens what the last one left.                                *)
THEOREM TabsHold == B!Spec => [](B!TabsAreSound /\ B!RestoredAsLeft)
<1>1. B!IInv => B!TabsAreSound /\ B!RestoredAsLeft
  BY DEF B!IInv
<1> QED
  BY <1>1, BrowserInductive, PTL

(* Whatever dsh processes and windows come and go: the window shows no page   *)
(* of another origin, nor an older dsh, and its selector the state there is.  *)
THEOREM PageHolds == P!Spec => [](P!PageIsCurrent /\ P!SelectorAgrees)
<1>1. P!IInv => P!PageIsCurrent /\ P!SelectorAgrees
  BY DEF P!IInv
<1> QED
  BY <1>1, PageInductive, PTL

(* However many clicks there are and whatever checks they join: the button is *)
(* there for an offered update alone, nobody waits for a check that does not  *)
(* run, and one local build runs at a time.                                   *)
THEOREM UpdaterHolds == A!Spec => [](A!ButtonTellsTruth /\ A!UpdatesAreSound)
<1>1. A!IInv => A!ButtonTellsTruth /\ A!UpdatesAreSound
  BY DEF A!IInv
<1> QED
  BY <1>1, UpdatesInductive, PTL

(* Whatever requests of dsh overlap: what the dialog bridge did for each is   *)
(* what was asked and allowed, and its answer says so.                        *)
THEOREM BridgeHolds == D!Spec => []D!BridgeIsExact
<1>1. D!IInv => D!BridgeIsExact
  BY DEF D!IInv
<1> QED
  BY <1>1, BridgeInductive, PTL

(* Whatever reports arrive and repeat: an outage is told of once, and nothing *)
(* of the backends once the shell quits.                                      *)
THEOREM NoticesHold == N!Spec => []N!NoticesAreDue
<1>1. N!IInv => N!NoticesAreDue
  BY DEF N!IInv
<1> QED
  BY <1>1, NoticesInductive, PTL

(* However OpenCode writes under the three queries of read(): what is handed  *)
(* over is the conversation, in order and whole, to one session, once.        *)
THEOREM HandoffHolds == I!Spec => []I!HandoffIsWhole
<1>1. I!IInv => I!HandoffIsWhole
  BY DEF I!IInv
<1> QED
  BY <1>1, HandoffInductive, PTL

(* However the probes of model-refresher.ts end and whenever the shell is     *)
(* restarted: a route is offered only on its own tool call, a declared window *)
(* outlives lists without it, and the file names those that last answered.    *)
THEOREM CatalogueHolds == C!Spec => []C!CatalogueIsProven
<1>1. C!IInv => C!CatalogueIsProven
  BY DEF C!IInv, C!OfferedIsProven, C!Selectable, C!WindowsAreKept, C!FileIsTrue, C!CatalogueIsProven, C!None
<1> QED
  BY <1>1, CatalogueInductive, PTL

-----------------------------------------------------------------------------
(* What the window shows is true, in every behaviour of the run.              *)
THEOREM WindowIsTrueHolds == MCSpec => []WindowIsTrue
<1>1. MCInit => B!Init /\ P!Init
  BY DEF MCInit
<1>2. [MCNext]_all => [B!Next]_(B!vars)
  BY DEF MCNext, all, browserVars, B!vars
<1>3. [MCNext]_all => [P!Next]_(P!vars)
  BY DEF MCNext, all, pageVars, P!vars, P!dsh, P!view, P!selector
<1>4. B!IInv /\ P!IInv => WindowIsTrue
  BY DEF B!IInv, P!IInv, WindowIsTrue
<1> QED
  BY <1>1, <1>2, <1>3, <1>4, BrowserInductive, PageInductive, PTL DEF MCSpec, B!Spec, P!Spec

(* So are its button and the tray, in every behaviour of the run.             *)
THEOREM UpdatesAreSoundHolds == MCSpec => []UpdatesAreSound
<1>1. MCInit => A!Init
  BY DEF MCInit
<1>2. [MCNext]_all => [A!Next]_(A!vars)
  BY DEF MCNext, all, updateVars, A!vars
<1>3. A!IInv => UpdatesAreSound
  BY DEF A!IInv, UpdatesAreSound
<1> QED
  BY <1>1, <1>2, <1>3, UpdatesInductive, PTL DEF MCSpec, A!Spec

(* What the dialogs, the notices, the import and the catalogue hand on is     *)
(* whole and proved, in every behaviour of the run.                           *)
THEOREM MessagesAreWholeHolds == MCSpec => []MessagesAreWhole
<1>1. MCInit => D!Init /\ N!Init /\ I!Init /\ C!Init
  BY DEF MCInit
<1>2. [MCNext]_all => [D!Next]_(D!vars)
  BY DEF MCNext, all, bridgeVars, D!vars
<1>3. [MCNext]_all => [N!Next]_(N!vars)
  BY DEF MCNext, all, noticeVars, N!vars
<1>4. [MCNext]_all => [I!Next]_(I!vars)
  BY DEF MCNext, all, handoffVars, I!vars
<1>5. [MCNext]_all => [C!Next]_(C!vars)
  BY DEF MCNext, all, catalogueVars, C!vars
<1>6. D!IInv /\ N!IInv /\ I!IInv => /\ D!TypeOK /\ D!BridgeIsExact /\ N!TypeOK /\ N!NoticesAreDue
                                    /\ I!TypeOK /\ I!HandoffIsWhole
  BY DEF D!IInv, N!IInv, I!IInv
<1>7. C!IInv => C!TypeOK /\ C!CatalogueIsProven
  BY DEF C!IInv, C!OfferedIsProven, C!Selectable, C!WindowsAreKept, C!FileIsTrue, C!CatalogueIsProven, C!None
<1>8. D!IInv /\ N!IInv /\ I!IInv /\ C!IInv => MessagesAreWhole
  BY <1>6, <1>7 DEF MessagesAreWhole
<1> QED
  BY <1>1, <1>2, <1>3, <1>4, <1>5, <1>8, BridgeInductive, NoticesInductive, HandoffInductive, CatalogueInductive, PTL
     DEF MCSpec, D!Spec, N!Spec, I!Spec, C!Spec

(* "Always perform a fresh preflight": in updater.ts a download starts with   *)
(* the end of a check that named a version, in every behaviour of the run.    *)
THEOREM DownloadIsCheckedHolds == MCSpec => DownloadIsChecked
<1> DEFINE Checked == \A c \in Clicks : aAsked[c] # "download" /\ aAsked'[c] = "download"
                                         => aCheck # "no" /\ aCheck' = "no"
<1>1. ASSUME A!TypeOK, A!Next
      PROVE  Checked
  <2> SUFFICES ASSUME NEW c \in Clicks, aAsked[c] # "download", aAsked'[c] = "download"
               PROVE  aCheck # "no" /\ aCheck' = "no"
    OBVIOUS
  <2>1. ASSUME NEW r \in A!Result, A!CheckEnds(r)
        PROVE  aCheck # "no" /\ aCheck' = "no"
    BY <2>1 DEF A!CheckEnds
  <2>2. ASSUME NEW d \in Clicks,
               \/ A!Click(d) \/ A!Dismiss(d) \/ A!AcceptHarness(d) \/ A!HarnessInstalled(d)
               \/ A!AcceptRelease(d) \/ A!DownloadFails(d) \/ A!Downloaded(d) \/ A!AcceptUpstream(d)
        PROVE  FALSE
    <3>1. aAsked'[c] \in {aAsked[c], "check", "no", "install", "notice", "recheck"}
      BY <1>1, <2>2 DEF A!TypeOK, A!Click, A!Dismiss, A!AcceptHarness, A!HarnessInstalled, A!AcceptRelease,
         A!DownloadFails, A!Downloaded, A!AcceptUpstream
    <3> QED
      BY <3>1
  <2>3. CASE UNCHANGED aAsked
    BY <2>3
  <2> QED
    BY <1>1, <2>1, <2>2, <2>3 DEF A!Next, A!Relayout, A!OpenWindow, A!WindowClosed, A!Answer, A!TimerChecks,
       A!NextRequest, A!BuildEnds
<1>2. A!TypeOK /\ [A!Next]_(A!vars) => [Checked]_(A!vars)
  <2> HIDE DEF Checked
  <2> QED
    BY <1>1
<1>3. MCInit => A!Init
  BY DEF MCInit
<1>4. [MCNext]_all => [A!Next]_(A!vars)
  BY DEF MCNext, all, updateVars, A!vars
<1>5. A!IInv => A!TypeOK
  BY DEF A!IInv
<1>6. MCSpec => [][Checked]_(A!vars)
  <2> HIDE DEF Checked
  <2> QED
    BY <1>2, <1>3, <1>4, <1>5, UpdatesInductive, PTL DEF MCSpec, A!Spec
<1> QED
  BY <1>6 DEF DownloadIsChecked, A!DownloadIsChecked
=============================================================================
