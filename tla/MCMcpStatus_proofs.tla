--------------------------- MODULE MCMcpStatus_proofs ---------------------------
(* Proofs about what MCMcpStatus composes with the MCP status, for every      *)
(* value of the constants: what dsh is started with.                          *)
EXTENDS MCMcpStatus, TLAPS

(* The bounds are numbers, and the counters may begin.                        *)
LEMMA Bounds ==
  /\ UvxLives \in Nat /\ ToolChanges \in Nat /\ VaultLives \in Nat /\ Cleanups \in Nat /\ Looks \in Nat
  /\ 0 \in 0..UvxLives /\ 0 \in 0..ToolChanges /\ 0 \in 0..VaultLives /\ 0 \in 0..Cleanups
  /\ 0 \in 0..Looks
BY LivesAssumption

-----------------------------------------------------------------------------
(* uvx, for any number of lives.                                              *)
LEMMA UvxTypes ==
  ASSUME U!IInv, [U!Next]_(U!vars)
  PROVE  U!TypeOK'
<1> USE Bounds DEF U!IInv, U!TypeOK
<1>1. CASE U!Start
  BY <1>1 DEF U!Start, U!files, U!Chosen, U!GoTo
<1>2. CASE U!LookVendored
  BY <1>2 DEF U!LookVendored, U!files, U!Chosen, U!GoTo
<1>3. CASE U!LookPath
  BY <1>3 DEF U!LookPath, U!files, U!Chosen, U!GoTo
<1>4. CASE U!LookManaged
  BY <1>4 DEF U!LookManaged, U!files, U!Chosen, U!GoTo, U!IsExecutable
<1>5. CASE U!Download
  BY <1>5 DEF U!Download, U!files, U!Chosen, U!GoTo
<1>6. CASE U!Extract
  BY <1>6 DEF U!Extract, U!files, U!Chosen, U!GoTo
<1>7. CASE U!Copy
  BY <1>7 DEF U!Copy, U!files, U!Chosen, U!GoTo
<1>8. CASE U!Rename
  BY <1>8 DEF U!Rename, U!files, U!Chosen, U!GoTo
<1>9. CASE U!Renamed
  BY <1>9 DEF U!Renamed, U!files, U!Chosen, U!GoTo, U!IsExecutable
<1>10. CASE U!Fails
  BY <1>10 DEF U!Fails, U!files, U!Chosen, U!GoTo
<1>11. CASE U!Sweep
  BY <1>11 DEF U!Sweep, U!files, U!Chosen, U!GoTo
<1>12. CASE U!Exit
  BY <1>12 DEF U!Exit, U!files, U!Chosen, U!GoTo
<1>13. CASE UNCHANGED U!vars
  BY <1>13 DEF U!vars, U!files
<1> QED
  BY <1>1, <1>2, <1>3, <1>4, <1>5, <1>6, <1>7, <1>8, <1>9, <1>10, <1>11, <1>12,
     <1>13 DEF U!Next

(* A result is given in this life, after the file it names was looked at.     *)
LEMMA UvxResult ==
  ASSUME U!IInv, [U!Next]_(U!vars)
  PROVE  U!ResultStands'
<1> USE DEF U!IInv, U!TypeOK, U!ResultStands, U!UvxIsWhole, U!IsExecutable
<1>1. CASE U!Start
  BY <1>1 DEF U!Start, U!files, U!Chosen, U!GoTo
<1>2. CASE U!LookVendored
  BY <1>2 DEF U!LookVendored, U!files, U!Chosen, U!GoTo
<1>3. CASE U!LookPath
  BY <1>3 DEF U!LookPath, U!files, U!Chosen, U!GoTo
<1>4. CASE U!LookManaged
  BY <1>4 DEF U!LookManaged, U!files, U!Chosen, U!GoTo
<1>5. CASE U!Download
  BY <1>5 DEF U!Download, U!files, U!Chosen, U!GoTo
<1>6. CASE U!Extract
  BY <1>6 DEF U!Extract, U!files, U!Chosen, U!GoTo
<1>7. CASE U!Copy
  BY <1>7 DEF U!Copy, U!files, U!Chosen, U!GoTo
<1>8. CASE U!Rename
  BY <1>8 DEF U!Rename, U!files, U!Chosen, U!GoTo
<1>9. CASE U!Renamed
  BY <1>9 DEF U!Renamed, U!files, U!Chosen, U!GoTo
<1>10. CASE U!Fails
  BY <1>10 DEF U!Fails, U!files, U!Chosen, U!GoTo
<1>11. CASE U!Sweep
  BY <1>11 DEF U!Sweep, U!files, U!Chosen, U!GoTo
<1>12. CASE U!Exit
  BY <1>12 DEF U!Exit, U!files, U!Chosen, U!GoTo
<1>13. CASE UNCHANGED U!vars
  BY <1>13 DEF U!vars, U!files
<1> QED
  BY <1>1, <1>2, <1>3, <1>4, <1>5, <1>6, <1>7, <1>8, <1>9, <1>10, <1>11, <1>12,
     <1>13 DEF U!Next

(* The managed file is only ever replaced by the rename of a whole program.   *)
LEMMA UvxWhole ==
  ASSUME U!IInv, [U!Next]_(U!vars)
  PROVE  U!UvxIsWhole'
<1> USE DEF U!IInv, U!TypeOK, U!ResultStands, U!UvxIsWhole, U!IsExecutable
<1>1. CASE U!Start
  BY <1>1 DEF U!Start, U!files, U!Chosen, U!GoTo
<1>2. CASE U!LookVendored
  BY <1>2 DEF U!LookVendored, U!files, U!Chosen, U!GoTo
<1>3. CASE U!LookPath
  BY <1>3 DEF U!LookPath, U!files, U!Chosen, U!GoTo
<1>4. CASE U!LookManaged
  BY <1>4 DEF U!LookManaged, U!files, U!Chosen, U!GoTo
<1>5. CASE U!Download
  BY <1>5 DEF U!Download, U!files, U!Chosen, U!GoTo
<1>6. CASE U!Extract
  BY <1>6 DEF U!Extract, U!files, U!Chosen, U!GoTo
<1>7. CASE U!Copy
  BY <1>7 DEF U!Copy, U!files, U!Chosen, U!GoTo
<1>8. CASE U!Rename
  BY <1>8 DEF U!Rename, U!files, U!Chosen, U!GoTo
<1>9. CASE U!Renamed
  BY <1>9 DEF U!Renamed, U!files, U!Chosen, U!GoTo
<1>10. CASE U!Fails
  BY <1>10 DEF U!Fails, U!files, U!Chosen, U!GoTo
<1>11. CASE U!Sweep
  BY <1>11 DEF U!Sweep, U!files, U!Chosen, U!GoTo
<1>12. CASE U!Exit
  BY <1>12 DEF U!Exit, U!files, U!Chosen, U!GoTo
<1>13. CASE UNCHANGED U!vars
  BY <1>13 DEF U!vars, U!files
<1> QED
  BY <1>1, <1>2, <1>3, <1>4, <1>5, <1>6, <1>7, <1>8, <1>9, <1>10, <1>11, <1>12,
     <1>13 DEF U!Next

(* The invariant of finding and installing uvx.                               *)
LEMMA UvxInductive == U!Spec => []U!IInv
<1>1. U!Init => U!IInv
  BY Bounds DEF U!Init, U!IInv, U!TypeOK, U!ResultStands, U!UvxIsWhole
<1>2. U!IInv /\ [U!Next]_(U!vars) => U!IInv'
  BY UvxTypes, UvxResult, UvxWhole DEF U!IInv
<1> QED
  BY <1>1, <1>2, PTL DEF U!Spec

-----------------------------------------------------------------------------
(* The secrets, for any names, values and number of lives.                    *)
LEMMA VaultRead == V!IInv => \A p \in V!Place : V!Found(p) \subseteq [Secrets -> V!Content]
BY DEF V!IInv, V!TypeOK, V!Found, V!Vault, V!Content

(* What a store holds after a write is a content.                             *)
LEMMA VaultWritten ==
  ASSUME NEW old \in [Secrets -> V!Content], NEW k \in Secrets, NEW v \in V!Content
  PROVE  V!Written(old, k, v) \in [Secrets -> V!Content]
BY DEF V!Written

(* A write or a delete changes one name of one store, and what it was told    *)
(* of it.                                                                     *)
LEMMA VaultWrite ==
  ASSUME V!IInv, NEW k \in Secrets, NEW v \in Values \cup {V!Absent}, V!Write(k, v)
  PROVE  V!IInv'
<1> USE DEF V!IInv
<1>1. PICK old \in V!Found(vUsed) :
        /\ vHeld' = [vHeld EXCEPT ![vUsed] = V!Written(old, k, v)]
        /\ vKept' = [vKept EXCEPT ![vUsed][k] = v]
        /\ vTorn' = IF old = vHeld[vUsed] THEN vTorn ELSE vTorn \cup {vUsed}
  BY DEF V!Write
<1>2. vUsed \in V!Place /\ v \in V!Content
  BY DEF V!Write, V!TypeOK, V!Content
<1>3. old \in [Secrets -> V!Content]
  BY <1>1, <1>2, VaultRead
<1>4. V!Written(old, k, v) \in [Secrets -> V!Content]
  BY <1>2, <1>3, VaultWritten
<1>5. /\ vHeld \in [V!Place -> [Secrets -> V!Content]]
      /\ vKept \in [V!Place -> [Secrets -> V!Content]] /\ vTorn \subseteq V!Place
  BY DEF V!TypeOK
<1>6. vHeld' \in [V!Place -> [Secrets -> V!Content]]
  BY <1>1, <1>2, <1>4, <1>5
<1>7. vKept' \in [V!Place -> [Secrets -> V!Content]]
  BY <1>1, <1>2, <1>5
<1>8. vTorn' \subseteq V!Place
  BY <1>1, <1>2, <1>5
<1>9. V!TypeOK'
  BY <1>6, <1>7, <1>8 DEF V!Write, V!TypeOK
<1>10. ASSUME NEW p \in V!Place, p \notin vTorn'
       PROVE  vHeld'[p] = vKept'[p]
  <2>1. vHeld[p] = vKept[p] /\ (p = vUsed => old = vHeld[vUsed])
    BY <1>1, <1>10 DEF V!VaultIsFaithful
  <2>2. CASE p = vUsed
    BY <1>1, <1>5, <2>1, <2>2 DEF V!Written
  <2>3. CASE p # vUsed
    BY <1>1, <1>5, <2>1, <2>3
  <2> QED
    BY <2>2, <2>3
<1>11. V!VaultIsFaithful'
  BY <1>10 DEF V!VaultIsFaithful
<1> QED
  BY <1>9, <1>11

(* A write that is cut off takes its store out of what is promised.           *)
LEMMA VaultCutOff ==
  ASSUME V!IInv, NEW k \in Secrets, NEW v \in Values, V!CutOff(k, v)
  PROVE  V!IInv'
<1> USE DEF V!IInv
<1> DEFINE new == V!Written(vHeld["file"], k, v)
<1>1. PICK whole \in SUBSET Secrets, cut \in SUBSET Secrets :
        vHeld' = [vHeld EXCEPT !["file"] =
                    [j \in Secrets |-> IF j \in whole THEN new[j]
                                      ELSE IF j \in cut /\ new[j] # V!Absent THEN V!Wrong ELSE V!Absent]]
  BY DEF V!CutOff
<1>2. /\ vHeld \in [V!Place -> [Secrets -> V!Content]] /\ "file" \in V!Place
      /\ vTorn \subseteq V!Place
  BY DEF V!TypeOK, V!Place
<1>3. new \in [Secrets -> V!Content]
  BY <1>2, VaultWritten DEF V!Content
<1> HIDE DEF new
<1>4. vHeld' \in [V!Place -> [Secrets -> V!Content]]
  <2>1. \A j \in Secrets : new[j] \in V!Content /\ V!Wrong \in V!Content /\ V!Absent \in V!Content
    BY <1>3 DEF V!Content
  <2> QED
    BY <1>1, <1>2, <2>1
<1>5. V!TypeOK'
  BY <1>2, <1>4 DEF V!CutOff, V!TypeOK
<1>6. V!VaultIsFaithful'
  BY <1>1, <1>2 DEF V!CutOff, V!VaultIsFaithful
<1> QED
  BY <1>5, <1>6

(* Opening, dying and reading change no store.                                *)
LEMMA VaultRest ==
  ASSUME V!IInv, V!Open \/ V!Die \/ V!NotWritten \/ (\E k \in Secrets : V!Read(k)) \/ UNCHANGED V!vars
  PROVE  V!IInv'
<1> USE DEF V!IInv
<1>1. UNCHANGED <<vHeld, vKept>> /\ vTorn \subseteq vTorn'
  BY DEF V!Open, V!Die, V!NotWritten, V!Read, V!vars
<1>2. V!VaultIsFaithful'
  BY <1>1 DEF V!VaultIsFaithful
<1>3. CASE V!Open
  <2>1. vLife' \in 0..VaultLives
    BY <1>3, Bounds DEF V!Open, V!TypeOK
  <2> QED
    BY <1>2, <1>3, <2>1 DEF V!Open, V!TypeOK, V!Place
<1>4. CASE V!Die \/ V!NotWritten \/ UNCHANGED V!vars
  BY <1>2, <1>4 DEF V!Die, V!NotWritten, V!TypeOK, V!Place, V!vars
<1>5. ASSUME NEW k \in Secrets, V!Read(k)
      PROVE  V!IInv'
  <2>1. vSeen' \in [key : Secrets, value : V!Content, failed : BOOLEAN]
    <3>1. CASE \E found \in V!Found(vUsed) : vSeen' = [key |-> k, value |-> found[k], failed |-> FALSE]
      <4>1. vUsed \in V!Place
        BY <1>5 DEF V!Read, V!TypeOK
      <4> QED
        BY <3>1, <4>1, VaultRead
    <3>2. CASE vSeen' = [key |-> k, value |-> V!Absent, failed |-> TRUE]
      BY <3>2 DEF V!Content
    <3> QED
      BY <1>5, <3>1, <3>2 DEF V!Read
  <2> QED
    BY <1>2, <1>5, <2>1 DEF V!Read, V!TypeOK
<1> QED
  BY <1>3, <1>4, <1>5

(* The invariant of the three stores of secrets.                              *)
LEMMA VaultInductive == V!Spec => []V!IInv
<1>1. V!Init => V!IInv
  <2> SUFFICES ASSUME V!Init
               PROVE  V!IInv
    OBVIOUS
  <2>1. vSeen \in [key : Secrets, value : V!Content, failed : BOOLEAN]
    BY DEF V!Init, V!Content
  <2>2. vHeld \in [V!Place -> [Secrets -> V!Content]] /\ vKept = vHeld
    BY DEF V!Init, V!Content
  <2> QED
    BY <2>1, <2>2, Bounds DEF V!Init, V!IInv, V!TypeOK, V!VaultIsFaithful
<1>2. V!IInv /\ [V!Next]_(V!vars) => V!IInv'
  BY VaultWrite, VaultCutOff, VaultRest DEF V!Next, V!Ensure
<1> QED
  BY <1>1, <1>2, PTL DEF V!Spec

-----------------------------------------------------------------------------
(* Text recognition, for any calls that overlap.                              *)
LEMMA OcrTypes ==
  ASSUME O!IInv, [O!Next]_(O!vars)
  PROVE  O!TypeOK'
<1> USE DEF O!IInv, O!TypeOK
<1>1. ASSUME NEW c \in OcrCalls, O!Extract(c)
      PROVE  O!TypeOK'
  BY <1>1 DEF O!Extract
<1>2. ASSUME NEW c \in OcrCalls, O!WriteFails(c)
      PROVE  O!TypeOK'
  BY <1>2 DEF O!WriteFails
<1>3. ASSUME NEW c \in OcrCalls, O!Launch(c)
      PROVE  O!TypeOK'
  BY <1>3 DEF O!Launch, O!Settle
<1>4. ASSUME NEW c \in OcrCalls, O!PrintOut(c)
      PROVE  O!TypeOK'
  BY <1>4 DEF O!PrintOut
<1>5. ASSUME NEW c \in OcrCalls, O!TooMuch(c)
      PROVE  O!TypeOK'
  BY <1>5 DEF O!TooMuch, O!Fail, O!Settle
<1>6. ASSUME NEW c \in OcrCalls, O!Timeout(c)
      PROVE  O!TypeOK'
  BY <1>6 DEF O!Timeout, O!Fail, O!Settle
<1>7. ASSUME NEW c \in OcrCalls, O!NoProgram(c)
      PROVE  O!TypeOK'
  BY <1>7 DEF O!NoProgram, O!Settle
<1>8. ASSUME NEW c \in OcrCalls, O!Exit(c)
      PROVE  O!TypeOK'
  BY <1>8 DEF O!Exit, O!Settle, O!Result
<1>9. ASSUME NEW c \in OcrCalls, O!Unlink(c)
      PROVE  O!TypeOK'
  BY <1>9 DEF O!Unlink
<1>10. CASE UNCHANGED O!vars
  BY <1>10 DEF O!vars
<1> QED
  BY <1>1, <1>2, <1>3, <1>4, <1>5, <1>6, <1>7, <1>8, <1>9, <1>10 DEF O!Next

(* Each end of a recognition leaves its call at a stage of its own.           *)
LEMMA OcrStages ==
  ASSUME O!IInv, [O!Next]_(O!vars)
  PROVE  O!StagesAgree'
<1> USE DEF O!IInv, O!TypeOK, O!StagesAgree, O!OcrLeavesNothing, O!StageAgrees
<1>1. ASSUME NEW c \in OcrCalls, O!Extract(c)
      PROVE  O!StagesAgree'
  <2> SUFFICES ASSUME NEW e \in OcrCalls
               PROVE  O!StageAgrees(e)'
    OBVIOUS
  <2>1. CASE e = c
    <3>1. oStage'[c] = "writing" \/ (oStage'[c] = "done" /\ UNCHANGED oTemp)
      BY <1>1 DEF O!Extract
    <3>2. UNCHANGED <<oWin, oProc, oSpoke, oLost>> /\ oAnswer'[c] \in {"none", "error"} /\ oStage[c] = "none"
          /\ (oStage'[c] = "writing" => UNCHANGED oAnswer) /\ (oStage'[c] = "done" => oAnswer'[c] = "error")
      BY <1>1 DEF O!Extract
    <3>3. oTemp[c] = "none" /\ oProc[c] = "none" /\ oSpoke[c] \in {"none", "text", "too-much"}
      BY <3>2
    <3>4. CASE oStage'[c] = "writing"
      BY <2>1, <3>2, <3>3, <3>4
    <3>5. CASE oStage'[c] = "done" /\ UNCHANGED oTemp
      BY <2>1, <3>2, <3>3, <3>5
    <3> QED
      BY <3>1, <3>4, <3>5
  <2>2. CASE e # c
    <3>1. UNCHANGED <<oWin, oStage[e], oTemp[e], oProc[e], oAnswer[e], oSpoke[e], oLost[e]>>
      BY <1>1, <2>2 DEF O!Extract
    <3> QED
      BY <3>1
  <2> QED
    BY <2>1, <2>2
<1>2. ASSUME NEW c \in OcrCalls, O!WriteFails(c)
      PROVE  O!StagesAgree'
  <2> SUFFICES ASSUME NEW e \in OcrCalls
               PROVE  O!StageAgrees(e)'
    OBVIOUS
  <2>1. CASE e = c
    BY <1>2, <2>1 DEF O!WriteFails
  <2>2. CASE e # c
    <3>1. UNCHANGED <<oWin, oStage[e], oTemp[e], oProc[e], oAnswer[e], oSpoke[e], oLost[e]>>
      BY <1>2, <2>2 DEF O!WriteFails
    <3> QED
      BY <3>1
  <2> QED
    BY <2>1, <2>2
<1>3. ASSUME NEW c \in OcrCalls, O!Launch(c)
      PROVE  O!StagesAgree'
  <2> SUFFICES ASSUME NEW e \in OcrCalls
               PROVE  O!StageAgrees(e)'
    OBVIOUS
  <2>1. CASE e = c
    BY <1>3, <2>1 DEF O!Launch, O!Settle
  <2>2. CASE e # c
    <3>1. UNCHANGED <<oWin, oStage[e], oTemp[e], oProc[e], oAnswer[e], oSpoke[e], oLost[e]>>
      BY <1>3, <2>2 DEF O!Launch, O!Settle
    <3> QED
      BY <3>1
  <2> QED
    BY <2>1, <2>2
<1>4. ASSUME NEW c \in OcrCalls, O!PrintOut(c)
      PROVE  O!StagesAgree'
  <2> SUFFICES ASSUME NEW e \in OcrCalls
               PROVE  O!StageAgrees(e)'
    OBVIOUS
  <2>1. CASE e = c
    BY <1>4, <2>1 DEF O!PrintOut
  <2>2. CASE e # c
    <3>1. UNCHANGED <<oWin, oStage[e], oTemp[e], oProc[e], oAnswer[e], oSpoke[e], oLost[e]>>
      BY <1>4, <2>2 DEF O!PrintOut
    <3> QED
      BY <3>1
  <2> QED
    BY <2>1, <2>2
<1>5. ASSUME NEW c \in OcrCalls, O!TooMuch(c)
      PROVE  O!StagesAgree'
  <2> SUFFICES ASSUME NEW e \in OcrCalls
               PROVE  O!StageAgrees(e)'
    OBVIOUS
  <2>1. CASE e = c
    BY <1>5, <2>1 DEF O!TooMuch, O!Fail, O!Settle
  <2>2. CASE e # c
    <3>1. UNCHANGED <<oWin, oStage[e], oTemp[e], oProc[e], oAnswer[e], oSpoke[e], oLost[e]>>
      BY <1>5, <2>2 DEF O!TooMuch, O!Fail, O!Settle
    <3> QED
      BY <3>1
  <2> QED
    BY <2>1, <2>2
<1>6. ASSUME NEW c \in OcrCalls, O!Timeout(c)
      PROVE  O!StagesAgree'
  <2> SUFFICES ASSUME NEW e \in OcrCalls
               PROVE  O!StageAgrees(e)'
    OBVIOUS
  <2>1. CASE e = c
    BY <1>6, <2>1 DEF O!Timeout, O!Fail, O!Settle
  <2>2. CASE e # c
    <3>1. UNCHANGED <<oWin, oStage[e], oTemp[e], oProc[e], oAnswer[e], oSpoke[e], oLost[e]>>
      BY <1>6, <2>2 DEF O!Timeout, O!Fail, O!Settle
    <3> QED
      BY <3>1
  <2> QED
    BY <2>1, <2>2
<1>7. ASSUME NEW c \in OcrCalls, O!NoProgram(c)
      PROVE  O!StagesAgree'
  <2> SUFFICES ASSUME NEW e \in OcrCalls
               PROVE  O!StageAgrees(e)'
    OBVIOUS
  <2>1. CASE e = c
    BY <1>7, <2>1 DEF O!NoProgram, O!Settle
  <2>2. CASE e # c
    <3>1. UNCHANGED <<oWin, oStage[e], oTemp[e], oProc[e], oAnswer[e], oSpoke[e], oLost[e]>>
      BY <1>7, <2>2 DEF O!NoProgram, O!Settle
    <3> QED
      BY <3>1
  <2> QED
    BY <2>1, <2>2
<1>8. ASSUME NEW c \in OcrCalls, O!Exit(c)
      PROVE  O!StagesAgree'
  <2> SUFFICES ASSUME NEW e \in OcrCalls
               PROVE  O!StageAgrees(e)'
    OBVIOUS
  <2>1. CASE e = c
    <3> USE DEF O!Exit, O!Settle, O!Result
    <3>1. CASE oStage[c] # "running"
      <4>1. oStage' = oStage /\ oAnswer' = oAnswer /\ oTemp' = oTemp /\ oSpoke' = oSpoke
            /\ oLost' = oLost /\ oWin' = oWin /\ oProc' = [oProc EXCEPT ![c] = "gone"]
            /\ oProc[c] \in {"running", "killed"}
        BY <1>8, <3>1
      <4> QED
        BY <2>1, <3>1, <4>1
    <3>2. CASE oStage[c] = "running"
      <4>1. PICK code \in {0, 1} : O!Settle(c, O!Result(c, code))
        BY <1>8, <3>2
      <4>2. oStage'[c] = "unlinking" /\ oProc'[c] = "gone" /\ UNCHANGED <<oTemp, oSpoke, oLost, oWin>>
            /\ oAnswer'[c] = O!Result(c, code)
        BY <1>8, <4>1
      <4> QED
        BY <2>1, <3>2, <4>2
    <3> QED
      BY <3>1, <3>2
  <2>2. CASE e # c
    <3>1. UNCHANGED <<oWin, oStage[e], oTemp[e], oProc[e], oAnswer[e], oSpoke[e], oLost[e]>>
      BY <1>8, <2>2 DEF O!Exit, O!Settle, O!Result
    <3> QED
      BY <3>1
  <2> QED
    BY <2>1, <2>2
<1>9. ASSUME NEW c \in OcrCalls, O!Unlink(c)
      PROVE  O!StagesAgree'
  <2> SUFFICES ASSUME NEW e \in OcrCalls
               PROVE  O!StageAgrees(e)'
    OBVIOUS
  <2>1. CASE e = c
    BY <1>9, <2>1 DEF O!Unlink
  <2>2. CASE e # c
    <3>1. UNCHANGED <<oWin, oStage[e], oTemp[e], oProc[e], oAnswer[e], oSpoke[e], oLost[e]>>
      BY <1>9, <2>2 DEF O!Unlink
    <3> QED
      BY <3>1
  <2> QED
    BY <2>1, <2>2
<1>10. CASE UNCHANGED O!vars
  BY <1>10 DEF O!vars
<1> QED
  BY <1>1, <1>2, <1>3, <1>4, <1>5, <1>6, <1>7, <1>8, <1>9, <1>10 DEF O!Next

(* Whichever end comes first, the others find the call settled.               *)
LEMMA OcrNothing ==
  ASSUME O!IInv, [O!Next]_(O!vars)
  PROVE  O!OcrLeavesNothing'
<1> USE DEF O!IInv, O!TypeOK, O!StagesAgree, O!OcrLeavesNothing, O!StageAgrees,
        O!LeavesNothing
<1>1. ASSUME NEW c \in OcrCalls, O!Extract(c)
      PROVE  O!OcrLeavesNothing'
  <2> SUFFICES ASSUME NEW e \in OcrCalls
               PROVE  O!LeavesNothing(e)'
    OBVIOUS
  <2>1. CASE e = c
    <3>1. oStage'[c] = "writing" \/ (oStage'[c] = "done" /\ UNCHANGED oTemp)
      BY <1>1 DEF O!Extract
    <3>2. UNCHANGED <<oWin, oProc, oSpoke, oLost>> /\ oAnswer'[c] \in {"none", "error"} /\ oStage[c] = "none"
          /\ (oStage'[c] = "writing" => UNCHANGED oAnswer) /\ (oStage'[c] = "done" => oAnswer'[c] = "error")
      BY <1>1 DEF O!Extract
    <3>3. oTemp[c] = "none" /\ oProc[c] = "none" /\ oSpoke[c] \in {"none", "text", "too-much"}
      BY <3>2
    <3>4. CASE oStage'[c] = "writing"
      BY <2>1, <3>2, <3>3, <3>4
    <3>5. CASE oStage'[c] = "done" /\ UNCHANGED oTemp
      BY <2>1, <3>2, <3>3, <3>5
    <3> QED
      BY <3>1, <3>4, <3>5
  <2>2. CASE e # c
    <3>1. UNCHANGED <<oWin, oStage[e], oTemp[e], oProc[e], oAnswer[e], oSpoke[e], oLost[e]>>
      BY <1>1, <2>2 DEF O!Extract
    <3> QED
      BY <3>1
  <2> QED
    BY <2>1, <2>2
<1>2. ASSUME NEW c \in OcrCalls, O!WriteFails(c)
      PROVE  O!OcrLeavesNothing'
  <2> SUFFICES ASSUME NEW e \in OcrCalls
               PROVE  O!LeavesNothing(e)'
    OBVIOUS
  <2>1. CASE e = c
    BY <1>2, <2>1 DEF O!WriteFails
  <2>2. CASE e # c
    <3>1. UNCHANGED <<oWin, oStage[e], oTemp[e], oProc[e], oAnswer[e], oSpoke[e], oLost[e]>>
      BY <1>2, <2>2 DEF O!WriteFails
    <3> QED
      BY <3>1
  <2> QED
    BY <2>1, <2>2
<1>3. ASSUME NEW c \in OcrCalls, O!Launch(c)
      PROVE  O!OcrLeavesNothing'
  <2> SUFFICES ASSUME NEW e \in OcrCalls
               PROVE  O!LeavesNothing(e)'
    OBVIOUS
  <2>1. CASE e = c
    BY <1>3, <2>1 DEF O!Launch, O!Settle
  <2>2. CASE e # c
    <3>1. UNCHANGED <<oWin, oStage[e], oTemp[e], oProc[e], oAnswer[e], oSpoke[e], oLost[e]>>
      BY <1>3, <2>2 DEF O!Launch, O!Settle
    <3> QED
      BY <3>1
  <2> QED
    BY <2>1, <2>2
<1>4. ASSUME NEW c \in OcrCalls, O!PrintOut(c)
      PROVE  O!OcrLeavesNothing'
  <2> SUFFICES ASSUME NEW e \in OcrCalls
               PROVE  O!LeavesNothing(e)'
    OBVIOUS
  <2>1. CASE e = c
    BY <1>4, <2>1 DEF O!PrintOut
  <2>2. CASE e # c
    <3>1. UNCHANGED <<oWin, oStage[e], oTemp[e], oProc[e], oAnswer[e], oSpoke[e], oLost[e]>>
      BY <1>4, <2>2 DEF O!PrintOut
    <3> QED
      BY <3>1
  <2> QED
    BY <2>1, <2>2
<1>5. ASSUME NEW c \in OcrCalls, O!TooMuch(c)
      PROVE  O!OcrLeavesNothing'
  <2> SUFFICES ASSUME NEW e \in OcrCalls
               PROVE  O!LeavesNothing(e)'
    OBVIOUS
  <2>1. CASE e = c
    BY <1>5, <2>1 DEF O!TooMuch, O!Fail, O!Settle
  <2>2. CASE e # c
    <3>1. UNCHANGED <<oWin, oStage[e], oTemp[e], oProc[e], oAnswer[e], oSpoke[e], oLost[e]>>
      BY <1>5, <2>2 DEF O!TooMuch, O!Fail, O!Settle
    <3> QED
      BY <3>1
  <2> QED
    BY <2>1, <2>2
<1>6. ASSUME NEW c \in OcrCalls, O!Timeout(c)
      PROVE  O!OcrLeavesNothing'
  <2> SUFFICES ASSUME NEW e \in OcrCalls
               PROVE  O!LeavesNothing(e)'
    OBVIOUS
  <2>1. CASE e = c
    BY <1>6, <2>1 DEF O!Timeout, O!Fail, O!Settle
  <2>2. CASE e # c
    <3>1. UNCHANGED <<oWin, oStage[e], oTemp[e], oProc[e], oAnswer[e], oSpoke[e], oLost[e]>>
      BY <1>6, <2>2 DEF O!Timeout, O!Fail, O!Settle
    <3> QED
      BY <3>1
  <2> QED
    BY <2>1, <2>2
<1>7. ASSUME NEW c \in OcrCalls, O!NoProgram(c)
      PROVE  O!OcrLeavesNothing'
  <2> SUFFICES ASSUME NEW e \in OcrCalls
               PROVE  O!LeavesNothing(e)'
    OBVIOUS
  <2>1. CASE e = c
    BY <1>7, <2>1 DEF O!NoProgram, O!Settle
  <2>2. CASE e # c
    <3>1. UNCHANGED <<oWin, oStage[e], oTemp[e], oProc[e], oAnswer[e], oSpoke[e], oLost[e]>>
      BY <1>7, <2>2 DEF O!NoProgram, O!Settle
    <3> QED
      BY <3>1
  <2> QED
    BY <2>1, <2>2
<1>8. ASSUME NEW c \in OcrCalls, O!Exit(c)
      PROVE  O!OcrLeavesNothing'
  <2> SUFFICES ASSUME NEW e \in OcrCalls
               PROVE  O!LeavesNothing(e)'
    OBVIOUS
  <2>1. CASE e = c
    <3> USE DEF O!Exit, O!Settle, O!Result
    <3>1. CASE oStage[c] # "running"
      <4>1. oStage' = oStage /\ oAnswer' = oAnswer /\ oTemp' = oTemp /\ oSpoke' = oSpoke
            /\ oLost' = oLost /\ oWin' = oWin /\ oProc' = [oProc EXCEPT ![c] = "gone"]
            /\ oProc[c] \in {"running", "killed"}
        BY <1>8, <3>1
      <4> QED
        BY <2>1, <3>1, <4>1
    <3>2. CASE oStage[c] = "running"
      <4>1. PICK code \in {0, 1} : O!Settle(c, O!Result(c, code))
        BY <1>8, <3>2
      <4>2. oStage'[c] = "unlinking" /\ oProc'[c] = "gone" /\ UNCHANGED <<oTemp, oSpoke, oLost, oWin>>
            /\ oAnswer'[c] = O!Result(c, code)
        BY <1>8, <4>1
      <4> QED
        BY <2>1, <3>2, <4>2
    <3> QED
      BY <3>1, <3>2
  <2>2. CASE e # c
    <3>1. UNCHANGED <<oWin, oStage[e], oTemp[e], oProc[e], oAnswer[e], oSpoke[e], oLost[e]>>
      BY <1>8, <2>2 DEF O!Exit, O!Settle, O!Result
    <3> QED
      BY <3>1
  <2> QED
    BY <2>1, <2>2
<1>9. ASSUME NEW c \in OcrCalls, O!Unlink(c)
      PROVE  O!OcrLeavesNothing'
  <2> SUFFICES ASSUME NEW e \in OcrCalls
               PROVE  O!LeavesNothing(e)'
    OBVIOUS
  <2>1. CASE e = c
    BY <1>9, <2>1 DEF O!Unlink
  <2>2. CASE e # c
    <3>1. UNCHANGED <<oWin, oStage[e], oTemp[e], oProc[e], oAnswer[e], oSpoke[e], oLost[e]>>
      BY <1>9, <2>2 DEF O!Unlink
    <3> QED
      BY <3>1
  <2> QED
    BY <2>1, <2>2
<1>10. CASE UNCHANGED O!vars
  BY <1>10 DEF O!vars
<1> QED
  BY <1>1, <1>2, <1>3, <1>4, <1>5, <1>6, <1>7, <1>8, <1>9, <1>10 DEF O!Next

(* The invariant of recognitions side by side.                                *)
LEMMA OcrInductive == O!Spec => []O!IInv
<1>1. O!Init => O!IInv
  BY DEF O!Init, O!IInv, O!TypeOK, O!StagesAgree,
     O!StageAgrees, O!OcrLeavesNothing, O!LeavesNothing
<1>2. O!IInv /\ [O!Next]_(O!vars) => O!IInv'
  BY OcrTypes, OcrStages, OcrNothing DEF O!IInv
<1> QED
  BY <1>1, <1>2, PTL DEF O!Spec

-----------------------------------------------------------------------------
(* The retired runtime, for any number of starts.                             *)
LEMMA CleanupTypes ==
  ASSUME Q!IInv, [Q!Next]_(Q!vars)
  PROVE  Q!TypeOK'
<1> USE Bounds DEF Q!IInv, Q!TypeOK
<1>1. CASE Q!Start
  BY <1>1 DEF Q!Start, Q!GoTo, Q!settings, Q!runtime, Q!Steps
<1>2. CASE Q!Exit
  BY <1>2 DEF Q!Exit, Q!GoTo, Q!settings, Q!runtime, Q!Steps
<1>3. CASE Q!Fails
  BY <1>3 DEF Q!Fails, Q!GoTo, Q!settings, Q!runtime, Q!Steps
<1>4. CASE Q!Settings
  BY <1>4 DEF Q!Settings, Q!GoTo, Q!settings, Q!runtime, Q!Steps
<1>5. CASE Q!DropLease
  <2>1. qPc' \in {"off", "done", "failed"} \cup Q!Steps
    BY <1>5 DEF Q!DropLease, Q!GoTo, Q!Steps
  <2>2. UNCHANGED <<qWas, qLives, qRoute, qDefault, qLinked>>
    BY <1>5 DEF Q!DropLease, Q!GoTo, Q!settings, Q!runtime
  <2>3. /\ qListed' \in BOOLEAN /\ qLease' \in {"none", "owned", "other"} /\ qMarker' \in BOOLEAN
        /\ qCache' \in {"none", "verified", "unverified", "part"} /\ qData' \in {"none", "whole", "part"}
    BY <1>5 DEF Q!DropLease, Q!settings, Q!runtime
  <2> QED
    BY <2>1, <2>2, <2>3
<1>6. CASE Q!DropCatalog
  <2>1. qPc' \in {"off", "done", "failed"} \cup Q!Steps
    BY <1>6 DEF Q!DropCatalog, Q!GoTo, Q!Steps
  <2>2. UNCHANGED <<qWas, qLives, qRoute, qDefault, qLinked>>
    BY <1>6 DEF Q!DropCatalog, Q!GoTo, Q!settings, Q!runtime
  <2>3. /\ qListed' \in BOOLEAN /\ qLease' \in {"none", "owned", "other"} /\ qMarker' \in BOOLEAN
        /\ qCache' \in {"none", "verified", "unverified", "part"} /\ qData' \in {"none", "whole", "part"}
    BY <1>6 DEF Q!DropCatalog, Q!settings, Q!runtime
  <2> QED
    BY <2>1, <2>2, <2>3
<1>7. CASE Q!CheckLinks
  <2>1. qPc' \in {"off", "done", "failed"} \cup Q!Steps
    BY <1>7 DEF Q!CheckLinks, Q!GoTo, Q!Steps
  <2>2. UNCHANGED <<qWas, qLives, qRoute, qDefault, qLinked>>
    BY <1>7 DEF Q!CheckLinks, Q!GoTo, Q!settings, Q!runtime
  <2>3. /\ qListed' \in BOOLEAN /\ qLease' \in {"none", "owned", "other"} /\ qMarker' \in BOOLEAN
        /\ qCache' \in {"none", "verified", "unverified", "part"} /\ qData' \in {"none", "whole", "part"}
    BY <1>7 DEF Q!CheckLinks, Q!settings, Q!runtime
  <2> QED
    BY <2>1, <2>2, <2>3
<1>8. CASE Q!Mark
  <2>1. qPc' \in {"off", "done", "failed"} \cup Q!Steps
    BY <1>8 DEF Q!Mark, Q!GoTo, Q!Steps
  <2>2. UNCHANGED <<qWas, qLives, qRoute, qDefault, qLinked>>
    BY <1>8 DEF Q!Mark, Q!GoTo, Q!settings, Q!runtime
  <2>3. /\ qListed' \in BOOLEAN /\ qLease' \in {"none", "owned", "other"} /\ qMarker' \in BOOLEAN
        /\ qCache' \in {"none", "verified", "unverified", "part"} /\ qData' \in {"none", "whole", "part"}
    BY <1>8 DEF Q!Mark, Q!settings, Q!runtime
  <2> QED
    BY <2>1, <2>2, <2>3
<1>9. CASE Q!RemoveCache
  <2>1. qPc' \in {"off", "done", "failed"} \cup Q!Steps
    BY <1>9 DEF Q!RemoveCache, Q!GoTo, Q!Steps
  <2>2. UNCHANGED <<qWas, qLives, qRoute, qDefault, qLinked>>
    BY <1>9 DEF Q!RemoveCache, Q!GoTo, Q!settings, Q!runtime
  <2>3. /\ qListed' \in BOOLEAN /\ qLease' \in {"none", "owned", "other"} /\ qMarker' \in BOOLEAN
        /\ qCache' \in {"none", "verified", "unverified", "part"} /\ qData' \in {"none", "whole", "part"}
    BY <1>9 DEF Q!RemoveCache, Q!settings, Q!runtime
  <2> QED
    BY <2>1, <2>2, <2>3
<1>10. CASE Q!RemoveData
  <2>1. qPc' \in {"off", "done", "failed"} \cup Q!Steps
    BY <1>10 DEF Q!RemoveData, Q!GoTo, Q!Steps
  <2>2. UNCHANGED <<qWas, qLives, qRoute, qDefault, qLinked>>
    BY <1>10 DEF Q!RemoveData, Q!GoTo, Q!settings, Q!runtime
  <2>3. /\ qListed' \in BOOLEAN /\ qLease' \in {"none", "owned", "other"} /\ qMarker' \in BOOLEAN
        /\ qCache' \in {"none", "verified", "unverified", "part"} /\ qData' \in {"none", "whole", "part"}
    BY <1>10 DEF Q!RemoveData, Q!settings, Q!runtime
  <2> QED
    BY <2>1, <2>2, <2>3
<1>11. CASE Q!Unmark
  <2>1. qPc' \in {"off", "done", "failed"} \cup Q!Steps
    BY <1>11 DEF Q!Unmark, Q!GoTo, Q!Steps
  <2>2. UNCHANGED <<qWas, qLives, qRoute, qDefault, qLinked>>
    BY <1>11 DEF Q!Unmark, Q!GoTo, Q!settings, Q!runtime
  <2>3. /\ qListed' \in BOOLEAN /\ qLease' \in {"none", "owned", "other"} /\ qMarker' \in BOOLEAN
        /\ qCache' \in {"none", "verified", "unverified", "part"} /\ qData' \in {"none", "whole", "part"}
    BY <1>11 DEF Q!Unmark, Q!settings, Q!runtime
  <2> QED
    BY <2>1, <2>2, <2>3
<1>12. CASE UNCHANGED Q!vars
  BY <1>12 DEF Q!vars, Q!settings, Q!runtime
<1> QED
  BY <1>1, <1>2, <1>3, <1>4, <1>5, <1>6, <1>7, <1>8, <1>9, <1>10, <1>11, <1>12 DEF
     Q!Next

(* A step of the cleanup undoes nothing of the steps before it.               *)
LEMMA CleanupSteps ==
  ASSUME Q!IInv, [Q!Next]_(Q!vars)
  PROVE  Q!StepsStand'
<1> USE DEF Q!IInv, Q!TypeOK, Q!StepsStand
<1>1. CASE Q!Start
  BY <1>1 DEF Q!Start, Q!GoTo, Q!settings, Q!runtime, Q!Steps
<1>2. CASE Q!Exit
  BY <1>2 DEF Q!Exit, Q!GoTo, Q!settings, Q!runtime, Q!Steps
<1>3. CASE Q!Fails
  BY <1>3 DEF Q!Fails, Q!GoTo, Q!settings, Q!runtime, Q!Steps
<1>4. CASE Q!Settings
  BY <1>4 DEF Q!Settings, Q!GoTo, Q!settings, Q!runtime, Q!Steps
<1>5. CASE Q!DropLease
  BY <1>5 DEF Q!DropLease, Q!GoTo, Q!settings, Q!runtime, Q!Steps
<1>6. CASE Q!DropCatalog
  BY <1>6 DEF Q!DropCatalog, Q!GoTo, Q!settings, Q!runtime, Q!Steps
<1>7. CASE Q!CheckLinks
  BY <1>7 DEF Q!CheckLinks, Q!GoTo, Q!settings, Q!runtime, Q!Steps
<1>8. CASE Q!Mark
  BY <1>8 DEF Q!Mark, Q!GoTo, Q!settings, Q!runtime, Q!Steps
<1>9. CASE Q!RemoveCache
  BY <1>9 DEF Q!RemoveCache, Q!GoTo, Q!settings, Q!runtime, Q!Steps
<1>10. CASE Q!RemoveData
  BY <1>10 DEF Q!RemoveData, Q!GoTo, Q!settings, Q!runtime, Q!Steps
<1>11. CASE Q!Unmark
  BY <1>11 DEF Q!Unmark, Q!GoTo, Q!settings, Q!runtime, Q!Steps
<1>12. CASE UNCHANGED Q!vars
  BY <1>12 DEF Q!vars, Q!settings, Q!runtime
<1> QED
  BY <1>1, <1>2, <1>3, <1>4, <1>5, <1>6, <1>7, <1>8, <1>9, <1>10, <1>11, <1>12 DEF
     Q!Next

(* The marker is written before the first file is removed, and removed after  *)
(* the last.                                                                  *)
LEMMA CleanupMarker ==
  ASSUME Q!IInv, [Q!Next]_(Q!vars)
  PROVE  Q!MarkerCovers'
<1> USE DEF Q!IInv, Q!TypeOK, Q!MarkerCovers, Q!RetirementIsWhole
<1>1. CASE Q!Start
  BY <1>1 DEF Q!Start, Q!GoTo, Q!settings, Q!runtime, Q!Steps
<1>2. CASE Q!Exit
  BY <1>2 DEF Q!Exit, Q!GoTo, Q!settings, Q!runtime, Q!Steps
<1>3. CASE Q!Fails
  BY <1>3 DEF Q!Fails, Q!GoTo, Q!settings, Q!runtime, Q!Steps
<1>4. CASE Q!Settings
  BY <1>4 DEF Q!Settings, Q!GoTo, Q!settings, Q!runtime, Q!Steps
<1>5. CASE Q!DropLease
  BY <1>5 DEF Q!DropLease, Q!GoTo, Q!settings, Q!runtime, Q!Steps
<1>6. CASE Q!DropCatalog
  BY <1>6 DEF Q!DropCatalog, Q!GoTo, Q!settings, Q!runtime, Q!Steps
<1>7. CASE Q!CheckLinks
  BY <1>7 DEF Q!CheckLinks, Q!GoTo, Q!settings, Q!runtime, Q!Steps
<1>8. CASE Q!Mark
  BY <1>8 DEF Q!Mark, Q!GoTo, Q!settings, Q!runtime, Q!Steps
<1>9. CASE Q!RemoveCache
  BY <1>9 DEF Q!RemoveCache, Q!GoTo, Q!settings, Q!runtime, Q!Steps
<1>10. CASE Q!RemoveData
  BY <1>10 DEF Q!RemoveData, Q!GoTo, Q!settings, Q!runtime, Q!Steps
<1>11. CASE Q!Unmark
  BY <1>11 DEF Q!Unmark, Q!GoTo, Q!settings, Q!runtime, Q!Steps
<1>12. CASE UNCHANGED Q!vars
  BY <1>12 DEF Q!vars, Q!settings, Q!runtime
<1> QED
  BY <1>1, <1>2, <1>3, <1>4, <1>5, <1>6, <1>7, <1>8, <1>9, <1>10, <1>11, <1>12 DEF
     Q!Next

(* What each step removes was the retired runtime's.                          *)
LEMMA CleanupWhole ==
  ASSUME Q!IInv, [Q!Next]_(Q!vars)
  PROVE  Q!RetirementIsWhole'
<1> USE DEF Q!IInv, Q!TypeOK, Q!StepsStand, Q!MarkerCovers, Q!RetirementIsWhole
<1>1. CASE Q!Start
  BY <1>1 DEF Q!Start, Q!GoTo, Q!settings, Q!runtime, Q!Steps
<1>2. CASE Q!Exit
  BY <1>2 DEF Q!Exit, Q!GoTo, Q!settings, Q!runtime, Q!Steps
<1>3. CASE Q!Fails
  BY <1>3 DEF Q!Fails, Q!GoTo, Q!settings, Q!runtime, Q!Steps
<1>4. CASE Q!Settings
  BY <1>4 DEF Q!Settings, Q!GoTo, Q!settings, Q!runtime, Q!Steps
<1>5. CASE Q!DropLease
  BY <1>5 DEF Q!DropLease, Q!GoTo, Q!settings, Q!runtime, Q!Steps
<1>6. CASE Q!DropCatalog
  BY <1>6 DEF Q!DropCatalog, Q!GoTo, Q!settings, Q!runtime, Q!Steps
<1>7. CASE Q!CheckLinks
  BY <1>7 DEF Q!CheckLinks, Q!GoTo, Q!settings, Q!runtime, Q!Steps
<1>8. CASE Q!Mark
  BY <1>8 DEF Q!Mark, Q!GoTo, Q!settings, Q!runtime, Q!Steps
<1>9. CASE Q!RemoveCache
  BY <1>9 DEF Q!RemoveCache, Q!GoTo, Q!settings, Q!runtime, Q!Steps
<1>10. CASE Q!RemoveData
  BY <1>10 DEF Q!RemoveData, Q!GoTo, Q!settings, Q!runtime, Q!Steps
<1>11. CASE Q!Unmark
  BY <1>11 DEF Q!Unmark, Q!GoTo, Q!settings, Q!runtime, Q!Steps
<1>12. CASE UNCHANGED Q!vars
  BY <1>12 DEF Q!vars, Q!settings, Q!runtime
<1> QED
  BY <1>1, <1>2, <1>3, <1>4, <1>5, <1>6, <1>7, <1>8, <1>9, <1>10, <1>11, <1>12 DEF
     Q!Next

(* The invariant of the cleanup, over starts that die or fail.                *)
LEMMA CleanupInductive == Q!Spec => []Q!IInv
<1>1. Q!Init => Q!IInv
  <2> SUFFICES ASSUME Q!Init
               PROVE  Q!IInv
    OBVIOUS
  <2>1. Q!TypeOK
    BY Bounds DEF Q!Init, Q!TypeOK
  <2>2. Q!StepsStand /\ Q!MarkerCovers /\ Q!RetirementIsWhole
    BY DEF Q!Init, Q!StepsStand, Q!MarkerCovers, Q!RetirementIsWhole, Q!Steps
  <2> QED
    BY <2>1, <2>2 DEF Q!IInv
<1>2. Q!IInv /\ [Q!Next]_(Q!vars) => Q!IInv'
  BY CleanupTypes, CleanupSteps, CleanupMarker, CleanupWhole DEF Q!IInv
<1> QED
  BY <1>1, <1>2, PTL DEF Q!Spec

-----------------------------------------------------------------------------
(* The search for git and the other tools, on any machine that changes.       *)
LEMMA Ranks ==
  /\ T!Rank["bundled"] = 1 /\ T!Rank["root"] = 2 /\ T!Rank["path1"] = 3 /\ T!Rank["path2"] = 4
  /\ T!Rank["program-files"] = 5
<1>1. \A p \in T!Place : T!Rank[p] = IF p = "bundled" THEN 1 ELSE IF p = "root" THEN 2
                         ELSE IF p = "path1" THEN 3 ELSE IF p = "path2" THEN 4 ELSE 5
  BY DEF T!Rank
<1> QED
  BY <1>1 DEF T!Place

(* The first of some places is one of them, and the payload's if that is      *)
(* there.                                                                     *)
LEMMA FirstFound ==
  ASSUME NEW places \in SUBSET T!Place, places # {}
  PROVE  /\ T!First(places) \in places
         /\ "bundled" \in places => T!First(places) = "bundled"
<1>1. \E p \in places : \A o \in places : T!Rank[p] <= T!Rank[o]
  <2>1. CASE "bundled" \in places
    BY <2>1, Ranks DEF T!Place
  <2>2. CASE "bundled" \notin places /\ "root" \in places
    BY <2>2, Ranks DEF T!Place
  <2>3. CASE {"bundled", "root"} \cap places = {} /\ "path1" \in places
    BY <2>3, Ranks DEF T!Place
  <2>4. CASE {"bundled", "root", "path1"} \cap places = {} /\ "path2" \in places
    BY <2>4, Ranks DEF T!Place
  <2>5. CASE {"bundled", "root", "path1", "path2"} \cap places = {}
    <3>1. places = {"program-files"}
      BY <2>5 DEF T!Place
    <3> QED
      BY <3>1, Ranks
  <2> QED
    BY <2>1, <2>2, <2>3, <2>4, <2>5
<1>2. T!First(places) \in places /\ \A o \in places : T!Rank[T!First(places)] <= T!Rank[o]
  BY <1>1 DEF T!First
<1>3. \A p \in T!Place : T!Rank[p] <= T!Rank["bundled"] => p = "bundled"
  BY Ranks DEF T!Place
<1> QED
  BY <1>2, <1>3

(* What resolve finds is there; a git answers, and the payload's comes first. *)
LEMMA FoundStands ==
  ASSUME T!TypeOK, tAsks \in T!Query
  PROVE  /\ T!Resolved(tAsks, tAt, tWin) \subseteq {p \in T!Place : tAt[p] # "none"}
         /\ tAsks \in T!GitQuery => T!Resolved(tAsks, tAt, tWin) \subseteq {p \in T!Place : tAt[p] = "works"}
         /\ tAsks \in T!EmptyQuery => T!Resolved(tAsks, tAt, tWin) \subseteq {"bundled"}
         /\ tAsks \in T!PayloadQuery /\ tAt["bundled"] = "works" => "bundled" \in T!Resolved(tAsks, tAt, tWin)
         /\ tAsks \notin T!GitQuery /\ T!Resolved(tAsks, tAt, tWin) = {} =>
              \A p \in T!Place \ {"program-files"} : tAt[p] = "none"
<1> USE DEF T!Resolved
<1>1. T!InPath(tAt) \subseteq T!Place
  BY DEF T!InPath, T!Place
<1>2. T!GitPlaces(tAsks, tAt, tWin) \subseteq T!Place
  BY <1>1 DEF T!GitPlaces, T!Place
<1>3. tAsks \in T!EmptyQuery => T!GitPlaces(tAsks, tAt, tWin) \subseteq {"bundled"}
  BY DEF T!GitPlaces
<1>4. tAsks \in T!PayloadQuery => "bundled" \in T!GitPlaces(tAsks, tAt, tWin)
  BY DEF T!GitPlaces
<1>5. T!EmptyQuery \subseteq T!GitQuery /\ T!PayloadQuery \subseteq T!GitQuery
  BY DEF T!GitQuery, T!EmptyQuery, T!PayloadQuery
<1>6. \A p \in {"bundled", "root"} \cup T!InPath(tAt) : p \in T!Place
  BY <1>1 DEF T!Place
<1>7. ASSUME tAsks \notin T!GitQuery, T!Resolved(tAsks, tAt, tWin) = {}
      PROVE  \A p \in T!Place \ {"program-files"} : tAt[p] = "none"
  <2>1. tAt["bundled"] = "none" /\ tAt["root"] = "none"
    BY <1>7
  <2>2. tAt["path1"] = "none" /\ tAt["path2"] = "none"
    BY <1>7 DEF T!InPath
  <2> QED
    BY <2>1, <2>2 DEF T!Place
<1> QED
  BY <1>2, <1>3, <1>4, <1>5, <1>6, <1>7

(* The invariant of the lookups of git, caveman and rtk.                      *)
LEMMA ToolInductive == T!Spec => []T!IInv
<1>1. T!Init => T!IInv
  BY Bounds DEF T!Init, T!IInv, T!TypeOK, T!ResolutionIsHonest, T!Class, T!Unasked, T!Nowhere, T!Place
<1>2. T!IInv /\ [T!Next]_(T!vars) => T!IInv'
  <2> SUFFICES ASSUME T!IInv, [T!Next]_(T!vars)
               PROVE  T!IInv'
    OBVIOUS
  <2> USE DEF T!IInv
  <2>1. CASE T!Resolve
    <3> DEFINE found == T!Resolved(tAsks, tAt, tWin)
    <3>1. /\ tCache' = IF found # {} THEN T!First(found)
                        ELSE IF tAsks \in T!GitQuery THEN T!Unasked ELSE T!Nowhere
          /\ tThen' = tAt /\ UNCHANGED <<tWin, tAsks, tAt, tReport, tChanges>>
      BY <2>1 DEF T!Resolve
    <3>2. tAsks \in T!Query /\ "nowhere" \notin T!Place /\ "unasked" \notin T!Place
      BY DEF T!TypeOK, T!Place
    <3>3. CASE found # {}
      <4>1. T!First(found) \in found /\ ("bundled" \in found => T!First(found) = "bundled")
        <5>1. found \in SUBSET T!Place
          BY <3>2, FoundStands
        <5> HIDE DEF found
        <5> QED
          BY <3>3, <5>1, FirstFound
      <4> DEFINE p == T!First(found)
      <4>2. /\ p \in T!Place /\ tAt[p] # "none"
            /\ tAsks \in T!GitQuery => tAt[p] = "works"
            /\ tAsks \in T!EmptyQuery => p = "bundled"
            /\ tAsks \in T!PayloadQuery /\ tAt["bundled"] = "works" => p = "bundled"
        BY <3>2, <4>1, FoundStands
      <4>3. tCache' = p
        BY <3>1, <3>3
      <4> HIDE DEF p, found
      <4> QED
        BY <3>1, <3>2, <4>2, <4>3 DEF T!TypeOK, T!ResolutionIsHonest, T!Nowhere
    <3>4. CASE found = {}
      <4>1. tCache' \in {T!Unasked, T!Nowhere} /\ (tCache' = T!Nowhere => tAsks \notin T!GitQuery)
        BY <3>1, <3>4 DEF T!Unasked, T!Nowhere
      <4>2. tAsks \notin T!GitQuery => \A p \in T!Place \ {"program-files"} : tAt[p] = "none"
        BY <3>2, <3>4, FoundStands
      <4> QED
        BY <3>1, <3>2, <4>1, <4>2 DEF T!TypeOK, T!ResolutionIsHonest, T!Nowhere, T!Unasked
    <3> QED
      BY <3>3, <3>4
  <2>2. CASE T!Change
    <3>1. tAt' \in [T!Place -> {"none", "broken", "works"}] /\ tChanges' \in 0..ToolChanges
      <4>1. PICK p \in T!Looked(tAsks), s \in {"none", "broken", "works"} : tAt' = [tAt EXCEPT ![p] = s]
        BY <2>2 DEF T!Change
      <4>2. tAt' \in [T!Place -> {"none", "broken", "works"}]
        BY <4>1 DEF T!TypeOK
      <4>3. tChanges' \in 0..ToolChanges
        BY <2>2, Bounds DEF T!Change, T!TypeOK
      <4> QED
        BY <4>2, <4>3
    <3> QED
      BY <2>2, <3>1 DEF T!Change, T!TypeOK, T!ResolutionIsHonest
  <2>3. CASE T!Validate \/ T!NotFound
    <3>1. UNCHANGED <<tWin, tAsks, tAt, tCache, tThen, tChanges>>
      BY <2>3 DEF T!Validate, T!NotFound
    <3> DEFINE Honest == \E r, s, d \in BOOLEAN, e \in T!Class :
                           T!Report(r, s, d, e) /\ ((e = "none") <=> (r /\ s /\ d))
               Ends(rev, st, df) ==
                 IF rev # "ok" THEN T!Report(FALSE, FALSE, FALSE, T!ClassOf(rev))
                 ELSE T!Report(TRUE, st = "ok", df = "ok",
                               IF T!ChecksPass(st, df) THEN "none" ELSE "git-failed")
    <3>2. Honest
      <4>1. \A c \in T!Cause : T!ClassOf(c) \in T!Class \ {"none"}
        BY DEF T!ClassOf, T!Class
      <4>2. {"git-failed", "executable-not-found"} \subseteq T!Class \ {"none"} /\ "none" \in T!Class
        BY DEF T!Class
      <4>3. T!NotFound => Honest
        BY <4>2 DEF T!NotFound
      <4>4. T!Report(FALSE, FALSE, FALSE, "git-failed") => Honest
        BY <4>2
      <4>5. ASSUME NEW rev \in T!Cause, NEW st \in {"ok", "other"}, NEW df \in {"ok", "other"},
                   Ends(rev, st, df)
            PROVE  Honest
        <5>1. CASE rev # "ok"
          BY <4>1, <4>5, <5>1
        <5>2. CASE rev = "ok"
          BY <4>2, <4>5, <5>2 DEF T!ChecksPass
        <5> QED
          BY <5>1, <5>2
      <4>6. T!Validate => \/ T!Report(FALSE, FALSE, FALSE, "git-failed")
                          \/ \E rev \in T!Cause, st, df \in {"ok", "other"} : Ends(rev, st, df)
        BY DEF T!Validate
      <4> HIDE DEF Honest, Ends
      <4> QED
        BY <2>3, <4>3, <4>4, <4>5, <4>6
    <3>3. PICK r, s, d \in BOOLEAN, e \in T!Class :
            T!Report(r, s, d, e) /\ ((e = "none") <=> (r /\ s /\ d))
      BY <3>2
    <3> QED
      BY <3>1, <3>3 DEF T!Report, T!TypeOK, T!ResolutionIsHonest
  <2>4. CASE UNCHANGED T!vars
    BY <2>4 DEF T!vars, T!TypeOK, T!ResolutionIsHonest
  <2> QED
    BY <2>1, <2>2, <2>3, <2>4 DEF T!Next
<1> QED
  BY <1>1, <1>2, PTL DEF T!Spec

-----------------------------------------------------------------------------
(* The check of the shipped layout, for any number of looks.                  *)
LEMMA ReadsAre ==
  /\ Len(F!Reads) = 12
  /\ F!Reads[1] = F!There("cli") /\ F!Reads[2] = F!There("modules") /\ F!Reads[3] = F!There("picker")
  /\ F!Reads[4] = F!There("exe") /\ F!Reads[5] = F!There("receipt") /\ F!Reads[6] = F!There("models")
  /\ F!Reads[7] = F!Bytes("receipt") /\ F!Reads[8] = F!Bytes("exe") /\ F!Reads[9] = F!Bytes("models")
  /\ F!Reads[10] = F!Bytes("models") /\ F!Reads[11] = F!Bytes("picker") /\ F!Reads[12] = F!Bytes("brokers")
BY DEF F!Reads

(* What each read lets pass.                                                  *)
LEMMA PassMeans ==
  ASSUME NEW p \in F!Part, NEW d, NEW of
  PROVE  /\ F!Passes(F!There(p), d, of) <=> d[p] # "none" /\ (p = "modules" => d[p] # "empty")
         /\ F!Passes(F!Bytes(p), d, of) <=>
              /\ d[p] \in F!WholeContent \/ (d[p] = "none" /\ p = "picker")
              /\ p \in {"exe", "models"} => d[p] = of
         /\ F!There(p) # F!Bytes("receipt") /\ (F!Bytes(p) = F!Bytes("receipt") <=> p = "receipt")
BY DEF F!Passes, F!There, F!Bytes

(* The parts of a layout, as critical paths and payload name them.            *)
LEMMA PartsAre == F!Part = {"cli", "modules", "picker", "brokers", "exe", "receipt", "models"}
BY DEF F!Part

(* The reads of the look and the writes of the installer keep the types.      *)
LEMMA LookTypes ==
  ASSUME F!IInv, [F!Next]_(F!vars)
  PROVE  F!TypeOK'
<1> USE Bounds, ReadsAre DEF F!IInv, F!TypeOK
<1>1. CASE F!Look
  <2>1. fAttempt' \in 0..Looks
    BY <1>1 DEF F!Look
  <2>2. fSound' \in BOOLEAN /\ fClean' \in BOOLEAN
    BY <1>1 DEF F!Look, F!Sound
  <2>3. fNext' \in 1..(Len(F!Reads) + 1) /\ fReceipt' \in F!Content
    BY <1>1 DEF F!Look, F!Content
  <2> QED
    BY <1>1, <2>1, <2>2, <2>3 DEF F!Look
<1>2. CASE F!Read
  <2>1. fNext' \in 1..(Len(F!Reads) + 1)
    BY <1>2 DEF F!Read
  <2>2. fReceipt' \in F!Content
    BY <1>2 DEF F!Read, F!Part
  <2>3. fClean' \in BOOLEAN
    BY <1>2 DEF F!Read, F!Passes
  <2> QED
    BY <1>2, <2>1, <2>2, <2>3 DEF F!Read
<1>3. CASE F!Judge
  BY <1>3 DEF F!Judge
<1>4. ASSUME NEW p \in F!Part, F!Create(p) \/ F!Fill(p)
      PROVE  F!TypeOK'
  <2>1. fDisk' \in [F!Part -> F!Content]
    BY <1>4 DEF F!Create, F!Fill, F!Content, F!Written
  <2>2. fReplaced' \in BOOLEAN
    BY <1>4 DEF F!Create, F!Fill
  <2> QED
    BY <1>4, <2>1, <2>2 DEF F!Create, F!Fill
<1>5. CASE UNCHANGED F!vars
  BY <1>5 DEF F!vars
<1> QED
  BY <1>1, <1>2, <1>3, <1>4, <1>5 DEF F!Next

(* What the installer does under the look, while it replaces nothing whole.   *)
LEMMA InstallerKeeps ==
  ASSUME F!IInv, NEW q \in F!Part, F!Create(q) \/ F!Fill(q), ~fReplaced'
  PROVE  /\ UNCHANGED <<fWin, fFaulty, fAttempt, fNext, fReceipt, fClean, fVerdict, fSound, fReplaced>>
         /\ \A p \in F!Part : /\ fDisk[p] \in F!WholeContent => fDisk'[p] = fDisk[p]
                              /\ fDisk[p] # "none" => fDisk'[p] # "none"
                              /\ fDisk[p] \notin {"none", "empty"} => fDisk'[p] \notin {"none", "empty"}
<1> USE DEF F!IInv, F!TypeOK
<1>1. CASE F!Create(q)
  <2>1. fDisk[q] = "none" /\ fDisk' = [fDisk EXCEPT ![q] = "empty"] /\ fReplaced' = fReplaced
    BY <1>1 DEF F!Create
  <2> QED
    BY <1>1, <2>1 DEF F!Create, F!WholeContent
<1>2. CASE F!Fill(q)
  BY <1>2 DEF F!Fill, F!WholeContent, F!Written
<1> QED
  BY <1>1, <1>2

(* The four parts hold after every step of the installer.                     *)
LEMMA InstallerInv ==
  ASSUME F!IInv, NEW q \in F!Part, F!Create(q) \/ F!Fill(q)
  PROVE  F!ReadsStand' /\ F!SoundStands' /\ F!LookIsOver'
<1>1. CASE fReplaced'
  <2>1. UNCHANGED <<fNext, fClean, fVerdict>>
    BY DEF F!Create, F!Fill
  <2> QED
    BY <1>1, <2>1 DEF F!IInv, F!ReadsStand, F!SoundStands, F!LookIsOver
<1>2. CASE ~fReplaced'
  <2>1. /\ UNCHANGED <<fWin, fFaulty, fAttempt, fNext, fReceipt, fClean, fVerdict, fSound, fReplaced>>
        /\ \A p \in F!Part : /\ fDisk[p] \in F!WholeContent => fDisk'[p] = fDisk[p]
                             /\ fDisk[p] # "none" => fDisk'[p] # "none"
                             /\ fDisk[p] \notin {"none", "empty"} => fDisk'[p] \notin {"none", "empty"}
    BY <1>2, InstallerKeeps
  <2>2. F!ReadsStand'
    BY <1>2, <2>1, PartsAre DEF F!IInv, F!ReadsStand
  <2>3. F!SoundStands'
    <3> SUFFICES ASSUME fSound, fWin
                 PROVE  F!Sound(fDisk)' /\ fVerdict \in {"looking", "ok"} /\ fClean
      BY <2>1 DEF F!SoundStands
    <3>1. F!Sound(fDisk) /\ fVerdict \in {"looking", "ok"} /\ fClean
      BY <1>2, <2>1 DEF F!IInv, F!SoundStands
    <3>2. F!Sound(fDisk)'
      BY <2>1, <3>1, PartsAre DEF F!Sound
    <3> QED
      BY <3>1, <3>2
  <2> QED
    BY <2>1, <2>2, <2>3 DEF F!IInv, F!LookIsOver
<1> QED
  BY <1>1, <1>2

(* A read that is passed adds what it read to what stands.                    *)
LEMMA ReadInv ==
  ASSUME F!IInv, F!Read
  PROVE  F!ReadsStand' /\ F!SoundStands' /\ F!LookIsOver'
<1> USE ReadsAre
<1> DEFINE r == F!Reads[fNext]
<1>1. /\ fVerdict = "looking" /\ fNext \in 1..12 /\ fNext' = fNext + 1
      /\ fClean' = (fClean /\ F!Passes(r, fDisk, fReceipt))
      /\ fReceipt' = IF r = F!Bytes("receipt") THEN fDisk["receipt"] ELSE fReceipt
      /\ UNCHANGED <<fWin, fDisk, fVerdict, fSound, fReplaced>>
  BY DEF F!Read, F!IInv, F!TypeOK
<1>2. fClean \in BOOLEAN /\ fDisk \in [F!Part -> F!Content]
  BY DEF F!IInv, F!TypeOK
<1>3. \A p \in F!Part :
        /\ F!Passes(F!There(p), fDisk, fReceipt) <=> fDisk[p] # "none" /\ (p = "modules" => fDisk[p] # "empty")
        /\ F!Passes(F!Bytes(p), fDisk, fReceipt) <=>
             /\ fDisk[p] \in F!WholeContent \/ (fDisk[p] = "none" /\ p = "picker")
             /\ p \in {"exe", "models"} => fDisk[p] = fReceipt
        /\ F!There(p) # F!Bytes("receipt") /\ (F!Bytes(p) = F!Bytes("receipt") <=> p = "receipt")
  BY PassMeans
<1>4. \A p \in {"cli", "modules", "picker", "brokers", "exe", "receipt", "models"} : p \in F!Part
  BY PartsAre
<1>5. fClean /\ ~fReplaced =>
        /\ fNext > 1 => fDisk["cli"] # "none"
        /\ fNext > 2 => fDisk["modules"] \notin {"none", "empty"}
        /\ fNext > 3 => fDisk["picker"] # "none"
        /\ fNext > 7 => fDisk["receipt"] \in F!WholeContent /\ fReceipt = fDisk["receipt"]
        /\ fNext > 8 => fDisk["exe"] \in F!WholeContent /\ fDisk["exe"] = fDisk["receipt"]
        /\ fNext > 9 => fDisk["models"] \in F!WholeContent /\ fDisk["models"] = fDisk["receipt"]
        /\ fNext > 11 => fDisk["picker"] \in F!WholeContent
        /\ fNext > 12 => fDisk["brokers"] \in F!WholeContent
  BY <1>1 DEF F!IInv, F!ReadsStand
<1>6. r # F!Bytes("receipt") => fReceipt' = fReceipt
  BY <1>1
<1>7. F!Passes(r, fDisk, fReceipt) /\ fClean /\ ~fReplaced =>
        /\ fNext = 1 => fDisk["cli"] # "none"
        /\ fNext = 2 => fDisk["modules"] \notin {"none", "empty"}
        /\ fNext = 3 => fDisk["picker"] # "none"
        /\ fNext = 7 => fDisk["receipt"] \in F!WholeContent /\ fReceipt' = fDisk["receipt"]
        /\ fNext = 8 => fDisk["exe"] \in F!WholeContent /\ fDisk["exe"] = fDisk["receipt"]
        /\ fNext = 9 => fDisk["models"] \in F!WholeContent /\ fDisk["models"] = fDisk["receipt"]
        /\ fNext = 11 => fDisk["picker"] \in F!WholeContent
        /\ fNext = 12 => fDisk["brokers"] \in F!WholeContent
  <2> SUFFICES ASSUME F!Passes(r, fDisk, fReceipt), fClean, ~fReplaced
               PROVE  /\ fNext = 1 => fDisk["cli"] # "none"
                      /\ fNext = 2 => fDisk["modules"] \notin {"none", "empty"}
                      /\ fNext = 3 => fDisk["picker"] # "none"
                      /\ fNext = 7 => fDisk["receipt"] \in F!WholeContent /\ fReceipt' = fDisk["receipt"]
                      /\ fNext = 8 => fDisk["exe"] \in F!WholeContent /\ fDisk["exe"] = fDisk["receipt"]
                      /\ fNext = 9 => fDisk["models"] \in F!WholeContent /\ fDisk["models"] = fDisk["receipt"]
                      /\ fNext = 11 => fDisk["picker"] \in F!WholeContent
                      /\ fNext = 12 => fDisk["brokers"] \in F!WholeContent
    OBVIOUS
  <2>1. CASE fNext \in {1, 2, 3}
    BY <1>3, <1>4, <2>1
  <2>2. CASE fNext = 7
    BY <1>1, <1>3, <1>4, <2>2
  <2>3. CASE fNext = 8
    BY <1>3, <1>4, <1>5, <2>3
  <2>4. CASE fNext = 9
    BY <1>3, <1>4, <1>5, <2>4
  <2>5. CASE fNext = 11
    BY <1>3, <1>4, <1>5, <2>5
  <2>6. CASE fNext = 12
    BY <1>3, <1>4, <2>6
  <2> QED
    BY <1>1, <2>1, <2>2, <2>3, <2>4, <2>5, <2>6
<1>8. fNext > 7 => r # F!Bytes("receipt")
  <2>1. CASE fNext \in {8, 9, 10}
    BY <1>3, <1>4, <2>1
  <2>2. CASE fNext \in {11, 12}
    BY <1>3, <1>4, <2>2
  <2> QED
    BY <1>1, <2>1, <2>2
<1>9. fNext > 7 => fReceipt' = fReceipt
  BY <1>6, <1>8
<1>10. F!ReadsStand'
  <2> HIDE DEF r
  <2> SUFFICES ASSUME fClean', ~fReplaced
               PROVE  /\ fNext + 1 > 1 => fDisk["cli"] # "none"
                      /\ fNext + 1 > 2 => fDisk["modules"] \notin {"none", "empty"}
                      /\ fNext + 1 > 3 => fDisk["picker"] # "none"
                      /\ fNext + 1 > 7 => fDisk["receipt"] \in F!WholeContent /\ fReceipt' = fDisk["receipt"]
                      /\ fNext + 1 > 8 => fDisk["exe"] \in F!WholeContent /\ fDisk["exe"] = fDisk["receipt"]
                      /\ fNext + 1 > 9 => fDisk["models"] \in F!WholeContent /\ fDisk["models"] = fDisk["receipt"]
                      /\ fNext + 1 > 11 => fDisk["picker"] \in F!WholeContent
                      /\ fNext + 1 > 12 => fDisk["brokers"] \in F!WholeContent
    BY <1>1 DEF F!ReadsStand
  <2>1. fClean /\ F!Passes(r, fDisk, fReceipt)
    BY <1>1
  <2>2. \A k \in {1, 2, 3, 7, 8, 9, 11, 12} : fNext + 1 > k => fNext > k \/ fNext = k
    BY <1>1
  <2> QED
    BY <1>5, <1>7, <1>9, <2>1, <2>2
<1>11. F!SoundStands'
  <2> SUFFICES ASSUME fSound, fWin, ~fReplaced
               PROVE  F!Passes(r, fDisk, fReceipt)
    BY <1>1 DEF F!IInv, F!SoundStands, F!Sound
  <2>1. F!Sound(fDisk) /\ fClean
    BY DEF F!IInv, F!SoundStands
  <2>2. /\ fDisk["cli"] # "none" /\ fDisk["modules"] \notin {"none", "empty"}
        /\ \A p \in {"picker", "brokers", "exe", "receipt", "models"} :
              fDisk[p] \in F!WholeContent /\ fDisk[p] # "none"
        /\ fDisk["exe"] = fDisk["receipt"] /\ fDisk["models"] = fDisk["receipt"]
    BY <2>1 DEF F!Sound, F!Part, F!WholeContent
  <2>3. CASE fNext \in {1, 2, 3}
    BY <1>3, <1>4, <2>2, <2>3
  <2>4. CASE fNext \in {4, 5, 6}
    BY <1>3, <1>4, <2>2, <2>4
  <2>5. CASE fNext = 7
    BY <1>3, <1>4, <2>2, <2>5
  <2>6. CASE fNext \in {8, 9, 10}
    BY <1>3, <1>4, <1>5, <2>1, <2>2, <2>6
  <2>7. CASE fNext \in {11, 12}
    BY <1>3, <1>4, <2>2, <2>7
  <2> QED
    BY <1>1, <2>3, <2>4, <2>5, <2>6, <2>7
<1>12. F!LookIsOver'
  BY <1>1 DEF F!LookIsOver
<1> QED
  BY <1>10, <1>11, <1>12

(* The beginning and the end of a look, which change no file.                 *)
LEMMA LookInv ==
  ASSUME F!IInv, F!Look \/ F!Judge \/ UNCHANGED F!vars
  PROVE  F!ReadsStand' /\ F!SoundStands' /\ F!LookIsOver'
<1>1. CASE F!Look
  <2>1. fVerdict' = "looking" /\ fNext' = 1 /\ fClean' = fWin /\ fSound' = F!Sound(fDisk) /\ UNCHANGED <<fDisk, fWin>>
    BY <1>1 DEF F!Look
  <2>2. F!Sound(fDisk)' <=> F!Sound(fDisk)
    BY <2>1 DEF F!Sound
  <2> QED
    BY <2>1, <2>2 DEF F!ReadsStand, F!SoundStands, F!LookIsOver
<1>2. CASE F!Judge
  <2>1. /\ fVerdict = "looking" /\ fNext > Len(F!Reads)
        /\ UNCHANGED <<fWin, fDisk, fNext, fReceipt, fClean, fSound, fReplaced>>
        /\ fVerdict' = "ok" => fClean
        /\ fClean => fVerdict' = "ok"
    BY <1>2 DEF F!Judge
  <2>2. fNext = Len(F!Reads) + 1
    BY <2>1, ReadsAre DEF F!IInv, F!TypeOK
  <2>3. F!Sound(fDisk)' <=> F!Sound(fDisk)
    BY <2>1 DEF F!Sound
  <2>4. F!ReadsStand'
    BY <2>1 DEF F!IInv, F!ReadsStand
  <2>5. F!SoundStands'
    BY <2>1, <2>3 DEF F!IInv, F!SoundStands
  <2>6. F!LookIsOver'
    BY <2>1, <2>2 DEF F!LookIsOver
  <2> QED
    BY <2>4, <2>5, <2>6
<1>3. CASE UNCHANGED F!vars
  BY <1>3 DEF F!vars, F!IInv, F!ReadsStand, F!SoundStands, F!LookIsOver, F!Sound
<1> QED
  BY <1>1, <1>2, <1>3

(* What a look let through, and what was sound when it began.                 *)
LEMMA VerdictFollows ==
  ASSUME F!ReadsStand, F!SoundStands, F!LookIsOver
  PROVE  F!VerdictIsTrue
<1>1. ASSUME fVerdict = "ok", ~fReplaced
      PROVE  F!Sound(fDisk)
  <2>1. fClean /\ fNext = 13
    BY <1>1, ReadsAre DEF F!LookIsOver
  <2>2. /\ fDisk["cli"] # "none" /\ fDisk["modules"] \notin {"none", "empty"}
        /\ \A p \in {"picker", "brokers", "exe", "receipt", "models"} : fDisk[p] \in F!WholeContent
        /\ fDisk["exe"] = fDisk["receipt"] /\ fDisk["models"] = fDisk["receipt"]
    BY <1>1, <2>1 DEF F!ReadsStand
  <2> QED
    BY <2>2 DEF F!Sound, F!Part
<1>2. fVerdict = "failed" /\ fWin /\ ~fReplaced => ~fSound
  BY DEF F!SoundStands
<1> QED
  BY <1>1, <1>2 DEF F!VerdictIsTrue

(* The invariant of the preflight under an installer that writes.             *)
LEMMA LookInductive == F!Spec => []F!IInv
<1>1. F!Init => F!IInv
  <2> SUFFICES ASSUME F!Init
               PROVE  F!IInv
    OBVIOUS
  <2>1. fDisk \in [F!Part -> F!Content]
    BY DEF F!Init, F!Content
  <2>2. fAttempt \in 0..Looks /\ fNext \in 1..(Len(F!Reads) + 1) /\ fReceipt \in F!Content
    BY Bounds, ReadsAre DEF F!Init, F!Content
  <2>3. F!TypeOK
    BY <2>1, <2>2 DEF F!Init, F!TypeOK
  <2>4. F!ReadsStand /\ F!SoundStands /\ F!LookIsOver
    BY DEF F!Init, F!ReadsStand, F!SoundStands, F!LookIsOver
  <2> QED
    BY <2>3, <2>4, VerdictFollows DEF F!IInv
<1>2. F!IInv /\ [F!Next]_(F!vars) => (F!TypeOK /\ F!ReadsStand /\ F!SoundStands /\ F!LookIsOver)'
  BY InstallerInv, ReadInv, LookInv, LookTypes DEF F!Next
<1>3. F!ReadsStand /\ F!SoundStands /\ F!LookIsOver => F!VerdictIsTrue
  BY VerdictFollows
<1>4. F!IInv <=> F!TypeOK /\ F!ReadsStand /\ F!SoundStands /\ F!LookIsOver /\ F!VerdictIsTrue
  BY DEF F!IInv
<1> QED
  BY <1>1, <1>2, <1>3, <1>4, PTL DEF F!Spec

-----------------------------------------------------------------------------
(* However the download of uvx ends and in whatever step the shell dies, what *)
(* ensureUvxCommand hands on is a whole program.                              *)
THEOREM UvxHolds == U!Spec => []U!UvxIsWhole
<1>1. U!IInv => U!UvxIsWhole
  BY DEF U!IInv
<1> QED
  BY <1>1, UvxInductive, PTL

(* Whatever programs come and go: a git that is handed on answered when it    *)
(* was looked for, none of a better place did, and a report without an error  *)
(* is one in which all three commands worked.                                 *)
THEOREM ResolutionHolds == T!Spec => []T!ResolutionIsHonest
<1>1. T!IInv => T!ResolutionIsHonest
  BY DEF T!IInv
<1> QED
  BY <1>1, ToolInductive, PTL

(* Whatever the installer writes under the look, while it replaces nothing    *)
(* whole: a layout that the preflight lets through is complete and of one     *)
(* release, and one that was complete is not turned away on Windows.          *)
THEOREM VerdictHolds == F!Spec => []F!VerdictIsTrue
<1>1. F!IInv => F!VerdictIsTrue
  BY DEF F!IInv
<1> QED
  BY <1>1, LookInductive, PTL

(* Whatever is written for other names, in other places and other lives: a    *)
(* place of secrets whose writes were all whole holds what it was told.       *)
THEOREM VaultHolds == V!Spec => []V!VaultIsFaithful
<1>1. V!IInv => V!VaultIsFaithful
  BY DEF V!IInv
<1> QED
  BY <1>1, VaultInductive, PTL

(* However calls of the text recognition overlap, time out and are cut off:   *)
(* none that is over has a tesseract nobody told to stop, and an image is     *)
(* left behind only where the disk or Windows kept it.                        *)
THEOREM OcrHolds == O!Spec => []O!OcrLeavesNothing
<1>1. O!IInv => O!OcrLeavesNothing
  BY DEF O!IInv
<1> QED
  BY <1>1, OcrInductive, PTL

(* In whatever file the cleanup of the retired runtime died before, one that  *)
(* comes to its end removed all of it and nothing of the user's.              *)
THEOREM RetirementHolds == Q!Spec => []Q!RetirementIsWhole
<1>1. Q!IInv => Q!RetirementIsWhole
  BY DEF Q!IInv
<1> QED
  BY <1>1, CleanupInductive, PTL

(* What dsh is started with works, in every behaviour of the run.             *)
THEOREM ToolsWorkHolds == MCSpec => []ToolsWork
<1>1. MCInit => U!Init /\ T!Init /\ F!Init
  BY DEF MCInit
<1>2. [MCNext]_all => [U!Next]_(U!vars)
  BY DEF MCNext, all, uvxVars, U!vars, U!files
<1>3. [MCNext]_all => [T!Next]_(T!vars)
  BY DEF MCNext, all, toolVars, T!vars
<1>4. [MCNext]_all => [F!Next]_(F!vars)
  BY DEF MCNext, all, preflightVars, F!vars
<1>5. U!IInv /\ T!IInv /\ F!IInv => ToolsWork
  BY DEF U!IInv, T!IInv, F!IInv, ToolsWork
<1> QED
  BY <1>1, <1>2, <1>3, <1>4, <1>5, UvxInductive, ToolInductive, LookInductive, PTL
     DEF MCSpec, U!Spec, T!Spec, F!Spec

(* And what it is given to keep is kept, in every behaviour of the run.       *)
THEOREM DataIsKeptHolds == MCSpec => []DataIsKept
<1>1. MCInit => V!Init /\ O!Init /\ Q!Init
  BY DEF MCInit
<1>2. [MCNext]_all => [V!Next]_(V!vars)
  BY DEF MCNext, all, vaultVars, V!vars
<1>3. [MCNext]_all => [O!Next]_(O!vars)
  BY DEF MCNext, all, ocrVars, O!vars
<1>4. [MCNext]_all => [Q!Next]_(Q!vars)
  BY DEF MCNext, all, retiredVars, Q!vars, Q!settings, Q!runtime
<1>5. V!IInv /\ O!IInv /\ Q!IInv => DataIsKept
  BY DEF V!IInv, O!IInv, Q!IInv, DataIsKept
<1> QED
  BY <1>1, <1>2, <1>3, <1>4, <1>5, VaultInductive, OcrInductive, CleanupInductive, PTL
     DEF MCSpec, V!Spec, O!Spec, Q!Spec
=============================================================================
