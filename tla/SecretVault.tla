------------------------------- MODULE SecretVault -------------------------------
(* The secret store (secret-store.ts): keytar, else the Windows vault through *)
(* PowerShell, else a file, chosen anew in every life of the shell. The       *)
(* shell reads through resolveSecrets; setSecret, deleteSecret and            *)
(* ensureSecret are the interface's, and their callers the tests.             *)
EXTENDS Naturals, FiniteSets

CONSTANTS Key, Value, \* names and values of secrets
          MaxLives    \* bound: lives of the shell

Absent == "absent"
Wrong == "wrong"  \* garbled or cut off, but taken for a value
Place == {"keytar", "credentials", "file"}

VARIABLES life,  \* number of this life, 0 before the first
          win,   \* process.platform === 'win32'
          used,  \* the store in use, or "none" between lives
          held,  \* what each place holds
          legible, \* the file can be read, with the key it was written with
          kept,  \* history: what each place was last told to hold
          torn,  \* history: places where a write was cut off or not made
          seen   \* the last answer of getSecret: of whom, what, and whether it failed

vars == <<life, win, used, held, legible, kept, torn, seen>>

Content == Value \cup {Absent, Wrong}

TypeOK ==
    /\ life \in 0..MaxLives /\ win \in BOOLEAN
    /\ used \in Place \cup {"none"}
    /\ held \in [Place -> [Key -> Content]] /\ kept \in [Place -> [Key -> Content]]
    /\ legible \in BOOLEAN /\ torn \subseteq Place
    /\ seen \in [key : Key, value : Content, failed : BOOLEAN]

Init ==
    /\ life = 0 /\ win \in BOOLEAN /\ used = "none"
    /\ held = [p \in Place |-> [k \in Key |-> Absent]] /\ kept = held
    /\ legible = TRUE /\ torn = {}
    /\ seen \in [key : Key, value : {Absent}, failed : {TRUE}]

-----------------------------------------------------------------------------
\* createSecretStore: whether keytar loads and PowerShell answers its probe is
\* the machine's, and may change. The machine's name, or id, is the file's key.
Open ==
    /\ used = "none" /\ life < MaxLives
    /\ life' = life + 1
    /\ \E keytar, shell \in BOOLEAN :
          used' = IF keytar THEN "keytar" ELSE IF win /\ shell THEN "credentials" ELSE "file"
    /\ legible' \in BOOLEAN
    /\ UNCHANGED <<win, held, kept, torn, seen>>

Die ==
    /\ used # "none"
    /\ used' = "none"
    /\ UNCHANGED <<life, win, held, legible, kept, torn, seen>>

\* readVault: a file that cannot be read is an empty one; one written under
\* another key is read as something else.
Vault == IF legible THEN {held["file"]}
         ELSE {[k \in Key |-> Absent],
               [k \in Key |-> IF held["file"][k] = Absent THEN Absent ELSE Wrong]}

\* What a writer may find in the place it is about to change.
Found(p) == IF p = "file" THEN Vault ELSE {held[p]}

\* Wrong: the entry that is written is the only one.
WrittenAlone(old, k, v) == [j \in Key |-> IF j = k THEN v ELSE Absent]

Written(old, k, v) == [old EXCEPT ![k] = v]

\* setSecret, or deleteSecret for Absent. The file is written as a whole; the
\* vault may refuse and PowerShell exit with 0 all the same.
Write(k, v) ==
    /\ used # "none"
    /\ \E old \in Found(used) :
          /\ held' = [held EXCEPT ![used] = Written(old, k, v)]
          /\ kept' = [kept EXCEPT ![used][k] = v]
          /\ torn' = IF old = held[used] THEN torn ELSE torn \cup {used}
    /\ legible' = (legible \/ used = "file")
    /\ UNCHANGED <<life, win, used, seen>>

NotWritten ==
    /\ used = "credentials"
    /\ torn' = torn \cup {used}
    /\ UNCHANGED <<life, win, used, held, legible, kept, seen>>

\* The life ends while writeFileSync writes over the file: the entries before
\* some point are whole, one may be cut, the rest is gone.
CutOff(k, v) ==
    /\ used = "file" /\ legible
    /\ \E whole \in SUBSET Key, cut \in SUBSET Key :
          /\ Cardinality(cut) <= 1 /\ whole \cap cut = {} /\ whole # Key
          /\ held' = [held EXCEPT !["file"] =
                        [j \in Key |-> IF j \in whole THEN Written(held["file"], k, v)[j]
                                       ELSE IF j \in cut /\ Written(held["file"], k, v)[j] # Absent
                                       THEN Wrong ELSE Absent]]
    /\ torn' = torn \cup {"file"}
    /\ used' = "none"
    /\ UNCHANGED <<life, win, legible, kept, seen>>

\* getSecret: keytar may throw, PowerShell may not answer in time (null).
Read(k) ==
    /\ used # "none"
    /\ \/ \E found \in Found(used) : seen' = [key |-> k, value |-> found[k], failed |-> FALSE]
       \/ used # "file" /\ seen' = [key |-> k, value |-> Absent, failed |-> TRUE]
    /\ UNCHANGED <<life, win, used, held, legible, kept, torn>>

\* ensureSecret: a default is written where nothing was read.
Ensure(k, v) ==
    /\ seen.key = k /\ seen.value = Absent
    /\ Write(k, v)

Next == \/ Open \/ Die \/ NotWritten
        \/ \E k \in Key : \/ Read(k)
                          \/ \E v \in Value : Write(k, v) \/ CutOff(k, v) \/ Ensure(k, v)
                          \/ Write(k, Absent)

Spec == Init /\ [][Next]_vars

-----------------------------------------------------------------------------
(* Where every write was made whole and the file could be read, a place      *)
(* holds for every name what it was last told, whatever was written for the  *)
(* other names and in the other places in this life or an earlier one.       *)
VaultIsFaithful == \A p \in Place \ torn : held[p] = kept[p]

-----------------------------------------------------------------------------
\* The inductive invariant of the proofs.
IInv == TypeOK /\ VaultIsFaithful
=============================================================================
