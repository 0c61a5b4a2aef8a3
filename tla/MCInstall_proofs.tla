---------------------------- MODULE MCInstall_proofs ----------------------------
(* Proofs about what MCInstall composes with the runtime install, for every   *)
(* value of the constants: the life of the shell, and the scripts that make   *)
(* the harness and the gateway it installs.                                   *)
EXTENDS MCInstall, Sequences, WellFoundedInduction, TLAPS

-----------------------------------------------------------------------------
(* The stack of patches, for any files, lines, patches, runs and edits.       *)

(* Induction along 0..n, stated of a set.                                     *)
LEMMA CountUp ==
  ASSUME NEW n \in Nat, NEW Good, 0 \in Good, \A k \in 1..n : k - 1 \in Good => k \in Good
  PROVE  0..n \subseteq Good
<1> DEFINE Rest == (0..n) \ Good
<1> SUFFICES ASSUME Rest # {}
             PROVE  FALSE
  OBVIOUS
<1>1. PICK k \in Rest : \A j \in Rest : ~(<<j, k>> \in OpToRel(<, Nat))
  <2>1. Rest \subseteq Nat
    OBVIOUS
  <2> QED
    BY <2>1, NatLessThanWellFounded, WFMin, Zenon
<1>2. k \in 1..n
  OBVIOUS
<1>3. k - 1 \notin Rest
  <2>1. k - 1 \in Nat /\ k \in Nat /\ k - 1 < k
    BY <1>2
  <2>2. <<k - 1, k>> \in OpToRel(<, Nat)
    BY <2>1 DEF OpToRel
  <2> QED
    BY <1>1, <2>2
<1>4. k - 1 \in Good
  BY <1>2, <1>3
<1> QED
  BY <1>2, <1>4

(* A value that is changed n times, by a function for each time.              *)
Iterates(f, n, x, step) == f = [k \in 0..n |-> IF k = 0 THEN x ELSE step[k][f[k - 1]]]

(* There is one.                                                              *)
LEMMA Iterated ==
  ASSUME NEW n \in Nat, NEW X, NEW x \in X, NEW step \in [1..n -> [X -> X]]
  PROVE  \E f \in [0..n -> X] : Iterates(f, n, x, step)
<1> DEFINE Upto(m, f) == f \in [0..m -> X] /\ f[0] = x /\ \A k \in 1..m : f[k] = step[k][f[k - 1]]
           Reached == {m \in 0..n : \E f : Upto(m, f)}
<1>1. 0 \in Reached
  <2> DEFINE g == [k \in 0..0 |-> x]
  <2>1. g \in [0..0 -> X] /\ g[0] = x /\ 1..0 = {} /\ 0 \in 0..n
    OBVIOUS
  <2>2. Upto(0, g)
    <3> HIDE DEF g
    <3> QED
      BY <2>1
  <2> HIDE DEF g, Upto
  <2> QED
    BY <2>1, <2>2
<1>2. ASSUME NEW m \in 1..n, m - 1 \in Reached
      PROVE  m \in Reached
  <2>1. PICK f : Upto(m - 1, f)
    BY <1>2
  <2> DEFINE g == [k \in 0..m |-> IF k = m THEN step[m][f[m - 1]] ELSE f[k]]
  <2>2. f[m - 1] \in X /\ step[m] \in [X -> X]
    BY <2>1
  <2>3. g \in [0..m -> X]
    BY <2>1, <2>2
  <2>4. g[0] = x
    BY <2>1
  <2>5. \A k \in 1..m : g[k] = step[k][g[k - 1]]
    BY <2>1
  <2>6. Upto(m, g) /\ m \in 0..n
    <3> HIDE DEF g
    <3> QED
      BY <2>3, <2>4, <2>5
  <2> HIDE DEF g, Upto
  <2> QED
    BY <2>6
<1>3. n \in Reached
  <2> HIDE DEF Reached
  <2>1. 0..n \subseteq Reached
    BY <1>1, <1>2, CountUp
  <2> QED
    BY <2>1
<1>4. PICK f : Upto(n, f)
  <2> HIDE DEF Upto
  <2> QED
    BY <1>3
<1>5. Iterates(f, n, x, step)
  <2> DEFINE g == [k \in 0..n |-> IF k = 0 THEN x ELSE step[k][f[k - 1]]]
  <2> SUFFICES ASSUME NEW k \in 0..n
               PROVE  f[k] = g[k]
    BY <1>4 DEF Iterates
  <2>1. k = 0 \/ k \in 1..n
    OBVIOUS
  <2> QED
    BY <1>4, <2>1
<1> QED
  BY <1>4, <1>5

(* A set of numbers up to n that has a member has a greatest one.             *)
LEMMA Greatest ==
  ASSUME NEW n \in Nat, NEW Good \in SUBSET (0..n), Good # {}
  PROVE  H!Max(Good) \in Good /\ \A k \in Good : H!Max(Good) >= k
<1> DEFINE Gaps == {n - k : k \in Good}
<1>1. PICK d \in Gaps : \A e \in Gaps : ~(<<e, d>> \in OpToRel(<, Nat))
  <2>1. Gaps \subseteq Nat
    <3>1. \A k \in Good : n - k \in Nat
      OBVIOUS
    <3> QED
      BY <3>1
  <2>2. Gaps # {}
    OBVIOUS
  <2> QED
    BY <2>1, <2>2, NatLessThanWellFounded, WFMin, Zenon
<1>2. PICK m \in Good : d = n - m
  OBVIOUS
<1>3. \A k \in Good : m >= k
  <2> SUFFICES ASSUME NEW k \in Good, m < k
               PROVE  FALSE
    OBVIOUS
  <2>1. n - k \in Gaps /\ n - k \in Nat /\ d \in Nat /\ n - k < d
    BY <1>2
  <2>2. <<n - k, d>> \in OpToRel(<, Nat)
    BY <2>1 DEF OpToRel
  <2> QED
    BY <1>1, <2>1, <2>2
<1> QED
  BY <1>3 DEF H!Max

(* The bounds are numbers, and the counters may begin.                        *)
LEMMA StackBounds ==
  /\ Patches \in Nat /\ PatchRuns \in Nat /\ MaxEdits \in Nat
  /\ 0 \in 0..PatchRuns /\ 0 \in 0..MaxEdits /\ 1 \in 1..(Patches + 1)
  BY BoundsAssumption

(* The version a patch expects is the last earlier patch of the line.         *)
LEMMA FromFacts ==
  ASSUME NEW p \in 1..(Patches + 1), NEW l
  PROVE  /\ H!From(p, l) \in 0..(p - 1)
         /\ H!From(p, l) # 0 => l \in hTouches[H!From(p, l)]
         /\ \A q \in 1..(p - 1) : l \in hTouches[q] => q <= H!From(p, l)
<1> DEFINE Good == {0} \cup {q \in 1..(p - 1) : l \in hTouches[q]}
<1>1. Patches \in Nat /\ p - 1 \in Nat
  BY StackBounds
<1>2. Good \in SUBSET (0..(p - 1)) /\ Good # {}
  BY <1>1
<1>3. H!Max(Good) \in Good /\ \A k \in Good : H!Max(Good) >= k
  <2> HIDE DEF Good
  <2> QED
    BY <1>1, <1>2, Greatest
<1>4. H!From(p, l) = H!Max(Good)
  BY DEF H!From
<1> HIDE DEF Good
<1>5. H!From(p, l) \in Good /\ \A k \in Good : k <= H!From(p, l)
  <2> SUFFICES ASSUME NEW k \in Good
               PROVE  H!From(p, l) \in Good /\ k <= H!From(p, l)
    BY <1>2
  <2>1. H!Max(Good) \in Good /\ H!Max(Good) >= k
    BY <1>3
  <2>2. \A j \in Good : j \in Int
    BY <1>1, <1>2
  <2> QED
    BY <1>4, <2>1, <2>2
<1> QED
  BY <1>1, <1>2, <1>5 DEF Good

(* No action changes which lines a patch touches.                             *)
LEMMA FromStays ==
  ASSUME hTouches' = hTouches
  PROVE  \A p, l : H!From(p, l)' = H!From(p, l)
BY DEF H!From

(* The group that is replayed: patches, and among them all that fit neither   *)
(* way.                                                                       *)
LEMMA GroupedFacts == H!Grouped \subseteq H!Patch /\ H!Overlapping \subseteq H!Grouped
<1> DEFINE candidates == H!Overlapping \cup {p \in H!Patch : H!Reverses(p, hTree)}
           More(Q) == Q \cup {q \in candidates : \E p \in Q : H!Share(p, q)}
           Grown(f) == [n \in 0..Patches |-> IF n = 0 THEN H!Overlapping ELSE More(f[n - 1])]
           step == [k \in 1..Patches |-> [Q \in SUBSET H!Patch |-> More(Q)]]
           grown == CHOOSE f : f = Grown(f)
<1>1. Patches \in Nat /\ H!Overlapping \in SUBSET H!Patch /\ candidates \subseteq H!Patch
  BY StackBounds DEF H!Overlapping
<1>2. \A Q \in SUBSET H!Patch : More(Q) \in SUBSET H!Patch
  BY <1>1
<1>3. step \in [1..Patches -> [SUBSET H!Patch -> SUBSET H!Patch]]
  <2> HIDE DEF More
  <2> QED
    BY <1>2
<1>4. PICK f \in [0..Patches -> SUBSET H!Patch] :
        Iterates(f, Patches, H!Overlapping, step)
  <2> HIDE DEF step
  <2> QED
    BY <1>1, <1>3, Iterated
<1>5. f = Grown(f)
  <2> HIDE DEF More
  <2> SUFFICES ASSUME NEW k \in 0..Patches
               PROVE  f[k] = Grown(f)[k]
    OBVIOUS
  <2>1. CASE k = 0
    BY <1>4, <2>1 DEF Iterates
  <2>2. CASE k # 0
    <3>1. k \in 1..Patches /\ k - 1 \in 0..Patches
      BY <1>1, <2>2
    <3> QED
      BY <1>4, <2>2, <3>1 DEF Iterates
  <2> QED
    BY <2>1, <2>2
<1>6. grown = Grown(grown)
  <2> HIDE DEF Grown
  <2> QED
    BY <1>5
<1>7. H!Grouped = grown[Patches]
  BY DEF H!Grouped
<1> DEFINE Good == {k \in 0..Patches : H!Overlapping \subseteq grown[k] /\ grown[k] \subseteq H!Patch}
<1> HIDE DEF grown
<1>8. 0 \in Good
  BY <1>1, <1>6
<1>9. ASSUME NEW k \in 1..Patches, k - 1 \in Good
      PROVE  k \in Good
  <2>1. k \in 0..Patches /\ k # 0
    BY <1>1
  <2>2. grown[k] = More(grown[k - 1])
    <3> HIDE DEF More
    <3> QED
      BY <1>6, <2>1
  <2>3. grown[k - 1] \in SUBSET H!Patch /\ H!Overlapping \subseteq grown[k - 1]
    BY <1>9
  <2>4. More(grown[k - 1]) \in SUBSET H!Patch
    <3> HIDE DEF More
    <3> QED
      BY <1>2, <2>3
  <2>5. grown[k - 1] \subseteq More(grown[k - 1])
    OBVIOUS
  <2> HIDE DEF More
  <2> QED
    BY <2>1, <2>2, <2>3, <2>4, <2>5
<1>10. Patches \in Good
  <2> HIDE DEF Good
  <2>1. 0..Patches \subseteq Good
    BY <1>1, <1>8, <1>9, CountUp
  <2> QED
    BY <1>1, <2>1
<1> QED
  BY <1>7, <1>10

(* A patch that comes off and goes on again with its group, leaving what was  *)
(* there, is in the tree.                                                     *)
LEMMA ReplayedIsIn ==
  ASSUME H!IInv, NEW group \in SUBSET H!Patch, H!Replays(group),
         NEW g \in group, NEW l \in hTouches[g]
  PROVE  H!IsIn(g, l)
<1> USE StackBounds
<1> DEFINE Off(f) == [n \in 1..(Patches + 1) |->
                        IF n = Patches + 1 THEN hTree
                        ELSE IF n \in group THEN H!Reverse(n, f[n + 1]) ELSE f[n + 1]]
           off == CHOOSE f : f = Off(f)
           o == off[1]
           On(f) == [n \in 0..Patches |->
                       IF n = 0 THEN o
                       ELSE IF n \in group THEN H!Apply(n, f[n - 1]) ELSE f[n - 1]]
           on == CHOOSE f : f = On(f)
           Values == {o[k] : k \in H!Line} \cup Int
           Trees == {o} \cup [H!Line -> Values]
           step == [k \in 1..Patches |-> [t \in Trees |-> IF k \in group THEN H!Apply(k, t) ELSE t]]
<1>1. on[Patches] = hTree
  BY DEF H!Replays
<1> HIDE DEF off
<1>2. \A k \in 1..Patches : \A t \in Trees : H!Apply(k, t) \in Trees
  <2> SUFFICES ASSUME NEW k \in 1..Patches, NEW t \in Trees
               PROVE  H!Apply(k, t) \in [H!Line -> Values]
    OBVIOUS
  <2>1. H!Broken \in [H!Line -> Values]
    BY DEF H!Broken
  <2>2. \A m \in H!Line : t[m] \in Values /\ k \in Values
    OBVIOUS
  <2>3. [m \in H!Line |-> IF m \in hTouches[k] THEN k ELSE t[m]] \in [H!Line -> Values]
    BY <2>2
  <2> QED
    BY <2>1, <2>3 DEF H!Apply
<1>3. step \in [1..Patches -> [Trees -> Trees]] /\ o \in Trees
  BY <1>2
<1>4. PICK f \in [0..Patches -> Trees] : Iterates(f, Patches, o, step)
  <2> HIDE DEF step, Trees, o
  <2> QED
    BY <1>3, Iterated
<1>5. f = On(f)
  <2> SUFFICES ASSUME NEW k \in 0..Patches
               PROVE  f[k] = On(f)[k]
    OBVIOUS
  <2>1. CASE k = 0
    BY <1>4, <2>1 DEF Iterates
  <2>2. CASE k # 0
    <3>1. k \in 1..Patches /\ k - 1 \in 0..Patches
      BY <2>2
    <3>2. f[k] = step[k][f[k - 1]] /\ f[k - 1] \in Trees
      <4> HIDE DEF step, Trees
      <4> QED
        BY <1>4, <2>2, <3>1 DEF Iterates
    <3> HIDE DEF Trees
    <3> QED
      BY <2>2, <3>1, <3>2
  <2> QED
    BY <2>1, <2>2
<1>6. on = On(on)
  <2> HIDE DEF On
  <2> QED
    BY <1>5
<1> HIDE DEF on
<1> DEFINE Kept(t) == t = H!Broken \/ (t[l] \in H!Patch /\ t[l] >= g /\ l \in hTouches[t[l]])
           Good == {k \in 0..Patches : k >= g => Kept(on[k])}
<1>7. g \in 1..Patches /\ l \in H!Line
  BY DEF H!Patch, H!IInv, H!TypeOK
<1>8. 0 \in Good
  BY <1>7
<1>9. ASSUME NEW k \in 1..Patches, k - 1 \in Good
      PROVE  k \in Good
  <2> SUFFICES ASSUME k >= g
               PROVE  Kept(on[k])
    OBVIOUS
  <2>1. on[k] = IF k \in group THEN H!Apply(k, on[k - 1]) ELSE on[k - 1]
    BY <1>6
  <2>2. CASE k \notin group
    <3>1. k - 1 >= g /\ on[k] = on[k - 1]
      BY <1>7, <2>1, <2>2
    <3> QED
      BY <1>9, <3>1
  <2>3. CASE k \in group /\ ~H!Applies(k, on[k - 1])
    BY <2>1, <2>3 DEF H!Apply
  <2>4. CASE k \in group /\ H!Applies(k, on[k - 1])
    <3>1. on[k] = [m \in H!Line |-> IF m \in hTouches[k] THEN k ELSE on[k - 1][m]]
      BY <2>1, <2>4 DEF H!Apply
    <3>2. on[k][l] = IF l \in hTouches[k] THEN k ELSE on[k - 1][l]
      BY <1>7, <3>1
    <3>3. CASE l \in hTouches[k]
      BY <1>7, <3>2, <3>3 DEF H!Patch
    <3>4. CASE l \notin hTouches[k]
      <4>1. k - 1 >= g
        BY <1>7, <3>4
      <4>2. on[k - 1] # H!Broken
        <5>1. PICK m \in hTouches[k] : on[k - 1][m] = H!From(k, m)
          BY <2>4 DEF H!Applies, H!IInv, H!Patch
        <5>2. m \in H!Line
          BY <5>1 DEF H!IInv, H!TypeOK, H!Patch
        <5>3. H!From(k, m) \in 0..(k - 1)
          BY FromFacts
        <5> QED
          BY <5>1, <5>2, <5>3 DEF H!Broken
      <4> QED
        BY <1>9, <3>2, <3>4, <4>1, <4>2
    <3> QED
      BY <3>3, <3>4
  <2> QED
    BY <2>2, <2>3, <2>4
<1>10. Patches \in Good
  <2> HIDE DEF Good
  <2>1. 0..Patches \subseteq Good
    BY <1>8, <1>9, CountUp
  <2> QED
    BY <2>1
<1>11. hTree # H!Broken
  <2>1. hTree[l] \in H!Version
    BY <1>7 DEF H!IInv, H!TypeOK
  <2>2. hTree[l] # -2
    BY <2>1 DEF H!Version, H!Edited, H!Patch
  <2> QED
    BY <1>7, <2>2 DEF H!Broken
<1> QED
  BY <1>1, <1>7, <1>10, <1>11 DEF H!IsIn

(* Begin, the turns, edits and interruptions keep the types of the tree and   *)
(* of the manifest's walk.                                                    *)
LEMMA StackTypes ==
  ASSUME H!IInv, [H!Next]_(H!vars)
  PROVE  H!TypeOK'
<1> USE StackBounds DEF H!IInv, H!TypeOK
<1>1. CASE H!Begin
  <2>1. H!Grouped \subseteq H!Patch
    BY GroupedFacts
  <2>2. hRuns' \in 0..PatchRuns
    BY <1>1 DEF H!Begin
  <2> QED
    BY <1>1, <2>1, <2>2 DEF H!Begin, H!Die
<1>2. CASE H!Turn
  <2>1. CASE UNCHANGED hTree
    <3>1. hNext' \in 1..(Patches + 1)
      BY <1>2 DEF H!Turn, H!Die
    <3> QED
      BY <1>2, <2>1, <3>1 DEF H!Turn, H!Die
  <2>2. CASE ~UNCHANGED hTree
    <3>1. hNext \in H!Patch /\ H!Applies(hNext, hTree) /\ hTree' = H!Apply(hNext, hTree)
          /\ hNext' = hNext + 1 /\ UNCHANGED <<hStage, hCause>>
      BY <1>2, <2>2 DEF H!Turn, H!Patch
    <3>2. hTree' \in [H!Line -> H!Version]
      BY <3>1 DEF H!Apply, H!Version
    <3>3. hNext' \in 1..(Patches + 1)
      BY <3>1 DEF H!Patch
    <3> QED
      BY <1>2, <3>1, <3>2, <3>3 DEF H!Turn
  <2> QED
    BY <2>1, <2>2
<1>3. CASE H!Stopped
  <2>1. hTree' \in [H!Line -> H!Version]
    <3>1. CASE UNCHANGED hTree
      BY <3>1
    <3>2. CASE ~UNCHANGED hTree
      <4>1. hNext \in H!Patch /\ H!Applies(hNext, hTree)
        BY <1>3, <3>2 DEF H!Stopped, H!Patch
      <4>2. PICK files \in SUBSET File :
              hTree' = [l \in H!Line |-> IF l[1] \in files THEN H!Apply(hNext, hTree)[l] ELSE hTree[l]]
        BY <1>3, <3>2 DEF H!Stopped
      <4>3. H!Apply(hNext, hTree) \in [H!Line -> H!Version]
        BY <4>1 DEF H!Apply, H!Version
      <4> QED
        BY <4>2, <4>3
    <3> QED
      BY <3>1, <3>2
  <2> QED
    BY <1>3, <2>1 DEF H!Stopped, H!Die
<1>4. CASE H!Finish
  BY <1>4 DEF H!Finish, H!Die
<1>5. CASE H!Edit
  <2>1. PICK l \in H!Line : \E v \in {H!Edited, 0} \cup {p \in H!Patch : l \in hTouches[p]} :
          hTree' = [hTree EXCEPT ![l] = v]
    BY <1>5 DEF H!Edit
  <2>2. hTree' \in [H!Line -> H!Version]
    BY <2>1 DEF H!Version
  <2>3. hEdits' \in 0..MaxEdits
    BY <1>5 DEF H!Edit
  <2> QED
    BY <1>5, <2>2, <2>3 DEF H!Edit
<1>6. CASE UNCHANGED H!vars
  BY <1>6 DEF H!vars
<1> QED
  BY <1>1, <1>2, <1>3, <1>4, <1>5, <1>6 DEF H!Next

(* A turn of the loop: what the patch rewrites holds nothing later, and what  *)
(* is still to come does not touch it.                                        *)
LEMMA TurnIsSound ==
  ASSUME H!IInv, H!Turn
  PROVE  H!LoopIsSound'
<1> USE StackBounds
<1>1. hStage = "applying" /\ hNext \in H!Patch /\ UNCHANGED <<hTouches, hStacked>>
      /\ hTouches \in [H!Patch -> SUBSET H!Line] /\ hTree \in [H!Line -> H!Version]
  BY DEF H!Turn, H!Patch, H!IInv, H!TypeOK
<1>2. \A p \in H!Patch : \A l \in hTouches[p] :
        /\ p \in hStacked \/ p < hNext => H!IsIn(p, l)
        /\ p \notin hStacked /\ p >= hNext => H!Applies(p, hTree) \/ H!Reverses(p, hTree)
  BY <1>1 DEF H!IInv, H!LoopIsSound
<1>3. CASE hStage' = "died"
  BY <1>3 DEF H!LoopIsSound
<1>4. CASE /\ hNext \notin hStacked /\ H!Applies(hNext, hTree)
           /\ hTree' = H!Apply(hNext, hTree) /\ hNext' = hNext + 1
  <2>1. hTree' = [l \in H!Line |-> IF l \in hTouches[hNext] THEN hNext ELSE hTree[l]]
    BY <1>4 DEF H!Apply
  <2>2. \A l \in hTouches[hNext] : hTree[l] = H!From(hNext, l) /\ hTree[l] < hNext /\ l \in H!Line
    <3> SUFFICES ASSUME NEW l \in hTouches[hNext]
                 PROVE  hTree[l] = H!From(hNext, l) /\ hTree[l] < hNext /\ l \in H!Line
      OBVIOUS
    <3>1. H!From(hNext, l) \in 0..(hNext - 1)
      BY <1>1, FromFacts DEF H!Patch
    <3> QED
      BY <1>1, <1>4, <3>1 DEF H!Applies, H!Patch
  <2> SUFFICES ASSUME NEW p \in H!Patch
               PROVE  /\ p \in hStacked \/ p < hNext + 1 => \A l \in hTouches[p] : H!IsIn(p, l)'
                      /\ p \notin hStacked /\ p >= hNext + 1 =>
                           H!Applies(p, hTree)' \/ H!Reverses(p, hTree)'
    BY <1>1, <1>4 DEF H!LoopIsSound, H!Patch
  <2>3. ASSUME p \in hStacked \/ p < hNext + 1, NEW l \in hTouches[p]
        PROVE  H!IsIn(p, l)'
    <3>1. CASE p = hNext
      BY <1>1, <2>1, <2>2, <3>1 DEF H!IsIn, H!Patch
    <3>2. CASE p # hNext
      <4>1. H!IsIn(p, l) /\ l \in H!Line
        BY <1>1, <1>2, <2>3, <3>2 DEF H!Patch
      <4>2. CASE l \in hTouches[hNext]
        BY <1>1, <2>1, <2>2, <4>1, <4>2 DEF H!IsIn, H!Patch
      <4>3. CASE l \notin hTouches[hNext]
        BY <1>1, <2>1, <4>1, <4>3 DEF H!IsIn
      <4> QED
        BY <4>2, <4>3
    <3> QED
      BY <3>1, <3>2
  <2>4. ASSUME p \notin hStacked, p >= hNext + 1
        PROVE  H!Applies(p, hTree)' \/ H!Reverses(p, hTree)'
    <3>1. \A l \in hTouches[p] : l \in H!Line /\ (H!Applies(p, hTree) \/ H!Reverses(p, hTree))
      BY <1>1, <1>2, <2>4 DEF H!Patch
    <3>2. \A l \in hTouches[p] : l \notin hTouches[hNext]
      <4> SUFFICES ASSUME NEW l \in hTouches[p], l \in hTouches[hNext]
                   PROVE  FALSE
        OBVIOUS
      <4>1. hNext <= H!From(p, l)
        BY <1>1, <2>4, FromFacts DEF H!Patch
      <4>2. hTree[l] = H!From(p, l) \/ hTree[l] = p
        BY <3>1 DEF H!Applies, H!Reverses
      <4>3. hTree[l] < hNext /\ H!From(p, l) \in Nat /\ p \in Nat /\ hNext \in Nat
        BY <1>1, <2>2, FromFacts DEF H!Patch
      <4> QED
        BY <2>4, <4>1, <4>2, <4>3
    <3>3. \A l \in hTouches[p] : hTree'[l] = hTree[l]
      BY <2>1, <3>1, <3>2
    <3>4. \A l : H!From(p, l)' = H!From(p, l)
      BY <1>1, FromStays
    <3>5. CASE H!Applies(p, hTree)
      BY <1>1, <3>3, <3>4, <3>5 DEF H!Applies
    <3>6. CASE H!Reverses(p, hTree)
      BY <1>1, <3>3, <3>6 DEF H!Reverses
    <3>7. H!Applies(p, hTree) \/ H!Reverses(p, hTree)
      BY <1>1, <2>4 DEF H!IInv, H!LoopIsSound, H!Patch
    <3> QED
      BY <3>5, <3>6, <3>7
  <2> QED
    BY <2>3, <2>4
<1>5. CASE /\ hNext \in hStacked \/ H!Reverses(hNext, hTree)
           /\ hNext' = hNext + 1 /\ UNCHANGED hTree
  <2>1. \A l \in hTouches[hNext] : H!IsIn(hNext, l)
    <3>1. CASE hNext \in hStacked
      BY <1>1, <1>2, <3>1
    <3>2. CASE H!Reverses(hNext, hTree)
      BY <1>1, <3>2 DEF H!Reverses, H!IsIn, H!Patch
    <3> QED
      BY <1>5, <3>1, <3>2
  <2>2. \A p \in H!Patch : p < hNext' <=> p < hNext \/ p = hNext
    BY <1>1, <1>5 DEF H!Patch
  <2>3. \A p \in H!Patch : p >= hNext' => p >= hNext
    BY <1>1, <1>5 DEF H!Patch
  <2>4. \A p, l : H!From(p, l)' = H!From(p, l)
    BY <1>1, FromStays
  <2>5. \A p, l : H!IsIn(p, l)' <=> H!IsIn(p, l)
    BY <1>1, <1>5 DEF H!IsIn
  <2>6. \A p : (H!Applies(p, hTree)' <=> H!Applies(p, hTree)) /\ (H!Reverses(p, hTree)' <=> H!Reverses(p, hTree))
    BY <1>1, <1>5, <2>4 DEF H!Applies, H!Reverses
  <2>7. \A p \in H!Patch :
          /\ p \in hStacked \/ p < hNext => \A l \in hTouches[p] : H!IsIn(p, l)
          /\ p \notin hStacked /\ p >= hNext => H!Applies(p, hTree) \/ H!Reverses(p, hTree)
    BY <1>1 DEF H!IInv, H!LoopIsSound
  <2> SUFFICES ASSUME NEW p \in H!Patch
               PROVE  /\ p \in hStacked \/ p < hNext' => \A l \in hTouches[p] : H!IsIn(p, l)
                      /\ p \notin hStacked /\ p >= hNext' => H!Applies(p, hTree) \/ H!Reverses(p, hTree)
    BY <1>1, <2>5, <2>6 DEF H!LoopIsSound, H!Patch
  <2> QED
    BY <2>1, <2>2, <2>3, <2>7
<1>6. CASE hNext \notin hStacked /\ ~H!Applies(hNext, hTree) /\ ~H!Reverses(hNext, hTree)
  BY <1>1, <1>6 DEF H!IInv, H!LoopIsSound, H!Patch
<1> QED
  BY <1>3, <1>4, <1>5, <1>6 DEF H!Turn, H!Die

(* What the loop relies on, begun and kept.                                   *)
LEMMA LoopIsKept ==
  ASSUME H!IInv, [H!Next]_(H!vars)
  PROVE  H!LoopIsSound'
<1>1. CASE H!Begin
  <2>1. CASE hStage' = "died"
    BY <2>1 DEF H!LoopIsSound
  <2>2. CASE /\ H!Replays(H!Grouped) /\ hStacked' = H!Grouped /\ hNext' = 1
             /\ UNCHANGED <<hTouches, hTree>>
    <3>1. \A p \in H!Grouped : \A l \in hTouches[p] : H!IsIn(p, l)
      BY <2>2, GroupedFacts, ReplayedIsIn
    <3>2. \A p \in H!Patch : p \notin H!Grouped => H!Applies(p, hTree) \/ H!Reverses(p, hTree)
      BY GroupedFacts DEF H!Overlapping
    <3>3. \A p, l : H!From(p, l)' = H!From(p, l)
      BY <2>2, FromStays
    <3>4. \A p, l : H!IsIn(p, l)' <=> H!IsIn(p, l)
      BY <2>2 DEF H!IsIn
    <3>5. \A p : (H!Applies(p, hTree)' <=> H!Applies(p, hTree)) /\ (H!Reverses(p, hTree)' <=> H!Reverses(p, hTree))
      BY <2>2, <3>3 DEF H!Applies, H!Reverses
    <3>6. \A p \in H!Patch : ~(p < 1)
      BY StackBounds DEF H!Patch
    <3> QED
      BY <2>2, <3>1, <3>2, <3>4, <3>5, <3>6 DEF H!LoopIsSound, H!Patch
  <2> QED
    BY <1>1, <2>1, <2>2 DEF H!Begin, H!Die
<1>2. CASE H!Turn
  BY <1>2, TurnIsSound
<1>3. CASE H!Stopped \/ H!Finish \/ H!Edit
  BY <1>3 DEF H!Stopped, H!Finish, H!Edit, H!Die, H!LoopIsSound
<1>4. CASE UNCHANGED H!vars
  <2>1. UNCHANGED <<hTouches, hTree, hStage, hNext, hStacked>>
    BY <1>4 DEF H!vars
  <2>2. \A p, l : H!From(p, l)' = H!From(p, l)
    BY <2>1, FromStays
  <2> QED
    BY <2>1, <2>2 DEF H!IInv, H!LoopIsSound, H!IsIn, H!Applies, H!Reverses
<1> QED
  BY <1>1, <1>2, <1>3, <1>4 DEF H!Next

(* What has passed every patch holds the last one everywhere.                 *)
LEMMA PatchingIsKept ==
  ASSUME H!IInv, [H!Next]_(H!vars)
  PROVE  H!PatchingIsWhole'
<1> USE DEF H!IInv
<1>1. CASE H!Begin
  BY <1>1 DEF H!Begin, H!Die, H!PatchingIsWhole
<1>2. CASE H!Turn
  <2>1. hNext \in H!Patch /\ hStage = "applying"
    BY <1>2, StackBounds DEF H!Turn, H!Patch, H!TypeOK
  <2>2. hNext \in hStacked \/ H!Applies(hNext, hTree) \/ H!Reverses(hNext, hTree)
    BY <2>1 DEF H!LoopIsSound, H!Patch
  <2> QED
    BY <1>2, <2>1, <2>2 DEF H!Turn, H!Die, H!PatchingIsWhole
<1>3. CASE H!Stopped
  BY <1>3 DEF H!Stopped, H!Die, H!PatchingIsWhole
<1>4. CASE H!Finish
  <2>1. UNCHANGED <<hTouches, hTree>> /\ hStage = "applying" /\ hNext = Patches + 1
    BY <1>4 DEF H!Finish
  <2>2. hCause' # "mismatch"
    BY <1>4 DEF H!Finish, H!Die, H!PatchingIsWhole
  <2>3. \A p, l : H!From(p, l)' = H!From(p, l)
    BY <2>1, FromStays
  <2>4. ASSUME NEW p \in H!Patch, NEW l \in hTouches[p]
        PROVE  hTree[l] = H!From(Patches + 1, l)
    <3>1. \A q \in H!Patch : l \in hTouches[q] => H!IsIn(q, l)
      BY <2>1, StackBounds DEF H!LoopIsSound, H!Patch
    <3>2. hTree[l] \in H!Patch /\ l \in hTouches[hTree[l]]
      BY <3>1, <2>4 DEF H!IsIn
    <3> DEFINE f == H!From(Patches + 1, l)
    <3>3. /\ f \in 0..Patches /\ (f # 0 => l \in hTouches[f])
          /\ \A q \in 1..Patches : l \in hTouches[q] => q <= f
      <4>1. Patches + 1 \in 1..(Patches + 1) /\ (Patches + 1) - 1 = Patches
        BY StackBounds
      <4> QED
        BY <4>1, FromFacts
    <3> HIDE DEF f
    <3>4. hTree[l] <= f /\ p <= f
      BY <2>4, <3>2, <3>3 DEF H!Patch
    <3>5. f \in H!Patch
      BY <3>2, <3>3, <3>4, StackBounds DEF H!Patch
    <3>6. hTree[l] >= f
      BY <3>1, <3>3, <3>5, StackBounds DEF H!IsIn, H!Patch
    <3>7. hTree[l] = f
      BY <3>2, <3>4, <3>5, <3>6, StackBounds DEF H!Patch
    <3> QED
      BY <3>7 DEF f
  <2>5. \A l : H!Last(l)' = H!From(Patches + 1, l)
    BY <2>3 DEF H!Last
  <2> QED
    BY <2>1, <2>2, <2>4, <2>5 DEF H!PatchingIsWhole
<1>5. CASE H!Edit
  BY <1>5 DEF H!Edit, H!PatchingIsWhole
<1>6. CASE UNCHANGED H!vars
  <2>1. UNCHANGED <<hTouches, hTree, hStage, hCause>>
    BY <1>6 DEF H!vars
  <2>2. \A p, l : H!From(p, l)' = H!From(p, l)
    BY <2>1, FromStays
  <2> QED
    BY <2>1, <2>2 DEF H!PatchingIsWhole, H!Last
<1> QED
  BY <1>1, <1>2, <1>3, <1>4, <1>5, <1>6 DEF H!Next

(* The invariant of the script that applies the patches.                      *)
LEMMA StackInductive == H!Spec => []H!IInv
<1>1. H!Init => H!IInv
  <2> SUFFICES ASSUME H!Init
               PROVE  H!IInv
    OBVIOUS
  <2>1. H!Patched \in [H!Line -> H!Version]
    <3> SUFFICES ASSUME NEW l \in H!Line
                 PROVE  H!From(Patches + 1, l) \in H!Version
      BY DEF H!Patched, H!Last
    <3>1. Patches + 1 \in 1..(Patches + 1) /\ (Patches + 1) - 1 = Patches
      BY StackBounds
    <3>2. H!From(Patches + 1, l) \in 0..Patches
      BY <3>1, FromFacts
    <3> QED
      BY <3>2, StackBounds DEF H!Version, H!Patch
  <2>2. H!Upstream \in [H!Line -> H!Version]
    BY DEF H!Upstream, H!Version
  <2>3. H!TypeOK
    BY <2>1, <2>2, StackBounds DEF H!Init, H!TypeOK
  <2> QED
    BY <2>3 DEF H!Init, H!IInv, H!LoopIsSound, H!PatchingIsWhole
<1>2. H!IInv /\ [H!Next]_(H!vars) => H!IInv'
  <2> SUFFICES ASSUME H!IInv, [H!Next]_(H!vars)
               PROVE  H!IInv'
    OBVIOUS
  <2>1. UNCHANGED hTouches
    BY DEF H!Next, H!vars, H!Begin, H!Turn, H!Stopped, H!Finish, H!Edit
  <2>2. \A p \in H!Patch : hTouches'[p] # {}
    BY <2>1 DEF H!IInv
  <2> QED
    BY <2>2, StackTypes, LoopIsKept, PatchingIsKept DEF H!IInv, H!Patch
<1> QED
  BY <1>1, <1>2, PTL DEF H!Spec

(* Whatever the patches touch and whatever the tree was, a run of the patch   *)
(* script that ends well leaves every line as the last patch made it, and its *)
(* loop meets no patch that fits neither way.                                 *)
THEOREM PatchingHolds == H!Spec => []H!PatchingIsWhole
<1>1. H!IInv => H!PatchingIsWhole
  BY DEF H!IInv
<1> QED
  BY <1>1, StackInductive, PTL

-----------------------------------------------------------------------------
(* The shell's life, for any number of shells, of preflights and of harness   *)
(* processes. S!IInv is inductive; there is a lemma for each of its parts.    *)

(* The bounds are numbers, and the counters may begin.                        *)
LEMMA ShellBounds ==
  /\ Attempts \in Nat /\ 0 \in 0..Attempts
  /\ MaxDsh \in Nat /\ 0 \in 0..MaxDsh
BY BoundsAssumption

(* What is born was launched within the bound.                                *)
LEMMA ShellLaunched == S!TypeOK => 1..sBorn \subseteq 1..MaxDsh
BY ShellBounds DEF S!TypeOK

(* No shell is started; the file may be there, torn or of a dead shell.       *)
LEMMA ShellInit == S!Init => S!IInv
<1> SUFFICES ASSUME S!Init
             PROVE  S!IInv
  OBVIOUS
<1> USE DEF S!Init
<1>1. 0 \in 0..Attempts /\ 0 \in 0..MaxDsh
  BY ShellBounds
<1>2. S!TypeOK
  BY <1>1 DEF S!TypeOK, S!Locking
<1>3. S!OneOwner /\ S!OneHarness /\ S!AllNamed /\ S!QuitLeavesNothing
  BY DEF S!OneOwner, S!Owner, S!OneHarness, S!AllNamed, S!QuitLeavesNothing
<1>4. S!NamedLater
  BY NamesAssumption DEF S!NamedLater
<1> QED
  BY <1>2, <1>3, <1>4 DEF S!IInv

(* Neither a step of the startup chain, nor of a quit, nor of another shell   *)
(* leaves the types.                                                          *)
LEMMA ShellTypes ==
  ASSUME S!TypeOK, [S!Next]_(S!vars)
  PROVE  S!TypeOK'
<1> USE ShellBounds, ShellLaunched DEF S!TypeOK, S!Locking, S!Closing, S!locks,
        S!windows, S!harness, S!leaving, S!past
<1>1. ASSUME NEW s \in Shells, S!Acquire(s)
      PROVE  S!TypeOK'
  <2>1. CASE S!TestLock(s)
    BY <2>1 DEF S!TestLock, S!Step
  <2>2. CASE S!ReadLock(s)
    <3> USE <2>2 DEF S!ReadLock, S!Refused, S!Step
    <3>1. UNCHANGED <<sLock, S!past>>
      OBVIOUS
    <3>2. sStage' \in [Shells -> S!Locking \cup {"owner", "refused", "gone"}]
      OBVIOUS
    <3> QED
      BY <3>1, <3>2
  <2>3. CASE S!Unlink(s)
    BY <2>3 DEF S!Unlink, S!Step
  <2>4. CASE S!WriteLock(s)
    BY <2>4 DEF S!WriteLock, S!Step
  <2>5. CASE S!WriteFails(s)
    BY <2>5 DEF S!WriteFails, S!Step, S!Refused
  <2>6. CASE S!FillLock(s)
    BY <2>6 DEF S!FillLock, S!Step
  <2>7. CASE S!Claim(s)
    <3>1. CASE S!Refused(s)
      BY <3>1 DEF S!Refused, S!Step
    <3>2. CASE S!MayClaim /\ ~S!Refused(s)
      BY <2>7, <3>2 DEF S!Claim, S!Step
    <3> QED
      BY <2>7, <3>1, <3>2 DEF S!Claim
  <2> QED
    BY <1>1, <2>1, <2>2, <2>3, <2>4, <2>5, <2>6, <2>7 DEF S!Acquire
<1>2. ASSUME NEW s \in Shells, S!QuitAgain(s)
      PROVE  S!TypeOK'
  BY <1>2 DEF S!QuitAgain, S!Exit, S!Step
<1>3. ASSUME NEW s \in Shells, S!EndsQuit(s)
      PROVE  S!TypeOK'
  <2>1. CASE S!Waited(s)
    BY <2>1 DEF S!Waited, S!Finish, S!Release, S!GivesUp, S!Exit, S!Step
  <2>2. CASE S!Timeout(s)
    BY <2>2 DEF S!Timeout, S!Finish, S!Release, S!GivesUp, S!Exit, S!Step
  <2> QED
    BY <1>3, <2>1, <2>2 DEF S!EndsQuit
<1>4. ASSUME NEW s \in Shells, S!PreflightFails(s)
      PROVE  S!TypeOK'
  BY <1>4 DEF S!PreflightFails, S!Exit, S!Step
<1>5. ASSUME NEW s \in Shells, S!Crash(s)
      PROVE  S!TypeOK'
  <2>1. CASE S!Owner(s)
    BY <1>5, <2>1 DEF S!Crash, S!Exit, S!Step
  <2>2. CASE ~S!Owner(s)
    <3> USE <1>5, <2>2 DEF S!Crash, S!Step
    <3>1. UNCHANGED <<sLock, S!past>>
      OBVIOUS
    <3>2. sStage' \in [Shells -> S!Locking \cup {"owner", "refused", "gone"}]
      OBVIOUS
    <3> QED
      BY <3>1, <3>2
  <2> QED
    BY <1>5, <2>1, <2>2
<1>6. CASE S!Leave
  <2>1. CASE S!AskToQuit
    BY <2>1 DEF S!AskToQuit, S!BeforeQuit
  <2>2. CASE S!CloseBrowser
    BY <2>2 DEF S!CloseBrowser
  <2>3. CASE S!CloseBridge
    <3>1. sQuit' = "harness" /\ sBridge' = FALSE
      BY <2>3 DEF S!CloseBridge
    <3>2. UNCHANGED <<sLock, sStage, sPc, sTries, sSplash, sMain, sStatus, sDsh, sHeld,
                      sBorn, sNamed, sLate, sLeft>>
      BY <2>3 DEF S!CloseBridge
    <3>3. sQuit' \in {"no"} \cup S!Closing /\ sBridge' \in BOOLEAN
      BY <3>1
    <3>4. sStage' \in [Shells -> S!Locking \cup {"owner", "refused", "gone"}]
      BY <3>2
    <3> QED
      BY <3>2, <3>3, <3>4
  <2>4. CASE S!StopHarness
    BY <2>4 DEF S!StopHarness
  <2>5. CASE S!StopPhoenix
    BY <2>5 DEF S!StopPhoenix
  <2>6. CASE S!CloseLogger
    BY <2>6 DEF S!CloseLogger
  <2> QED
    BY <1>6, <2>1, <2>2, <2>3, <2>4, <2>5, <2>6 DEF S!Leave
<1>7. CASE S!Chain
  <2>1. CASE S!RuntimeReady
    BY <2>1 DEF S!RuntimeReady, S!Go
  <2>2. CASE S!RuntimeFails
    BY <2>2 DEF S!RuntimeFails, S!Go
  <2>3. CASE S!PreflightPasses
    BY <2>3 DEF S!PreflightPasses, S!Go
  <2>4. CASE S!PreflightRetries
    BY <2>4 DEF S!PreflightRetries, S!Go
  <2>5. CASE S!OpenBrowser
    BY <2>5 DEF S!OpenBrowser, S!Go
  <2>6. CASE S!OpenBridge
    BY <2>6 DEF S!OpenBridge, S!Go
  <2>7. CASE S!Bootstrap
    BY <2>7 DEF S!Bootstrap, S!Go
  <2>8. CASE S!BootstrapThrows
    BY <2>8 DEF S!BootstrapThrows, S!Go
  <2>9. CASE S!RuntimeStart
    BY <2>9 DEF S!RuntimeStart, S!Go, S!LaunchDsh
  <2>10. CASE S!RuntimeStartThrows
    BY <2>10 DEF S!RuntimeStartThrows, S!Go
  <2> QED
    BY <1>7, <2>1, <2>2, <2>3, <2>4, <2>5, <2>6, <2>7, <2>8, <2>9, <2>10 DEF
       S!Chain
<1>8. CASE S!Supervise
  <2>1. CASE S!Ready
    BY <2>1 DEF S!Ready
  <2>2. CASE S!Dies
    <3>1. /\ UNCHANGED <<sLock, sStage, sPc, sTries, sMain, sBridge, sBorn, sQuit, sNamed, sLate, sLeft>>
          /\ sDsh' = sDsh \ {sHeld} /\ sHeld' = 0
      BY <2>2 DEF S!Dies
    <3>2. sStatus' \in {"backoff", "stuck"} /\ sSplash' \in BOOLEAN
      BY <2>2 DEF S!Dies
    <3> QED
      BY <3>1, <3>2
  <2>3. CASE S!Relaunch
    BY <2>3 DEF S!Relaunch, S!LaunchDsh
  <2>4. CASE S!UpdateStops
    BY <2>4 DEF S!UpdateStops
  <2> QED
    BY <1>8, <2>1, <2>2, <2>3, <2>4 DEF S!Supervise
<1>9. CASE S!RetryDownload
  BY <1>9 DEF S!RetryDownload, S!Go
<1>10. CASE S!CloseDialog
  BY <1>10 DEF S!CloseDialog, S!Go, S!BeforeQuit
<1>11. CASE S!Watchdog
  BY <1>11 DEF S!Watchdog
<1>12. CASE UNCHANGED S!vars
  BY <1>12 DEF S!vars
<1> QED
  BY <1>1, <1>2, <1>3, <1>4, <1>5, <1>6, <1>7, <1>8, <1>9, <1>10, <1>11, <1>12 DEF
     S!Next

(* Past both locks is one shell: the claim of Electron's is refused to a      *)
(* second, whatever the file says.                                            *)
LEMMA ShellOwner ==
  ASSUME S!IInv, [S!Next]_(S!vars)
  PROVE  S!OneOwner'
<1> USE DEF S!IInv, S!OneOwner, S!Owner, S!TypeOK, S!locks, S!windows,
        S!harness, S!leaving, S!past
<1>1. ASSUME NEW s \in Shells, S!Acquire(s)
      PROVE  S!OneOwner'
  <2>1. CASE S!TestLock(s)
    BY <2>1 DEF S!TestLock, S!Step
  <2>2. CASE S!ReadLock(s)
    BY <2>2 DEF S!ReadLock, S!Step, S!Refused, S!NamesLive, S!Alive
  <2>3. CASE S!Unlink(s)
    BY <2>3 DEF S!Unlink, S!Step
  <2>4. CASE S!WriteLock(s)
    BY <2>4 DEF S!WriteLock, S!Step
  <2>5. CASE S!WriteFails(s)
    BY <2>5 DEF S!WriteFails, S!Step, S!Refused
  <2>6. CASE S!FillLock(s)
    BY <2>6 DEF S!FillLock, S!Step
  <2>7. CASE S!Claim(s)
    BY <2>7 DEF S!Claim, S!Step, S!Refused, S!MayClaim
  <2> QED
    BY <1>1, <2>1, <2>2, <2>3, <2>4, <2>5, <2>6, <2>7 DEF S!Acquire
<1>2. ASSUME NEW s \in Shells, S!QuitAgain(s)
      PROVE  S!OneOwner'
  BY <1>2 DEF S!QuitAgain, S!Exit, S!Step
<1>3. ASSUME NEW s \in Shells, S!EndsQuit(s)
      PROVE  S!OneOwner'
  <2>1. CASE S!Waited(s)
    BY <2>1 DEF S!Waited, S!Finish, S!Release, S!GivesUp, S!Exit, S!Step
  <2>2. CASE S!Timeout(s)
    BY <2>2 DEF S!Timeout, S!Finish, S!Release, S!GivesUp, S!Exit, S!Step
  <2> QED
    BY <1>3, <2>1, <2>2 DEF S!EndsQuit
<1>4. ASSUME NEW s \in Shells, S!PreflightFails(s)
      PROVE  S!OneOwner'
  BY <1>4 DEF S!PreflightFails, S!Exit, S!Step
<1>5. ASSUME NEW s \in Shells, S!Crash(s)
      PROVE  S!OneOwner'
  <2>1. CASE S!Owner(s)
    BY <1>5, <2>1 DEF S!Crash, S!Exit, S!Step
  <2>2. CASE ~S!Owner(s)
    BY <1>5, <2>2 DEF S!Crash, S!Step
  <2> QED
    BY <1>5, <2>1, <2>2
<1>6. CASE S!Leave
  <2>1. CASE S!AskToQuit
    BY <2>1 DEF S!AskToQuit, S!BeforeQuit
  <2>2. CASE S!CloseBrowser
    BY <2>2 DEF S!CloseBrowser
  <2>3. CASE S!CloseBridge
    BY <2>3 DEF S!CloseBridge
  <2>4. CASE S!StopHarness
    BY <2>4 DEF S!StopHarness
  <2>5. CASE S!StopPhoenix
    BY <2>5 DEF S!StopPhoenix
  <2>6. CASE S!CloseLogger
    BY <2>6 DEF S!CloseLogger
  <2> QED
    BY <1>6, <2>1, <2>2, <2>3, <2>4, <2>5, <2>6 DEF S!Leave
<1>7. CASE S!Chain
  <2>1. CASE S!RuntimeReady
    BY <2>1 DEF S!RuntimeReady, S!Go
  <2>2. CASE S!RuntimeFails
    BY <2>2 DEF S!RuntimeFails, S!Go
  <2>3. CASE S!PreflightPasses
    BY <2>3 DEF S!PreflightPasses, S!Go
  <2>4. CASE S!PreflightRetries
    BY <2>4 DEF S!PreflightRetries, S!Go
  <2>5. CASE S!OpenBrowser
    BY <2>5 DEF S!OpenBrowser, S!Go
  <2>6. CASE S!OpenBridge
    BY <2>6 DEF S!OpenBridge, S!Go
  <2>7. CASE S!Bootstrap
    BY <2>7 DEF S!Bootstrap, S!Go
  <2>8. CASE S!BootstrapThrows
    BY <2>8 DEF S!BootstrapThrows, S!Go
  <2>9. CASE S!RuntimeStart
    BY <2>9 DEF S!RuntimeStart, S!Go, S!LaunchDsh
  <2>10. CASE S!RuntimeStartThrows
    BY <2>10 DEF S!RuntimeStartThrows, S!Go
  <2> QED
    BY <1>7, <2>1, <2>2, <2>3, <2>4, <2>5, <2>6, <2>7, <2>8, <2>9, <2>10 DEF
       S!Chain
<1>8. CASE S!Supervise
  <2>1. CASE S!Ready
    BY <2>1 DEF S!Ready
  <2>2. CASE S!Dies
    BY <2>2 DEF S!Dies
  <2>3. CASE S!Relaunch
    BY <2>3 DEF S!Relaunch, S!LaunchDsh
  <2>4. CASE S!UpdateStops
    BY <2>4 DEF S!UpdateStops
  <2> QED
    BY <1>8, <2>1, <2>2, <2>3, <2>4 DEF S!Supervise
<1>9. CASE S!RetryDownload
  BY <1>9 DEF S!RetryDownload, S!Go
<1>10. CASE S!CloseDialog
  BY <1>10 DEF S!CloseDialog, S!Go, S!BeforeQuit
<1>11. CASE S!Watchdog
  BY <1>11 DEF S!Watchdog
<1>12. CASE UNCHANGED S!vars
  BY <1>12 DEF S!vars
<1> QED
  BY <1>1, <1>2, <1>3, <1>4, <1>5, <1>6, <1>7, <1>8, <1>9, <1>10, <1>11, <1>12 DEF
     S!Next

(* The supervisor launches another harness only when it holds none.           *)
LEMMA ShellHarness ==
  ASSUME S!IInv, [S!Next]_(S!vars)
  PROVE  S!OneHarness'
<1> USE DEF S!IInv, S!OneHarness, S!TypeOK, S!locks, S!windows, S!harness,
        S!leaving, S!past
<1>1. ASSUME NEW s \in Shells, S!Acquire(s)
      PROVE  S!OneHarness'
  <2>1. CASE S!TestLock(s)
    BY <2>1 DEF S!TestLock, S!Step
  <2>2. CASE S!ReadLock(s)
    BY <2>2 DEF S!ReadLock, S!Step, S!Refused, S!NamesLive, S!Alive
  <2>3. CASE S!Unlink(s)
    BY <2>3 DEF S!Unlink, S!Step
  <2>4. CASE S!WriteLock(s)
    BY <2>4 DEF S!WriteLock, S!Step
  <2>5. CASE S!WriteFails(s)
    BY <2>5 DEF S!WriteFails, S!Step, S!Refused
  <2>6. CASE S!FillLock(s)
    BY <2>6 DEF S!FillLock, S!Step
  <2>7. CASE S!Claim(s)
    <3>1. CASE S!Refused(s)
      BY <3>1 DEF S!Refused
    <3>2. CASE S!MayClaim /\ ~S!Refused(s)
      <4>1. sPc = "off"
        BY <3>2 DEF S!MayClaim, S!OneOwner
      <4> QED
        BY <2>7, <3>2, <4>1 DEF S!Claim
    <3> QED
      BY <2>7, <3>1, <3>2 DEF S!Claim
  <2> QED
    BY <1>1, <2>1, <2>2, <2>3, <2>4, <2>5, <2>6, <2>7 DEF S!Acquire
<1>2. ASSUME NEW s \in Shells, S!QuitAgain(s)
      PROVE  S!OneHarness'
  BY <1>2 DEF S!QuitAgain, S!Exit, S!Step
<1>3. ASSUME NEW s \in Shells, S!EndsQuit(s)
      PROVE  S!OneHarness'
  <2>1. CASE S!Waited(s)
    BY <2>1 DEF S!Waited, S!Finish, S!Release, S!GivesUp, S!Exit, S!Step
  <2>2. CASE S!Timeout(s)
    BY <2>2 DEF S!Timeout, S!Finish, S!Release, S!GivesUp, S!Exit, S!Step
  <2> QED
    BY <1>3, <2>1, <2>2 DEF S!EndsQuit
<1>4. ASSUME NEW s \in Shells, S!PreflightFails(s)
      PROVE  S!OneHarness'
  BY <1>4 DEF S!PreflightFails, S!Exit, S!Step
<1>5. ASSUME NEW s \in Shells, S!Crash(s)
      PROVE  S!OneHarness'
  <2>1. CASE S!Owner(s)
    BY <1>5, <2>1 DEF S!Crash, S!Exit, S!Step
  <2>2. CASE ~S!Owner(s)
    BY <1>5, <2>2 DEF S!Crash, S!Step
  <2> QED
    BY <1>5, <2>1, <2>2
<1>6. CASE S!Leave
  <2>1. CASE S!AskToQuit
    BY <2>1 DEF S!AskToQuit, S!BeforeQuit
  <2>2. CASE S!CloseBrowser
    BY <2>2 DEF S!CloseBrowser
  <2>3. CASE S!CloseBridge
    BY <2>3 DEF S!CloseBridge
  <2>4. CASE S!StopHarness
    BY <2>4 DEF S!StopHarness
  <2>5. CASE S!StopPhoenix
    BY <2>5 DEF S!StopPhoenix
  <2>6. CASE S!CloseLogger
    BY <2>6 DEF S!CloseLogger
  <2> QED
    BY <1>6, <2>1, <2>2, <2>3, <2>4, <2>5, <2>6 DEF S!Leave
<1>7. CASE S!Chain
  <2>1. CASE S!RuntimeReady
    BY <2>1 DEF S!RuntimeReady, S!Go
  <2>2. CASE S!RuntimeFails
    BY <2>2 DEF S!RuntimeFails, S!Go
  <2>3. CASE S!PreflightPasses
    BY <2>3 DEF S!PreflightPasses, S!Go
  <2>4. CASE S!PreflightRetries
    BY <2>4 DEF S!PreflightRetries, S!Go
  <2>5. CASE S!OpenBrowser
    BY <2>5 DEF S!OpenBrowser, S!Go
  <2>6. CASE S!OpenBridge
    BY <2>6 DEF S!OpenBridge, S!Go
  <2>7. CASE S!Bootstrap
    BY <2>7 DEF S!Bootstrap, S!Go
  <2>8. CASE S!BootstrapThrows
    BY <2>8 DEF S!BootstrapThrows, S!Go
  <2>9. CASE S!RuntimeStart
    BY <2>9 DEF S!RuntimeStart, S!Go, S!LaunchDsh
  <2>10. CASE S!RuntimeStartThrows
    BY <2>10 DEF S!RuntimeStartThrows, S!Go
  <2> QED
    BY <1>7, <2>1, <2>2, <2>3, <2>4, <2>5, <2>6, <2>7, <2>8, <2>9, <2>10 DEF
       S!Chain
<1>8. CASE S!Supervise
  <2>1. CASE S!Ready
    BY <2>1 DEF S!Ready
  <2>2. CASE S!Dies
    BY <2>2 DEF S!Dies
  <2>3. CASE S!Relaunch
    BY <2>3 DEF S!Relaunch, S!LaunchDsh
  <2>4. CASE S!UpdateStops
    BY <2>4 DEF S!UpdateStops
  <2> QED
    BY <1>8, <2>1, <2>2, <2>3, <2>4 DEF S!Supervise
<1>9. CASE S!RetryDownload
  BY <1>9 DEF S!RetryDownload, S!Go
<1>10. CASE S!CloseDialog
  BY <1>10 DEF S!CloseDialog, S!Go, S!BeforeQuit
<1>11. CASE S!Watchdog
  BY <1>11 DEF S!Watchdog
<1>12. CASE UNCHANGED S!vars
  BY <1>12 DEF S!vars
<1> QED
  BY <1>1, <1>2, <1>3, <1>4, <1>5, <1>6, <1>7, <1>8, <1>9, <1>10, <1>11, <1>12 DEF
     S!Next

(* What runs during a quit was collected by before-quit or launched under     *)
(* it.                                                                        *)
LEMMA ShellNamed ==
  ASSUME S!IInv, [S!Next]_(S!vars)
  PROVE  S!AllNamed'
<1> USE DEF S!IInv, S!AllNamed, S!OneHarness, S!TypeOK, S!Closing, S!locks,
        S!windows, S!harness, S!leaving, S!past
<1>1. ASSUME NEW s \in Shells, S!Acquire(s)
      PROVE  S!AllNamed'
  <2>1. CASE S!TestLock(s)
    BY <2>1 DEF S!TestLock, S!Step
  <2>2. CASE S!ReadLock(s)
    BY <2>2 DEF S!ReadLock, S!Step, S!Refused, S!NamesLive, S!Alive
  <2>3. CASE S!Unlink(s)
    BY <2>3 DEF S!Unlink, S!Step
  <2>4. CASE S!WriteLock(s)
    BY <2>4 DEF S!WriteLock, S!Step
  <2>5. CASE S!WriteFails(s)
    BY <2>5 DEF S!WriteFails, S!Step, S!Refused
  <2>6. CASE S!FillLock(s)
    BY <2>6 DEF S!FillLock, S!Step
  <2>7. CASE S!Claim(s)
    BY <2>7 DEF S!Claim, S!Step, S!Refused
  <2> QED
    BY <1>1, <2>1, <2>2, <2>3, <2>4, <2>5, <2>6, <2>7 DEF S!Acquire
<1>2. ASSUME NEW s \in Shells, S!QuitAgain(s)
      PROVE  S!AllNamed'
  BY <1>2 DEF S!QuitAgain, S!Exit, S!Step
<1>3. ASSUME NEW s \in Shells, S!EndsQuit(s)
      PROVE  S!AllNamed'
  <2>1. CASE S!Waited(s)
    BY <2>1 DEF S!Waited, S!Finish, S!Release, S!GivesUp, S!Exit, S!Step
  <2>2. CASE S!Timeout(s)
    BY <2>2 DEF S!Timeout, S!Finish, S!Release, S!GivesUp, S!Exit, S!Step
  <2> QED
    BY <1>3, <2>1, <2>2 DEF S!EndsQuit
<1>4. ASSUME NEW s \in Shells, S!PreflightFails(s)
      PROVE  S!AllNamed'
  BY <1>4 DEF S!PreflightFails, S!Exit, S!Step
<1>5. ASSUME NEW s \in Shells, S!Crash(s)
      PROVE  S!AllNamed'
  <2>1. CASE S!Owner(s)
    BY <1>5, <2>1 DEF S!Crash, S!Exit, S!Step
  <2>2. CASE ~S!Owner(s)
    BY <1>5, <2>2 DEF S!Crash, S!Step
  <2> QED
    BY <1>5, <2>1, <2>2
<1>6. CASE S!Leave
  <2>1. CASE S!AskToQuit
    BY <2>1 DEF S!AskToQuit, S!BeforeQuit
  <2>2. CASE S!CloseBrowser
    BY <2>2 DEF S!CloseBrowser
  <2>3. CASE S!CloseBridge
    BY <2>3 DEF S!CloseBridge
  <2>4. CASE S!StopHarness
    BY <2>4 DEF S!StopHarness
  <2>5. CASE S!StopPhoenix
    BY <2>5 DEF S!StopPhoenix
  <2>6. CASE S!CloseLogger
    BY <2>6 DEF S!CloseLogger
  <2> QED
    BY <1>6, <2>1, <2>2, <2>3, <2>4, <2>5, <2>6 DEF S!Leave
<1>7. CASE S!Chain
  <2>1. CASE S!RuntimeReady
    BY <2>1 DEF S!RuntimeReady, S!Go
  <2>2. CASE S!RuntimeFails
    BY <2>2 DEF S!RuntimeFails, S!Go
  <2>3. CASE S!PreflightPasses
    BY <2>3 DEF S!PreflightPasses, S!Go
  <2>4. CASE S!PreflightRetries
    BY <2>4 DEF S!PreflightRetries, S!Go
  <2>5. CASE S!OpenBrowser
    BY <2>5 DEF S!OpenBrowser, S!Go
  <2>6. CASE S!OpenBridge
    BY <2>6 DEF S!OpenBridge, S!Go
  <2>7. CASE S!Bootstrap
    BY <2>7 DEF S!Bootstrap, S!Go
  <2>8. CASE S!BootstrapThrows
    BY <2>8 DEF S!BootstrapThrows, S!Go
  <2>9. CASE S!RuntimeStart
    BY <2>9 DEF S!RuntimeStart, S!Go, S!LaunchDsh
  <2>10. CASE S!RuntimeStartThrows
    BY <2>10 DEF S!RuntimeStartThrows, S!Go
  <2> QED
    BY <1>7, <2>1, <2>2, <2>3, <2>4, <2>5, <2>6, <2>7, <2>8, <2>9, <2>10 DEF
       S!Chain
<1>8. CASE S!Supervise
  <2>1. CASE S!Ready
    BY <2>1 DEF S!Ready
  <2>2. CASE S!Dies
    BY <2>2 DEF S!Dies
  <2>3. CASE S!Relaunch
    BY <2>3 DEF S!Relaunch, S!LaunchDsh
  <2>4. CASE S!UpdateStops
    BY <2>4 DEF S!UpdateStops
  <2> QED
    BY <1>8, <2>1, <2>2, <2>3, <2>4 DEF S!Supervise
<1>9. CASE S!RetryDownload
  BY <1>9 DEF S!RetryDownload, S!Go
<1>10. CASE S!CloseDialog
  BY <1>10 DEF S!CloseDialog, S!Go, S!BeforeQuit
<1>11. CASE S!Watchdog
  BY <1>11 DEF S!Watchdog
<1>12. CASE UNCHANGED S!vars
  BY <1>12 DEF S!vars
<1> QED
  BY <1>1, <1>2, <1>3, <1>4, <1>5, <1>6, <1>7, <1>8, <1>9, <1>10, <1>11, <1>12 DEF
     S!Next

(* The end of a quit stops or kills whatever it named.                        *)
LEMMA ShellQuits ==
  ASSUME S!IInv, [S!Next]_(S!vars)
  PROVE  S!QuitLeavesNothing'
<1> USE DEF S!IInv, S!AllNamed, S!OneHarness, S!QuitLeavesNothing, S!Closing,
        S!TypeOK, S!locks, S!windows, S!harness, S!leaving, S!past
<1>1. ASSUME NEW s \in Shells, S!Acquire(s)
      PROVE  S!QuitLeavesNothing'
  <2>1. CASE S!TestLock(s)
    BY <2>1 DEF S!TestLock, S!Step
  <2>2. CASE S!ReadLock(s)
    BY <2>2 DEF S!ReadLock, S!Step, S!Refused, S!NamesLive, S!Alive
  <2>3. CASE S!Unlink(s)
    BY <2>3 DEF S!Unlink, S!Step
  <2>4. CASE S!WriteLock(s)
    BY <2>4 DEF S!WriteLock, S!Step
  <2>5. CASE S!WriteFails(s)
    BY <2>5 DEF S!WriteFails, S!Step, S!Refused
  <2>6. CASE S!FillLock(s)
    BY <2>6 DEF S!FillLock, S!Step
  <2>7. CASE S!Claim(s)
    BY <2>7 DEF S!Claim, S!Step, S!Refused
  <2> QED
    BY <1>1, <2>1, <2>2, <2>3, <2>4, <2>5, <2>6, <2>7 DEF S!Acquire
<1>2. ASSUME NEW s \in Shells, S!QuitAgain(s)
      PROVE  S!QuitLeavesNothing'
  BY <1>2 DEF S!QuitAgain, S!Exit, S!Step
<1>3. ASSUME NEW s \in Shells, S!EndsQuit(s)
      PROVE  S!QuitLeavesNothing'
  <2>1. CASE S!Waited(s)
    BY <2>1 DEF S!Waited, S!Finish, S!Release, S!GivesUp, S!Exit, S!Step
  <2>2. CASE S!Timeout(s)
    BY <2>2 DEF S!Timeout, S!Finish, S!Release, S!GivesUp, S!Exit, S!Step
  <2> QED
    BY <1>3, <2>1, <2>2 DEF S!EndsQuit
<1>4. ASSUME NEW s \in Shells, S!PreflightFails(s)
      PROVE  S!QuitLeavesNothing'
  BY <1>4 DEF S!PreflightFails, S!Exit, S!Step
<1>5. ASSUME NEW s \in Shells, S!Crash(s)
      PROVE  S!QuitLeavesNothing'
  <2>1. CASE S!Owner(s)
    BY <1>5, <2>1 DEF S!Crash, S!Exit, S!Step
  <2>2. CASE ~S!Owner(s)
    BY <1>5, <2>2 DEF S!Crash, S!Step
  <2> QED
    BY <1>5, <2>1, <2>2
<1>6. CASE S!Leave
  <2>1. CASE S!AskToQuit
    BY <2>1 DEF S!AskToQuit, S!BeforeQuit
  <2>2. CASE S!CloseBrowser
    BY <2>2 DEF S!CloseBrowser
  <2>3. CASE S!CloseBridge
    BY <2>3 DEF S!CloseBridge
  <2>4. CASE S!StopHarness
    BY <2>4 DEF S!StopHarness
  <2>5. CASE S!StopPhoenix
    BY <2>5 DEF S!StopPhoenix
  <2>6. CASE S!CloseLogger
    BY <2>6 DEF S!CloseLogger
  <2> QED
    BY <1>6, <2>1, <2>2, <2>3, <2>4, <2>5, <2>6 DEF S!Leave
<1>7. CASE S!Chain
  <2>1. CASE S!RuntimeReady
    BY <2>1 DEF S!RuntimeReady, S!Go
  <2>2. CASE S!RuntimeFails
    BY <2>2 DEF S!RuntimeFails, S!Go
  <2>3. CASE S!PreflightPasses
    BY <2>3 DEF S!PreflightPasses, S!Go
  <2>4. CASE S!PreflightRetries
    BY <2>4 DEF S!PreflightRetries, S!Go
  <2>5. CASE S!OpenBrowser
    BY <2>5 DEF S!OpenBrowser, S!Go
  <2>6. CASE S!OpenBridge
    BY <2>6 DEF S!OpenBridge, S!Go
  <2>7. CASE S!Bootstrap
    BY <2>7 DEF S!Bootstrap, S!Go
  <2>8. CASE S!BootstrapThrows
    BY <2>8 DEF S!BootstrapThrows, S!Go
  <2>9. CASE S!RuntimeStart
    BY <2>9 DEF S!RuntimeStart, S!Go, S!LaunchDsh
  <2>10. CASE S!RuntimeStartThrows
    BY <2>10 DEF S!RuntimeStartThrows, S!Go
  <2> QED
    BY <1>7, <2>1, <2>2, <2>3, <2>4, <2>5, <2>6, <2>7, <2>8, <2>9, <2>10 DEF
       S!Chain
<1>8. CASE S!Supervise
  <2>1. CASE S!Ready
    BY <2>1 DEF S!Ready
  <2>2. CASE S!Dies
    BY <2>2 DEF S!Dies
  <2>3. CASE S!Relaunch
    BY <2>3 DEF S!Relaunch, S!LaunchDsh
  <2>4. CASE S!UpdateStops
    BY <2>4 DEF S!UpdateStops
  <2> QED
    BY <1>8, <2>1, <2>2, <2>3, <2>4 DEF S!Supervise
<1>9. CASE S!RetryDownload
  BY <1>9 DEF S!RetryDownload, S!Go
<1>10. CASE S!CloseDialog
  BY <1>10 DEF S!CloseDialog, S!Go, S!BeforeQuit
<1>11. CASE S!Watchdog
  BY <1>11 DEF S!Watchdog
<1>12. CASE UNCHANGED S!vars
  BY <1>12 DEF S!vars
<1> QED
  BY <1>1, <1>2, <1>3, <1>4, <1>5, <1>6, <1>7, <1>8, <1>9, <1>10, <1>11, <1>12 DEF
     S!Next

(* A shell writes its own pid and no other one does.                          *)
LEMMA ShellLock ==
  ASSUME S!IInv, [S!Next]_(S!vars)
  PROVE  S!NamedLater'
<1> USE NamesAssumption DEF S!IInv, S!NamedLater, S!TypeOK, S!Locking, S!locks,
        S!windows, S!harness, S!leaving, S!past
<1>1. ASSUME NEW s \in Shells, S!Acquire(s)
      PROVE  S!NamedLater'
  <2>1. CASE S!TestLock(s)
    BY <2>1 DEF S!TestLock, S!Step
  <2>2. CASE S!ReadLock(s)
    BY <2>2 DEF S!ReadLock, S!Step, S!Refused, S!NamesLive, S!Alive
  <2>3. CASE S!Unlink(s)
    BY <2>3 DEF S!Unlink, S!Step
  <2>4. CASE S!WriteLock(s)
    BY <2>4 DEF S!WriteLock, S!Step
  <2>5. CASE S!WriteFails(s)
    BY <2>5 DEF S!WriteFails, S!Step, S!Refused
  <2>6. CASE S!FillLock(s)
    BY <2>6 DEF S!FillLock, S!Step
  <2>7. CASE S!Claim(s)
    BY <2>7 DEF S!Claim, S!Step, S!Refused
  <2> QED
    BY <1>1, <2>1, <2>2, <2>3, <2>4, <2>5, <2>6, <2>7 DEF S!Acquire
<1>2. ASSUME NEW s \in Shells, S!QuitAgain(s)
      PROVE  S!NamedLater'
  BY <1>2 DEF S!QuitAgain, S!Exit, S!Step
<1>3. ASSUME NEW s \in Shells, S!EndsQuit(s)
      PROVE  S!NamedLater'
  <2>1. CASE S!Waited(s)
    BY <2>1 DEF S!Waited, S!Finish, S!Release, S!GivesUp, S!Exit, S!Step
  <2>2. CASE S!Timeout(s)
    BY <2>2 DEF S!Timeout, S!Finish, S!Release, S!GivesUp, S!Exit, S!Step
  <2> QED
    BY <1>3, <2>1, <2>2 DEF S!EndsQuit
<1>4. ASSUME NEW s \in Shells, S!PreflightFails(s)
      PROVE  S!NamedLater'
  BY <1>4 DEF S!PreflightFails, S!Exit, S!Step
<1>5. ASSUME NEW s \in Shells, S!Crash(s)
      PROVE  S!NamedLater'
  <2>1. CASE S!Owner(s)
    BY <1>5, <2>1 DEF S!Crash, S!Exit, S!Step
  <2>2. CASE ~S!Owner(s)
    BY <1>5, <2>2 DEF S!Crash, S!Step
  <2> QED
    BY <1>5, <2>1, <2>2
<1>6. CASE S!Leave
  <2>1. CASE S!AskToQuit
    BY <2>1 DEF S!AskToQuit, S!BeforeQuit
  <2>2. CASE S!CloseBrowser
    BY <2>2 DEF S!CloseBrowser
  <2>3. CASE S!CloseBridge
    BY <2>3 DEF S!CloseBridge
  <2>4. CASE S!StopHarness
    BY <2>4 DEF S!StopHarness
  <2>5. CASE S!StopPhoenix
    BY <2>5 DEF S!StopPhoenix
  <2>6. CASE S!CloseLogger
    BY <2>6 DEF S!CloseLogger
  <2> QED
    BY <1>6, <2>1, <2>2, <2>3, <2>4, <2>5, <2>6 DEF S!Leave
<1>7. CASE S!Chain
  <2>1. CASE S!RuntimeReady
    BY <2>1 DEF S!RuntimeReady, S!Go
  <2>2. CASE S!RuntimeFails
    BY <2>2 DEF S!RuntimeFails, S!Go
  <2>3. CASE S!PreflightPasses
    BY <2>3 DEF S!PreflightPasses, S!Go
  <2>4. CASE S!PreflightRetries
    BY <2>4 DEF S!PreflightRetries, S!Go
  <2>5. CASE S!OpenBrowser
    BY <2>5 DEF S!OpenBrowser, S!Go
  <2>6. CASE S!OpenBridge
    BY <2>6 DEF S!OpenBridge, S!Go
  <2>7. CASE S!Bootstrap
    BY <2>7 DEF S!Bootstrap, S!Go
  <2>8. CASE S!BootstrapThrows
    BY <2>8 DEF S!BootstrapThrows, S!Go
  <2>9. CASE S!RuntimeStart
    BY <2>9 DEF S!RuntimeStart, S!Go, S!LaunchDsh
  <2>10. CASE S!RuntimeStartThrows
    BY <2>10 DEF S!RuntimeStartThrows, S!Go
  <2> QED
    BY <1>7, <2>1, <2>2, <2>3, <2>4, <2>5, <2>6, <2>7, <2>8, <2>9, <2>10 DEF
       S!Chain
<1>8. CASE S!Supervise
  <2>1. CASE S!Ready
    BY <2>1 DEF S!Ready
  <2>2. CASE S!Dies
    BY <2>2 DEF S!Dies
  <2>3. CASE S!Relaunch
    BY <2>3 DEF S!Relaunch, S!LaunchDsh
  <2>4. CASE S!UpdateStops
    BY <2>4 DEF S!UpdateStops
  <2> QED
    BY <1>8, <2>1, <2>2, <2>3, <2>4 DEF S!Supervise
<1>9. CASE S!RetryDownload
  BY <1>9 DEF S!RetryDownload, S!Go
<1>10. CASE S!CloseDialog
  BY <1>10 DEF S!CloseDialog, S!Go, S!BeforeQuit
<1>11. CASE S!Watchdog
  BY <1>11 DEF S!Watchdog
<1>12. CASE UNCHANGED S!vars
  BY <1>12 DEF S!vars
<1> QED
  BY <1>1, <1>2, <1>3, <1>4, <1>5, <1>6, <1>7, <1>8, <1>9, <1>10, <1>11, <1>12 DEF
     S!Next

(* The invariant of shells that start, run and quit side by side.             *)
LEMMA ShellInductive == S!Spec => []S!IInv
<1>1. S!IInv /\ [S!Next]_(S!vars) => S!IInv'
  <2> SUFFICES ASSUME S!IInv, [S!Next]_(S!vars)
               PROVE  S!IInv'
    OBVIOUS
  <2>1. /\ S!TypeOK' /\ S!OneOwner' /\ S!OneHarness'
        /\ S!AllNamed' /\ S!QuitLeavesNothing' /\ S!NamedLater'
    BY ShellTypes, ShellOwner, ShellHarness, ShellNamed, ShellQuits, ShellLock DEF S!IInv
  <2> QED
    BY <2>1 DEF S!IInv
<1> QED
  BY <1>1, ShellInit, PTL DEF S!Spec

(* However many shells start together, and whatever acquireSingletonLock lets *)
(* pass, at most one is past both locks, and the startup chain runs only in   *)
(* it; and a quit that ends, by its cleanup or by its two seconds, has ended  *)
(* every harness process there was when before-quit collected the pids.       *)
THEOREM ShellIsAlone == S!Spec => [](S!OneOwner /\ S!QuitLeavesNothing)
<1>1. S!IInv => S!OneOwner /\ S!QuitLeavesNothing
  BY DEF S!IInv
<1> QED
  BY <1>1, ShellInductive, PTL

(* acquireSingletonLock refuses a shell only while another one lives, whatever*)
(* file the shells before it left.                                            *)
THEOREM RefusalsAreFair == S!Spec => S!RefusedForAnother
<1>1. ASSUME S!IInv, NEW s \in Shells, S!ReadLock(s) \/ S!Claim(s),
             sStage'[s] = "refused"
      PROVE  \E t \in Shells \ {s} : S!Alive(t)
  <2> USE DEF S!IInv, S!TypeOK, S!NamedLater, S!Locking, S!Step
  <2>1. CASE S!ReadLock(s)
    <3>1. S!NamesLive
      BY <1>1, <2>1 DEF S!ReadLock
    <3>2. sLock # s
      BY <1>1, <2>1 DEF S!ReadLock
    <3> QED
      BY <3>1, <3>2 DEF S!NamesLive
  <2>2. CASE S!Claim(s)
    <3>1. ~S!MayClaim
      BY <1>1, <2>2 DEF S!Claim
    <3>2. PICK t \in Shells : S!Owner(t)
      BY <3>1 DEF S!MayClaim
    <3>3. t # s
      BY <2>2, <3>2 DEF S!Claim, S!Owner
    <3> QED
      BY <3>2, <3>3 DEF S!Owner, S!Alive
  <2> QED
    BY <1>1, <2>1, <2>2
<1>2. S!IInv /\ [S!Next]_(S!vars) =>
        [\A s \in Shells : (S!ReadLock(s) \/ S!Claim(s)) /\ sStage'[s] = "refused"
                              => \E t \in Shells \ {s} : S!Alive(t)]_(S!vars)
  BY <1>1
<1> QED
  BY <1>2, ShellInductive, PTL DEF S!Spec, S!RefusedForAnother

(* Both for the behaviours of the run.                                        *)
THEOREM OneShellHolds == MCSpec => []OneShell
<1>1. MCInit => S!Init
  BY DEF MCInit
<1>2. [MCNext]_all => [S!Next]_(S!vars)
  BY DEF MCNext, all, shellVars, S!vars, S!locks, S!windows, S!harness, S!leaving
<1>3. S!IInv => OneShell
  BY DEF S!IInv, OneShell
<1> QED
  BY <1>1, <1>2, <1>3, ShellInductive, PTL DEF MCSpec, S!Spec

-----------------------------------------------------------------------------
(* The staging of the gateway, for any number of versions and builds.         *)

(* The bounds are numbers, and the counters may begin.                        *)
LEMMA StagingBounds ==
  /\ SourceVersions \in Nat /\ 0 \in 0..SourceVersions
  /\ MaxBuilds \in Nat /\ 0 \in 0..MaxBuilds
BY BoundsAssumption

(* The files are copied in this order: receipt and catalogue after the        *)
(* binary.                                                                    *)
LEMMA StagingOrder ==
  /\ Len(G!Order) = 3 /\ 0 \in 0..Len(G!Order)
  /\ G!Order[2] = "receipt" /\ G!Order[3] = "catalog"
BY DEF G!Order

(* A checkout in which no script has run.                                     *)
LEMMA StagingInit == G!Init => G!IInv
<1> SUFFICES ASSUME G!Init
             PROVE  G!IInv
  OBVIOUS
<1> USE DEF G!Init
<1>1. G!TypeOK
  <2>1. G!NoBinary \in G!Binary
    BY StagingBounds DEF G!NoBinary, G!Binary, G!None
  <2>2. G!NoReceipt \in G!Receipt
    BY <2>1, StagingBounds DEF G!NoReceipt, G!Receipt, G!Version, G!None
  <2> QED
    BY <2>1, <2>2, StagingBounds, StagingOrder DEF G!TypeOK, G!Version, G!None
<1>2. G!VerifiedAtRest /\ G!WholeIsOne /\ G!VerifiedIsBuilt
  BY DEF G!VerifiedAtRest, G!WholeIsOne, G!VerifiedIsBuilt
<1> QED
  BY <1>1, <1>2 DEF G!IInv

(* Edits, builds and stagings keep the types of the files.                    *)
LEMMA StagingTypes ==
  ASSUME G!TypeOK, [G!Next]_(G!vars)
  PROVE  G!TypeOK'
<1> USE StagingBounds, StagingOrder DEF G!TypeOK, G!Part, G!Version
<1>1. ASSUME NEW p \in G!Part, G!Edit(p)
      PROVE  G!TypeOK'
  <2>1. gSource' \in [G!Part -> G!Version]
    BY <1>1 DEF G!Edit
  <2> QED
    BY <1>1, <2>1 DEF G!Edit
<1>2. CASE G!BuildBegins
  <2>1. gSource["lock"] \in G!Version /\ gSource["code"] \in G!Version
    OBVIOUS
  <2>2. gBuilds' \in 0..MaxBuilds
    BY <1>2 DEF G!BuildBegins
  <2> QED
    BY <1>2, <2>1, <2>2 DEF G!BuildBegins
<1>3. CASE G!BuildEnds
  <2>1. PICK c \in gMade..gSource["code"] : gBinary' = [code |-> c, build |-> gBuilds]
    BY <1>3 DEF G!BuildEnds
  <2> QED
    BY <1>3, <2>1 DEF G!BuildEnds, G!Binary
<1>4. CASE G!StageBuilt
  BY <1>4 DEF G!StageBuilt
<1>5. CASE G!Receipted
  <2>1. G!ReceiptNow \in G!Receipt
    BY DEF G!ReceiptNow, G!SourceFingerprint, G!Receipt
  <2> QED
    BY <1>5, <2>1 DEF G!Receipted
<1>6. CASE G!CopyNext
  <2>1. gStaged' \in [binary : G!Binary, receipt : G!Receipt, catalog : G!Version \cup {G!None}]
    BY <1>6 DEF G!CopyNext
  <2>2. gCopied' \in 0..Len(G!Order)
    BY <1>6 DEF G!CopyNext
  <2> QED
    BY <1>6, <2>1, <2>2 DEF G!CopyNext
<1>7. CASE G!Ends
  BY <1>7 DEF G!Ends
<1>8. CASE G!Verify
  BY <1>8 DEF G!Verify, G!StagedBinary, G!StagedCatalog, G!SourceFingerprint
<1>9. CASE UNCHANGED G!vars
  BY <1>9 DEF G!vars
<1> QED
  BY <1>1, <1>2, <1>3, <1>4, <1>5, <1>6, <1>7, <1>8, <1>9 DEF G!Next

(* Whatever starts a script or edits a file ends the verification.            *)
LEMMA StagingRests ==
  ASSUME G!IInv, [G!Next]_(G!vars)
  PROVE  G!VerifiedAtRest'
<1> USE DEF G!IInv, G!VerifiedAtRest
<1>1. ASSUME NEW p \in G!Part, G!Edit(p)
      PROVE  G!VerifiedAtRest'
  BY <1>1 DEF G!Edit
<1>2. CASE G!BuildBegins
  BY <1>2 DEF G!BuildBegins
<1>3. CASE G!BuildEnds
  BY <1>3 DEF G!BuildEnds
<1>4. CASE G!StageBuilt
  BY <1>4 DEF G!StageBuilt
<1>5. CASE G!Receipted
  BY <1>5 DEF G!Receipted, G!ReceiptNow, G!SourceFingerprint
<1>6. CASE G!CopyNext
  BY <1>6 DEF G!CopyNext
<1>7. CASE G!Ends
  BY <1>7 DEF G!Ends
<1>8. CASE G!Verify
  BY <1>8 DEF G!Verify, G!StagedBinary, G!StagedCatalog, G!SourceFingerprint
<1>9. CASE UNCHANGED G!vars
  BY <1>9 DEF G!vars
<1> QED
  BY <1>1, <1>2, <1>3, <1>4, <1>5, <1>6, <1>7, <1>8, <1>9 DEF G!Next

(* Builds and copies in which nothing is edited carry one version through.    *)
LEMMA StagingWhole ==
  ASSUME G!IInv, [G!Next]_(G!vars)
  PROVE  G!WholeIsOne'
<1> USE StagingOrder DEF G!IInv, G!WholeIsOne
<1>1. ASSUME NEW p \in G!Part, G!Edit(p)
      PROVE  G!WholeIsOne'
  BY <1>1 DEF G!Edit
<1>2. CASE G!BuildBegins
  BY <1>2 DEF G!BuildBegins
<1>3. CASE G!BuildEnds
  <2>1. PICK c \in gMade..gSource["code"] : gBinary' = [code |-> c, build |-> gBuilds]
    BY <1>3 DEF G!BuildEnds
  <2>2. gWhole => c = gMade
    BY <1>3, <2>1 DEF G!BuildEnds, G!TypeOK, G!Part, G!Version
  <2> QED
    BY <1>3, <2>1, <2>2 DEF G!BuildEnds
<1>4. CASE G!StageBuilt
  BY <1>4 DEF G!StageBuilt
<1>5. CASE G!Receipted
  <2>1. gWritten'.sources = gSource
    BY <1>5 DEF G!Receipted, G!ReceiptNow, G!SourceFingerprint, G!TypeOK
  <2>2. gStaged'.binary = gBinary
    BY <1>5 DEF G!Receipted, G!TypeOK
  <2> QED
    BY <1>5, <2>1, <2>2 DEF G!Receipted
<1>6. CASE G!CopyNext
  <2>1. gStaged'.binary = gStaged.binary
    BY <1>6 DEF G!CopyNext, G!TypeOK
  <2>2. gCopied = 1 => gStaged'.receipt = gWritten
    BY <1>6 DEF G!CopyNext, G!TypeOK
  <2>3. gCopied = 2 => gStaged'.receipt = gStaged.receipt
    BY <1>6 DEF G!CopyNext, G!TypeOK
  <2>4. gCopied \in 1..2
    BY <1>6 DEF G!CopyNext
  <2> QED
    BY <1>6, <2>1, <2>2, <2>3, <2>4 DEF G!CopyNext
<1>7. CASE G!Ends
  <2> SUFFICES ASSUME gWhole'
               PROVE  G!WholeIsOne'
    OBVIOUS
  <2>1. gWhole /\ gStage = "staging" /\ gCopied = 3
    BY <1>7 DEF G!Ends
  <2>2. gStaged.binary.code = gMade /\ gStaged.receipt.sources["code"] = gMade
    BY <2>1
  <2> QED
    BY <1>7, <2>2 DEF G!Ends
<1>8. CASE G!Verify
  BY <1>8 DEF G!Verify, G!StagedBinary, G!StagedCatalog, G!SourceFingerprint
<1>9. CASE UNCHANGED G!vars
  BY <1>9 DEF G!vars
<1> QED
  BY <1>1, <1>2, <1>3, <1>4, <1>5, <1>6, <1>7, <1>8, <1>9 DEF G!Next

(* What a verification compares is what the staging copied.                   *)
LEMMA StagingVerified ==
  ASSUME G!IInv, [G!Next]_(G!vars)
  PROVE  G!VerifiedIsBuilt'
<1> USE DEF G!IInv, G!VerifiedAtRest, G!VerifiedIsBuilt
<1>1. ASSUME NEW p \in G!Part, G!Edit(p)
      PROVE  G!VerifiedIsBuilt'
  BY <1>1 DEF G!Edit
<1>2. CASE G!BuildBegins
  BY <1>2 DEF G!BuildBegins
<1>3. CASE G!BuildEnds
  BY <1>3 DEF G!BuildEnds
<1>4. CASE G!StageBuilt
  BY <1>4 DEF G!StageBuilt
<1>5. CASE G!Receipted
  BY <1>5 DEF G!Receipted, G!ReceiptNow, G!SourceFingerprint
<1>6. CASE G!CopyNext
  BY <1>6 DEF G!CopyNext
<1>7. CASE G!Ends
  BY <1>7 DEF G!Ends
<1>8. CASE G!Verify
  <2> SUFFICES ASSUME gVerified'
               PROVE  G!VerifiedIsBuilt'
    OBVIOUS
  <2>1. gStaged.receipt.sources = gSource
    BY <1>8 DEF G!Verify, G!SourceFingerprint, G!TypeOK
  <2> QED
    BY <1>8, <2>1 DEF G!Verify, G!Stageable, G!StagedBinary, G!StagedCatalog, G!WholeIsOne
<1>9. CASE UNCHANGED G!vars
  BY <1>9 DEF G!vars
<1> QED
  BY <1>1, <1>2, <1>3, <1>4, <1>5, <1>6, <1>7, <1>8, <1>9 DEF G!Next

(* The invariant of building, staging and verifying the gateway.              *)
LEMMA StagingInductive == G!Spec => []G!IInv
<1>1. G!IInv /\ [G!Next]_(G!vars) => G!IInv'
  BY StagingTypes, StagingRests, StagingWhole, StagingVerified DEF G!IInv
<1> QED
  BY <1>1, StagingInit, PTL DEF G!Spec

(* A verification that passes speaks of one staging of the sources as they    *)
(* are, wherever build-freellmpool.mjs or freellmpool-staging.mjs was cut off *)
(* and whatever was edited while PyInstaller ran.                             *)
THEOREM StagingIsBuilt == G!Spec => []G!VerifiedIsBuilt
<1>1. G!IInv => G!VerifiedIsBuilt
  BY DEF G!IInv
<1> QED
  BY <1>1, StagingInductive, PTL

-----------------------------------------------------------------------------
(* The packaging of the harness, for any packages, platforms, versions and    *)
(* runs of the script.                                                        *)

(* The bounds are numbers, and the counters may begin.                        *)
LEMMA PackagingBounds ==
  /\ HarnessVersions \in Nat /\ 0 \in 0..HarnessVersions
  /\ Packagings \in Nat /\ 0 \in 0..Packagings
BY BoundsAssumption

(* A checkout in which one platform is installed and everything is built.     *)
LEMMA PackagingInit == K!Init => K!IInv
<1> SUFFICES ASSUME K!Init
             PROVE  K!IInv
  OBVIOUS
<1> USE DEF K!Init
<1>1. K!Empty \in K!Tree /\ K!Packaged \in K!Tree
  BY PackagingBounds DEF K!Empty, K!Packaged, K!Tree, K!Version, K!Kept
<1>2. K!TypeOK
  BY <1>1, PackagingBounds DEF K!TypeOK, K!Version, K!Face
<1>3. K!MarkIsTrue /\ K!BuiltIsSource /\ K!TreesAreClean
  BY DEF K!MarkIsTrue, K!BuiltIsSource, K!TreesAreClean
<1> QED
  BY <1>2, <1>3 DEF K!IInv

(* The steps of package-runtime.sh, and its interruption at each, keep the    *)
(* types.                                                                     *)
LEMMA PackagingTypes ==
  ASSUME K!TypeOK, [K!Next]_(K!vars)
  PROVE  K!TypeOK'
<1> USE PackagingBounds DEF K!TypeOK, K!Version, K!None
<1>1. ASSUME NEW p \in Platform, K!Begin(p)
      PROVE  K!TypeOK'
  <2>1. kRuns' \in 0..Packagings
    BY <1>1 DEF K!Begin
  <2> QED
    BY <1>1, <2>1 DEF K!Begin
<1>2. CASE K!Clean
  BY <1>2 DEF K!Clean
<1>3. CASE K!Install
  BY <1>3 DEF K!Install
<1>4. ASSUME NEW f \in K!Face, K!Build(f)
      PROVE  K!TypeOK'
  BY <1>4 DEF K!Build
<1>5. CASE K!Record
  BY <1>5 DEF K!Record
<1>6. CASE K!Stage
  <2>1. PICK kept \in [K!Package \ Workspace -> K!Kept], linked \in {"none", "link"} :
          kStage' = [lib |-> kLib, at |-> [p \in K!Package |-> IF p \in Workspace THEN linked ELSE kept[p]]]
    BY <1>6 DEF K!Stage
  <2>2. kStage' \in K!Tree
    BY <2>1 DEF K!Tree, K!Kept
  <2> QED
    BY <1>6, <2>2 DEF K!Stage
<1>7. CASE K!Materialize
  <2>1. kStage' \in K!Tree
    BY <1>7 DEF K!Materialize, K!Tree, K!Package, K!Kept, K!Material
  <2> QED
    BY <1>7, <2>1 DEF K!Materialize
<1>8. CASE K!Prune
  <2>1. kStage' \in K!Tree
    BY <1>8 DEF K!Prune, K!Tree, K!Kept
  <2>2. K!Empty \in K!Tree
    BY PackagingBounds DEF K!Empty, K!Tree, K!Kept
  <2> QED
    BY <1>8, <2>1, <2>2 DEF K!Prune
<1>9. CASE K!Copy
  BY <1>9 DEF K!Copy
<1>10. CASE K!Unlink
  <2>1. kOut' \in K!Tree
    BY <1>10 DEF K!Unlink, K!Tree, K!Package, K!Kept
  <2> QED
    BY <1>10, <2>1 DEF K!Unlink
<1>11. CASE K!Describe
  BY <1>11 DEF K!Describe
<1>12. CASE K!Stops
  <2>1. K!Empty \in K!Tree
    BY PackagingBounds DEF K!Empty, K!Tree, K!Kept
  <2>2. kOut' \in K!Tree
    BY <1>12 DEF K!Stops, K!Tree, K!Kept
  <2> QED
    BY <1>12, <2>1, <2>2 DEF K!Stops
<1>13. CASE K!Change
  BY <1>13 DEF K!Change, K!Edit, K!Pull
<1>14. CASE UNCHANGED K!vars
  BY <1>14 DEF K!vars
<1> QED
  BY <1>1, <1>2, <1>3, <1>4, <1>5, <1>6, <1>7, <1>8, <1>9, <1>10, <1>11, <1>12,
     <1>13, <1>14 DEF K!Next

(* The mark of a platform goes before its files and comes after them.         *)
LEMMA PackagingMarks ==
  ASSUME K!IInv, [K!Next]_(K!vars)
  PROVE  K!MarkIsTrue'
<1> USE PackagesAssumption DEF K!IInv, K!TypeOK, K!MarkIsTrue, K!None
<1>1. ASSUME NEW p \in Platform, K!Begin(p)
      PROVE  K!MarkIsTrue'
  BY <1>1 DEF K!Begin
<1>2. CASE K!Clean
  BY <1>2 DEF K!Clean, K!Recreates
<1>3. CASE K!Install
  BY <1>3 DEF K!Install
<1>4. ASSUME NEW f \in K!Face, K!Build(f)
      PROVE  K!MarkIsTrue'
  BY <1>4 DEF K!Build
<1>5. CASE K!Record
  BY <1>5 DEF K!Record
<1>6. CASE K!Stage
  BY <1>6 DEF K!Stage
<1>7. CASE K!Materialize
  BY <1>7 DEF K!Materialize
<1>8. CASE K!Prune
  BY <1>8 DEF K!Prune
<1>9. CASE K!Copy
  BY <1>9 DEF K!Copy
<1>10. CASE K!Unlink
  BY <1>10 DEF K!Unlink
<1>11. CASE K!Describe
  BY <1>11 DEF K!Describe
<1>12. CASE K!Stops
  BY <1>12 DEF K!Stops, K!Recreates
<1>13. CASE K!Change
  BY <1>13 DEF K!Change
<1>14. CASE UNCHANGED K!vars
  BY <1>14 DEF K!vars
<1> QED
  BY <1>1, <1>2, <1>3, <1>4, <1>5, <1>6, <1>7, <1>8, <1>9, <1>10, <1>11, <1>12,
     <1>13, <1>14 DEF K!Next

(* What is built, recorded and copied is of the sources of this run.          *)
LEMMA PackagingBuilds ==
  ASSUME K!IInv, [K!Next]_(K!vars)
  PROVE  K!BuiltIsSource'
<1> USE DEF K!IInv, K!TypeOK, K!BuiltIsSource
<1>1. ASSUME NEW p \in Platform, K!Begin(p)
      PROVE  K!BuiltIsSource'
  BY <1>1 DEF K!Begin
<1>2. CASE K!Clean
  BY <1>2 DEF K!Clean
<1>3. CASE K!Install
  BY <1>3 DEF K!Install
<1>4. ASSUME NEW f \in K!Face, K!Build(f)
      PROVE  K!BuiltIsSource'
  BY <1>4 DEF K!Build
<1>5. CASE K!Record
  BY <1>5 DEF K!Record
<1>6. CASE K!Stage
  <2>1. kStage'.lib = kLib
    BY <1>6 DEF K!Stage
  <2> QED
    BY <1>6, <2>1 DEF K!Stage
<1>7. CASE K!Materialize
  <2>1. kStage'.lib = kStage.lib
    BY <1>7 DEF K!Materialize, K!Tree
  <2> QED
    BY <1>7, <2>1 DEF K!Materialize
<1>8. CASE K!Prune
  <2>1. kStage'.lib = kStage.lib
    BY <1>8 DEF K!Prune, K!Tree
  <2> QED
    BY <1>8, <2>1 DEF K!Prune
<1>9. CASE K!Copy
  BY <1>9 DEF K!Copy
<1>10. CASE K!Unlink
  <2>1. kOut'.lib = kOut.lib
    BY <1>10 DEF K!Unlink, K!Tree
  <2> QED
    BY <1>10, <2>1 DEF K!Unlink
<1>11. CASE K!Describe
  BY <1>11 DEF K!Describe
<1>12. CASE K!Stops
  BY <1>12 DEF K!Stops
<1>13. CASE K!Change
  BY <1>13 DEF K!Change
<1>14. CASE UNCHANGED K!vars
  BY <1>14 DEF K!vars
<1> QED
  BY <1>1, <1>2, <1>3, <1>4, <1>5, <1>6, <1>7, <1>8, <1>9, <1>10, <1>11, <1>12,
     <1>13, <1>14 DEF K!Next

(* What the removal, the stage and the copies leave in each directory.        *)
LEMMA PackagingTrees ==
  ASSUME K!IInv, [K!Next]_(K!vars)
  PROVE  K!TreesAreClean'
<1> USE DEF K!IInv, K!TypeOK, K!TreesAreClean
<1>1. ASSUME NEW p \in Platform, K!Begin(p)
      PROVE  K!TreesAreClean'
  BY <1>1 DEF K!Begin
<1>2. CASE K!Clean
  BY <1>2 DEF K!Clean
<1>3. CASE K!Install
  BY <1>3 DEF K!Install
<1>4. ASSUME NEW f \in K!Face, K!Build(f)
      PROVE  K!TreesAreClean'
  BY <1>4 DEF K!Build
<1>5. CASE K!Record
  BY <1>5 DEF K!Record
<1>6. CASE K!Stage
  BY <1>6 DEF K!Stage
<1>7. CASE K!Materialize
  <2>1. \A p \in Workspace : kStage'.at[p] = "dir"
    BY <1>7 DEF K!Materialize, K!Material, K!Tree, K!Package
  <2> QED
    BY <1>7, <2>1 DEF K!Materialize
<1>8. CASE K!Prune
  <2>1. /\ \A p \in Workspace : kStage'.at[p] = "dir"
        /\ \A p \in Tool : kStage'.at[p] = "none"
    BY <1>8, PackagesAssumption DEF K!Prune, K!Tree, K!Package
  <2> QED
    BY <1>8, <2>1 DEF K!Prune
<1>9. CASE K!Copy
  BY <1>9 DEF K!Copy
<1>10. CASE K!Unlink
  <2>1. \A p \in K!Package : kOut'.at[p] = IF kStage.at[p] = "link" THEN "none" ELSE kStage.at[p]
    BY <1>10 DEF K!Unlink, K!Tree
  <2> QED
    BY <1>10, <2>1 DEF K!Unlink
<1>11. CASE K!Describe
  BY <1>11 DEF K!Describe
<1>12. CASE K!Stops
  BY <1>12 DEF K!Stops
<1>13. CASE K!Change
  BY <1>13 DEF K!Change
<1>14. CASE UNCHANGED K!vars
  BY <1>14 DEF K!vars
<1> QED
  BY <1>1, <1>2, <1>3, <1>4, <1>5, <1>6, <1>7, <1>8, <1>9, <1>10, <1>11, <1>12,
     <1>13, <1>14 DEF K!Next

(* The invariant of packaging the harness.                                    *)
LEMMA PackagingInductive == K!Spec => []K!IInv
<1>1. K!IInv /\ [K!Next]_(K!vars) => K!IInv'
  BY PackagingTypes, PackagingMarks, PackagingBuilds, PackagingTrees DEF K!IInv
<1> QED
  BY <1>1, PackagingInit, PTL DEF K!Spec

(* What the last step has before it is what the script promises.              *)
LEMMA PackagingIsWhole == K!IInv => K!PackagedIsWhole
<1> SUFFICES ASSUME K!IInv
             PROVE  K!PackagedIsWhole
  OBVIOUS
<1> USE DEF K!IInv, K!TypeOK
<1>1. kStep = "build" => kFiles = {kPlatform}
  BY PackagesAssumption DEF K!MarkIsTrue, K!None
<1>2. kStep = "ready" => \A p \in K!Package :
        kOut.at[p] = IF p \in Tool \/ kStage.at[p] # "dir" THEN "none" ELSE "dir"
  BY DEF K!TreesAreClean, K!Tree, K!Kept
<1>3. kStep = "ready" => \A p \in Workspace : kOut.at[p] = "dir"
  BY DEF K!TreesAreClean, K!Package
<1>4. kStep = "ready" /\ ~kMoved =>
        kRecorded = kSource /\ \A f \in K!Face : kOut.lib[f] = kSource
  BY DEF K!BuiltIsSource
<1> QED
  BY <1>1, <1>2, <1>3, <1>4 DEF K!PackagedIsWhole

(* However package-runtime.sh is cut off, and whoever used the checkout       *)
(* before: no build takes the dependencies of another platform, and the       *)
(* resources of a run that ends well are whole and of the sources recorded.   *)
THEOREM ReleaseIsWhole == K!Spec => []K!PackagedIsWhole
BY PackagingInductive, PackagingIsWhole, PTL

-----------------------------------------------------------------------------
(* The three for the behaviours of the run.                                   *)
THEOREM ReleaseHolds == MCSpec => []ReleaseIsBuilt
<1>1. MCInit => H!Init /\ G!Init /\ K!Init
  BY DEF MCInit
<1>2. [MCNext]_all => [H!Next]_(H!vars)
  BY DEF MCNext, all, stackVars, H!vars
<1>3. [MCNext]_all => [G!Next]_(G!vars)
  BY DEF MCNext, all, stagingVars, G!vars
<1>4. [MCNext]_all => [K!Next]_(K!vars)
  BY DEF MCNext, all, packagingVars, K!vars
<1>5. H!IInv /\ G!IInv /\ K!IInv => ReleaseIsBuilt
  BY PackagingIsWhole DEF H!IInv, G!IInv, K!IInv, ReleaseIsBuilt
<1> QED
  BY <1>1, <1>2, <1>3, <1>4, <1>5, StackInductive, StagingInductive, PackagingInductive, PTL
     DEF MCSpec, H!Spec, G!Spec, K!Spec
=============================================================================
