----------------------------- MODULE FileProofs -----------------------------
(***************************************************************************)
(* Files, for any number of paths, texts, names, jobs, calls and uploads:  *)
(* what the runner writes into files that are not its own, and which       *)
(* folders it removes (InstructionFiles, McpDeviceSync, ProjectClone);     *)
(* what is on record of its own files, and whose turn it is to make or     *)
(* read one (AttachmentStore, TurnCheckpoints, ArtifactCapture, ReadSlots).*)
(***************************************************************************)
EXTENDS InstructionFiles, McpDeviceSync, ProjectClone, AttachmentStore, TurnCheckpoints,
        ArtifactCapture, ReadSlots, SequenceTheorems, FiniteSetTheorems, TLAPS

(***************************************************************************)
(* Lines                                                                   *)
(***************************************************************************)
(* A set of numbers that is not empty has a least one.                     *)
LEMMA LeastNatural ==
  ASSUME NEW S \in SUBSET Nat, S # {}
  PROVE  \E m \in S : \A n \in S : m <= n
<1>1. \E m \in S : \A n \in S : ~ (<<n, m>> \in OpToRel(<, Nat))
  BY WFMin, NatLessThanWellFounded, Zenon
<1>2. \A m, n \in Nat : n < m => <<n, m>> \in OpToRel(<, Nat)
  BY DEF OpToRel
<1>3. \A m, n \in Nat : n < m \/ m <= n
  OBVIOUS
<1>. QED
  BY <1>1, <1>2, <1>3

(* Lines in which nobody stands twice.                                     *)
LineUp(s, S) == s \in Seq(S) /\ \A i, k \in 1..Len(s) : s[i] = s[k] => i = k

LEMMA LineEmpty ==
  ASSUME NEW S
  PROVE  LineUp(<<>>, S) /\ ToSet(<<>>) = {}
  BY EmptySeq DEF LineUp, ToSet

LEMMA LineMembers ==
  ASSUME NEW S, NEW s, LineUp(s, S)
  PROVE  /\ ToSet(s) \subseteq S /\ DOMAIN s = 1..Len(s) /\ Len(s) \in Nat
         /\ \A x \in ToSet(s) : \E k \in 1..Len(s) : s[k] = x
         /\ \A k \in 1..Len(s) : s[k] \in ToSet(s)
         /\ s = <<>> <=> ToSet(s) = {}
         /\ IsFiniteSet(ToSet(s)) /\ Cardinality(ToSet(s)) = Len(s)
<1>1. s \in Seq(S) /\ DOMAIN s = 1..Len(s) /\ Len(s) \in Nat /\ (s # <<>> => Len(s) # 0) /\ (s = <<>> => Len(s) = 0)
  BY LenProperties, EmptySeq DEF LineUp
<1>2. /\ ToSet(s) \subseteq S
      /\ \A x \in ToSet(s) : \E k \in 1..Len(s) : s[k] = x
      /\ \A k \in 1..Len(s) : s[k] \in ToSet(s)
  BY <1>1, ElementOfSeq DEF ToSet
<1>3. s = <<>> <=> ToSet(s) = {}
  <2>1. ASSUME s # <<>> PROVE ToSet(s) # {}
    <3>1. 1 \in 1..Len(s)
      BY <1>1, <2>1
    <3>. QED
      BY <1>2, <3>1
  <2>2. ASSUME s = <<>> PROVE ToSet(s) = {}
    BY <1>1, <1>2, <2>2
  <2>. QED
    BY <2>1, <2>2
<1>4. IsFiniteSet(ToSet(s)) /\ Cardinality(ToSet(s)) = Len(s)
  <2>1. s \in Bijection(1..Len(s), ToSet(s))
    <3>1. s \in [1..Len(s) -> ToSet(s)]
      BY <1>1, <1>2
    <3>2. \A a, b \in 1..Len(s) : s[a] = s[b] => a = b
      BY DEF LineUp
    <3>3. \A t \in ToSet(s) : \E k \in 1..Len(s) : s[k] = t
      BY <1>2
    <3>. QED
      BY <3>1, <3>2, <3>3 DEF Bijection, Injection, Surjection, IsInjective
  <2>2. ExistsBijection(1..Len(s), ToSet(s))
    BY <2>1 DEF ExistsBijection
  <2>. QED
    BY <1>1, <2>2, FS_Interval, FS_Bijection
<1>. QED
  BY <1>1, <1>2, <1>3, <1>4

LEMMA LineAppend ==
  ASSUME NEW S, NEW s, LineUp(s, S), NEW e \in S, e \notin ToSet(s)
  PROVE  LineUp(Append(s, e), S) /\ ToSet(Append(s, e)) = ToSet(s) \cup {e} /\ Len(Append(s, e)) = Len(s) + 1
<1>. DEFINE t == Append(s, e)
<1>1. /\ t \in Seq(S) /\ Len(t) = Len(s) + 1 /\ DOMAIN t = 1..Len(t) /\ Len(s) \in Nat
      /\ \A i \in 1..Len(s) : t[i] = s[i]
      /\ t[Len(s) + 1] = e
  BY AppendProperties, LenProperties DEF LineUp
<1>. HIDE DEF t
<1>2. \A i \in 1..Len(t) : i \in 1..Len(s) \/ i = Len(s) + 1
  BY <1>1
<1>3. \A i \in 1..Len(s) : s[i] # e
  BY LineMembers
<1>4. \A i, k \in 1..Len(t) : t[i] = t[k] => i = k
  BY <1>1, <1>2, <1>3 DEF LineUp
<1>5. ToSet(t) = ToSet(s) \cup {e}
  <2>1. \A x \in ToSet(t) : x \in ToSet(s) \cup {e}
    BY <1>1, <1>2, LineMembers DEF ToSet
  <2>2. \A x \in ToSet(s) : x \in ToSet(t)
    BY <1>1, LineMembers DEF ToSet
  <2>3. e \in ToSet(t)
    BY <1>1 DEF ToSet
  <2>. QED
    BY <2>1, <2>2, <2>3
<1>. QED
  BY <1>1, <1>4, <1>5 DEF t, LineUp

LEMMA LineTail ==
  ASSUME NEW S, NEW s, LineUp(s, S), s # <<>>
  PROVE  /\ LineUp(Tail(s), S) /\ ToSet(Tail(s)) = ToSet(s) \ {Head(s)}
         /\ Head(s) \in ToSet(s) /\ Head(s) \in S /\ Len(Tail(s)) = Len(s) - 1
<1>. DEFINE t == Tail(s)
<1>1. /\ t \in Seq(S) /\ Len(t) = Len(s) - 1 /\ DOMAIN t = 1..Len(t) /\ Len(s) \in Nat /\ Len(s) # 0
      /\ \A i \in 1..Len(t) : t[i] = s[i + 1]
  BY HeadTailProperties, LenProperties, EmptySeq DEF LineUp
<1>2. Head(s) = s[1] /\ 1 \in 1..Len(s) /\ Head(s) \in S
  BY <1>1, HeadTailProperties DEF LineUp
<1>. HIDE DEF t
<1>3. \A i \in 1..Len(t) : i + 1 \in 1..Len(s) /\ i + 1 # 1
  BY <1>1
<1>4. \A i \in 1..Len(s) : i # 1 => i - 1 \in 1..Len(t) /\ t[i - 1] = s[i]
  BY <1>1
<1>5. \A i, k \in 1..Len(t) : t[i] = t[k] => i = k
  <2>1. \A i, k \in 1..Len(t) : t[i] = t[k] => i + 1 = k + 1
    BY <1>1, <1>3 DEF LineUp
  <2>. QED
    BY <2>1
<1>6. ToSet(t) = ToSet(s) \ {Head(s)}
  <2>1. \A x \in ToSet(t) : x \in ToSet(s) \ {Head(s)}
    <3>1. \A i \in 1..Len(t) : s[i + 1] \in ToSet(s) /\ s[i + 1] # s[1]
      BY <1>2, <1>3, LineMembers DEF LineUp
    <3>. QED
      BY <1>1, <1>2, <3>1 DEF ToSet
  <2>2. ASSUME NEW x \in ToSet(s), x # Head(s) PROVE x \in ToSet(t)
    <3>1. PICK k \in 1..Len(s) : s[k] = x
      BY LineMembers
    <3>2. k - 1 \in 1..Len(t) /\ t[k - 1] = x
      BY <1>2, <1>4, <2>2, <3>1
    <3>. QED
      BY <1>1, <3>2 DEF ToSet
  <2>. QED
    BY <2>1, <2>2
<1>7. Head(s) \in ToSet(s)
  BY <1>2, LineMembers
<1>. QED
  BY <1>1, <1>2, <1>5, <1>6, <1>7 DEF t, LineUp

LEMMA RemoveAtElements ==
  ASSUME NEW S, NEW s \in Seq(S), NEW j \in 1..Len(s)
  PROVE  /\ RemoveAt(s, j) \in Seq(S) /\ Len(RemoveAt(s, j)) = Len(s) - 1
         /\ \A i \in 1..Len(s) - 1 : RemoveAt(s, j)[i] = IF i <= j - 1 THEN s[i] ELSE s[i + 1]
<1>. DEFINE t == RemoveAt(s, j)
<1>. DEFINE n == Len(s)
<1>1. n \in Nat /\ s \in Seq(S) /\ \A i \in 1..n : s[i] \in S
  BY ElementOfSeq, LenProperties
<1>2. /\ SubSeq(s, 1, j - 1) \in Seq(S) /\ Len(SubSeq(s, 1, j - 1)) = j - 1
      /\ \A i \in 1..j - 1 : SubSeq(s, 1, j - 1)[i] = s[i]
  <2>1. \A i \in 1..j - 1 : s[i] \in S
    BY <1>1
  <2>2. /\ SubSeq(s, 1, j - 1) \in Seq(S)
        /\ Len(SubSeq(s, 1, j - 1)) = IF 1 <= j - 1 THEN (j - 1) - 1 + 1 ELSE 0
        /\ \A i \in 1..(j - 1) - 1 + 1 : SubSeq(s, 1, j - 1)[i] = s[1 + i - 1]
    BY <2>1, <1>1, SubSeqProperties
  <2>. QED
    BY <2>2, <1>1
<1>3. /\ SubSeq(s, j + 1, n) \in Seq(S) /\ Len(SubSeq(s, j + 1, n)) = n - j
      /\ \A i \in 1..n - j : SubSeq(s, j + 1, n)[i] = s[j + i]
  <2>1. \A i \in j + 1..n : s[i] \in S
    BY <1>1
  <2>2. /\ SubSeq(s, j + 1, n) \in Seq(S)
        /\ Len(SubSeq(s, j + 1, n)) = IF j + 1 <= n THEN n - (j + 1) + 1 ELSE 0
        /\ \A i \in 1..n - (j + 1) + 1 : SubSeq(s, j + 1, n)[i] = s[(j + 1) + i - 1]
    BY <2>1, <1>1, SubSeqProperties
  <2>. QED
    BY <2>2, <1>1
<1>4. /\ t \in Seq(S) /\ Len(t) = n - 1
      /\ \A i \in 1..n - 1 : t[i] = IF i <= j - 1 THEN s[i] ELSE s[i + 1]
  <2>. DEFINE a == SubSeq(s, 1, j - 1)
  <2>. DEFINE b == SubSeq(s, j + 1, n)
  <2>1. t = a \o b
    BY DEF RemoveAt
  <2>2. /\ a \o b \in Seq(S) /\ Len(a \o b) = Len(a) + Len(b)
        /\ \A i \in 1..Len(a) + Len(b) : (a \o b)[i] = IF i <= Len(a) THEN a[i] ELSE b[i - Len(a)]
    BY <1>2, <1>3, ConcatProperties
  <2>3. Len(a) = j - 1 /\ Len(b) = n - j /\ Len(a) + Len(b) = n - 1
    <3>1. Len(a) = j - 1
      BY <1>2
    <3>2. Len(b) = n - j
      BY <1>3
    <3>. HIDE DEF a, b
    <3>. QED
      BY <1>1, <3>1, <3>2
  <2>. HIDE DEF a, b, t, n
  <2>4. \A i \in 1..n - 1 : t[i] = IF i <= j - 1 THEN a[i] ELSE b[i - (j - 1)]
    BY <2>1, <2>2, <2>3
  <2>5. \A i \in 1..n - 1 : IF i <= j - 1 THEN i \in 1..j - 1 ELSE i - (j - 1) \in 1..n - j /\ j + (i - (j - 1)) = i + 1
    BY <1>1
  <2>6. (\A i \in 1..j - 1 : a[i] = s[i]) /\ (\A i \in 1..n - j : b[i] = s[j + i])
    BY <1>2, <1>3 DEF a, b
  <2>. QED
    BY <2>1, <2>2, <2>3, <2>4, <2>5, <2>6
<1>. QED
  BY <1>4

(* indexOf and splice: the one element is gone.                            *)
LEMMA LineRemoveAt ==
  ASSUME NEW S, NEW s, LineUp(s, S), NEW j \in 1..Len(s)
  PROVE  /\ LineUp(RemoveAt(s, j), S) /\ ToSet(RemoveAt(s, j)) = ToSet(s) \ {s[j]}
         /\ Len(RemoveAt(s, j)) = Len(s) - 1
<1>. DEFINE t == RemoveAt(s, j)
<1>. DEFINE n == Len(s)
<1>1. n \in Nat /\ s \in Seq(S)
  BY LineMembers DEF LineUp
<1>4. /\ t \in Seq(S) /\ Len(t) = n - 1
      /\ \A i \in 1..n - 1 : t[i] = IF i <= j - 1 THEN s[i] ELSE s[i + 1]
  BY <1>1, RemoveAtElements
<1>. HIDE DEF t
<1>5. DOMAIN t = 1..Len(t)
  BY <1>4, LenProperties
<1>. DEFINE from(i) == IF i <= j - 1 THEN i ELSE i + 1
<1>6. \A i \in 1..Len(t) : from(i) \in 1..n /\ from(i) # j /\ t[i] = s[from(i)]
  BY <1>1, <1>4
<1>7. \A i, k \in 1..Len(t) : from(i) = from(k) => i = k
  BY <1>1, <1>4
<1>8. \A x \in 1..n : x # j => \E i \in 1..Len(t) : from(i) = x
  <2>. SUFFICES ASSUME NEW x \in 1..n, x # j PROVE \E i \in 1..Len(t) : from(i) = x
    OBVIOUS
  <2>1. CASE x <= j - 1
    BY <2>1, <1>1, <1>4
  <2>2. CASE x > j
    <3>1. x - 1 \in 1..Len(t) /\ from(x - 1) = x
      BY <2>2, <1>1, <1>4
    <3>. QED
      BY <3>1
  <2>. QED
    BY <2>1, <2>2, <1>1
<1>. HIDE DEF from
<1>9. \A i, k \in 1..Len(t) : t[i] = t[k] => i = k
  BY <1>6, <1>7 DEF LineUp
<1>10. ToSet(t) = ToSet(s) \ {s[j]}
  <2>1. \A x \in ToSet(t) : x \in ToSet(s) \ {s[j]}
    BY <1>5, <1>6, LineMembers DEF ToSet, LineUp
  <2>2. ASSUME NEW x \in ToSet(s), x # s[j] PROVE x \in ToSet(t)
    <3>1. PICK k \in 1..Len(s) : s[k] = x
      BY LineMembers
    <3>2. PICK i \in 1..Len(t) : from(i) = k
      BY <1>8, <2>2, <3>1
    <3>. QED
      BY <1>5, <1>6, <3>1, <3>2 DEF ToSet
  <2>. QED
    BY <2>1, <2>2
<1>. QED
  BY <1>4, <1>9, <1>10 DEF t, LineUp

LEMMA LineRemove ==
  ASSUME NEW S, NEW s, LineUp(s, S), NEW e \in ToSet(s)
  PROVE  /\ LineUp(RemoveFirst(s, e), S) /\ ToSet(RemoveFirst(s, e)) = ToSet(s) \ {e}
         /\ Len(RemoveFirst(s, e)) = Len(s) - 1
<1>. DEFINE I == {i \in 1..Len(s) : s[i] = e}
<1>1. I # {} /\ I \in SUBSET Nat /\ \E i \in 1..Len(s) : s[i] = e
  BY LineMembers
<1>2. Min(I) \in I
  <2>1. \E m \in I : \A n \in I : m <= n
    BY <1>1, LeastNatural
  <2>. HIDE DEF I
  <2>. QED
    BY <2>1 DEF Min
<1>3. RemoveFirst(s, e) = RemoveAt(s, Min(I))
  BY <1>1 DEF RemoveFirst, SelectInSeq
<1>4. Min(I) \in 1..Len(s) /\ s[Min(I)] = e
  BY <1>2
<1>. HIDE DEF I
<1>. QED
  BY <1>3, <1>4, LineRemoveAt

(***************************************************************************)
(* InstructionFiles and McpDeviceSync                                      *)
(***************************************************************************)

FileTexts == {0, UserText} \cup InstructionTexts
FilesTyped ==
  /\ text \in [InstructionPaths -> FileTexts] /\ next \in [InstructionPaths -> FileTexts]
  /\ observed \in [InstructionPaths -> FileTexts]
  /\ author \in [InstructionPaths -> {"none", "runner", "user", "git", "adopted"}]
  /\ manifest \in [files: [InstructionPaths -> FileTexts], pending: [InstructionPaths -> FileTexts],
                   journal: BOOLEAN]

(* The text of a user's file is on no record.                              *)
Unrecorded(p) ==
  author[p] = "user" => /\ text[p] # 0 /\ text[p] # manifest.files[p] /\ text[p] # manifest.pending[p]

(* What a call has observed: a file that the journal will claim is not a   *)
(* user's, or is one of the worktree that becomes the runner's by it.      *)
Observed(p) ==
  p \in all \ left /\ p \notin borrowed =>
    /\ author[p] = "user" => \/ text[p] # observed[p] /\ text[p] # next[p]
                             \/ isolation = "worktree" /\ text[p] = observed[p]
    /\ isolation # "worktree" /\ observed[p] # 0 =>
         observed[p] \in {manifest.files[p], manifest.pending[p]}

(* After it, the journal holds what was there and what is to come.         *)
Journaled ==
  manifest.files = Ours(observed) /\ manifest.pending = Ours(next)

Planned ==
  /\ isolation \in {"in-place", "worktree"} /\ left \subseteq all
  /\ \A p \in InstructionPaths \ all : observed[p] = 0 /\ next[p] = 0
  /\ \A p \in InstructionPaths \cap borrowed : observed[p] = next[p]
  /\ syncStep = "granted" => all = {} /\ borrowed = {}
  /\ syncStep = "observing" => borrowed \cap left = {} /\ \A p \in InstructionPaths : Observed(p)
  /\ syncStep \in {"applying", "replacing", "verified"} => Journaled
  /\ syncStep = "replacing" => \A p \in InstructionPaths \cap target : author[p] = "user" => p \in raced

FilesInv == FilesTyped /\ Planned /\ \A p \in InstructionPaths : Unrecorded(p)

LEMMA InitFiles == InstructionInit => FilesInv
<1>. SUFFICES ASSUME InstructionInit PROVE FilesInv
  OBVIOUS
<1>1. FilesTyped
  BY DEF InstructionInit, FilesTyped, FileTexts, Blank
<1>2. Planned
  BY DEF InstructionInit, Planned, Blank
<1>3. \A p \in InstructionPaths : Unrecorded(p)
  BY DEF InstructionInit, Unrecorded, Blank
<1>. QED
  BY <1>1, <1>2, <1>3 DEF FilesInv

(* A call is over, or cut short: nothing of its plan is left.              *)
LEMMA CallEnds ==
  ASSUME FilesInv, UNCHANGED <<text, author, isolation>>, manifest' \in [files: [InstructionPaths -> FileTexts],
           pending: [InstructionPaths -> FileTexts], journal: BOOLEAN],
         next' = Blank, observed' = Blank, borrowed' = {}, all' = {}, left' = {}, syncStep' = "granted",
         \A p \in InstructionPaths : author[p] = "user" =>
           text[p] # manifest'.files[p] /\ text[p] # manifest'.pending[p]
  PROVE  FilesInv'
<1>1. FilesTyped'
  BY DEF FilesInv, FilesTyped, Blank, FileTexts
<1>2. Planned'
  BY DEF FilesInv, Planned, Blank
<1>3. \A p \in InstructionPaths : Unrecorded(p)'
  BY DEF FilesInv, Unrecorded
<1>. QED
  BY <1>1, <1>2, <1>3 DEF FilesInv

LEMMA ObserveKeeps ==
  ASSUME FilesInv, NEW q \in InstructionPaths, Observes(q)
  PROVE  FilesInv'
<1>. USE DEF FilesInv
<1>1. /\ UNCHANGED <<text, author, manifest, syncStep, next, all, isolation>> /\ syncStep = "observing"
      /\ q \in left /\ left' = left \ {q} /\ observed' = [observed EXCEPT ![q] = text[q]]
      /\ borrowed \subseteq borrowed' /\ borrowed' \subseteq borrowed \cup {q}
  BY DEF Observes, At, SyncGoes, outsideVars
<1>2. FilesTyped'
  BY <1>1 DEF FilesTyped
<1>3. \A p \in InstructionPaths \ {q} : observed'[p] = observed[p] /\ (p \in borrowed' <=> p \in borrowed)
  BY <1>1 DEF FilesTyped
<1>4. observed'[q] = text[q]
  BY <1>1 DEF FilesTyped
<1>5. q \in borrowed' => text[q] = next[q]
  BY <1>1 DEF Observes, Planned
<1>6. /\ q \in Managed => text[q] \in {manifest.files[q], manifest.pending[q]}
      /\ q \notin Managed /\ q \notin borrowed' =>
           text[q] = 0 \/ (isolation = "worktree" /\ author[q] = "git") \/ (text[q] = next[q] /\ isolation # "in-place")
  BY <1>1 DEF Observes
<1>7. Observed(q)'
  <2>. SUFFICES ASSUME q \notin borrowed'
       PROVE  /\ author[q] = "user" => \/ text[q] # observed'[q] /\ text[q] # next[q]
                                       \/ isolation = "worktree" /\ text[q] = observed'[q]
              /\ isolation # "worktree" /\ observed'[q] # 0 =>
                   observed'[q] \in {manifest.files[q], manifest.pending[q]}
    BY <1>1 DEF Observed
  <2>1. author[q] = "user" => text[q] # 0 /\ text[q] # manifest.files[q] /\ text[q] # manifest.pending[q]
    BY DEF Unrecorded
  <2>2. isolation \in {"in-place", "worktree"}
    BY DEF Planned
  <2>. QED
    BY <1>4, <1>6, <2>1, <2>2
<1>8. \A p \in InstructionPaths \ {q} : Observed(p)'
  BY <1>1, <1>3 DEF Planned, Observed
<1>9. Planned'
  <2>1. \A p \in InstructionPaths \ all' : observed'[p] = 0 /\ next'[p] = 0
    BY <1>1, <1>3 DEF Planned
  <2>2. \A p \in InstructionPaths \cap borrowed' : observed'[p] = next'[p]
    BY <1>1, <1>3, <1>4, <1>5 DEF Planned
  <2>3. left' \subseteq all' /\ borrowed' \cap left' = {} /\ syncStep' = "observing"
    BY <1>1 DEF Planned
  <2>4. isolation' \in {"in-place", "worktree"}
    BY <1>1 DEF Planned
  <2>. QED
    BY <1>7, <1>8, <2>1, <2>2, <2>3, <2>4 DEF Planned
<1>. QED
  BY <1>1, <1>2, <1>9 DEF Unrecorded

(* The journal takes over no text of a user.                               *)
LEMMA JournalKeeps ==
  ASSUME FilesInv, WritesJournal
  PROVE  FilesInv'
<1>. USE DEF FilesInv
<1>1. /\ UNCHANGED <<text, next, observed, borrowed, all, isolation>> /\ left = {} /\ left' = all
      /\ syncStep = "observing" /\ syncStep' = "applying"
      /\ manifest' = [files |-> Ours(observed), pending |-> Ours(next), journal |-> TRUE]
      /\ author' = AuthorsRecorded
  BY DEF WritesJournal, At, SyncGoes, plannedVars, outsideVars
<1>2. FilesTyped'
  <2>1. Ours(observed) \in [InstructionPaths -> FileTexts] /\ Ours(next) \in [InstructionPaths -> FileTexts]
    BY DEF Ours, FilesTyped, FileTexts
  <2>2. author' \in [InstructionPaths -> {"none", "runner", "user", "git", "adopted"}]
    <3>1. \A p \in InstructionPaths : author'[p] \in {author[p], "runner", "adopted"}
      BY <1>1 DEF AuthorsRecorded
    <3>. QED
      BY <1>1, <3>1 DEF FilesTyped, AuthorsRecorded
  <2>. QED
    BY <1>1, <2>1, <2>2 DEF FilesTyped
<1>3. Planned'
  <2>1. manifest'.files = Ours(observed) /\ manifest'.pending = Ours(next)
    BY <1>1
  <2>2. Ours(observed)' = Ours(observed) /\ Ours(next)' = Ours(next)
    BY <1>1 DEF Ours
  <2>. QED
    BY <1>1, <2>1, <2>2 DEF Planned, Journaled
<1>4. ASSUME NEW p \in InstructionPaths, author'[p] = "user"
      PROVE  text[p] # 0 /\ text[p] # Ours(observed)[p] /\ text[p] # Ours(next)[p]
  <2>1. /\ author[p] = "user"
        /\ ~(isolation = "worktree" /\ observed[p] # 0 /\ text[p] = observed[p])
    BY <1>1, <1>4 DEF AuthorsRecorded
  <2>2. text[p] # 0
    BY <2>1 DEF Unrecorded
  <2>3. CASE p \in borrowed
    BY <2>2, <2>3 DEF Ours
  <2>4. CASE p \notin borrowed /\ p \notin all
    BY <2>2, <2>4 DEF Ours, Planned
  <2>5. CASE p \notin borrowed /\ p \in all
    <3>1. Observed(p)
      BY <1>1 DEF Planned
    <3>. QED
      BY <1>1, <2>1, <2>2, <2>5, <3>1 DEF Ours, Observed
  <2>. QED
    BY <2>3, <2>4, <2>5
<1>. QED
  BY <1>1, <1>2, <1>3, <1>4 DEF Unrecorded

(* The last look goes past every file of a user.                           *)
LEMMA LookKeeps ==
  ASSUME FilesInv, NEW q \in InstructionPaths, LooksAgain(q)
  PROVE  FilesInv'
<1>. USE DEF FilesInv
<1>1. /\ UNCHANGED <<text, author, manifest, next, observed, borrowed, all, isolation>>
      /\ syncStep = "applying" /\ left' \subseteq left /\ text[q] = observed[q]
      /\ \/ syncStep' = "applying"
         \/ syncStep' = "replacing" /\ target' = {q} /\ observed[q] # next[q]
  BY DEF LooksAgain, At, plannedVars, outsideVars
<1>2. syncStep' = "replacing" => author[q] # "user"
  <2>. SUFFICES ASSUME observed[q] # next[q] PROVE author[q] # "user"
    BY <1>1
  <2>1. q \notin borrowed
    BY DEF Planned
  <2>2. manifest.files[q] = observed[q]
    BY <1>1, <2>1 DEF Planned, Journaled, Ours
  <2>. QED
    BY <1>1, <2>2 DEF Unrecorded
<1>3. Journaled'
  BY <1>1 DEF Planned, Journaled, Ours
<1>4. Planned'
  BY <1>1, <1>2, <1>3 DEF Planned
<1>. QED
  BY <1>1, <1>4 DEF FilesTyped, Unrecorded

LEMMA ReplaceKeeps ==
  ASSUME FilesInv, NEW q \in InstructionPaths, Replaces(q)
  PROVE  FilesInv'
<1>. USE DEF FilesInv
<1>1. /\ UNCHANGED <<manifest, next, observed, borrowed, all, left, isolation>>
      /\ syncStep = "replacing" /\ syncStep' = "applying"
      /\ text' = [text EXCEPT ![q] = next[q]]
      /\ author' = [author EXCEPT ![q] = IF next[q] = 0 THEN "none" ELSE "runner"]
  BY DEF Replaces, At, SyncGoes, plannedVars, outsideVars
<1>2. FilesTyped'
  BY <1>1 DEF FilesTyped
<1>3. Planned'
  BY <1>1 DEF Planned, Journaled, Ours
<1>4. \A p \in InstructionPaths : Unrecorded(p)'
  BY <1>1 DEF FilesTyped, Unrecorded
<1>. QED
  BY <1>2, <1>3, <1>4

(* A user writes nothing that is on record or about to be written.         *)
LEMMA EditKeeps ==
  ASSUME FilesInv, NEW q \in InstructionPaths, NEW t \in FileTexts, Edit(q, t)
  PROVE  FilesInv'
<1>. USE DEF FilesInv
<1>1. /\ UNCHANGED <<manifest, next, observed, borrowed, all, left, target, syncStep, isolation>>
      /\ (t # 0 => t # manifest.files[q] /\ t # manifest.pending[q] /\ t # next[q])
      /\ text' = [text EXCEPT ![q] = t] /\ raced' = raced \cup ({q} \cap target)
      /\ author' = [author EXCEPT ![q] = IF t = 0 THEN "none" ELSE "user"]
  BY DEF Edit, plannedVars
<1>2. FilesTyped'
  BY <1>1 DEF FilesTyped
<1>3. \A p \in InstructionPaths \ {q} : text'[p] = text[p] /\ author'[p] = author[p]
  BY <1>1 DEF FilesTyped
<1>4. text'[q] = t /\ (author'[q] = "user" => t # 0)
  BY <1>1 DEF FilesTyped
<1>5. \A p \in InstructionPaths : Unrecorded(p)'
  BY <1>1, <1>3, <1>4 DEF Unrecorded
<1>6. syncStep = "observing" => \A p \in InstructionPaths : Observed(p)'
  <2>. SUFFICES ASSUME syncStep = "observing", NEW p \in InstructionPaths PROVE Observed(p)'
    OBVIOUS
  <2>1. Observed(p)
    BY DEF Planned
  <2>2. CASE p # q
    BY <1>1, <1>3, <2>1, <2>2 DEF Observed
  <2>3. CASE p = q
    BY <1>1, <1>4, <2>1, <2>3 DEF Observed, Planned
  <2>. QED
    BY <2>2, <2>3
<1>7. Planned'
  <2>1. \A p \in InstructionPaths \cap target' : syncStep' = "replacing" /\ author'[p] = "user" => p \in raced'
    BY <1>1, <1>3 DEF Planned
  <2>2. Journaled' <=> Journaled
    BY <1>1 DEF Journaled, Ours
  <2>. QED
    BY <1>1, <1>6, <2>1, <2>2 DEF Planned
<1>. QED
  BY <1>2, <1>5, <1>7

LEMMA CommitKeeps ==
  ASSUME FilesInv, CommitsManifest
  PROVE  FilesInv'
<1>1. /\ UNCHANGED <<text, author, isolation>> /\ syncStep = "verified"
      /\ manifest' = [files |-> Ours(next), pending |-> Blank, journal |-> FALSE]
  BY DEF CommitsManifest, At, outsideVars
<1>2. manifest.pending = Ours(next)
  BY <1>1 DEF FilesInv, Planned, Journaled
<1>3. Ours(next) \in [InstructionPaths -> FileTexts] /\ Blank \in [InstructionPaths -> FileTexts]
  BY DEF FilesInv, FilesTyped, FileTexts, Ours, Blank
<1>4. \A p \in InstructionPaths : author[p] = "user" => text[p] # Ours(next)[p] /\ text[p] # Blank[p]
  BY <1>2 DEF FilesInv, Unrecorded, Blank
<1>. QED
  BY <1>1, <1>3, <1>4, CallEnds DEF CommitsManifest, EndsApply

LEMMA StepFiles == FilesInv /\ [InstructionNext]_instructionVars => FilesInv'
<1>. SUFFICES ASSUME FilesInv, [InstructionNext]_instructionVars PROVE FilesInv'
  OBVIOUS
<1>1. CASE \E a \in Applies : CallApply(a) \/ LeavesLine(a)
  <2>1. UNCHANGED <<text, author, manifest, syncStep, next, observed, borrowed, all, left, target, raced, isolation>>
    BY <1>1 DEF CallApply, LeavesLine, plannedVars, outsideVars
  <2>. QED
    BY <2>1 DEF FilesInv, FilesTyped, Planned, Journaled, Ours, Observed, Unrecorded
<1>2. CASE ApplyFails \/ RestartInstructions
  BY <1>2, CallEnds DEF ApplyFails, RestartInstructions, EndsApply, FilesInv, FilesTyped, Unrecorded, outsideVars
<1>3. CASE ReadsManifest
  <2>1. /\ UNCHANGED <<text, author, manifest, observed, borrowed, isolation>> /\ syncStep = "granted"
        /\ syncStep' = "observing" /\ all' = Managed \cup Present(next)' /\ left' = all'
        /\ next' \in [InstructionPaths -> FileTexts]
    BY <1>3 DEF ReadsManifest, At, SyncGoes, FileTexts, outsideVars, Present
  <2>2. \A p \in InstructionPaths \ all' : next'[p] = 0
    BY <2>1 DEF Present
  <2>3. Planned'
    BY <2>1, <2>2 DEF FilesInv, Planned, Observed
  <2>. QED
    BY <2>1, <2>3 DEF FilesInv, FilesTyped, Unrecorded
<1>4. CASE WritesJournal
  BY <1>4, JournalKeeps
<1>5. CASE Verifies
  <2>1. UNCHANGED <<text, author, manifest, next, observed, borrowed, all, left, isolation>> /\
        syncStep = "applying" /\ syncStep' = "verified"
    BY <1>5 DEF Verifies, At, SyncGoes, plannedVars, outsideVars
  <2>. QED
    BY <2>1 DEF FilesInv, FilesTyped, Planned, Journaled, Ours, Unrecorded
<1>6. CASE CommitsManifest
  BY <1>6, CommitKeeps
<1>7. ASSUME NEW p \in InstructionPaths, Observes(p) \/ LooksAgain(p) \/ Replaces(p) PROVE FilesInv'
  BY <1>7, ObserveKeeps, LookKeeps, ReplaceKeeps
<1>8. ASSUME NEW p \in InstructionPaths, NEW t \in FileTexts, Edit(p, t) PROVE FilesInv'
  BY <1>8, EditKeeps
<1>9. CASE UNCHANGED instructionVars
  BY <1>9 DEF instructionVars, plannedVars, outsideVars, FilesInv, FilesTyped, Planned, Journaled, Ours, Observed, Unrecorded
<1>. QED
  BY <1>1, <1>2, <1>3, <1>4, <1>5, <1>6, <1>7, <1>8, <1>9 DEF InstructionNext, FileTexts

LEMMA StepEdits == edits \in Nat /\ [InstructionNext]_instructionVars => (edits \in Nat)'
<1>. SUFFICES ASSUME edits \in Nat, [InstructionNext]_instructionVars PROVE edits' \in {edits, edits + 1}
  OBVIOUS
<1>. QED
  BY DEF InstructionNext, instructionVars, CallApply, LeavesLine, ApplyFails, ReadsManifest, WritesJournal,
     Verifies, CommitsManifest, RestartInstructions, Observes, LooksAgain, Replaces, Edit, outsideVars

(* Files are adopted in worktrees only.                                    *)
AdoptedInWorktree == FilesTyped /\ \A p \in InstructionPaths : author[p] = "adopted" => isolation = "worktree"

LEMMA StepAdopted == FilesInv /\ AdoptedInWorktree /\ [InstructionNext]_instructionVars => AdoptedInWorktree'
<1>. SUFFICES ASSUME FilesInv, AdoptedInWorktree, [InstructionNext]_instructionVars,
                     NEW p \in InstructionPaths, author'[p] = "adopted"
              PROVE  (author[p] = "adopted" /\ isolation' = isolation) \/ isolation' = "worktree"
  BY StepFiles DEF AdoptedInWorktree, FilesInv
<1>1. isolation' = isolation
  BY DEF InstructionNext, instructionVars, CallApply, LeavesLine, ApplyFails, ReadsManifest, WritesJournal,
     Verifies, CommitsManifest, RestartInstructions, Observes, LooksAgain, Replaces, Edit, outsideVars
<1>2. CASE WritesJournal
  BY <1>1, <1>2 DEF WritesJournal, AuthorsRecorded
<1>3. ASSUME NEW q \in InstructionPaths, NEW a \in {"none", "runner", "user"}, author' = [author EXCEPT ![q] = a]
      PROVE  author[p] = "adopted"
  BY <1>3 DEF FilesInv, FilesTyped
<1>4. \/ author' = author \/ WritesJournal
      \/ \E q \in InstructionPaths, a \in {"none", "runner", "user"} : author' = [author EXCEPT ![q] = a]
  BY DEF InstructionNext, instructionVars, CallApply, LeavesLine, ApplyFails, ReadsManifest,
     Verifies, CommitsManifest, RestartInstructions, Observes, LooksAgain, Replaces, Edit
<1>. QED
  BY <1>1, <1>2, <1>3, <1>4

(* The runner replaces and removes no file of a user but one edited after  *)
(* the last look, or one of a worktree it adopted as it was:               *)
(* FileInstructionWorkspace.apply.                                         *)
THEOREM UserFilesKeptHolds == InstructionSpec => UserFilesKept
<1>1. ASSUME FilesInv, AdoptedInWorktree, edits \in Nat, InstructionNext, NEW p \in InstructionPaths,
             author[p] \in {"user", "adopted"}, text'[p] # text[p], edits' = edits
      PROVE  p \in raced \/ (isolation = "worktree" /\ author[p] = "adopted")
  <2>1. PICK q \in InstructionPaths : Replaces(q)
    <3>1. ASSUME NEW q \in InstructionPaths, NEW t \in FileTexts, Edit(q, t) PROVE edits' # edits
      BY <1>1, <3>1 DEF Edit
    <3>2. ASSUME \/ \E a \in Applies : CallApply(a) \/ LeavesLine(a)
                 \/ ApplyFails \/ ReadsManifest \/ WritesJournal \/ Verifies \/ CommitsManifest
                 \/ RestartInstructions
                 \/ \E q \in InstructionPaths : Observes(q) \/ LooksAgain(q)
          PROVE  text' = text
      BY <3>2 DEF CallApply, LeavesLine, ApplyFails, ReadsManifest, WritesJournal, Verifies,
         CommitsManifest, RestartInstructions, Observes, LooksAgain
    <3>. QED
      BY <1>1, <3>1, <3>2 DEF InstructionNext, FileTexts
  <2>2. q \in target /\ syncStep = "replacing" /\ text' = [text EXCEPT ![q] = next[q]]
    BY <2>1 DEF Replaces, At
  <2>3. p = q
    BY <1>1, <2>2 DEF FilesInv, FilesTyped
  <2>. QED
    BY <1>1, <2>2, <2>3 DEF FilesInv, Planned, AdoptedInWorktree
<1>2. FilesInv /\ AdoptedInWorktree /\ edits \in Nat /\ [InstructionNext]_instructionVars =>
      [\A p \in InstructionPaths :
         author[p] \in {"user", "adopted"} /\ text'[p] # text[p] /\ edits' = edits =>
           p \in raced \/ (isolation = "worktree" /\ author[p] = "adopted")]_instructionVars
  BY <1>1
<1>3. InstructionInit => AdoptedInWorktree /\ edits \in Nat
  <2>. SUFFICES ASSUME InstructionInit PROVE AdoptedInWorktree /\ edits \in Nat
    OBVIOUS
  <2>. QED
    BY InitFiles DEF InstructionInit, AdoptedInWorktree, FilesInv
<1>. QED
  BY InitFiles, StepFiles, StepAdopted, StepEdits, <1>2, <1>3, PTL DEF InstructionSpec, UserFilesKept

-----------------------------------------------------------------------------
(* The synchronization of a device.  Whatever it owns, plans to own or     *)
(* removes was asked for.                                                  *)
Owning == [ServerNames -> Digests \cup {NoEntry}]
Asked(f) == \A n \in ServerNames : f[n] # NoEntry => f[n] \in wantedEver[n]
Items == [steps: {<<>>, <<"add">>, <<"remove">>, <<"remove", "add">>}, expected: Digests \cup {NoEntry},
          owns: Digests \cup {NoEntry}, fallback: Digests \cup {NoEntry}]
Applying == [stage: {"applying"}, plan: [ServerNames -> Items], owned: Owning,
             applied: [ServerNames -> Nat],
             progress: [ServerNames -> {"none", "applied", "failed", "diverged"}], aborted: BOOLEAN]
Saving == [stage: {"saving"}, owns: Owning]

PlanSound(s) ==
  /\ Asked(s.owned)
  /\ \A n \in ServerNames :
       /\ s.plan[n].owns # NoEntry => s.plan[n].owns \in wantedEver[n]
       /\ s.plan[n].fallback # NoEntry => s.plan[n].fallback \in wantedEver[n]
       /\ s.owned[n] = NoEntry => s.plan[n].steps \in {<<>>, <<"add">>}

SyncTyped ==
  /\ config \in [ServerNames -> Entries] /\ ledger \in Owning
  /\ wantedEver \in [ServerNames -> SUBSET Digests] /\ syncNo \in Nat
  /\ sync \in Applying \cup Saving \cup {[stage |-> "ended"], NoSync}
  /\ \A r \in cliRuns : r.name \in ServerNames /\ r.digest \in Digests \cup {NoEntry}

(* One run at a time, of the one in the slot; a removal under way removes  *)
(* what was asked for, and only runs change the configuration meanwhile.   *)
RunsSound ==
  /\ \A r, s \in cliRuns : r = s
  /\ \A r \in cliRuns : r.by = syncNo
  /\ cliRuns # {} => sync # NoSync
  /\ \A r \in cliRuns : sync.stage = "applying" /\ r.kind = "remove" =>
       config[r.name] = NoEntry \/ config[r.name] \in wantedEver[r.name]

SyncInv ==
  /\ SyncTyped /\ RunsSound /\ Asked(ledger)
  /\ sync.stage = "applying" => PlanSound(sync)
  /\ sync.stage = "saving" => Asked(sync.owns)

LEMMA InitSync == SyncInit => SyncInv
  BY DEF SyncInit, SyncInv, SyncTyped, RunsSound, Asked, NoSync, Entries, Owning

LEMMA StartKeeps ==
  ASSUME SyncInv, NEW want \in Owning, NEW retain \in SUBSET ServerNames, StartSync(want, retain)
  PROVE  SyncInv'
<1>. USE DEF SyncInv
<1>1. PICK blocked \in [ServerNames -> BOOLEAN], owned \in LedgerRead :
        sync' = [stage |-> "applying", plan |-> PlanOf(want, retain, owned, blocked), owned |-> owned,
                 applied |-> [n \in ServerNames |-> 0], progress |-> [n \in ServerNames |-> "none"],
                 aborted |-> FALSE]
  BY DEF StartSync
<1>2. /\ UNCHANGED <<config, ledger, cliRuns>> /\ syncNo' = syncNo + 1 /\ cliRuns = {}
      /\ wantedEver' = [n \in ServerNames |-> wantedEver[n] \cup ({want[n]} \ {NoEntry})]
  BY DEF StartSync, SlotFree, RunsSound
<1>3. owned \in Owning /\ Asked(owned)
  BY DEF LedgerRead, Owning, Asked, SyncTyped
<1>4. \A n \in ServerNames : wantedEver[n] \subseteq wantedEver'[n] /\ (want[n] # NoEntry => want[n] \in wantedEver'[n])
  BY <1>2
(* A plan owns and removes what is asked for or was owned before.          *)
<1>5. ASSUME NEW n \in ServerNames
      PROVE  LET item == PlanOf(want, retain, owned, blocked)[n] IN
             /\ item \in Items
             /\ item.owns \in {NoEntry, want[n], owned[n]} /\ item.fallback \in {NoEntry, owned[n]}
             /\ owned[n] = NoEntry => item.steps \in {<<>>, <<"add">>}
  <2>1. /\ want[n] \in Digests \cup {NoEntry} /\ config[n] \in Entries
        /\ owned[n] \in Digests \cup {NoEntry}
    BY <1>3 DEF Owning, SyncTyped
  <2>2. CASE want[n] # NoEntry
    BY <2>1, <2>2 DEF PlanOf, DesiredItem, Item, Idle, Items, DigestOf, Entries
  <2>3. CASE want[n] = NoEntry
    BY <2>1, <2>3 DEF PlanOf, StaleItem, Item, Idle, Items, DigestOf, Entries
  <2>. QED
    BY <2>2, <2>3
<1>6. SyncTyped'
  <2>1. PlanOf(want, retain, owned, blocked) \in [ServerNames -> Items]
    <3>1. PlanOf(want, retain, owned, blocked) =
            [n \in ServerNames |-> PlanOf(want, retain, owned, blocked)[n]]
      BY DEF PlanOf
    <3>. QED
      BY <1>5, <3>1
  <2>2. sync' \in Applying
    BY <1>1, <1>3, <2>1 DEF Applying
  <2>3. wantedEver' \in [ServerNames -> SUBSET Digests]
    BY <1>2 DEF Owning, SyncTyped
  <2>. QED
    BY <1>2, <2>2, <2>3 DEF SyncTyped
<1>7. PlanSound(sync)'
  BY <1>1, <1>3, <1>4, <1>5 DEF PlanSound, Asked
<1>8. Asked(ledger)'
  BY <1>2, <1>4 DEF Asked
<1>9. RunsSound' /\ sync'.stage = "applying"
  BY <1>1, <1>2 DEF RunsSound
<1>. QED
  BY <1>6, <1>7, <1>8, <1>9

(* The guard of a removal: the entry is the one the plan owned.            *)
LEMMA RunKeeps ==
  ASSUME SyncInv, NEW n \in ServerNames, RunStep(n)
  PROVE  SyncInv'
<1>. USE DEF SyncInv
<1>1. /\ UNCHANGED <<config, ledger, wantedEver, syncNo>> /\ sync.stage = "applying" /\ cliRuns = {}
      /\ StepsLeft(n)
  BY DEF RunStep, Running, RunsSound
<1>2. sync \in Applying
  BY <1>1 DEF SyncTyped, Saving, NoSync
<1>3. CASE UNCHANGED cliRuns /\ \E p \in {"diverged", "failed"} : Progress(n, p)
  <2>1. PICK p \in {"diverged", "failed"} : sync' = [sync EXCEPT !.progress[n] = p]
    BY <1>3 DEF Progress
  <2>2. sync' \in Applying /\ sync'.plan = sync.plan /\ sync'.owned = sync.owned
    BY <1>2, <2>1 DEF Applying
  <2>3. PlanSound(sync)'
    BY <1>1, <2>2 DEF PlanSound, Asked
  <2>. QED
    BY <1>1, <1>3, <2>2, <2>3 DEF SyncTyped, RunsSound, Asked, Applying
<1>4. ASSUME UNCHANGED sync, NEW kind, NEW digest, kind = sync.plan[n].steps[sync.applied[n] + 1],
             digest \in Digests \cup {NoEntry},
             cliRuns' = {[by |-> syncNo, name |-> n, kind |-> kind, digest |-> digest]},
             kind = "remove" => DigestOf(config[n]) = sync.owned[n]
      PROVE  SyncInv'
  <2>1. kind = "remove" => config[n] = NoEntry \/ config[n] \in wantedEver[n]
    <3>. SUFFICES ASSUME kind = "remove" PROVE config[n] = NoEntry \/ config[n] \in wantedEver[n]
      OBVIOUS
    <3>1. sync.owned[n] # NoEntry
      <4>. SUFFICES ASSUME sync.owned[n] = NoEntry PROVE FALSE
        OBVIOUS
      <4>1. sync.plan[n].steps \in {<<>>, <<"add">>}
        BY <1>1 DEF PlanSound
      <4>2. sync.applied[n] \in Nat /\ sync.applied[n] < Len(sync.plan[n].steps)
        BY <1>1, <1>2 DEF StepsLeft, Applying
      <4>3. sync.plan[n].steps # <<>>
        <5>. SUFFICES ASSUME sync.plan[n].steps = <<>> PROVE FALSE
          OBVIOUS
        <5>1. Len(sync.plan[n].steps) = 0
          OBVIOUS
        <5>. QED
          BY <4>2, <5>1
      <4>4. sync.plan[n].steps = <<"add">>
        BY <4>1, <4>3
      <4>5. Len(sync.plan[n].steps) = 1
        BY <4>4
      <4>6. sync.applied[n] + 1 = 1
        BY <4>2, <4>5
      <4>7. kind = <<"add">>[1]
        BY <1>4, <4>4, <4>6
      <4>. QED
        BY <4>7
    <3>2. config[n] = sync.owned[n]
      BY <1>4, <3>1 DEF DigestOf
    <3>. QED
      BY <1>1, <3>1, <3>2 DEF PlanSound, Asked
  <2>2. RunsSound'
    BY <1>1, <1>4, <2>1 DEF RunsSound, NoSync
  <2>. QED
    BY <1>1, <1>4, <2>2 DEF SyncTyped, Asked, PlanSound
<1>5. sync.plan[n].expected \in Digests \cup {NoEntry}
  BY <1>2 DEF Applying, Items
<1>. QED
  BY <1>1, <1>3, <1>4, <1>5 DEF RunStep

LEMMA RunEndKeeps ==
  ASSUME SyncInv, NEW r \in cliRuns, RunEnds(r)
  PROVE  SyncInv'
<1>. USE DEF SyncInv
<1>1. cliRuns' = {} /\ UNCHANGED <<ledger, wantedEver, syncNo>> /\ r.name \in ServerNames
  BY DEF RunEnds, RunsSound, SyncTyped
<1>2. config' \in {config, Landed(r)}
  BY DEF RunEnds
<1>3. config' \in [ServerNames -> Entries]
  BY <1>2 DEF Landed, SyncTyped, Entries
<1>4. CASE UNCHANGED sync
  BY <1>1, <1>3, <1>4 DEF SyncTyped, RunsSound, Asked, PlanSound
<1>5. CASE ~UNCHANGED sync
  <2>1. sync.stage = "applying" /\ r.by = syncNo
    BY <1>5 DEF RunEnds
  <2>2. sync \in Applying
    BY <2>1 DEF SyncTyped, Saving, NoSync
  <2>. DEFINE done == sync.applied[r.name] + 1
              last == IF done = Len(sync.plan[r.name].steps) THEN "applied" ELSE sync.progress[r.name]
  <2>0. done \in Nat /\ last \in {"none", "applied", "failed", "diverged"}
    BY <1>1, <2>2 DEF Applying
  <2>3. \/ sync' = [sync EXCEPT !.applied[r.name] = done, !.progress[r.name] = last]
        \/ sync' = [sync EXCEPT !.progress[r.name] = "failed"]
    BY <1>5 DEF RunEnds, Progress
  <2>. HIDE DEF done, last
  <2>4. sync' \in Applying /\ sync'.plan = sync.plan /\ sync'.owned = sync.owned
    <3>1. CASE sync' = [sync EXCEPT !.applied[r.name] = done, !.progress[r.name] = last]
      BY <1>1, <2>0, <2>2, <3>1 DEF Applying
    <3>2. CASE sync' = [sync EXCEPT !.progress[r.name] = "failed"]
      BY <1>1, <2>2, <3>2 DEF Applying
    <3>. QED
      BY <2>3, <3>1, <3>2
  <2>5. PlanSound(sync)'
    BY <1>1, <2>1, <2>4 DEF PlanSound, Asked
  <2>. QED
    BY <1>1, <1>3, <2>4, <2>5 DEF SyncTyped, RunsSound, Asked, Applying
<1>. QED
  BY <1>4, <1>5

(* The ledger takes over only what a plan owns.                            *)
LEMMA SettleKeeps ==
  ASSUME SyncInv, SettleSync
  PROVE  SyncInv'
<1>. USE DEF SyncInv
<1>1. UNCHANGED <<config, ledger, wantedEver, syncNo, cliRuns>> /\ sync.stage = "applying"
  BY DEF SettleSync
<1>2. sync \in Applying /\ PlanSound(sync)
  BY <1>1 DEF SyncTyped, Saving, NoSync
<1>3. ASSUME NEW n \in ServerNames
      PROVE  SettledEntries(config)[n] \in {NoEntry, sync.plan[n].owns, sync.plan[n].fallback}
  BY DEF SettledEntries
<1>4. \A n \in ServerNames : SettledEntries(config)[n] \in Digests \cup {NoEntry}
  <2>. TAKE n \in ServerNames
  <2>1. sync.plan[n].owns \in Digests \cup {NoEntry} /\ sync.plan[n].fallback \in Digests \cup {NoEntry}
    BY <1>2 DEF Applying, Items
  <2>. QED
    BY <1>3, <2>1
<1>5. SettledEntries(config) \in Owning
  <2>1. SettledEntries(config) = [n \in ServerNames |-> SettledEntries(config)[n]]
    BY DEF SettledEntries
  <2>. QED
    BY <1>4, <2>1 DEF Owning
<1>6. Asked(SettledEntries(config))
  BY <1>2, <1>3 DEF Asked, PlanSound
<1>7. CASE sync' = [stage |-> "saving", owns |-> SettledEntries(config)]
  <2>1. sync' \in Saving /\ sync'.stage = "saving" /\ sync'.owns = SettledEntries(config)
    BY <1>5, <1>7 DEF Saving
  <2>2. \A n \in ServerNames : sync'.owns[n] # NoEntry => sync'.owns[n] \in wantedEver'[n]
    BY <1>1, <1>6, <2>1 DEF Asked
  <2>. QED
    BY <1>1, <2>1, <2>2 DEF SyncTyped, RunsSound, Asked, NoSync
<1>8. CASE sync' = [stage |-> "ended"]
  BY <1>1, <1>8 DEF SyncTyped, RunsSound, Asked, NoSync
<1>. QED
  BY <1>7, <1>8 DEF SettleSync

(* The time is over, the ledger is saved or the slot is given back: what   *)
(* runs, and what was asked for, stays.                                    *)
LEMMA SlotKeeps ==
  ASSUME SyncInv, WorkAborts \/ SaveLedger \/ SlotDrained
  PROVE  SyncInv'
<1>. USE DEF SyncInv
<1>1. CASE WorkAborts
  <2>1. /\ UNCHANGED <<config, ledger, wantedEver, syncNo, cliRuns>> /\ sync.stage = "applying"
        /\ sync' = [sync EXCEPT !.aborted = TRUE]
    BY <1>1 DEF WorkAborts
  <2>2. sync \in Applying
    BY <2>1 DEF SyncTyped, Saving, NoSync
  <2>3. sync' \in Applying /\ sync'.plan = sync.plan /\ sync'.owned = sync.owned
    BY <2>1, <2>2 DEF Applying
  <2>4. PlanSound(sync)'
    BY <2>1, <2>3 DEF PlanSound, Asked
  <2>. QED
    BY <2>1, <2>3, <2>4 DEF SyncTyped, RunsSound, Asked, Applying, NoSync
<1>2. CASE SaveLedger
  <2>1. /\ UNCHANGED <<config, wantedEver, syncNo, cliRuns>> /\ sync.stage = "saving"
        /\ ledger' \in {ledger, sync.owns} /\ sync' = [stage |-> "ended"]
    BY <1>2 DEF SaveLedger
  <2>2. sync.owns \in Owning
    BY <2>1 DEF SyncTyped, Applying, Saving, NoSync
  <2>3. ledger' \in Owning /\ Asked(ledger)'
    BY <2>1, <2>2 DEF SyncTyped, Asked
  <2>. QED
    BY <2>1, <2>3 DEF SyncTyped, RunsSound, NoSync
<1>3. CASE SlotDrained
  <2>1. /\ UNCHANGED <<config, ledger, wantedEver, syncNo, cliRuns>> /\ sync' = NoSync /\ cliRuns = {}
    BY <1>3 DEF SlotDrained, Running, RunsSound
  <2>. QED
    BY <2>1 DEF SyncTyped, RunsSound, Asked, NoSync
<1>. QED
  BY <1>1, <1>2, <1>3

(* Another change takes the slot, somebody else edits, or the runner       *)
(* crashes: nothing is under way beside it.                                *)
LEMMA OthersKeep ==
  ASSUME SyncInv,
         \/ \E n \in ServerNames, entry \in Digests \cup {NoEntry} : StartChange(n, entry)
         \/ \E n \in ServerNames, entry \in Entries : OtherEdits(n, entry)
         \/ SyncCrash
  PROVE  SyncInv'
<1>. USE DEF SyncInv
<1>1. ASSUME NEW n \in ServerNames, NEW entry \in Digests \cup {NoEntry}, StartChange(n, entry)
      PROVE  SyncInv'
  <2>1. PICK kind : cliRuns' = cliRuns \cup {[by |-> syncNo', name |-> n, kind |-> kind, digest |-> entry]}
    BY <1>1 DEF StartChange
  <2>2. /\ UNCHANGED <<config, ledger, wantedEver>> /\ sync' = [stage |-> "ended"] /\ cliRuns = {}
        /\ syncNo' = syncNo + 1
    BY <1>1 DEF StartChange, SlotFree, RunsSound
  <2>. QED
    BY <2>1, <2>2 DEF SyncTyped, RunsSound, Asked, NoSync
<1>2. ASSUME NEW n \in ServerNames, NEW entry \in Entries, OtherEdits(n, entry)
      PROVE  SyncInv'
  <2>1. /\ UNCHANGED <<ledger, wantedEver, syncNo, sync, cliRuns>> /\ cliRuns = {}
        /\ config' \in [ServerNames -> Entries]
    BY <1>2 DEF OtherEdits, SyncTyped
  <2>. QED
    BY <2>1 DEF SyncTyped, RunsSound, Asked, PlanSound
<1>3. CASE SyncCrash
  <2>1. /\ UNCHANGED <<ledger, wantedEver, syncNo>> /\ sync' = NoSync /\ cliRuns' = {}
    BY <1>3 DEF SyncCrash
  <2>2. config' \in [ServerNames -> Entries]
    BY <1>3 DEF SyncCrash, Landed, SyncTyped, Entries
  <2>. QED
    BY <2>1, <2>2 DEF SyncTyped, RunsSound, Asked, NoSync
<1>. QED
  BY <1>1, <1>2, <1>3

LEMMA StepSync == SyncInv /\ [SyncNext]_syncVars => SyncInv'
<1>. SUFFICES ASSUME SyncInv, [SyncNext]_syncVars PROVE SyncInv'
  OBVIOUS
<1>1. CASE UNCHANGED syncVars
  BY <1>1 DEF syncVars, SyncInv, SyncTyped, RunsSound, Asked, PlanSound
<1>2. CASE SyncNext
  BY <1>2, StartKeeps, RunKeeps, RunEndKeeps, SettleKeeps, SlotKeeps, OthersKeep DEF SyncNext, Owning
<1>. QED
  BY <1>1, <1>2

(* A synchronization removes no entry that the device never asked for,     *)
(* whatever others write and whenever the runner crashes: a removal under  *)
(* way is of an entry the plan owned (apply, domain/mcp-device-sync.ts).   *)
THEOREM RemovesOnlyItsOwnHolds == SyncSpec => RemovesOnlyItsOwn
<1>1. SyncInv /\ [SyncNext]_syncVars =>
        [\A r \in cliRuns \ cliRuns' :
           sync.stage = "applying" /\ r.kind = "remove" /\ config[r.name] # config'[r.name]
             => config[r.name] \in wantedEver[r.name]]_syncVars
  <2>. SUFFICES ASSUME SyncInv, SyncNext, NEW r \in cliRuns \ cliRuns', sync.stage = "applying",
                       r.kind = "remove", config[r.name] # config'[r.name]
                PROVE  config[r.name] \in wantedEver[r.name]
    OBVIOUS
  <2>1. config[r.name] = NoEntry \/ config[r.name] \in wantedEver[r.name]
    BY DEF SyncInv, RunsSound
  <2>2. config[r.name] \in Entries /\ r.name \in ServerNames
    BY DEF SyncInv, SyncTyped
  <2>3. \A s \in cliRuns : s = r
    BY DEF SyncInv, RunsSound
  <2>4. config' \in {config, Landed(r)}
    BY <2>3 DEF SyncNext, StartSync, RunStep, RunEnds, WorkAborts, SettleSync, SaveLedger, SlotDrained,
                SyncCrash, OtherEdits, StartChange
  <2>5. Landed(r)[r.name] = NoEntry
    BY <2>2 DEF Landed, SyncInv, SyncTyped
  <2>6. config'[r.name] = NoEntry
    BY <2>4, <2>5
  <2>. QED
    BY <2>1, <2>6
<1>. QED
  BY InitSync, StepSync, <1>1, PTL DEF SyncSpec, RemovesOnlyItsOwn

(* What the ledger owns is what the device asked for, so that the tools of *)
(* nobody else's server are approved, and one process at a time writes the *)
(* configuration, also after a request that timed out.                     *)
THEOREM SyncSoundHolds == SyncSpec => []SyncSound
<1>1. SyncInv => SyncSound
  <2>. SUFFICES ASSUME SyncInv PROVE SyncSound
    OBVIOUS
  <2>1. OwnsWhatWasAsked
    <3>1. \A n \in ServerNames : ledger[n] # NoEntry => ledger[n] \in wantedEver[n]
      BY DEF SyncInv, Asked
    <3>2. ASSUME NEW n \in Preapproved PROVE config[n] \in wantedEver[n]
      <4>1. n \in ServerNames /\ ledger[n] # NoEntry /\ config[n] = ledger[n]
        BY DEF Preapproved, DigestOf
      <4>. QED
        BY <3>1, <4>1
    <3>. QED
      BY <3>1, <3>2 DEF OwnsWhatWasAsked
  <2>2. OneConfigWriter
    <3>1. CASE cliRuns = {}
      BY <3>1, FS_EmptySet DEF OneConfigWriter
    <3>2. CASE cliRuns # {}
      <4>1. PICK r : cliRuns = {r}
        BY <3>2 DEF SyncInv, RunsSound
      <4>. QED
        BY <4>1, FS_Singleton DEF OneConfigWriter
    <3>. QED
      BY <3>1, <3>2
  <2>. QED
    BY <2>1, <2>2 DEF SyncSound
<1>. QED
  BY InitSync, StepSync, <1>1, PTL DEF SyncSpec

(***************************************************************************)
(* ProjectClone                                                            *)
(***************************************************************************)
CallKinds == [op: OfWorker \cup {"cancel", "register"}, job: Clones \cup {0}, with: Terminal \cup {""}]
CloneStages == {"off", "claiming", "looking", "cloning", "copying", "finishing", "catching", "checking", "cleaning"}
Answers == {"none", "lost", "nothing", "claimed"} \cup Active \cup Terminal
CloneRuns == [job: Clones \cup {0}, next: Clones \cup {0}, stage: CloneStages, reply: Answers,
              aborted: BOOLEAN, prepared: BOOLEAN, publishing: BOOLEAN, published: BOOLEAN, throws: BOOLEAN]
Registrations == [stage: {"retained", "posted"}, path: ProjectNames, name: FolderNames, identity: Clones \cup {Other}]
CloneTyped ==
  /\ cloneRow \in [Clones -> CloneRows] /\ managed \in SUBSET ManagedRows
  /\ folder \in [ProjectNames -> Clones \cup {NoFolder, Other}]
  /\ cloneRun \in CloneRuns /\ storeUp \in BOOLEAN /\ cloneClosed \in BOOLEAN
  /\ registering \in {NotRegistering} \cup Registrations
  /\ storeCalls \in Seq(CallKinds)
  /\ \A j \in Clones : CloneStatus(j) # "none" => cloneRow[j].name \in ProjectNames

(* The channel: the worker awaits its only call, and a registration its.   *)
CloneAwaited(call, run, reg) ==
  /\ call.op \in OfWorker => run.reply = "none"
  /\ call.op = "claim" => run.stage = "claiming"
  /\ call.op = "get" => run.stage \in {"looking", "checking"} /\ call.job = run.job
  /\ call.op = "finish" => /\ run.stage \in {"finishing", "catching"} /\ call.job = run.job
                           /\ call.with \in Terminal
                           /\ call.with = "succeeded" <=> run.stage = "finishing"
  /\ call.op = "cancel" => call.job \in Clones
  /\ call.op = "register" => reg.stage = "posted"
ChannelSound ==
  /\ \A i \in 1..Len(storeCalls) : CloneAwaited(storeCalls[i], cloneRun, registering)
  /\ \A i, k \in 1..Len(storeCalls) :
       /\ storeCalls[i].op \in OfWorker /\ storeCalls[k].op \in OfWorker => i = k
       /\ storeCalls[i].op = "register" /\ storeCalls[k].op = "register" => i = k

(* The worker: what it knows of its job at each stage.                     *)
Job == cloneRow[cloneRun.job]
Made == cloneRun.stage = "copying" \/ cloneRun.prepared
Mine(p) == Made /\ Job.name = p
WorkerSound ==
  /\ cloneRun.job # 0 => Job.status # "none"
  /\ cloneRun.stage \notin {"off", "claiming"} => cloneRun.job # 0
  /\ cloneRun.reply = "claimed" => cloneRun.next # 0 /\ CloneStatus(cloneRun.next) # "none"
  /\ cloneRun.stage # "claiming" => cloneRun.reply # "claimed"
  /\ cloneRun.stage \in {"off", "claiming", "looking", "cloning", "copying"} =>
       ~cloneRun.prepared /\ ~cloneRun.publishing
  /\ cloneRun.stage = "finishing" => cloneRun.prepared /\ cloneRun.publishing
  /\ cloneRun.stage # "cleaning" => ~cloneRun.published
  /\ Made => cloneRun.job # 0 /\ folder[Job.name] = cloneRun.job
  /\ cloneRun.stage \in {"finishing", "checking"} /\ cloneRun.reply \notin {"none", "lost"}
       /\ Job.status = "succeeded" => cloneRun.reply = "succeeded"

(* The registration: a folder it has looked at is not the worker's.        *)
RegistrationSound ==
  registering.stage = "posted" => folder[registering.path] # NoFolder /\ ~Mine(registering.path)

(* The projects: the worker knows of one in its folder that it is its own. *)
CloneSettled(m) ==
  /\ folder[m.path] # NoFolder
  /\ m.by # 0 => CloneStatus(m.by) = "succeeded" /\ folder[m.path] = m.by
  /\ Mine(m.path) => /\ m.by = cloneRun.job
                     /\ cloneRun.stage = "cleaning" => cloneRun.published
                     /\ cloneRun.stage # "cleaning" => cloneRun.publishing
ProjectsSound ==
  /\ \A m \in managed : CloneSettled(m)
  /\ \A m, k \in managed : m.path = k.path \/ m.name = k.name => m = k

CloneInv == CloneTyped /\ ChannelSound /\ WorkerSound /\ RegistrationSound /\ ProjectsSound

LEMMA InitClones == CloneInit => CloneInv
<1>. SUFFICES ASSUME CloneInit PROVE CloneInv
  OBVIOUS
<1>1. CloneTyped
  <2>1. /\ cloneRow \in [Clones -> CloneRows] /\ managed \in SUBSET ManagedRows
        /\ folder \in [ProjectNames -> Clones \cup {NoFolder, Other}]
        /\ \A j \in Clones : CloneStatus(j) = "none"
    BY DEF CloneInit, CloneRows, CloneStatus
  <2>2. cloneRun \in CloneRuns
    BY DEF CloneInit, CloneRuns, CloneStages, Answers, NotRunning
  <2>3. storeCalls \in Seq(CallKinds)
    BY EmptySeq DEF CloneInit
  <2>. QED
    BY <2>1, <2>2, <2>3 DEF CloneInit, CloneTyped
<1>2. ChannelSound
  BY DEF CloneInit, ChannelSound
<1>3. WorkerSound /\ RegistrationSound /\ ProjectsSound
  BY DEF CloneInit, WorkerSound, RegistrationSound, ProjectsSound, NotRunning, NotRegistering, Made
<1>. QED
  BY <1>1, <1>2, <1>3 DEF CloneInv

(* A worker that awaits no call has none under way.                        *)
NoCall == \A i \in 1..Len(storeCalls) : storeCalls[i].op \notin OfWorker
LEMMA NoWorkerCall ==
  ASSUME CloneInv, \/ cloneRun.reply # "none" 
                   \/ cloneRun.stage \in {"off", "cloning", "copying", "cleaning"}
  PROVE  NoCall
  BY DEF CloneInv, ChannelSound, CloneAwaited, NoCall, OfWorker

(* A call is added to those under way.                                     *)
LEMMA CallAdded ==
  ASSUME CloneInv, NEW c \in CallKinds, storeCalls' = Append(storeCalls, c), CloneAwaited(c, cloneRun', registering'),
         c.op \in OfWorker => NoCall,
         c.op = "register" => \A i \in 1..Len(storeCalls) : storeCalls[i].op # "register",
         \A i \in 1..Len(storeCalls) : CloneAwaited(storeCalls[i], cloneRun, registering) => CloneAwaited(storeCalls[i], cloneRun', registering')
  PROVE  storeCalls' \in Seq(CallKinds) /\ ChannelSound'
<1>1. /\ storeCalls \in Seq(CallKinds) /\ Len(storeCalls) \in Nat
      /\ storeCalls' \in Seq(CallKinds) /\ Len(storeCalls') = Len(storeCalls) + 1
      /\ \A i \in 1..Len(storeCalls) : storeCalls'[i] = storeCalls[i]
      /\ storeCalls'[Len(storeCalls) + 1] = c
  BY AppendProperties, LenProperties DEF CloneInv, CloneTyped
<1>2. \A i \in 1..Len(storeCalls') : i \in 1..Len(storeCalls) \/ i = Len(storeCalls) + 1
  BY <1>1
<1>3. ASSUME NEW i \in 1..Len(storeCalls') PROVE CloneAwaited(storeCalls'[i], cloneRun', registering')
  <2>1. CASE i \in 1..Len(storeCalls)
    <3>1. CloneAwaited(storeCalls[i], cloneRun', registering')
      BY <2>1 DEF CloneInv, ChannelSound
    <3>. QED
      BY <3>1, <2>1, <1>1 DEF CloneAwaited
  <2>2. CASE i = Len(storeCalls) + 1
    BY <2>2, <1>1 DEF CloneAwaited
  <2>. QED
    BY <1>2, <2>1, <2>2
<1>4. \A i, k \in 1..Len(storeCalls) :
        /\ storeCalls[i].op \in OfWorker /\ storeCalls[k].op \in OfWorker => i = k
        /\ storeCalls[i].op = "register" /\ storeCalls[k].op = "register" => i = k
  BY DEF CloneInv, ChannelSound
<1>5. ASSUME NEW i \in 1..Len(storeCalls'), NEW k \in 1..Len(storeCalls')
      PROVE  /\ storeCalls'[i].op \in OfWorker /\ storeCalls'[k].op \in OfWorker => i = k
             /\ storeCalls'[i].op = "register" /\ storeCalls'[k].op = "register" => i = k
  BY <1>1, <1>2, <1>4 DEF NoCall
<1>. QED
  BY <1>1, <1>3, <1>5 DEF ChannelSound

(* The oldest call leaves the channel.                                     *)
LEMMA CallTaken ==
  ASSUME CloneInv, storeCalls # <<>>, storeCalls' = Tail(storeCalls),
         \A i \in 2..Len(storeCalls) : CloneAwaited(storeCalls[i], cloneRun, registering) => CloneAwaited(storeCalls[i], cloneRun', registering')
  PROVE  storeCalls' \in Seq(CallKinds) /\ ChannelSound'
<1>1. /\ storeCalls \in Seq(CallKinds) /\ Len(storeCalls) \in Nat
      /\ storeCalls' \in Seq(CallKinds) /\ Len(storeCalls') = Len(storeCalls) - 1
      /\ \A i \in 1..Len(storeCalls') : storeCalls'[i] = storeCalls[i + 1]
  BY HeadTailProperties, LenProperties DEF CloneInv, CloneTyped
<1>2. \A i \in 1..Len(storeCalls') : i + 1 \in 2..Len(storeCalls) /\ i + 1 \in 1..Len(storeCalls)
  BY <1>1
<1>3. ASSUME NEW i \in 1..Len(storeCalls') PROVE CloneAwaited(storeCalls'[i], cloneRun', registering')
  <2>1. CloneAwaited(storeCalls[i + 1], cloneRun', registering')
    BY <1>2 DEF CloneInv, ChannelSound
  <2>. QED
    BY <2>1, <1>1 DEF CloneAwaited
<1>4. \A i, k \in 1..Len(storeCalls) :
        /\ storeCalls[i].op \in OfWorker /\ storeCalls[k].op \in OfWorker => i = k
        /\ storeCalls[i].op = "register" /\ storeCalls[k].op = "register" => i = k
  BY DEF CloneInv, ChannelSound
<1>5. ASSUME NEW i \in 1..Len(storeCalls'), NEW k \in 1..Len(storeCalls')
      PROVE  /\ storeCalls'[i].op \in OfWorker /\ storeCalls'[k].op \in OfWorker => i = k
             /\ storeCalls'[i].op = "register" /\ storeCalls'[k].op = "register" => i = k
  <2>1. /\ storeCalls'[i].op \in OfWorker /\ storeCalls'[k].op \in OfWorker => i + 1 = k + 1
        /\ storeCalls'[i].op = "register" /\ storeCalls'[k].op = "register" => i + 1 = k + 1
    BY <1>1, <1>2, <1>4
  <2>. QED
    BY <2>1
<1>. QED
  BY <1>1, <1>3, <1>5 DEF ChannelSound

(* A step of the worker leaves the rows and the registration alone.        *)
LEMMA WorkerKeeps ==
  ASSUME CloneInv, UnchangedByWorker, NoCall, cloneRun' \in CloneRuns,
         folder' \in [ProjectNames -> Clones \cup {NoFolder, Other}], NEW c \in CallKinds,
         \/ storeCalls' = storeCalls
         \/ storeCalls' = Append(storeCalls, c) /\ c.op \in OfWorker /\ CloneAwaited(c, cloneRun', registering'),
         WorkerSound', RegistrationSound', \A m \in managed : CloneSettled(m)'
  PROVE  CloneInv'
<1>1. \A i \in 1..Len(storeCalls) :
        CloneAwaited(storeCalls[i], cloneRun, registering) => CloneAwaited(storeCalls[i], cloneRun', registering')
  BY DEF CloneAwaited, NoCall, OfWorker, UnchangedByWorker
<1>2. storeCalls' \in Seq(CallKinds) /\ ChannelSound'
  <2>1. CASE storeCalls' = storeCalls
    BY <2>1, <1>1 DEF CloneInv, CloneTyped, ChannelSound
  <2>2. CASE storeCalls' = Append(storeCalls, c) /\ c.op \in OfWorker /\ CloneAwaited(c, cloneRun', registering')
    <3>1. c.op # "register"
      BY <2>2 DEF OfWorker
    <3>. QED
      BY <2>2, <3>1, <1>1, CallAdded
  <2>. QED
    BY <2>1, <2>2
<1>3. CloneTyped'
  BY <1>2 DEF CloneInv, CloneTyped, UnchangedByWorker, CloneStatus
<1>4. ProjectsSound'
  BY DEF CloneInv, ProjectsSound, UnchangedByWorker
<1>. QED
  BY <1>2, <1>3, <1>4 DEF CloneInv

(* ... and one that makes and removes no folder need only see to the run.  *)
LEMMA WorkerGoesOn ==
  ASSUME CloneInv, UnchangedByWorker, NoCall, UNCHANGED folder, cloneRun' \in CloneRuns, NEW c \in CallKinds,
         \/ storeCalls' = storeCalls
         \/ storeCalls' = Append(storeCalls, c) /\ c.op \in OfWorker /\ CloneAwaited(c, cloneRun', registering'),
         WorkerSound',
         Made' => /\ Made /\ cloneRun'.job = cloneRun.job
                  /\ \/ /\ cloneRun'.stage = "cleaning" => cloneRun'.published
                        /\ cloneRun'.stage # "cleaning" => cloneRun'.publishing
                     \/ ~ \E m \in managed : Mine(m.path)
  PROVE  CloneInv'
<1>1. \A p : Mine(p)' => Mine(p) /\ cloneRun'.job = cloneRun.job
  BY DEF Mine, Job, UnchangedByWorker
<1>2. RegistrationSound'
  BY <1>1 DEF CloneInv, RegistrationSound, UnchangedByWorker
<1>3. ASSUME NEW m \in managed PROVE CloneSettled(m)'
  <2>1. CloneSettled(m)
    BY DEF CloneInv, ProjectsSound
  <2>2. CloneStatus(m.by)' = CloneStatus(m.by)
    BY DEF UnchangedByWorker, CloneStatus
  <2>3. Mine(m.path)' => /\ m.by = cloneRun'.job
                         /\ cloneRun'.stage = "cleaning" => cloneRun'.published
                         /\ cloneRun'.stage # "cleaning" => cloneRun'.publishing
    BY <1>1, <2>1 DEF CloneSettled, Mine
  <2>. QED
    BY <2>1, <2>2, <2>3 DEF CloneSettled
<1>4. folder' \in [ProjectNames -> Clones \cup {NoFolder, Other}]
  BY DEF CloneInv, CloneTyped
<1>. QED
  BY <1>2, <1>3, <1>4, WorkerKeeps

LEMMA WakeKeeps == CloneInv /\ WakeCloner => CloneInv'
<1>. SUFFICES ASSUME CloneInv, WakeCloner PROVE CloneInv'
  OBVIOUS
<1>. DEFINE c == Call("claim", 0, "")
<1>1. cloneRun \in CloneRuns /\ c \in CallKinds /\ c.op \in OfWorker
  BY DEF CloneInv, CloneTyped, CallKinds, Call, OfWorker, Terminal
<1>2. /\ cloneRun.stage = "off" /\ cloneRun' = [cloneRun EXCEPT !.stage = "claiming", !.reply = "none"]
      /\ storeCalls' = Append(storeCalls, c) /\ UNCHANGED folder /\ UnchangedByWorker
  BY <1>1 DEF WakeCloner, Calls, CloneRuns
<1>3. cloneRun' \in CloneRuns /\ CloneAwaited(c, cloneRun', registering')
  BY <1>1, <1>2 DEF CloneRuns, CloneStages, Answers, CloneAwaited, Call
<1>4. WorkerSound' /\ ~Made'
  BY <1>1, <1>2 DEF CloneInv, WorkerSound, CloneRuns, Made, Job, UnchangedByWorker, CloneStatus
<1>5. NoCall
  BY <1>2, NoWorkerCall
<1>. HIDE DEF c
<1>. QED
  BY <1>1, <1>2, <1>3, <1>4, <1>5, WorkerGoesOn

LEMMA ClaimedKeeps == CloneInv /\ Claimed => CloneInv'
<1>. SUFFICES ASSUME CloneInv, Claimed PROVE CloneInv'
  OBVIOUS
<1>. DEFINE c == Call("get", cloneRun.next, "")
<1>1. cloneRun \in CloneRuns /\ c \in CallKinds /\ c.op \in OfWorker
  BY DEF CloneInv, CloneTyped, CallKinds, Call, OfWorker, Terminal, CloneRuns
<1>2. /\ cloneRun.stage = "claiming" /\ cloneRun.reply # "none"
      /\ UNCHANGED folder /\ UnchangedByWorker
  BY DEF Claimed, CloneAnswered
<1>3. NoCall
  BY <1>2, NoWorkerCall
<1>4. CASE cloneRun.reply # "claimed"
  <2>1. cloneRun' = [cloneRun EXCEPT !.stage = "off", !.reply = "none"] /\ storeCalls' = storeCalls
    BY <1>1, <1>4 DEF Claimed, Works, CloneRuns
  <2>2. cloneRun' \in CloneRuns
    BY <1>1, <2>1 DEF CloneRuns, CloneStages, Answers
  <2>3. WorkerSound' /\ ~Made'
    BY <1>1, <1>2, <2>1 DEF CloneInv, WorkerSound, CloneRuns, Made, Job, UnchangedByWorker, CloneStatus
  <2>. HIDE DEF c
  <2>. QED
    BY <1>1, <1>2, <1>3, <2>1, <2>2, <2>3, WorkerGoesOn
<1>5. CASE cloneRun.reply = "claimed"
  <2>1. cloneRun.next # 0 /\ CloneStatus(cloneRun.next) # "none"
    BY <1>5 DEF CloneInv, WorkerSound
  <2>2. \E s \in {"cloning", "looking"}, b \in BOOLEAN :
          cloneRun' = [job |-> cloneRun.next, stage |-> s, aborted |-> b, prepared |-> FALSE,
                       publishing |-> FALSE, published |-> FALSE, throws |-> FALSE,
                       reply |-> "none", next |-> 0]
    <3>1. CASE cloneClosed
      BY <3>1, <1>5, <1>2 DEF Claimed, Works, NotRunning
    <3>2. CASE ~cloneClosed
      BY <3>2, <1>5, <1>2 DEF Claimed, Calls, NotRunning
    <3>. QED
      BY <3>1, <3>2
  <2>3. \/ storeCalls' = storeCalls
        \/ storeCalls' = Append(storeCalls, c) /\ cloneRun'.stage = "looking"
    BY <1>5, <1>2 DEF Claimed, Works, Calls, NotRunning
  <2>4. cloneRun' \in CloneRuns
    <3>1. cloneRun.next \in Clones \cup {0}
      BY <1>1 DEF CloneRuns
    <3>. QED
      BY <3>1, <2>2 DEF CloneRuns, CloneStages, Answers
  <2>5. cloneRun'.stage = "looking" => CloneAwaited(c, cloneRun', registering')
    BY <2>2 DEF CloneAwaited, Call, NotRunning
  <2>6. WorkerSound' /\ ~Made'
    BY <1>2, <2>1, <2>2 DEF WorkerSound, Made, Job, UnchangedByWorker, CloneStatus, NotRunning
  <2>. HIDE DEF c
  <2>. QED
    BY <1>1, <1>2, <1>3, <2>3, <2>4, <2>5, <2>6, WorkerGoesOn
<1>. QED
  BY <1>4, <1>5

LEMMA LookedAtKeeps == CloneInv /\ LookedAt => CloneInv'
<1>. SUFFICES ASSUME CloneInv, LookedAt PROVE CloneInv'
  OBVIOUS
<1>1. cloneRun \in CloneRuns /\ storeCalls' = storeCalls /\ UNCHANGED folder /\ UnchangedByWorker
  BY DEF CloneInv, CloneTyped, LookedAt, Works
<1>2. /\ cloneRun.stage = "looking" /\ cloneRun.reply # "none"
      /\ \/ cloneRun' = [cloneRun EXCEPT !.stage = "off", !.reply = "none"]
         \/ cloneRun' = [cloneRun EXCEPT !.stage = "cloning", !.aborted = @ \/ cloneRun.reply # "running",
                                         !.reply = "none"]
  <2>1. CASE cloneRun.reply = "lost"
    BY <1>1, <2>1 DEF LookedAt, CloneAnswered, Works, CloneRuns
  <2>2. CASE cloneRun.reply # "lost"
    BY <1>1, <2>2 DEF LookedAt, CloneAnswered, Works, CloneRuns
  <2>. QED
    BY <2>1, <2>2
<1>3. NoCall
  BY <1>2, NoWorkerCall
<1>4. cloneRun' \in CloneRuns
  BY <1>1, <1>2 DEF CloneRuns, CloneStages, Answers
<1>5. WorkerSound' /\ ~Made'
  BY <1>1, <1>2 DEF CloneInv, WorkerSound, CloneRuns, Made, Job, UnchangedByWorker, CloneStatus
<1>6. Call("claim", 0, "") \in CallKinds
  BY DEF Call, CallKinds, OfWorker
<1>. QED
  BY <1>1, <1>3, <1>4, <1>5, <1>6, WorkerGoesOn

(* What the worker records when something has failed.                      *)
JobEnds(run) == Call("finish", run.job, IF cloneClosed THEN "interrupted" ELSE IF run.aborted THEN "cancelled" ELSE "failed")
LEMMA CatchCalls ==
  ASSUME CloneInv, NEW run \in CloneRuns, Catch(run), run.job # 0
  PROVE  /\ cloneRun' = [run EXCEPT !.stage = "catching", !.reply = "none"] /\ cloneRun' \in CloneRuns
         /\ storeCalls' = Append(storeCalls, JobEnds(run)) /\ JobEnds(run) \in CallKinds
         /\ JobEnds(run).op \in OfWorker /\ CloneAwaited(JobEnds(run), cloneRun', registering')
<1>1. /\ cloneRun' = [run EXCEPT !.stage = "catching", !.reply = "none"]
      /\ storeCalls' = Append(storeCalls, JobEnds(run))
  BY DEF Catch, Calls, JobEnds, CloneRuns
<1>2. cloneRun' \in CloneRuns
  BY <1>1 DEF CloneRuns, CloneStages, Answers
<1>3. /\ JobEnds(run).op = "finish" /\ JobEnds(run).job = run.job
      /\ JobEnds(run).with \in {"interrupted", "cancelled", "failed"} /\ JobEnds(run) \in CallKinds
  BY DEF JobEnds, Call, CallKinds, OfWorker, Terminal, CloneRuns
<1>4. CloneAwaited(JobEnds(run), cloneRun', registering')
  BY <1>1, <1>3 DEF CloneAwaited, Terminal, OfWorker, CloneRuns
<1>. QED
  BY <1>1, <1>2, <1>3, <1>4 DEF OfWorker

LEMMA MakesFolderKeeps == CloneInv /\ MakesFolder => CloneInv'
<1>. SUFFICES ASSUME CloneInv, MakesFolder PROVE CloneInv'
  OBVIOUS
<1>1. cloneRun \in CloneRuns /\ UnchangedByWorker /\ cloneRun.stage = "cloning"
  BY DEF CloneInv, CloneTyped, MakesFolder
<1>2. NoCall
  BY <1>1, NoWorkerCall
<1>3. /\ cloneRun.job \in Clones /\ cloneRun.job # 0 /\ CloneStatus(cloneRun.job) # "none"
      /\ Job.name \in ProjectNames
      /\ ~cloneRun.prepared /\ ~cloneRun.publishing /\ ~cloneRun.published
  BY <1>1 DEF CloneInv, CloneTyped, WorkerSound, CloneRuns, Job, CloneStatus
<1>4. CASE Catch(cloneRun) /\ UNCHANGED folder
  <2>1. /\ cloneRun' = [cloneRun EXCEPT !.stage = "catching", !.reply = "none"] /\ cloneRun' \in CloneRuns
        /\ storeCalls' = Append(storeCalls, JobEnds(cloneRun)) /\ JobEnds(cloneRun) \in CallKinds
        /\ JobEnds(cloneRun).op \in OfWorker /\ CloneAwaited(JobEnds(cloneRun), cloneRun', registering')
    BY <1>1, <1>3, <1>4, CatchCalls
  <2>2. WorkerSound' /\ ~Made'
    BY <1>1, <1>3, <2>1 DEF CloneInv, WorkerSound, CloneRuns, Made, Job, UnchangedByWorker, CloneStatus
  <2>. QED
    BY <1>1, <1>2, <1>4, <2>1, <2>2, WorkerGoesOn
<1>5. CASE /\ folder[Job.name] = NoFolder
           /\ folder' = [folder EXCEPT ![Job.name] = cloneRun.job]
           /\ Works([cloneRun EXCEPT !.stage = "copying"])
  <2>1. cloneRun' = [cloneRun EXCEPT !.stage = "copying", !.reply = "none"] /\ storeCalls' = storeCalls
    BY <1>1, <1>5 DEF Works, CloneRuns
  <2>2. cloneRun' \in CloneRuns
    BY <1>1, <2>1 DEF CloneRuns, CloneStages, Answers
  <2>3. /\ folder' \in [ProjectNames -> Clones \cup {NoFolder, Other}] /\ folder'[Job.name] = cloneRun.job
        /\ \A p \in ProjectNames : folder[p] # NoFolder => p # Job.name /\ folder'[p] = folder[p]
    BY <1>3, <1>5 DEF CloneInv, CloneTyped
  <2>4. WorkerSound'
    BY <1>1, <1>3, <2>1, <2>3 DEF CloneInv, WorkerSound, CloneRuns, Made, Job, UnchangedByWorker, CloneStatus
  <2>5. \A p : Mine(p)' => p = Job.name
    BY <1>1, <2>1 DEF Mine, Job, UnchangedByWorker, CloneRuns
  <2>6. RegistrationSound'
    BY <1>1, <2>3, <2>5 DEF CloneInv, CloneTyped, RegistrationSound, UnchangedByWorker, Registrations, NotRegistering
  <2>7. ASSUME NEW m \in managed PROVE CloneSettled(m)'
    <3>1. CloneSettled(m) /\ m.path \in ProjectNames
      BY DEF CloneInv, CloneTyped, ProjectsSound, ManagedRows
    <3>. QED
      BY <1>1, <3>1, <2>3, <2>5 DEF CloneSettled, UnchangedByWorker, CloneStatus
  <2>8. JobEnds(cloneRun) \in CallKinds
    BY <1>1 DEF JobEnds, Call, CallKinds, OfWorker, Terminal, CloneRuns
  <2>. QED
    BY <1>1, <1>2, <2>1, <2>2, <2>3, <2>4, <2>6, <2>7, <2>8, WorkerKeeps
<1>. QED
  BY <1>4, <1>5 DEF MakesFolder, Job

(* While it copies nobody has a project in the worker's folder.            *)
LEMMA CopyEndsKeeps == CloneInv /\ CopyEnds => CloneInv'
<1>. SUFFICES ASSUME CloneInv, CopyEnds PROVE CloneInv'
  OBVIOUS
<1>1. cloneRun \in CloneRuns /\ UnchangedByWorker /\ cloneRun.stage = "copying"
  BY DEF CloneInv, CloneTyped, CopyEnds
<1>2. NoCall
  BY <1>1, NoWorkerCall
<1>3. /\ cloneRun.job \in Clones /\ cloneRun.job # 0 /\ CloneStatus(cloneRun.job) # "none"
      /\ Job.name \in ProjectNames /\ Made /\ folder[Job.name] = cloneRun.job
      /\ ~cloneRun.prepared /\ ~cloneRun.publishing /\ ~cloneRun.published
  BY <1>1 DEF CloneInv, CloneTyped, WorkerSound, CloneRuns, Job, CloneStatus, Made
<1>4. \A m \in managed : CloneSettled(m) /\ m.path # Job.name /\ m.path \in ProjectNames
  BY <1>1, <1>3 DEF CloneInv, CloneTyped, ProjectsSound, CloneSettled, Mine, ManagedRows
<1>5. CASE /\ Calls([cloneRun EXCEPT !.stage = "finishing", !.prepared = TRUE, !.publishing = TRUE],
                    Call("finish", cloneRun.job, "succeeded"))
           /\ UNCHANGED folder
  <2>. DEFINE c == Call("finish", cloneRun.job, "succeeded")
  <2>1. /\ cloneRun' = [cloneRun EXCEPT !.stage = "finishing", !.prepared = TRUE, !.publishing = TRUE, !.reply = "none"]
        /\ storeCalls' = Append(storeCalls, c)
    BY <1>1, <1>5 DEF Calls, CloneRuns
  <2>2. cloneRun' \in CloneRuns
    BY <1>1, <2>1 DEF CloneRuns, CloneStages, Answers
  <2>3. c \in CallKinds /\ c.op \in OfWorker /\ CloneAwaited(c, cloneRun', registering')
    BY <1>1, <1>3, <2>1 DEF Call, CallKinds, OfWorker, Terminal, CloneAwaited, CloneRuns
  <2>4. WorkerSound'
    BY <1>1, <1>3, <1>5, <2>1 DEF CloneInv, WorkerSound, CloneRuns, Made, Job, UnchangedByWorker, CloneStatus
  <2>5. cloneRun'.job = cloneRun.job /\ cloneRun'.stage # "cleaning" /\ cloneRun'.publishing
    BY <1>1, <2>1 DEF CloneRuns
  <2>. HIDE DEF c
  <2>. QED
    BY <1>1, <1>2, <1>3, <1>5, <2>1, <2>2, <2>3, <2>4, <2>5, WorkerGoesOn
<1>6. CASE \E run \in {cloneRun, [cloneRun EXCEPT !.prepared = TRUE]} :
             Catch(run) /\ \/ UNCHANGED folder 
                           \/ run = cloneRun /\ folder' = Removed
  <2>1. PICK run \in {cloneRun, [cloneRun EXCEPT !.prepared = TRUE]} :
               Catch(run) /\ \/ UNCHANGED folder 
                             \/ run = cloneRun /\ folder' = Removed
    BY <1>6
  <2>2. /\ run \in CloneRuns /\ run.job = cloneRun.job
        /\ ~run.publishing /\ ~run.published
    BY <1>1, <1>3 DEF CloneRuns
  <2>3. /\ cloneRun' = [run EXCEPT !.stage = "catching", !.reply = "none"] /\ cloneRun' \in CloneRuns
        /\ storeCalls' = Append(storeCalls, JobEnds(run)) /\ JobEnds(run) \in CallKinds
        /\ JobEnds(run).op \in OfWorker /\ CloneAwaited(JobEnds(run), cloneRun', registering')
    BY <1>3, <2>1, <2>2, CatchCalls
  <2>4. CASE UNCHANGED folder
    <3>1. WorkerSound'
      BY <1>1, <1>3, <2>2, <2>3, <2>4 DEF CloneInv, WorkerSound, CloneRuns, Made, Job, UnchangedByWorker, CloneStatus
    <3>2. cloneRun'.job = cloneRun.job
      BY <2>2, <2>3 DEF CloneRuns
    <3>3. ~ \E m \in managed : Mine(m.path)
      BY <1>4 DEF Mine
    <3>. QED
      BY <1>1, <1>2, <1>3, <2>3, <2>4, <3>1, <3>2, <3>3, WorkerGoesOn
  <2>5. CASE run = cloneRun /\ folder' = Removed
    <3>1. folder' = [folder EXCEPT ![Job.name] = NoFolder]
      BY <2>5 DEF Removed, Job
    <3>2. /\ folder' \in [ProjectNames -> Clones \cup {NoFolder, Other}]
          /\ \A p \in ProjectNames : p # Job.name => folder'[p] = folder[p]
      BY <1>3, <3>1 DEF CloneInv, CloneTyped
    <3>3. WorkerSound' /\ ~Made'
      BY <1>1, <1>3, <2>3, <2>5 DEF CloneInv, WorkerSound, CloneRuns, Made, Job, UnchangedByWorker, CloneStatus
    <3>4. RegistrationSound'
      BY <1>1, <1>3, <3>2, <3>3 DEF CloneInv, CloneTyped, RegistrationSound, UnchangedByWorker, Mine, Registrations, NotRegistering
    <3>5. ASSUME NEW m \in managed PROVE CloneSettled(m)'
      BY <1>1, <1>4, <3>2, <3>3 DEF CloneSettled, Mine, UnchangedByWorker, CloneStatus
    <3>. QED
      BY <1>1, <1>2, <2>3, <3>2, <3>3, <3>4, <3>5, WorkerKeeps
  <2>. QED
    BY <2>1, <2>4, <2>5
<1>7. \/ /\ Calls([cloneRun EXCEPT !.stage = "finishing", !.prepared = TRUE, !.publishing = TRUE],
                    Call("finish", cloneRun.job, "succeeded"))
         /\ UNCHANGED folder
      \/ Catch(cloneRun) /\ folder' \in {folder, Removed}
      \/ Catch([cloneRun EXCEPT !.prepared = TRUE]) /\ UNCHANGED folder
  BY DEF CopyEnds
<1>. QED
  BY <1>5, <1>6, <1>7

LEMMA FinishedKeeps == CloneInv /\ Finished => CloneInv'
<1>. SUFFICES ASSUME CloneInv, Finished PROVE CloneInv'
  OBVIOUS
<1>1. /\ cloneRun \in CloneRuns /\ UnchangedByWorker /\ cloneRun.stage = "finishing" /\ cloneRun.reply # "none"
      /\ UNCHANGED folder
  BY DEF CloneInv, CloneTyped, Finished, CloneAnswered
<1>2. NoCall
  BY <1>1, NoWorkerCall
<1>3. /\ cloneRun.job \in Clones /\ cloneRun.job # 0 /\ CloneStatus(cloneRun.job) # "none"
      /\ Made /\ folder[Job.name] = cloneRun.job
      /\ cloneRun.prepared /\ cloneRun.publishing /\ ~cloneRun.published
  BY <1>1 DEF CloneInv, WorkerSound, CloneRuns, Job, CloneStatus, Made
<1>4. CASE cloneRun.reply = "lost"
  <2>1. /\ cloneRun' = [cloneRun EXCEPT !.stage = "catching", !.reply = "none"] /\ cloneRun' \in CloneRuns
        /\ storeCalls' = Append(storeCalls, JobEnds(cloneRun)) /\ JobEnds(cloneRun) \in CallKinds
        /\ JobEnds(cloneRun).op \in OfWorker /\ CloneAwaited(JobEnds(cloneRun), cloneRun', registering')
    BY <1>1, <1>3, <1>4, CatchCalls DEF Finished
  <2>2. WorkerSound'
    BY <1>1, <1>3, <2>1 DEF CloneInv, WorkerSound, CloneRuns, Made, Job, UnchangedByWorker, CloneStatus
  <2>3. cloneRun'.job = cloneRun.job /\ cloneRun'.stage # "cleaning" /\ cloneRun'.publishing
    BY <1>1, <1>3, <2>1 DEF CloneRuns
  <2>. QED
    BY <1>1, <1>2, <1>3, <2>1, <2>2, <2>3, WorkerGoesOn
<1>5. CASE cloneRun.reply # "lost"
  <2>1. /\ cloneRun' = [cloneRun EXCEPT !.stage = "cleaning", !.publishing = FALSE,
                          !.published = cloneRun.reply = "succeeded", !.reply = "none"]
        /\ storeCalls' = storeCalls
    BY <1>1, <1>5 DEF Finished, Works, CloneRuns
  <2>2. cloneRun' \in CloneRuns
    BY <1>1, <2>1 DEF CloneRuns, CloneStages, Answers
  <2>3. WorkerSound'
    BY <1>1, <1>3, <2>1 DEF CloneInv, WorkerSound, CloneRuns, Made, Job, UnchangedByWorker, CloneStatus
  <2>4. cloneRun'.job = cloneRun.job /\ cloneRun'.stage = "cleaning" 
    BY <1>1, <2>1 DEF CloneRuns
  <2>5. (\E m \in managed : Mine(m.path)) => cloneRun'.published
    <3>1. (\E m \in managed : Mine(m.path)) => Job.status = "succeeded"
      BY <1>3 DEF CloneInv, ProjectsSound, CloneSettled, Job, CloneStatus
    <3>2. Job.status = "succeeded" => cloneRun.reply = "succeeded"
      BY <1>1, <1>5 DEF CloneInv, WorkerSound
    <3>. QED
      BY <1>1, <2>1, <3>1, <3>2 DEF CloneRuns
  <2>6. JobEnds(cloneRun) \in CallKinds
    BY <1>1 DEF JobEnds, Call, CallKinds, OfWorker, Terminal, CloneRuns
  <2>. QED
    BY <1>1, <1>2, <1>3, <2>1, <2>2, <2>3, <2>4, <2>5, <2>6, WorkerGoesOn
<1>. QED
  BY <1>4, <1>5

LEMMA CaughtKeeps == CloneInv /\ Caught => CloneInv'
<1>. SUFFICES ASSUME CloneInv, Caught PROVE CloneInv'
  OBVIOUS
<1>. DEFINE c == Call("get", cloneRun.job, "")
<1>1. /\ cloneRun \in CloneRuns /\ UnchangedByWorker /\ cloneRun.stage = "catching" /\ cloneRun.reply # "none"
      /\ UNCHANGED folder /\ c \in CallKinds /\ c.op \in OfWorker
  BY DEF CloneInv, CloneTyped, Caught, CloneAnswered, Call, CallKinds, OfWorker, CloneRuns
<1>2. NoCall
  BY <1>1, NoWorkerCall
<1>3. /\ cloneRun.job \in Clones /\ cloneRun.job # 0 /\ CloneStatus(cloneRun.job) # "none" /\ ~cloneRun.published
  BY <1>1 DEF CloneInv, WorkerSound, CloneRuns, Job, CloneStatus
<1>4. CASE cloneRun.publishing
  <2>1. /\ cloneRun' = [cloneRun EXCEPT !.stage = "checking", !.throws = cloneRun.reply = "lost", !.reply = "none"]
        /\ storeCalls' = Append(storeCalls, c)
    BY <1>1, <1>4 DEF Caught, Calls, CloneRuns
  <2>2. cloneRun' \in CloneRuns /\ CloneAwaited(c, cloneRun', registering')
    BY <1>1, <2>1 DEF CloneRuns, CloneStages, Answers, CloneAwaited, Call
  <2>3. WorkerSound'
    BY <1>1, <1>3, <2>1 DEF CloneInv, WorkerSound, CloneRuns, Made, Job, UnchangedByWorker, CloneStatus
  <2>4. /\ cloneRun'.job = cloneRun.job /\ cloneRun'.stage # "cleaning" /\ cloneRun'.publishing
        /\ Made' => Made
    BY <1>1, <1>4, <2>1 DEF CloneRuns, Made
  <2>. HIDE DEF c
  <2>. QED
    BY <1>1, <1>2, <2>1, <2>2, <2>3, <2>4, WorkerGoesOn
<1>5. CASE ~cloneRun.publishing
  <2>1. /\ cloneRun' = [cloneRun EXCEPT !.stage = "cleaning", !.throws = cloneRun.reply = "lost", !.reply = "none"]
        /\ storeCalls' = storeCalls
    BY <1>1, <1>5 DEF Caught, Works, CloneRuns
  <2>2. cloneRun' \in CloneRuns
    BY <1>1, <2>1 DEF CloneRuns, CloneStages, Answers
  <2>3. WorkerSound'
    BY <1>1, <1>3, <2>1 DEF CloneInv, WorkerSound, CloneRuns, Made, Job, UnchangedByWorker, CloneStatus
  <2>4. cloneRun'.job = cloneRun.job /\ (Made' => Made)
    BY <1>1, <2>1 DEF CloneRuns, Made
  <2>5. ~ \E m \in managed : Mine(m.path)
    BY <1>1, <1>5 DEF CloneInv, ProjectsSound, CloneSettled
  <2>. HIDE DEF c
  <2>. QED
    BY <1>1, <1>2, <2>1, <2>2, <2>3, <2>4, <2>5, WorkerGoesOn
<1>. QED
  BY <1>4, <1>5

LEMMA CheckedKeeps == CloneInv /\ Checked => CloneInv'
<1>. SUFFICES ASSUME CloneInv, Checked PROVE CloneInv'
  OBVIOUS
<1>1. /\ cloneRun \in CloneRuns /\ UnchangedByWorker /\ cloneRun.stage = "checking" /\ cloneRun.reply # "none"
      /\ UNCHANGED folder
  BY DEF CloneInv, CloneTyped, Checked, CloneAnswered
<1>2. NoCall
  BY <1>1, NoWorkerCall
<1>3. /\ cloneRun' = [cloneRun EXCEPT !.stage = "cleaning", !.published = cloneRun.reply \in {"succeeded", "lost"},
                                      !.reply = "none"]
      /\ storeCalls' = storeCalls
  BY <1>1 DEF Checked, Works, CloneRuns
<1>4. cloneRun' \in CloneRuns
  <2>. DEFINE b == cloneRun.reply \in {"succeeded", "lost"}
  <2>1. b \in BOOLEAN /\ cloneRun' = [cloneRun EXCEPT !.stage = "cleaning", !.published = b, !.reply = "none"]
    BY <1>3
  <2>. HIDE DEF b
  <2>. QED
    BY <1>1, <2>1 DEF CloneRuns, CloneStages, Answers
<1>5. WorkerSound'
  BY <1>1, <1>3 DEF CloneInv, WorkerSound, CloneRuns, Made, Job, UnchangedByWorker, CloneStatus
<1>6. cloneRun'.job = cloneRun.job /\ cloneRun'.stage = "cleaning" /\ (Made' => Made)
  BY <1>1, <1>3 DEF CloneRuns, Made
<1>7. (\E m \in managed : Mine(m.path)) => cloneRun'.published
  <2>1. (\E m \in managed : Mine(m.path)) => Job.status = "succeeded"
    BY DEF CloneInv, ProjectsSound, CloneSettled, Job, CloneStatus, WorkerSound, Mine
  <2>2. Job.status = "succeeded" => cloneRun.reply \in {"succeeded", "lost"}
    BY <1>1 DEF CloneInv, WorkerSound
  <2>. QED
    BY <1>1, <1>3, <2>1, <2>2 DEF CloneRuns
<1>8. Call("claim", 0, "") \in CallKinds
  BY DEF Call, CallKinds, OfWorker
<1>. QED
  BY <1>1, <1>2, <1>3, <1>4, <1>5, <1>6, <1>7, <1>8, WorkerGoesOn

(* No job is the active one.                                               *)
NoJob(s) == [job |-> 0, stage |-> s, aborted |-> FALSE, prepared |-> FALSE, publishing |-> FALSE,
            published |-> FALSE, throws |-> FALSE, reply |-> "none", next |-> 0]

(* What is removed is no project: it was made by the worker and not        *)
(* published.                                                              *)
LEMMA CleansUpKeeps == CloneInv /\ CleansUp => CloneInv'
<1>. SUFFICES ASSUME CloneInv, CleansUp PROVE CloneInv'
  OBVIOUS
<1>. DEFINE c == Call("claim", 0, "")
<1>1. /\ cloneRun \in CloneRuns /\ UnchangedByWorker /\ cloneRun.stage = "cleaning"
      /\ c \in CallKinds /\ c.op \in OfWorker
  BY DEF CloneInv, CloneTyped, CleansUp, Call, CallKinds, OfWorker
<1>2. NoCall
  BY <1>1, NoWorkerCall
<1>3. /\ cloneRun.job \in Clones /\ CloneStatus(cloneRun.job) # "none" /\ Job.name \in ProjectNames
  BY <1>1 DEF CloneInv, CloneTyped, WorkerSound, CloneRuns, Job, CloneStatus
<1>4. \/ cloneRun' = NoJob("off") /\ storeCalls' = storeCalls
      \/ cloneRun' = NoJob("claiming") /\ storeCalls' = Append(storeCalls, c)
  <2>1. Works(NotRunning) => cloneRun' = NoJob("off") /\ storeCalls' = storeCalls
    BY DEF Works, NotRunning, NoJob
  <2>2. Calls([NotRunning EXCEPT !.stage = "claiming"], c) => 
          cloneRun' = NoJob("claiming") /\ storeCalls' = Append(storeCalls, c)
    BY DEF Calls, NotRunning, NoJob
  <2>. QED
    BY <2>1, <2>2 DEF CleansUp
<1>5. cloneRun' \in CloneRuns
  <2>1. \A s \in CloneStages : NoJob(s) \in CloneRuns
    BY DEF CloneRuns, Answers, NoJob
  <2>. QED
    BY <1>4, <2>1 DEF CloneStages
<1>10. \A s : /\ NoJob(s).stage = s /\ NoJob(s).job = 0 /\ NoJob(s).reply = "none"
             /\ NoJob(s).prepared = FALSE /\ NoJob(s).publishing = FALSE /\ NoJob(s).published = FALSE
  BY DEF NoJob
<1>6. cloneRun'.stage = "claiming" => CloneAwaited(c, cloneRun', registering')
  <2>1. c.op = "claim"
    BY DEF Call
  <2>. QED
    BY <1>4, <1>10, <2>1 DEF CloneAwaited, OfWorker
<1>7. WorkerSound' /\ ~Made' /\ (cloneRun'.stage # "claiming" => storeCalls' = storeCalls)
  <2>1. /\ cloneRun'.stage \in {"off", "claiming"} /\ cloneRun'.job = 0 /\ cloneRun'.reply = "none"
        /\ ~cloneRun'.prepared /\ ~cloneRun'.publishing /\ ~cloneRun'.published
        /\ cloneRun'.stage # "claiming" => storeCalls' = storeCalls
    BY <1>4, <1>10
  <2>. QED
    BY <2>1 DEF WorkerSound, Made
<1>. HIDE DEF c
<1>8. CASE UNCHANGED folder
  BY <1>1, <1>2, <1>4, <1>5, <1>6, <1>7, <1>8, WorkerGoesOn DEF NotRunning
<1>9. CASE /\ folder' = [folder EXCEPT ![Job.name] = NoFolder]
           /\ cloneRun.prepared /\ ~cloneRun.published
  <2>1. \A m \in managed : CloneSettled(m) /\ m.path # Job.name /\ m.path \in ProjectNames
    BY <1>1, <1>9 DEF CloneInv, CloneTyped, ProjectsSound, CloneSettled, Mine, Made, ManagedRows
  <2>2. /\ folder' \in [ProjectNames -> Clones \cup {NoFolder, Other}]
        /\ \A p \in ProjectNames : p # Job.name => folder'[p] = folder[p]
    BY <1>3, <1>9 DEF CloneInv, CloneTyped
  <2>3. RegistrationSound'
    BY <1>1, <1>7, <1>9, <2>2 DEF CloneInv, CloneTyped, RegistrationSound, UnchangedByWorker, Mine, Made, Registrations, NotRegistering
  <2>4. ASSUME NEW m \in managed PROVE CloneSettled(m)'
    BY <1>1, <1>7, <2>1, <2>2 DEF CloneSettled, Mine, UnchangedByWorker, CloneStatus
  <2>. QED
    BY <1>1, <1>2, <1>4, <1>5, <1>6, <1>7, <2>2, <2>3, <2>4, WorkerKeeps DEF NotRunning
<1>. QED
  BY <1>8, <1>9 DEF CleansUp, Removed, Job

(* Rows and answers change as they may: what a row is named stays, and     *)
(* none becomes or ceases to be a success.                                 *)
RunKept ==
  /\ cloneRun' \in CloneRuns /\ cloneRun'.job = cloneRun.job /\ cloneRun'.stage = cloneRun.stage
  /\ cloneRun'.prepared = cloneRun.prepared /\ cloneRun'.publishing = cloneRun.publishing
  /\ cloneRun'.published = cloneRun.published
RowsKept ==
  /\ cloneRow' \in [Clones -> CloneRows]
  /\ \A j \in Clones : CloneStatus(j)' # "none" => cloneRow'[j].name \in ProjectNames
  /\ \A j \in Clones : CloneStatus(j) # "none" =>
       /\ cloneRow'[j].name = cloneRow[j].name /\ CloneStatus(j)' # "none"
       /\ CloneStatus(j)' = "succeeded" <=> CloneStatus(j) = "succeeded"
AnswerKept ==
  /\ cloneRun'.reply = "claimed" =>
       cloneRun.stage = "claiming" /\ cloneRun'.next \in Clones \ {0} /\ cloneRow'[cloneRun'.next].status # "none"
  /\ cloneRun.stage \in {"finishing", "checking"} /\ cloneRun'.reply \notin {"none", "lost"} /\ Job.status = "succeeded" =>
       cloneRun'.reply = "succeeded"

LEMMA ActiveJob ==
  ASSUME CloneInv
  PROVE  /\ cloneRun \in CloneRuns /\ cloneRun.job \in Clones \cup {0}
         /\ cloneRun.job # 0 => Job.status # "none" /\ CloneStatus(cloneRun.job) = Job.status
         /\ Made => cloneRun.job # 0
  BY DEF CloneInv, CloneTyped, WorkerSound, CloneRuns, Job, CloneStatus

LEMMA MineKept ==
  ASSUME CloneInv, RunKept, RowsKept
  PROVE  /\ Made' <=> Made
         /\ \A p : Mine(p)' <=> Mine(p)
         /\ cloneRun.job # 0 => /\ Job'.name = Job.name /\ Job'.status # "none"
                                /\ Job'.status = "succeeded" <=> Job.status = "succeeded"
<1>1. Made' <=> Made
  BY DEF RunKept, Made
<1>2. cloneRun.job # 0 => /\ Job'.name = Job.name /\ Job'.status # "none"
                          /\ Job'.status = "succeeded" <=> Job.status = "succeeded"
  BY ActiveJob DEF RunKept, RowsKept, Job, CloneStatus
<1>. QED
  BY <1>1, <1>2, ActiveJob DEF Mine

LEMMA WorkerKept ==
  ASSUME CloneInv, RunKept, RowsKept, AnswerKept, UNCHANGED folder
  PROVE  WorkerSound'
<1>1. /\ Made' <=> Made
      /\ cloneRun.job # 0 => /\ Job'.name = Job.name /\ Job'.status # "none"
                             /\ Job'.status = "succeeded" <=> Job.status = "succeeded"
  BY MineKept
<1>2. WorkerSound
  BY DEF CloneInv
<1>. QED
  BY <1>1, <1>2, ActiveJob DEF WorkerSound, RunKept, AnswerKept, CloneRuns, CloneStatus

LEMMA RowsChange ==
  ASSUME CloneInv, RunKept, RowsKept, AnswerKept, UNCHANGED <<managed, folder>>,
         storeUp' \in BOOLEAN, cloneClosed' \in BOOLEAN, registering' \in {registering, NotRegistering},
         storeCalls' \in Seq(CallKinds), ChannelSound'
  PROVE  CloneInv'
<1>1. CloneTyped'
  BY DEF CloneInv, CloneTyped, RunKept, RowsKept
<1>2. WorkerSound'
  BY WorkerKept
<1>3. RegistrationSound'
  BY MineKept DEF CloneInv, RegistrationSound, NotRegistering
<1>4. ASSUME NEW m \in managed PROVE CloneSettled(m)'
  <2>1. CloneSettled(m) /\ m.by \in Clones \cup {0}
    BY DEF CloneInv, CloneTyped, ProjectsSound, ManagedRows
  <2>2. m.by # 0 => CloneStatus(m.by)' = "succeeded"
    BY <2>1 DEF CloneSettled, RowsKept
  <2>3. Mine(m.path)' <=> Mine(m.path)
    BY MineKept
  <2>. QED
    BY <2>1, <2>2, <2>3 DEF CloneSettled, RunKept
<1>5. ProjectsSound'
  BY <1>4 DEF CloneInv, ProjectsSound
<1>. QED
  BY <1>1, <1>2, <1>3, <1>5 DEF CloneInv

LEMMA CreateKeeps == ASSUME NEW j \in Clones, NEW n \in ProjectNames, CloneInv, CreateClone(j, n) PROVE CloneInv'
<1>1. /\ CloneStatus(j) = "none" /\ cloneRow' = [cloneRow EXCEPT ![j] = [status |-> "queued", name |-> n]]
      /\ UNCHANGED <<managed, folder, storeCalls, storeUp, cloneRun, cloneClosed, registering>>
  BY DEF CreateClone
<1>2. RowsKept
  BY <1>1 DEF CloneInv, CloneTyped, RowsKept, CloneRows, CloneStatus, Active
<1>3. RunKept
  BY <1>1 DEF CloneInv, CloneTyped, RunKept
<1>4. AnswerKept
  BY <1>1, <1>2 DEF CloneInv, CloneTyped, AnswerKept, WorkerSound, RowsKept, CloneRuns, CloneStatus, Job
<1>5. storeCalls' \in Seq(CallKinds) /\ ChannelSound'
  BY <1>1 DEF CloneInv, CloneTyped, ChannelSound
<1>. QED
  BY <1>1, <1>2, <1>3, <1>4, <1>5, RowsChange DEF CloneInv, CloneTyped

LEMMA InterruptKeeps ==
  ASSUME CloneInv, cloneRow' = InterruptedRows
  PROVE  RowsKept
  BY DEF CloneInv, CloneTyped, RowsKept, InterruptedRows, CloneRows, CloneStatus, Active, Terminal

LEMMA ClosedKeeps == CloneInv /\ ClonerClosed => CloneInv'
<1>. SUFFICES ASSUME CloneInv, ClonerClosed PROVE CloneInv'
  OBVIOUS
<1>1. /\ cloneRow' = InterruptedRows
      /\ UNCHANGED <<managed, folder, storeCalls, storeUp, cloneRun, cloneClosed, registering>>
  BY DEF ClonerClosed
<1>2. RowsKept
  BY <1>1, InterruptKeeps
<1>3. RunKept
  BY <1>1 DEF CloneInv, CloneTyped, RunKept
<1>4. AnswerKept
  BY <1>1, <1>2 DEF CloneInv, CloneTyped, AnswerKept, WorkerSound, RowsKept, CloneRuns, CloneStatus, Job
<1>5. storeCalls' \in Seq(CallKinds) /\ ChannelSound'
  BY <1>1 DEF CloneInv, CloneTyped, ChannelSound
<1>. QED
  BY <1>1, <1>2, <1>3, <1>4, <1>5, RowsChange DEF CloneInv, CloneTyped

LEMMA CloseKeeps == CloneInv /\ CloseCloner => CloneInv'
<1>. SUFFICES ASSUME CloneInv, CloseCloner PROVE CloneInv'
  OBVIOUS
<1>1. /\ cloneClosed' = TRUE /\ cloneRun' = [cloneRun EXCEPT !.aborted = @ \/ cloneRun.job # 0]
      /\ UNCHANGED <<cloneRow, managed, folder, storeCalls, storeUp, registering>> /\ cloneRun \in CloneRuns
  BY DEF CloseCloner, CloneInv, CloneTyped
<1>2. RowsKept
  BY <1>1 DEF CloneInv, CloneTyped, RowsKept, CloneStatus
<1>3. RunKept /\ cloneRun'.reply = cloneRun.reply /\ cloneRun'.next = cloneRun.next
  BY <1>1 DEF RunKept, CloneRuns
<1>4. AnswerKept
  BY <1>1, <1>2, <1>3 DEF CloneInv, AnswerKept, WorkerSound, RowsKept, CloneRuns, CloneStatus, Job
<1>5. storeCalls' \in Seq(CallKinds) /\ ChannelSound'
  BY <1>1, <1>3 DEF CloneInv, CloneTyped, ChannelSound, CloneAwaited, RunKept
<1>. QED
  BY <1>1, <1>2, <1>3, <1>4, <1>5, RowsChange DEF CloneInv, CloneTyped

LEMMA RestartKeeps == CloneInv /\ RestartCloner => CloneInv'
<1>. SUFFICES ASSUME CloneInv, RestartCloner PROVE CloneInv'
  OBVIOUS
<1>1. /\ cloneRow' = InterruptedRows /\ storeCalls' = <<>> /\ storeUp' = TRUE /\ cloneRun' = NotRunning
      /\ cloneClosed' = FALSE /\ registering' = NotRegistering /\ UNCHANGED <<managed, folder>>
  BY DEF RestartCloner
<1>2. RowsKept
  BY <1>1, InterruptKeeps
<1>3. cloneRun' \in CloneRuns /\ WorkerSound' /\ ~Made'
  BY <1>1 DEF NotRunning, CloneRuns, CloneStages, Answers, WorkerSound, Made
<1>4. CloneTyped'
  BY <1>1, <1>2, <1>3, EmptySeq DEF CloneInv, CloneTyped, RowsKept
<1>5. ChannelSound' /\ RegistrationSound'
  BY <1>1 DEF ChannelSound, RegistrationSound, NotRegistering
<1>6. ASSUME NEW m \in managed PROVE CloneSettled(m)'
  <2>1. CloneSettled(m) /\ m.by \in Clones \cup {0}
    BY DEF CloneInv, CloneTyped, ProjectsSound, ManagedRows
  <2>. QED
    BY <1>1, <1>2, <1>3, <2>1 DEF CloneSettled, RowsKept, Mine
<1>7. ProjectsSound'
  BY <1>1, <1>6 DEF CloneInv, ProjectsSound
<1>. QED
  BY <1>3, <1>4, <1>5, <1>7 DEF CloneInv

LEMMA CancelRequestKeeps == ASSUME NEW j \in Clones, CloneInv, CancelRequest(j) PROVE CloneInv'
<1>. DEFINE c == Call("cancel", j, "")
<1>1. /\ storeCalls' = Append(storeCalls, c)
      /\ UNCHANGED <<cloneRow, managed, folder, storeUp, cloneRun, cloneClosed, registering>>
  BY DEF CancelRequest
<1>2. c \in CallKinds /\ c.op = "cancel" /\ c.op \notin OfWorker /\ CloneAwaited(c, cloneRun', registering')
  BY DEF Call, CallKinds, OfWorker, CloneAwaited
<1>. HIDE DEF c
<1>3. storeCalls' \in Seq(CallKinds) /\ ChannelSound'
  BY <1>1, <1>2, CallAdded
<1>4. RowsKept /\ RunKept
  BY <1>1 DEF CloneInv, CloneTyped, RowsKept, RunKept, CloneStatus
<1>5. AnswerKept
  BY <1>1 DEF CloneInv, CloneTyped, AnswerKept, WorkerSound, CloneRuns, CloneStatus, Job
<1>. QED
  BY <1>1, <1>3, <1>4, <1>5, RowsChange DEF CloneInv, CloneTyped

LEMMA RetainKeeps ==
  ASSUME NEW p \in ProjectNames, NEW n \in FolderNames, CloneInv, RetainFolder(p, n) PROVE CloneInv'
<1>1. /\ registering.stage = "idle" /\ folder[p] # NoFolder
      /\ registering' = [stage |-> "retained", path |-> p, name |-> n, identity |-> folder[p]]
      /\ UNCHANGED <<cloneRow, managed, folder, storeCalls, storeUp, cloneRun, cloneClosed>>
  BY DEF RetainFolder
<1>2. registering' \in Registrations
  <2>1. folder[p] \in Clones \cup {Other}
    BY <1>1 DEF CloneInv, CloneTyped
  <2>. QED
    BY <1>1, <2>1 DEF Registrations
<1>3. CloneTyped'
  BY <1>1, <1>2 DEF CloneInv, CloneTyped, CloneStatus
<1>4. \A c : CloneAwaited(c, cloneRun, registering) => CloneAwaited(c, cloneRun', registering')
  BY <1>1 DEF CloneAwaited
<1>5. ChannelSound'
  BY <1>1, <1>4 DEF CloneInv, ChannelSound
<1>6. WorkerSound' /\ ProjectsSound'
  BY <1>1 DEF CloneInv, WorkerSound, ProjectsSound, CloneSettled, Mine, Made, Job, CloneStatus
<1>7. RegistrationSound'
  BY <1>1 DEF RegistrationSound
<1>. QED
  BY <1>3, <1>5, <1>6, <1>7 DEF CloneInv

(* A folder is registered only if the active clone is not making it.       *)
LEMMA AdmitKeeps == CloneInv /\ Admit => CloneInv'
<1>. SUFFICES ASSUME CloneInv, Admit PROVE CloneInv'
  OBVIOUS
<1>. DEFINE c == Call("register", 0, "")
<1>1. /\ registering.stage = "retained" /\ registering \in Registrations
      /\ UNCHANGED <<cloneRow, managed, folder, storeUp, cloneRun, cloneClosed>>
  <2>1. /\ registering.stage = "retained" /\ registering \in {NotRegistering} \cup Registrations
        /\ UNCHANGED <<cloneRow, managed, folder, storeUp, cloneRun, cloneClosed>>
    BY DEF Admit, CloneInv, CloneTyped
  <2>2. NotRegistering.stage = "idle"
    BY DEF NotRegistering
  <2>. QED
    BY <2>1, <2>2
<1>2. \A i \in 1..Len(storeCalls) : /\ CloneAwaited(storeCalls[i], cloneRun, registering)
                                    /\ storeCalls[i].op # "register"
  BY <1>1 DEF CloneInv, ChannelSound, CloneAwaited
<1>3. \A i \in 1..Len(storeCalls) : CloneAwaited(storeCalls[i], cloneRun', registering')
  BY <1>1, <1>2 DEF CloneAwaited
<1>4. WorkerSound' /\ ProjectsSound'
  BY <1>1 DEF CloneInv, WorkerSound, ProjectsSound, CloneSettled, Mine, Made, Job, CloneStatus
<1>5. CASE storeCalls' = storeCalls /\ registering' = NotRegistering
  <2>1. CloneTyped' /\ RegistrationSound'
    BY <1>1, <1>5 DEF CloneInv, CloneTyped, CloneStatus, RegistrationSound, NotRegistering
  <2>2. ChannelSound'
    BY <1>3, <1>5 DEF CloneInv, ChannelSound
  <2>. QED
    BY <1>4, <2>1, <2>2 DEF CloneInv
<1>6. CASE /\ folder[registering.path] = registering.identity /\ ~Reserves(registering.path)
           /\ storeCalls' = Append(storeCalls, c)
           /\ registering' = [registering EXCEPT !.stage = "posted"]
  <2>1. /\ registering' \in Registrations /\ registering'.stage = "posted" /\ registering'.path = registering.path
        /\ registering.identity # NoFolder
    <3>1. registering.identity \in Clones \cup {Other}
      BY <1>1 DEF Registrations
    <3>2. registering.identity # NoFolder
      BY <3>1, CloneAssumption DEF NoFolder, Other
    <3>. QED
      BY <1>1, <1>6, <3>2 DEF Registrations
  <2>2. c \in CallKinds /\ c.op = "register" /\ c.op \notin OfWorker /\ CloneAwaited(c, cloneRun', registering')
    BY <2>1 DEF Call, CallKinds, OfWorker, CloneAwaited
  <2>. HIDE DEF c
  <2>3. storeCalls' \in Seq(CallKinds) /\ ChannelSound'
    BY <1>2, <1>3, <1>6, <2>2, CallAdded
  <2>4. CloneTyped'
    BY <1>1, <2>1, <2>3 DEF CloneInv, CloneTyped, CloneStatus
  <2>5. RegistrationSound'
    BY <1>1, <1>6, <2>1, ActiveJob DEF RegistrationSound, Reserves, Mine, Made, Job
  <2>. QED
    BY <1>4, <2>3, <2>4, <2>5 DEF CloneInv
<1>. QED
  BY <1>1, <1>5, <1>6 DEF Admit

LEMMA OtherMakesKeeps == ASSUME NEW p \in ProjectNames, CloneInv, OtherMakesFolder(p) PROVE CloneInv'
<1>1. /\ folder[p] = NoFolder /\ folder' = [folder EXCEPT ![p] = Other]
      /\ UNCHANGED <<cloneRow, managed, storeCalls, storeUp, cloneRun, cloneClosed, registering>>
  BY DEF OtherMakesFolder
<1>2. /\ folder' \in [ProjectNames -> Clones \cup {NoFolder, Other}]
      /\ \A q \in ProjectNames : folder[q] # NoFolder => folder'[q] = folder[q]
  BY <1>1 DEF CloneInv, CloneTyped
<1>3. CloneTyped' /\ ChannelSound'
  BY <1>1, <1>2 DEF CloneInv, CloneTyped, CloneStatus, ChannelSound
<1>4. Made => /\ cloneRun.job # 0 /\ Job.name \in ProjectNames /\ folder[Job.name] = cloneRun.job
              /\ folder[Job.name] # NoFolder
  <2>1. Made => cloneRun.job \in Clones /\ cloneRun.job # 0 /\ folder[Job.name] = cloneRun.job
    BY ActiveJob DEF CloneInv, WorkerSound
  <2>2. Made => Job.name \in ProjectNames
    BY <2>1, ActiveJob DEF CloneInv, CloneTyped, Job, CloneStatus
  <2>3. \A j \in Clones : j # NoFolder
    BY CloneAssumption DEF NoFolder
  <2>. QED
    BY <2>1, <2>2, <2>3
<1>5. Made => folder'[Job.name] = cloneRun.job
  BY <1>2, <1>4
<1>6. WorkerSound'
  BY <1>1, <1>5, <1>4 DEF CloneInv, WorkerSound, Made, Job, CloneStatus
<1>7. RegistrationSound'
  BY <1>1, <1>2 DEF CloneInv, CloneTyped, RegistrationSound, Registrations, NotRegistering, Mine, Made, Job
<1>8. ASSUME NEW m \in managed PROVE CloneSettled(m)'
  <2>1. CloneSettled(m) /\ m.path \in ProjectNames
    BY DEF CloneInv, CloneTyped, ProjectsSound, ManagedRows
  <2>. QED
    BY <1>1, <1>2, <2>1 DEF CloneSettled, Mine, Made, Job, CloneStatus
<1>9. ProjectsSound'
  BY <1>1, <1>8 DEF CloneInv, ProjectsSound
<1>. QED
  BY <1>3, <1>6, <1>7, <1>9 DEF CloneInv

LEMMA OldestQueued ==
  ASSUME Queued # {}
  PROVE  Oldest(Queued) \in Queued
<1>1. Queued \in SUBSET Nat
  BY CloneAssumption DEF Queued
<1>2. \E j \in Queued : \A k \in Queued : j <= k
  BY <1>1, LeastNatural
<1>. QED
  BY <1>2 DEF Oldest

(* An answer leaves the channel with the call it answers: the worker's own *)
(* is the only one that changes what it knows.                             *)
LEMMA AnswerTaken ==
  ASSUME CloneInv, storeCalls # <<>>, storeCalls' = Tail(storeCalls), RunKept,
         cloneRun'.reply = cloneRun.reply \/ Head(storeCalls).op \in OfWorker,
         UNCHANGED registering \/ Head(storeCalls).op = "register"
  PROVE  storeCalls' \in Seq(CallKinds) /\ ChannelSound'
<1>1. Len(storeCalls) \in Nat /\ Len(storeCalls) # 0 /\ Head(storeCalls) = storeCalls[1]
  BY LenProperties, EmptySeq DEF CloneInv, CloneTyped
<1>2. ASSUME NEW i \in 2..Len(storeCalls), CloneAwaited(storeCalls[i], cloneRun, registering)
      PROVE  CloneAwaited(storeCalls[i], cloneRun', registering')
  <2>1. /\ i \in 1..Len(storeCalls) /\ 1 \in 1..Len(storeCalls) /\ i # 1
    BY <1>1
  <2>2. /\ Head(storeCalls).op \in OfWorker => storeCalls[i].op \notin OfWorker
        /\ Head(storeCalls).op = "register" => storeCalls[i].op # "register"
    BY <1>1, <2>1 DEF CloneInv, ChannelSound
  <2>. QED
    BY <1>2, <2>2 DEF CloneAwaited, RunKept, OfWorker
<1>. QED
  BY <1>2, CallTaken

LEMMA HeadAwaited ==
  ASSUME CloneInv, storeCalls # <<>>
  PROVE  CloneAwaited(Head(storeCalls), cloneRun, registering) /\ Head(storeCalls) \in CallKinds
<1>1. Len(storeCalls) \in Nat /\ Len(storeCalls) # 0 /\ Head(storeCalls) = storeCalls[1]
  BY LenProperties, EmptySeq DEF CloneInv, CloneTyped
<1>. QED
  BY <1>1, HeadTailProperties DEF CloneInv, CloneTyped, ChannelSound

(* What the storage answers to the worker.                                 *)
LEMMA ToldKeeps ==
  ASSUME CloneInv, NEW x \in Answers, Told(x)
  PROVE  /\ RunKept /\ cloneRun'.reply \in {x, "lost"} /\ cloneRun'.next = cloneRun.next
<1>1. cloneRun \in CloneRuns
  BY DEF CloneInv, CloneTyped
<1>2. \E r \in {x, "lost"} : cloneRun' = [cloneRun EXCEPT !.reply = r]
  BY DEF Told
<1>. QED
  BY <1>1, <1>2 DEF RunKept, CloneRuns, Answers

(* The two ways in which the rows change under a call of the worker or of  *)
(* a reader: not at all, or by one status.                                 *)
LEMMA RowSet ==
  ASSUME CloneInv, NEW j \in Clones, NEW s \in {"running", "cancelled", "failed", "interrupted"},
         CloneStatus(j) \in Active, SetStatus(j, s)
  PROVE  RowsKept
  BY DEF CloneInv, CloneTyped, RowsKept, SetStatus, CloneStatus, CloneRows, Active, Terminal

LEMMA RowsSame == ASSUME CloneInv, UNCHANGED cloneRow PROVE RowsKept
  BY DEF CloneInv, CloneTyped, RowsKept, CloneStatus

LEMMA StorageKeeps == CloneInv /\ StorageAnswers => CloneInv'
<1>. SUFFICES ASSUME CloneInv, StorageAnswers PROVE CloneInv'
  OBVIOUS
<1>. DEFINE call == Head(storeCalls)
<1>1. /\ storeCalls # <<>> /\ storeCalls' = Tail(storeCalls)
      /\ registering' = IF call.op = "register" THEN NotRegistering ELSE registering
      /\ UNCHANGED <<folder, cloneClosed>> /\ cloneRun \in CloneRuns /\ storeUp \in BOOLEAN /\ cloneClosed \in BOOLEAN
  BY DEF StorageAnswers, CloneInv, CloneTyped
<1>2. CloneAwaited(call, cloneRun, registering) /\ call \in CallKinds
  BY <1>1, HeadAwaited
<1>3. \/ call.op = "claim" /\ ClaimClone /\ UNCHANGED managed /\ storeUp' \in BOOLEAN
      \/ call.op = "get" /\ Told(CloneStatus(call.job)) /\ UNCHANGED <<cloneRow, managed>> /\ storeUp' \in BOOLEAN
      \/ call.op = "finish" /\ FinishClone(call.job, call.with) /\ storeUp' \in BOOLEAN
      \/ /\ call.op = "cancel" /\ CancelClone(call.job) /\ UNCHANGED managed /\ storeUp' \in BOOLEAN
         /\ cloneRun' = [cloneRun EXCEPT !.aborted = @ \/ (storeUp' /\ cloneRun.job = call.job)]
      \/ /\ call.op = "register" /\ RegisterManagedProject(registering.path, registering.name)
         /\ UNCHANGED <<cloneRow, cloneRun>> /\ storeUp' \in BOOLEAN
      \/ /\ cloneRun' = IF call.op \in OfWorker THEN [cloneRun EXCEPT !.reply = "lost"] ELSE cloneRun
         /\ UNCHANGED <<cloneRow, managed, storeUp>>
  BY DEF StorageAnswers
<1>. HIDE DEF call
<1>4. ASSUME RunKept, cloneRun'.reply = cloneRun.reply \/ call.op \in OfWorker
      PROVE  storeCalls' \in Seq(CallKinds) /\ ChannelSound'
  BY <1>1, <1>4, AnswerTaken DEF call
<1>5. ASSUME RunKept, RowsKept, AnswerKept, UNCHANGED managed, storeUp' \in BOOLEAN,
             cloneRun'.reply = cloneRun.reply \/ call.op \in OfWorker
      PROVE  CloneInv'
  BY <1>1, <1>4, <1>5, RowsChange
<1>6. cloneRun.job # 0 => cloneRun.job \in Clones /\ Job.status = CloneStatus(cloneRun.job) /\ Job.status \in Answers
  BY ActiveJob DEF CloneInv, CloneTyped, CloneRows, Job, CloneStatus, Answers
<1>7. CASE call.op = "claim" /\ ClaimClone /\ UNCHANGED managed /\ storeUp' \in BOOLEAN
  <2>1. cloneRun.stage = "claiming" /\ call.op \in OfWorker
    BY <1>2, <1>7 DEF CloneAwaited, OfWorker
  <2>2. CASE Queued = {}
    <3>1. Told("nothing") /\ UNCHANGED cloneRow
      BY <1>7, <2>2 DEF ClaimClone
    <3>2. RunKept /\ cloneRun'.reply \in {"nothing", "lost"}
      BY <3>1, ToldKeeps DEF Answers
    <3>3. AnswerKept
      BY <2>1, <3>2 DEF AnswerKept
    <3>. QED
      BY <1>5, <1>7, <2>1, <3>1, <3>2, <3>3, RowsSame
  <2>3. CASE Queued # {}
    <3>. DEFINE j == Oldest(Queued)
    <3>1. j \in Clones /\ CloneStatus(j) \in Active
      BY <2>3, OldestQueued DEF Queued, Active
    <3>2. /\ SetStatus(j, "running")
          /\ cloneRun' = [cloneRun EXCEPT !.reply = IF storeUp' THEN "claimed" ELSE "lost", !.next = j]
      BY <1>7, <2>3 DEF ClaimClone
    <3>. HIDE DEF j
    <3>3. RunKept /\ cloneRun'.next = j
      BY <1>1, <3>1, <3>2 DEF RunKept, CloneRuns, Answers
    <3>4. cloneRow'[j].status = "running" /\ j # 0
      BY <3>1, <3>2, CloneAssumption DEF SetStatus, CloneInv, CloneTyped, CloneRows
    <3>5. AnswerKept
      BY <2>1, <3>1, <3>3, <3>4 DEF AnswerKept
    <3>. QED
      BY <1>5, <1>7, <2>1, <3>1, <3>2, <3>3, <3>5, RowSet
  <2>. QED
    BY <2>2, <2>3
<1>8. CASE call.op = "get" /\ Told(CloneStatus(call.job)) /\ UNCHANGED <<cloneRow, managed>> /\ storeUp' \in BOOLEAN
  <2>1. cloneRun.stage \in {"looking", "checking"} /\ call.job = cloneRun.job /\ call.op \in OfWorker /\ cloneRun.job # 0
    BY <1>2, <1>8 DEF CloneAwaited, OfWorker, CloneInv, WorkerSound
  <2>2. RunKept /\ cloneRun'.reply \in {Job.status, "lost"}
    BY <1>6, <1>8, <2>1, ToldKeeps
  <2>3. AnswerKept
    <3>1. Job.status \in Active \cup Terminal \cup {"none"}
      BY <1>6, <2>1 DEF CloneInv, CloneTyped, CloneRows, Job
    <3>. QED
      BY <2>1, <2>2, <3>1 DEF AnswerKept, Active, Terminal
  <2>. QED
    BY <1>5, <1>8, <2>1, <2>2, <2>3, RowsSame
<1>9. CASE call.op = "finish" /\ FinishClone(call.job, call.with) /\ storeUp' \in BOOLEAN
  <2>. DEFINE j == cloneRun.job
  <2>. DEFINE s == call.with
  <2>1. /\ cloneRun.stage \in {"finishing", "catching"} /\ call.job = j /\ call.op \in OfWorker /\ j # 0
        /\ s \in Terminal /\ (s = "succeeded" <=> cloneRun.stage = "finishing")
    BY <1>2, <1>9 DEF CloneAwaited, OfWorker, CloneInv, WorkerSound
  <2>2. j \in Clones /\ Job.status = CloneStatus(j) /\ Job = cloneRow[j]
    BY <1>6, <2>1 DEF Job
  <2>3. CASE UNCHANGED <<cloneRow, managed>> /\ \E x \in {Job.status, "lost"} : Told(x)
    <3>1. RunKept /\ cloneRun'.reply \in {Job.status, "lost"}
      BY <1>6, <2>1, <2>3, ToldKeeps DEF Answers
    <3>2. AnswerKept
      <4>1. Job.status \in Active \cup Terminal \cup {"none"}
        BY <1>6, <2>1 DEF CloneInv, CloneTyped, CloneRows, Job
      <4>. QED
        BY <2>1, <3>1, <4>1 DEF AnswerKept, Active, Terminal
    <3>. QED
      BY <1>5, <1>9, <2>1, <2>3, <3>1, <3>2, RowsSame
  <2>4. CASE /\ Told(s) /\ SetStatus(j, s) /\ Job.status = "running" /\ s # "succeeded" /\ UNCHANGED managed
    <3>1. RunKept /\ cloneRun'.reply \in {s, "lost"}
      BY <2>1, <2>4, ToldKeeps DEF Answers
    <3>2. AnswerKept
      BY <2>1, <2>4, <3>1 DEF AnswerKept, Terminal
    <3>3. RowsKept
      BY <2>1, <2>2, <2>4, RowSet DEF Terminal, Active
    <3>. QED
      BY <1>5, <1>9, <2>1, <2>4, <3>1, <3>2, <3>3
  <2>5. CASE /\ Told("succeeded") /\ SetStatus(j, "succeeded") /\ Job.status = "running" /\ s = "succeeded"
             /\ ~ManagedNamed(Job.name) /\ managed' = managed \cup {[name |-> Job.name, path |-> Job.name, by |-> j]}
    <3>0. PICK new : new = [name |-> Job.name, path |-> Job.name, by |-> j]
      OBVIOUS
    <3>1. RunKept /\ cloneRun'.reply \in {"succeeded", "lost"}
      BY <2>5, ToldKeeps DEF Answers, Terminal
    <3>2. storeCalls' \in Seq(CallKinds) /\ ChannelSound'
      BY <1>4, <2>1, <3>1
    <3>3. /\ cloneRun.stage = "finishing" /\ cloneRun.prepared /\ cloneRun.publishing /\ Made
          /\ folder[Job.name] = j /\ Job.name \in ProjectNames /\ ~cloneRun.published
      BY <2>1, <2>2, <2>5 DEF CloneInv, CloneTyped, WorkerSound, Made, Job, CloneStatus
    <3>4. /\ cloneRow' \in [Clones -> CloneRows] /\ Job'.name = Job.name /\ Job'.status = "succeeded"
          /\ \A k \in Clones : /\ cloneRow'[k].name = cloneRow[k].name
                               /\ k # j => CloneStatus(k)' = CloneStatus(k)
      BY <2>2, <2>5, <3>1 DEF CloneInv, CloneTyped, SetStatus, CloneStatus, CloneRows, Terminal, RunKept, Job
    <3>5. new \in ManagedRows /\ new.by = j /\ new.path = Job.name /\ new.name = Job.name
      BY <2>2, <3>0, <3>3 DEF ManagedRows
    <3>6. CloneTyped'
      BY <1>1, <1>9, <2>2, <2>5, <3>0, <3>1, <3>2, <3>3, <3>4, <3>5 DEF CloneInv, CloneTyped, RunKept, CloneStatus, Job
    <3>7. Made' /\ (\A p : Mine(p)' <=> Mine(p)) /\ (Mine(Job.name))
      BY <3>1, <3>3, <3>4 DEF RunKept, Made, Mine
    <3>8. WorkerSound'
      BY <1>1, <2>1, <3>1, <3>3, <3>4, <3>7 DEF WorkerSound, RunKept
    <3>9. RegistrationSound'
      BY <1>1, <3>7 DEF CloneInv, RegistrationSound, NotRegistering
    <3>10. \A m \in managed : m.path # Job.name /\ m.name # Job.name /\ CloneSettled(m) /\ m.by \in Clones \cup {0}
      <4>1. ASSUME NEW m \in managed PROVE CloneSettled(m) /\ m.by \in Clones \cup {0} /\ m.name # Job.name
        BY <2>5 DEF CloneInv, CloneTyped, ProjectsSound, ManagedNamed, ManagedRows
      <4>2. ASSUME NEW m \in managed, m.path = Job.name PROVE FALSE
        <5>1. m.by = j
          BY <3>7, <4>1, <4>2 DEF CloneSettled
        <5>2. CloneStatus(j) = "succeeded"
          BY <2>1, <4>1, <5>1 DEF CloneSettled
        <5>. QED
          BY <2>2, <2>5, <5>2
      <4>. QED
        BY <4>1, <4>2
    <3>11. ASSUME NEW m \in managed PROVE CloneSettled(m)'
      <4>1. m.by # 0 => CloneStatus(m.by)' = "succeeded"
        BY <2>2, <2>5, <3>4, <3>10 DEF CloneSettled
      <4>. QED
        BY <1>1, <3>1, <3>7, <3>10, <4>1 DEF CloneSettled, Mine
    <3>12. CloneSettled(new)'
      <4>1. folder'[Job.name] = j /\ j # NoFolder /\ cloneRun'.publishing /\ cloneRun'.stage # "cleaning" /\ cloneRun'.job = j
        BY <1>1, <2>2, <3>1, <3>3, CloneAssumption DEF RunKept, NoFolder
      <4>2. CloneStatus(j)' = "succeeded"
        BY <2>2, <3>1, <3>4 DEF CloneStatus, Job, RunKept
      <4>4. folder'[new.path] # NoFolder /\ folder'[new.path] = new.by /\ new.by = cloneRun'.job
        BY <4>1, <3>5
      <4>. QED
        BY <4>1, <4>2, <3>5, <4>4 DEF CloneSettled, CloneStatus
    <3>13. ProjectsSound'
      <4>1. managed' = managed \cup {new}
        BY <2>5, <3>0
      <4>2. \A m, k \in managed : m.path = k.path \/ m.name = k.name => m = k
        BY DEF CloneInv, ProjectsSound
      <4>. QED
        BY <3>5, <3>10, <3>11, <3>12, <4>1, <4>2 DEF ProjectsSound
    <3>. QED
      BY <3>2, <3>6, <3>8, <3>9, <3>13 DEF CloneInv
  <2>6. \/ UNCHANGED <<cloneRow, managed>> /\ \E x \in {Job.status, "lost"} : Told(x)
        \/ Told(s) /\ SetStatus(j, s) /\ Job.status = "running" /\ s # "succeeded" /\ UNCHANGED managed
        \/ /\ Told("succeeded") /\ SetStatus(j, "succeeded") /\ Job.status = "running" /\ s = "succeeded"
           /\ ~ManagedNamed(Job.name) /\ managed' = managed \cup {[name |-> Job.name, path |-> Job.name, by |-> j]}
    <3>1. FinishClone(j, s)
      BY <1>9, <2>1
    <3>. QED
      BY <2>2, <3>1 DEF FinishClone
  <2>. HIDE DEF j, s
  <2>. QED
    BY <2>3, <2>4, <2>5, <2>6
<1>10. CASE /\ call.op = "cancel" /\ CancelClone(call.job) /\ UNCHANGED managed /\ storeUp' \in BOOLEAN
            /\ cloneRun' = [cloneRun EXCEPT !.aborted = @ \/ (storeUp' /\ cloneRun.job = call.job)]
  <2>1. call.job \in Clones
    BY <1>2, <1>10 DEF CloneAwaited
  <2>2. RowsKept
    BY <1>10, <2>1, RowSet, RowsSame DEF CancelClone
  <2>3. RunKept /\ cloneRun'.reply = cloneRun.reply /\ cloneRun'.next = cloneRun.next
    BY <1>1, <1>10 DEF RunKept, CloneRuns
  <2>4. AnswerKept
    BY <1>1, <2>2, <2>3 DEF CloneInv, AnswerKept, WorkerSound, RowsKept, CloneRuns, CloneStatus, Job
  <2>. QED
    BY <1>5, <1>10, <2>2, <2>3, <2>4
<1>11. CASE /\ call.op = "register" /\ RegisterManagedProject(registering.path, registering.name)
            /\ UNCHANGED <<cloneRow, cloneRun>> /\ storeUp' \in BOOLEAN
  <2>1. /\ registering.stage = "posted" /\ folder[registering.path] # NoFolder /\ ~Mine(registering.path)
        /\ registering.path \in ProjectNames /\ registering.name \in FolderNames
    BY <1>2, <1>11 DEF CloneAwaited, CloneInv, CloneTyped, RegistrationSound, Registrations, NotRegistering
  <2>2. RowsKept /\ RunKept /\ cloneRun'.reply = cloneRun.reply
    BY <1>1, <1>11, RowsSame DEF RunKept
  <2>3. AnswerKept
    BY <1>1, <1>11 DEF CloneInv, AnswerKept, WorkerSound, CloneRuns, CloneStatus, Job
  <2>4. CASE UNCHANGED managed
    BY <1>5, <1>11, <2>2, <2>3, <2>4
  <2>5. CASE /\ ~ (\E m \in managed : m.path = registering.path) /\ ~NameTaken(registering.name)
             /\ managed' = managed \cup {[name |-> registering.name, path |-> registering.path, by |-> 0]}
    <3>. DEFINE new == [name |-> registering.name, path |-> registering.path, by |-> 0]
    <3>1. storeCalls' \in Seq(CallKinds) /\ ChannelSound'
      BY <1>4, <2>2
    <3>2. /\ new \in ManagedRows /\ new.by = 0 /\ new.path = registering.path /\ new.name = registering.name
          /\ managed' = managed \cup {new}
      BY <2>1, <2>5 DEF ManagedRows
    <3>. HIDE DEF new
    <3>3. CloneTyped'
      BY <1>1, <1>11, <3>1, <3>2 DEF CloneInv, CloneTyped, CloneStatus
    <3>4. WorkerSound' /\ RegistrationSound'
      BY <1>1, <1>11 DEF CloneInv, WorkerSound, RegistrationSound, NotRegistering, Made, Job, CloneStatus
    <3>5. \A m : CloneSettled(m)' <=> CloneSettled(m)
      BY <1>1, <1>11 DEF CloneSettled, Mine, Made, Job, CloneStatus
    <3>6. CloneSettled(new)
      BY <2>1, <3>2 DEF CloneSettled
    <3>7. \A m \in managed : m.path # new.path /\ m.name # new.name
      BY <2>5, <3>2 DEF NameTaken, ManagedNamed
    <3>8. ProjectsSound'
      BY <3>2, <3>5, <3>6, <3>7 DEF CloneInv, ProjectsSound
    <3>. QED
      BY <3>1, <3>3, <3>4, <3>8 DEF CloneInv
  <2>. QED
    BY <1>11, <2>4, <2>5 DEF RegisterManagedProject
<1>12. CASE /\ cloneRun' = IF call.op \in OfWorker THEN [cloneRun EXCEPT !.reply = "lost"] ELSE cloneRun
            /\ UNCHANGED <<cloneRow, managed, storeUp>>
  <2>1. RunKept /\ cloneRun'.reply \in {cloneRun.reply, "lost"} /\ cloneRun'.next = cloneRun.next
    BY <1>1, <1>12 DEF RunKept, CloneRuns, Answers
  <2>2. AnswerKept
    BY <1>1, <1>12, <2>1 DEF CloneInv, AnswerKept, WorkerSound, CloneRuns, CloneStatus, Job
  <2>. QED
    BY <1>1, <1>5, <1>12, <2>1, <2>2, RowsSame
<1>. QED
  BY <1>3, <1>7, <1>8, <1>9, <1>10, <1>11, <1>12

LEMMA StepClones == CloneInv /\ [CloneNext]_cloneVars => CloneInv'
<1>. SUFFICES ASSUME CloneInv, [CloneNext]_cloneVars PROVE CloneInv'
  OBVIOUS
<1>1. CASE UNCHANGED cloneVars
  <2>1. /\ RowsKept /\ RunKept /\ UNCHANGED <<storeCalls, managed, folder, storeUp, cloneClosed, registering, cloneRun, cloneRow>>
    BY <1>1, RowsSame DEF cloneVars, CloneInv, CloneTyped, RunKept
  <2>2. CloneTyped' /\ ChannelSound'
    BY <2>1 DEF CloneInv, CloneTyped, ChannelSound, CloneStatus
  <2>3. WorkerSound' /\ RegistrationSound' /\ ProjectsSound'
    BY <2>1 DEF CloneInv, WorkerSound, RegistrationSound, ProjectsSound, CloneSettled, Mine, Made, Job, CloneStatus
  <2>. QED
    BY <2>2, <2>3 DEF CloneInv
<1>2. CASE \/ (\E j \in Clones, n \in ProjectNames : CreateClone(j, n))
           \/ (\E j \in Clones : CancelRequest(j)) \/ StorageAnswers
  BY <1>2, CreateKeeps, CancelRequestKeeps, StorageKeeps
<1>3. CASE \/ WakeCloner \/ Claimed \/ LookedAt \/ MakesFolder \/ CopyEnds \/ Finished \/ Caught
           \/ Checked \/ CleansUp
  BY <1>3, WakeKeeps, ClaimedKeeps, LookedAtKeeps, MakesFolderKeeps, CopyEndsKeeps, FinishedKeeps, CaughtKeeps,
     CheckedKeeps, CleansUpKeeps
<1>4. CASE \/ (\E p \in ProjectNames, n \in FolderNames : RetainFolder(p, n)) \/ Admit
           \/ (\E p \in ProjectNames : OtherMakesFolder(p)) \/ CloseCloner \/ ClonerClosed \/ RestartCloner
  BY <1>4, RetainKeeps, AdmitKeeps, OtherMakesKeeps, CloseKeeps, ClosedKeeps, RestartKeeps
<1>. QED
  BY <1>1, <1>2, <1>3, <1>4 DEF CloneNext

(* ClonedFolders, for any number of jobs, names and restarts: no project   *)
(* loses its folder to the rollback of a clone (clone-directory.ts,        *)
(* remove; project-clone-service.ts, run), no folder becomes two projects  *)
(* (project-registration-service.ts, register) and what a clone left as a  *)
(* project is the folder it made.                                          *)
THEOREM ClonedFoldersHold == CloneSpec => []ClonedFolders
<1>1. CloneInv => ClonedFolders
  BY DEF CloneInv, ProjectsSound, CloneSettled, ClonedFolders, ProjectsKeepFolders, OneProjectPerFolder
<1>. QED
  BY <1>1, InitClones, StepClones, PTL DEF CloneSpec

-----------------------------------------------------------------------------
(* SyncTypeOK: a step of a plan adds or removes.                           *)
KindsKnown == \A r \in cliRuns : r.kind \in {"add", "remove"}

LEMMA StepKinds == SyncInv /\ KindsKnown /\ [SyncNext]_syncVars => KindsKnown'
<1>. SUFFICES ASSUME SyncInv, KindsKnown, [SyncNext]_syncVars PROVE KindsKnown'
  OBVIOUS
<1>1. CASE cliRuns' \subseteq cliRuns
  BY <1>1 DEF KindsKnown
<1>2. ASSUME NEW n \in ServerNames, sync # NoSync, RunStep(n) PROVE KindsKnown'
  <2>1. sync \in Applying
    BY <1>2 DEF RunStep, SyncInv, SyncTyped, Applying, Saving, NoSync
  <2>2. sync.applied[n] \in Nat /\ sync.plan[n].steps \in {<<>>, <<"add">>, <<"remove">>, <<"remove", "add">>}
    BY <2>1 DEF Applying, Items
  <2>. DEFINE steps == sync.plan[n].steps
              at == sync.applied[n] + 1
  <2>3. at \in Nat \ {0} /\ at <= Len(steps)
    BY <1>2, <2>2 DEF RunStep, StepsLeft
  <2>4. steps[at] \in {"add", "remove"}
    <3>. HIDE DEF at
    <3>1. CASE steps = <<>>
      BY <2>3, <3>1
    <3>2. CASE steps = <<"add">>
      <4>1. at = 1
        BY <2>3, <3>2
      <4>. QED
        BY <3>2, <4>1
    <3>3. CASE steps = <<"remove">>
      <4>1. at = 1
        BY <2>3, <3>3
      <4>. QED
        BY <3>3, <4>1
    <3>4. CASE steps = <<"remove", "add">>
      <4>1. at = 1 \/ at = 2
        BY <2>3, <3>4
      <4>. QED
        BY <3>4, <4>1
    <3>. QED
      BY <2>2, <3>1, <3>2, <3>3, <3>4
  <2>5. \/ cliRuns' = cliRuns
        \/ cliRuns' = cliRuns \cup {[by |-> syncNo, name |-> n, kind |-> steps[at], digest |-> sync.plan[n].expected]}
    BY <1>2 DEF RunStep
  <2>. HIDE DEF steps, at
  <2>. QED
    BY <2>4, <2>5 DEF KindsKnown
<1>3. ASSUME NEW n \in ServerNames, NEW entry, StartChange(n, entry) PROVE KindsKnown'
  BY <1>3 DEF StartChange, KindsKnown
<1>. QED
  BY <1>1, <1>2, <1>3 DEF SyncNext, syncVars, StartSync, RunEnds, WorkAborts, SettleSync, SaveLedger, SlotDrained, SyncCrash, OtherEdits

LEMMA SyncWellTyped == SyncSpec => []SyncTypeOK
<1>1. SyncInit => KindsKnown
  BY DEF SyncInit, KindsKnown
<1>2. SyncInv /\ KindsKnown => SyncTypeOK
  BY DEF SyncInv, SyncTyped, KindsKnown, SyncTypeOK, Owning, Applying, Saving, NoSync
<1>. QED
  BY <1>1, <1>2, InitSync, StepSync, StepKinds, PTL DEF SyncSpec

(* CloneTypeOK.                                                            *)
LEMMA ClonesWellTyped == CloneSpec => []CloneTypeOK
<1>1. CloneInv => CloneTypeOK
  BY DEF CloneInv, CloneTyped, CloneTypeOK, CloneRuns
<1>. QED
  BY <1>1, InitClones, StepClones, PTL DEF CloneSpec

(***************************************************************************)
(* InstructionFiles: what is on record                                     *)
(***************************************************************************)
(* A file that is the runner's, or that nobody else ever edited, is as the *)
(* call has seen it, and after the last verification as it was to be.      *)
Certain(p) == author[p] \in {"runner", "adopted"} \/ p \notin touched
Seen(p) ==
  p \in all \ left => /\ Certain(p) => observed[p] = text[p]
                      /\ author[p] \in {"runner", "adopted"} => p \notin borrowed

CallSound ==
  /\ isolation = "worktree" => borrowed = {}
  /\ syncStep = "observing" => Managed \subseteq all /\ \A p \in InstructionPaths : Seen(p)
  /\ syncStep \in {"applying", "replacing", "verified"} => manifest.journal
  /\ syncStep = "replacing" => \A p \in InstructionPaths \cap target : observed[p] # next[p]
  /\ syncStep = "verified" => \A p \in InstructionPaths \cap all : Certain(p) => text[p] = next[p]

RunnersExist == \A p \in InstructionPaths : author[p] \in {"runner", "adopted"} => text[p] # 0

RecordsInv == FilesInv /\ InstructionRecords /\ RunnersExist /\ CallSound

LEMMA InitRecords == InstructionInit => RecordsInv
<1>. SUFFICES ASSUME InstructionInit PROVE RecordsInv
  OBVIOUS
<1>1. InstructionRecords
  BY DEF InstructionInit, InstructionRecords, Managed, Present, Blank
<1>2. RunnersExist
  BY DEF InstructionInit, RunnersExist
<1>3. CallSound
  BY DEF InstructionInit, CallSound
<1>. QED
  BY <1>1, <1>2, <1>3, InitFiles DEF RecordsInv

(* A step that leaves files and manifest alone keeps the record.           *)
LEMMA RecordStays ==
  ASSUME RecordsInv, UNCHANGED <<text, author, manifest, touched>>
  PROVE  InstructionRecords' /\ RunnersExist'
BY DEF RecordsInv, InstructionRecords, RunnersExist, Managed, Present

LEMMA ObserveRecords ==
  ASSUME RecordsInv, NEW q \in InstructionPaths, Observes(q)
  PROVE  InstructionRecords' /\ RunnersExist' /\ CallSound'
<1>1. /\ UNCHANGED <<text, author, manifest, syncStep, next, all, isolation, touched>> /\ syncStep = "observing"
      /\ q \in left /\ left' = left \ {q} /\ observed' = [observed EXCEPT ![q] = text[q]]
      /\ q \in Managed => borrowed' = borrowed
      /\ borrowed' \subseteq borrowed \cup {q} /\ (isolation = "worktree" => borrowed' = borrowed)
  BY DEF Observes, At, SyncGoes, outsideVars, RecordsInv, FilesInv, Planned
<1>2. observed'[q] = text[q] /\ \A p \in InstructionPaths \ {q} : observed'[p] = observed[p]
  BY <1>1 DEF RecordsInv, FilesInv, FilesTyped
<1>3. author[q] \in {"runner", "adopted"} => q \notin borrowed'
  BY <1>1 DEF RecordsInv, FilesInv, Planned, InstructionRecords
<1>4. \A p \in InstructionPaths : Seen(p)'
  <2>1. Seen(q)'
    BY <1>1, <1>2, <1>3 DEF Seen
  <2>2. \A p \in InstructionPaths \ {q} : Seen(p)'
    BY <1>1, <1>2 DEF RecordsInv, CallSound, Seen, Certain
  <2>. QED
    BY <2>1, <2>2
<1>5. Managed' = Managed
  BY <1>1 DEF Managed, Present
<1>6. CallSound'
  BY <1>1, <1>4, <1>5 DEF RecordsInv, CallSound
<1>. QED
  BY <1>1, <1>6, RecordStays

LEMMA JournalRecords ==
  ASSUME RecordsInv, WritesJournal
  PROVE  InstructionRecords' /\ RunnersExist' /\ CallSound'
<1>1. /\ UNCHANGED <<text, next, observed, borrowed, all, isolation, touched>> /\ left = {} /\ left' = all
      /\ syncStep = "observing" /\ syncStep' = "applying"
      /\ manifest' = [files |-> Ours(observed), pending |-> Ours(next), journal |-> TRUE]
      /\ author' = AuthorsRecorded
  BY DEF WritesJournal, At, SyncGoes, plannedVars, outsideVars
<1>2. \A p \in InstructionPaths : p \in Managed' <=> p \notin borrowed /\ (observed[p] # 0 \/ next[p] # 0)
  BY <1>1 DEF Managed, Present, Ours
<1>3. \A p \in InstructionPaths : author'[p] \in {"runner", "adopted"} =>
        author[p] \in {"runner", "adopted"} \/ (isolation = "worktree" /\ observed[p] # 0 /\ text[p] = observed[p])
  BY <1>1 DEF AuthorsRecorded
<1>4. ASSUME NEW p \in InstructionPaths, author'[p] \in {"runner", "adopted"} PROVE p \in Managed' /\ text'[p] # 0
  <2>1. CASE isolation = "worktree" /\ observed[p] # 0 /\ text[p] = observed[p]
    BY <1>1, <1>2, <2>1 DEF RecordsInv, CallSound
  <2>2. CASE author[p] \in {"runner", "adopted"}
    <3>1. p \in Managed /\ text[p] # 0
      BY <2>2 DEF RecordsInv, InstructionRecords, RunnersExist
    <3>2. p \in all \ left /\ Seen(p)
      BY <1>1, <3>1 DEF RecordsInv, CallSound
    <3>3. observed[p] = text[p] /\ p \notin borrowed
      BY <2>2, <3>2 DEF Seen, Certain
    <3>. QED
      BY <1>1, <1>2, <3>1, <3>3
  <2>. QED
    BY <1>3, <1>4, <2>1, <2>2
<1>5. ASSUME NEW p \in InstructionPaths, p \in Managed', p \notin touched
      PROVE  text'[p] = manifest'.files[p]
  <2>1. p \notin borrowed /\ p \in all
    BY <1>2, <1>5 DEF RecordsInv, FilesInv, Planned
  <2>2. observed[p] = text[p]
    BY <1>1, <1>5, <2>1 DEF RecordsInv, CallSound, Seen, Certain
  <2>. QED
    BY <1>1, <2>1, <2>2 DEF Ours
<1>6. InstructionRecords' /\ RunnersExist'
  BY <1>1, <1>4, <1>5 DEF InstructionRecords, RunnersExist
<1>7. CallSound'
  BY <1>1 DEF RecordsInv, CallSound
<1>. QED
  BY <1>6, <1>7

LEMMA ReplaceRecords ==
  ASSUME RecordsInv, NEW q \in InstructionPaths, Replaces(q)
  PROVE  InstructionRecords' /\ RunnersExist' /\ CallSound'
<1>1. /\ UNCHANGED <<manifest, next, observed, borrowed, all, left, isolation, touched>>
      /\ syncStep = "replacing" /\ syncStep' = "applying" /\ q \in target
      /\ text' = [text EXCEPT ![q] = next[q]]
      /\ author' = [author EXCEPT ![q] = IF next[q] = 0 THEN "none" ELSE "runner"]
  BY DEF Replaces, At, SyncGoes, plannedVars, outsideVars
<1>2. /\ text'[q] = next[q] /\ (author'[q] \in {"runner", "adopted"} => next[q] # 0)
      /\ \A p \in InstructionPaths \ {q} : text'[p] = text[p] /\ author'[p] = author[p]
  BY <1>1 DEF RecordsInv, FilesInv, FilesTyped
<1>3. q \notin borrowed /\ manifest.pending[q] = next[q] /\ manifest.journal
  BY <1>1 DEF RecordsInv, CallSound, FilesInv, Planned, Journaled, Ours
<1>4. Managed' = Managed
  BY <1>1 DEF Managed, Present
<1>5. next[q] # 0 => q \in Managed
  BY <1>3 DEF Managed, Present
<1>6. InstructionRecords'
  BY <1>1, <1>2, <1>3, <1>4, <1>5 DEF RecordsInv, InstructionRecords
<1>7. RunnersExist'
  BY <1>2 DEF RecordsInv, RunnersExist
<1>8. CallSound'
  BY <1>1, <1>3 DEF RecordsInv, CallSound
<1>. QED
  BY <1>6, <1>7, <1>8

LEMMA EditRecords ==
  ASSUME RecordsInv, NEW q \in InstructionPaths, NEW t \in FileTexts, Edit(q, t)
  PROVE  InstructionRecords' /\ RunnersExist' /\ CallSound'
<1>1. /\ UNCHANGED <<manifest, next, observed, borrowed, all, left, target, syncStep, isolation>>
      /\ text' = [text EXCEPT ![q] = t] /\ touched' = touched \cup {q}
      /\ author' = [author EXCEPT ![q] = IF t = 0 THEN "none" ELSE "user"]
  BY DEF Edit, plannedVars
<1>2. author'[q] \notin {"runner", "adopted"} /\ \A p \in InstructionPaths \ {q} : text'[p] = text[p] /\ author'[p] = author[p]
  BY <1>1 DEF RecordsInv, FilesInv, FilesTyped
<1>3. ~Certain(q)' /\ \A p \in InstructionPaths \ {q} : Certain(p)' <=> Certain(p)
  BY <1>1, <1>2 DEF Certain
<1>4. Managed' = Managed
  BY <1>1 DEF Managed, Present
<1>5. InstructionRecords' /\ RunnersExist'
  BY <1>1, <1>2, <1>4 DEF RecordsInv, InstructionRecords, RunnersExist
<1>6. syncStep = "observing" => \A p \in InstructionPaths : Seen(p)'
  BY <1>1, <1>2, <1>3 DEF RecordsInv, CallSound, Seen
<1>7. syncStep = "verified" => \A p \in InstructionPaths \cap all : Certain(p)' => text'[p] = next[p]
  BY <1>2, <1>3 DEF RecordsInv, CallSound
<1>8. CallSound'
  BY <1>1, <1>4, <1>6, <1>7 DEF RecordsInv, CallSound
<1>. QED
  BY <1>5, <1>8

LEMMA CommitRecords ==
  ASSUME RecordsInv, CommitsManifest
  PROVE  InstructionRecords' /\ RunnersExist' /\ CallSound'
<1>1. /\ UNCHANGED <<text, author, isolation, touched>> /\ syncStep = "verified" /\ syncStep' = "granted"
      /\ manifest' = [files |-> Ours(next), pending |-> Blank, journal |-> FALSE] /\ borrowed' = {}
  BY DEF CommitsManifest, At, outsideVars, EndsApply
<1>2. \A p \in InstructionPaths : p \in Managed' <=> p \notin borrowed /\ next[p] # 0
  BY <1>1 DEF Managed, Present, Ours, Blank
<1>3. ASSUME NEW p \in InstructionPaths, author[p] \in {"runner", "adopted"} PROVE p \in Managed'
  <2>1. p \in Managed /\ text[p] # 0
    BY <1>3 DEF RecordsInv, InstructionRecords, RunnersExist
  <2>2. p \notin borrowed /\ (observed[p] # 0 \/ next[p] # 0)
    BY <1>1, <2>1 DEF RecordsInv, FilesInv, Planned, Journaled, Ours, Managed, Present
  <2>3. p \in all
    BY <2>2 DEF RecordsInv, FilesInv, Planned
  <2>4. text[p] = next[p]
    BY <1>1, <1>3, <2>3 DEF RecordsInv, CallSound, Certain
  <2>. QED
    BY <1>2, <2>1, <2>2, <2>4
<1>4. ASSUME NEW p \in InstructionPaths, p \in Managed', p \notin touched PROVE text[p] = manifest'.files[p]
  <2>1. p \in all /\ p \notin borrowed
    BY <1>2, <1>4 DEF RecordsInv, FilesInv, Planned
  <2>2. text[p] = next[p]
    BY <1>1, <1>4, <2>1 DEF RecordsInv, CallSound, Certain
  <2>. QED
    BY <1>1, <2>1, <2>2 DEF Ours
<1>5. InstructionRecords' /\ RunnersExist'
  BY <1>1, <1>3, <1>4 DEF RecordsInv, InstructionRecords, RunnersExist
<1>6. CallSound'
  BY <1>1 DEF CallSound
<1>. QED
  BY <1>5, <1>6

LEMMA StepRecords == RecordsInv /\ [InstructionNext]_instructionVars => RecordsInv'
<1>. SUFFICES ASSUME RecordsInv, [InstructionNext]_instructionVars PROVE InstructionRecords' /\ RunnersExist' /\ CallSound'
  BY StepFiles DEF RecordsInv
<1>1. CASE (\E a \in Applies : CallApply(a) \/ LeavesLine(a)) \/ UNCHANGED instructionVars
  <2>1. UNCHANGED <<text, author, manifest, syncStep, next, observed, borrowed, all, left, target, isolation, touched>>
    BY <1>1 DEF CallApply, LeavesLine, plannedVars, outsideVars, instructionVars
  <2>2. CallSound'
    BY <2>1 DEF RecordsInv, CallSound, Seen, Certain, Managed, Present
  <2>. QED
    BY <2>1, <2>2, RecordStays
<1>2. CASE ApplyFails \/ RestartInstructions
  <2>1. UNCHANGED <<text, author, manifest, isolation, touched>> /\ syncStep' = "granted" /\ borrowed' = {}
    BY <1>2 DEF ApplyFails, RestartInstructions, EndsApply, outsideVars
  <2>2. CallSound'
    BY <2>1 DEF CallSound
  <2>. QED
    BY <2>1, <2>2, RecordStays
<1>3. CASE ReadsManifest
  <2>1. /\ UNCHANGED <<text, author, manifest, borrowed, isolation, touched>>
        /\ syncStep' = "observing" /\ all' = Managed \cup Present(next)' /\ left' = all'
    BY <1>3 DEF ReadsManifest, At, SyncGoes, outsideVars, Present
  <2>2. Managed' = Managed
    BY <2>1 DEF Managed, Present
  <2>3. CallSound'
    BY <2>1, <2>2 DEF RecordsInv, CallSound, Seen
  <2>. QED
    BY <2>1, <2>3, RecordStays
<1>4. CASE WritesJournal
  BY <1>4, JournalRecords
<1>5. CASE Verifies
  <2>1. /\ UNCHANGED <<text, author, manifest, next, borrowed, all, isolation, touched>>
        /\ syncStep = "applying" /\ syncStep' = "verified" /\ \A p \in all : text[p] = next[p]
    BY <1>5 DEF Verifies, At, SyncGoes, plannedVars, outsideVars
  <2>2. CallSound'
    BY <2>1 DEF RecordsInv, CallSound
  <2>. QED
    BY <2>1, <2>2, RecordStays
<1>6. CASE CommitsManifest
  BY <1>6, CommitRecords
<1>7. ASSUME NEW p \in InstructionPaths, LooksAgain(p) PROVE InstructionRecords' /\ RunnersExist' /\ CallSound'
  <2>1. /\ UNCHANGED <<text, author, manifest, next, observed, borrowed, all, isolation, touched>>
        /\ syncStep = "applying"
        /\ syncStep' = "applying" \/ (syncStep' = "replacing" /\ target' = {p} /\ observed[p] # next[p])
    BY <1>7 DEF LooksAgain, At, plannedVars, outsideVars
  <2>2. CallSound'
    BY <2>1 DEF RecordsInv, CallSound
  <2>. QED
    BY <2>1, <2>2, RecordStays
<1>8. ASSUME NEW p \in InstructionPaths, Observes(p) \/ Replaces(p) PROVE InstructionRecords' /\ RunnersExist' /\ CallSound'
  BY <1>8, ObserveRecords, ReplaceRecords
<1>9. ASSUME NEW p \in InstructionPaths, NEW t \in FileTexts, Edit(p, t)
      PROVE  InstructionRecords' /\ RunnersExist' /\ CallSound'
  BY <1>9, EditRecords
<1>. QED
  BY <1>1, <1>2, <1>3, <1>4, <1>5, <1>6, <1>7, <1>8, <1>9 DEF InstructionNext, FileTexts

(* Every file the runner wrote is on record, and what is on record is what *)
(* is there, for any files, texts, calls, users and crashes:               *)
(* FileInstructionWorkspace.apply with its journal.                        *)
THEOREM InstructionRecordsHold == InstructionSpec => []InstructionRecords
<1>1. RecordsInv => InstructionRecords
  BY DEF RecordsInv
<1>. QED
  BY <1>1, InitRecords, StepRecords, PTL DEF InstructionSpec

(***************************************************************************)
(* AttachmentStore                                                         *)
(***************************************************************************)
UploadRecords == [stage: UploadStages \cup {"none"}, content: Contents \cup {"none"}, published: BOOLEAN]
Publishers == ToSet(publishing)
InPublication == {"verifying", "linking", "storing", "discarding", "rescuing"}

StoresTyped ==
  /\ blob \in [Attachments -> Contents \cup {"none"}]
  /\ row \in [Attachments -> Contents \cup {"none", "evicted"}]
  /\ pinnedBy \in [Attachments -> {"none", "live", "past"}]

(* One publication at a time; a blob that is stored is that of its upload. *)
UploadsSound ==
  /\ upload \in [Attachments -> UploadRecords] /\ LineUp(publishing, Attachments)
  /\ \A i \in Publishers : upload[i].stage \notin {"none", "receiving"}
  /\ \A i \in Attachments :
       /\ upload[i].stage \in InPublication => Publishes(i)
       /\ upload[i].stage # "none" => upload[i].content \in Contents
       /\ upload[i].stage = "storing" => blob[i] = upload[i].content

(* The blobs being discarded are those of rows that are gone.              *)
DiscardsGone ==
  /\ discarding \subseteq Attachments
  /\ \A j \in discarding : ~Has(j)
  /\ discarding # {} => \E i \in Attachments : Publishes(i) /\ upload[i].stage = "discarding"

AttachInv == StoresTyped /\ UploadsSound /\ DiscardsGone /\ RowsHaveBlobs

LEMMA InitAttachments == AttachmentsInit => AttachInv
<1>. SUFFICES ASSUME AttachmentsInit PROVE AttachInv
  OBVIOUS
<1>1. LineUp(publishing, Attachments) /\ Publishers = {}
  BY LineEmpty DEF AttachmentsInit, Publishers
<1>2. StoresTyped
  BY DEF AttachmentsInit, StoresTyped
<1>3. UploadsSound
  <2>1. NoUpload \in UploadRecords /\ NoUpload.stage = "none"
    BY DEF NoUpload, UploadRecords
  <2>. QED
    BY <1>1, <2>1 DEF AttachmentsInit, UploadsSound, InPublication
<1>4. DiscardsGone
  BY DEF AttachmentsInit, DiscardsGone
<1>5. RowsHaveBlobs
  BY AttachmentAssumption DEF AttachmentsInit, RowsHaveBlobs, Has
<1>. QED
  BY <1>2, <1>3, <1>4, <1>5 DEF AttachInv

LEMMA PublisherAlone ==
  ASSUME AttachInv
  PROVE  /\ publishing # <<>> => Head(publishing) \in Publishers
         /\ Publishers \subseteq Attachments
         /\ \A i \in Attachments : Publishes(i) =>
              /\ i \in Publishers /\ \A j \in Attachments : Publishes(j) => j = i
              /\ upload[i].stage # "discarding" => discarding = {}
<1>1. publishing # <<>> => Head(publishing) \in Publishers
  BY LineTail DEF AttachInv, UploadsSound, Publishers
<1>2. Publishers \subseteq Attachments
  BY LineMembers DEF AttachInv, UploadsSound, Publishers
<1>. QED
  BY <1>1, <1>2 DEF AttachInv, DiscardsGone, Publishes

(* The publisher goes on.                                                  *)
LEMMA PublicationGoesOn ==
  ASSUME AttachInv, NEW i \in Attachments, Publishes(i), NEW r \in UploadRecords,
         upload' = [upload EXCEPT ![i] = r], publishing' = publishing,
         r.stage \in InPublication, r.content = upload[i].content,
         r.stage = "storing" => blob'[i] = r.content,
         StoresTyped', RowsHaveBlobs', discarding' \subseteq Attachments,
         \A j \in discarding' : ~Has(j)' /\ r.stage = "discarding"
  PROVE  AttachInv'
<1>1. upload' \in [Attachments -> UploadRecords] /\ upload'[i] = r /\ \A j \in Attachments \ {i} : upload'[j] = upload[j]
  BY DEF AttachInv, UploadsSound
<1>2. Publishers' = Publishers /\ \A j \in Attachments : Publishes(j)' <=> j = i
  BY PublisherAlone DEF Publishers, Publishes
<1>3. i \in Publishers
  BY PublisherAlone
<1>4. \A j \in Attachments \ {i} : upload[j].stage \notin InPublication
  BY PublisherAlone DEF AttachInv, UploadsSound
<1>5. r.stage # "none" /\ r.stage # "receiving" /\ "storing" \in InPublication
  BY DEF InPublication
<1>6. upload[i].content \in Contents
  BY <1>3 DEF AttachInv, UploadsSound
<1>7. UploadsSound'
  <2>1. LineUp(publishing, Attachments)'
    BY DEF AttachInv, UploadsSound
  <2>2. \A j \in Publishers' : upload'[j].stage \notin {"none", "receiving"}
    BY <1>1, <1>2, <1>5, PublisherAlone DEF AttachInv, UploadsSound
  <2>3. \A j \in Attachments : upload'[j].stage \in InPublication => Publishes(j)'
    BY <1>1, <1>2, <1>4
  <2>4. \A j \in Attachments : upload'[j].stage # "none" => upload'[j].content \in Contents
    BY <1>1, <1>6 DEF AttachInv, UploadsSound
  <2>5. \A j \in Attachments : upload'[j].stage = "storing" => blob'[j] = upload'[j].content
    BY <1>1, <1>4, <1>5
  <2>. QED
    BY <1>1, <2>1, <2>2, <2>3, <2>4, <2>5 DEF UploadsSound
<1>8. DiscardsGone'
  BY <1>1, <1>2 DEF DiscardsGone
<1>. QED
  BY <1>7, <1>8 DEF AttachInv

(* The publisher, or an upload that is still received, is over.            *)
LEMMA UploadIsOver ==
  ASSUME AttachInv, NEW i \in Attachments, UploadOver(i),
         Publishes(i) \/ (upload[i].stage = "receiving" /\ UNCHANGED <<blob, row, discarding>>),
         Publishes(i) => discarding' = {},
         StoresTyped', RowsHaveBlobs'
  PROVE  AttachInv'
<1>1. /\ NoUpload \in UploadRecords /\ NoUpload.stage = "none"
      /\ upload' \in [Attachments -> UploadRecords] /\ upload'[i] = NoUpload
      /\ \A j \in Attachments \ {i} : upload'[j] = upload[j]
  BY DEF UploadOver, NoUpload, UploadRecords, AttachInv, UploadsSound
<1>2. CASE Publishes(i)
  <2>1. i \in Publishers
    BY <1>2, PublisherAlone
  <2>2. LineUp(publishing', Attachments) /\ Publishers' = Publishers \ {i}
    BY <2>1, LineRemove DEF UploadOver, AttachInv, UploadsSound, Publishers
  <2>3. \A j \in Attachments : upload'[j].stage \notin InPublication
    BY <1>1, <1>2, PublisherAlone DEF AttachInv, UploadsSound, InPublication
  <2>4. "storing" \in InPublication
    BY DEF InPublication
  <2>5. \A j \in Publishers' : upload'[j].stage \notin {"none", "receiving"}
    BY <1>1, <2>2, PublisherAlone DEF AttachInv, UploadsSound
  <2>6. \A j \in Attachments : upload'[j].stage # "none" => upload'[j].content \in Contents
    BY <1>1 DEF AttachInv, UploadsSound
  <2>7. UploadsSound'
    BY <1>1, <2>2, <2>3, <2>4, <2>5, <2>6 DEF UploadsSound
  <2>8. DiscardsGone'
    BY <1>2 DEF DiscardsGone
  <2>. QED
    BY <2>7, <2>8 DEF AttachInv
<1>3. CASE upload[i].stage = "receiving" /\ UNCHANGED <<blob, row, discarding>>
  <2>1. i \notin Publishers
    BY <1>3 DEF AttachInv, UploadsSound
  <2>2. publishing' = publishing
    <3>1. \A k \in 1..Len(publishing) : publishing[k] # i
      BY <2>1, LineMembers DEF AttachInv, UploadsSound, Publishers
    <3>. QED
      BY <3>1, LineMembers DEF UploadOver, RemoveFirst, AttachInv, UploadsSound
  <2>3. /\ Publishers' = Publishers /\ \A j \in Attachments : Publishes(j)' <=> Publishes(j)
        /\ \A j \in Attachments : Has(j)' <=> Has(j)
    BY <1>3, <2>2 DEF Publishers, Publishes, Has
  <2>4. ~Publishes(i)
    BY <2>1, PublisherAlone
  <2>5. UploadsSound'
    <3>1. LineUp(publishing, Attachments)'
      BY <2>2 DEF AttachInv, UploadsSound
    <3>2. \A j \in Publishers' : upload'[j].stage \notin {"none", "receiving"}
      BY <1>1, <2>1, <2>3, PublisherAlone DEF AttachInv, UploadsSound
    <3>3. \A j \in Attachments : upload'[j].stage \in InPublication => Publishes(j)'
      BY <1>1, <2>3 DEF AttachInv, UploadsSound, InPublication
    <3>4. \A j \in Attachments : upload'[j].stage # "none" => upload'[j].content \in Contents
      BY <1>1 DEF AttachInv, UploadsSound
    <3>5. \A j \in Attachments : upload'[j].stage = "storing" => blob'[j] = upload'[j].content
      BY <1>1, <1>3 DEF AttachInv, UploadsSound
    <3>. QED
      BY <1>1, <3>1, <3>2, <3>3, <3>4, <3>5 DEF UploadsSound
  <2>6. DiscardsGone'
    BY <1>1, <1>3, <2>3, <2>4 DEF AttachInv, DiscardsGone
  <2>. QED
    BY <2>5, <2>6 DEF AttachInv
<1>. QED
  BY <1>2, <1>3

(* Stores that have not changed are still sound.                           *)
LEMMA StoresStay ==
  ASSUME AttachInv, UNCHANGED <<blob, row, pinnedBy>>
  PROVE  StoresTyped' /\ RowsHaveBlobs' /\ \A j \in Attachments : Has(j)' <=> Has(j)
BY DEF AttachInv, StoresTyped, RowsHaveBlobs, Has

LEMMA GoesToStage ==
  ASSUME AttachInv, NEW i \in Attachments, NEW s \in UploadStages, Goes(i, s)
  PROVE  \E r \in UploadRecords : /\ upload' = [upload EXCEPT ![i] = r] /\ r.stage = s
                                  /\ r.content = upload[i].content /\ r.published = upload[i].published
<1>1. PICK r : r = [upload[i] EXCEPT !.stage = s]
  OBVIOUS
<1>2. r \in UploadRecords /\ r.stage = s /\ r.content = upload[i].content /\ r.published = upload[i].published
  BY <1>1 DEF AttachInv, UploadsSound, UploadRecords
<1>3. upload' = [upload EXCEPT ![i] = r]
  BY <1>1 DEF Goes, AttachInv, UploadsSound
<1>. QED
  BY <1>2, <1>3

(* The publisher goes on to another stage and leaves the stores alone.     *)
LEMMA StageGoesOn ==
  ASSUME AttachInv, NEW i \in Attachments, Publishes(i), NEW s \in InPublication \ {"discarding"}, Goes(i, s),
         UNCHANGED <<publishing, blob, row, pinnedBy>>, discarding' = {}, s = "storing" => blob[i] = upload[i].content
  PROVE  AttachInv'
<1>1. s \in UploadStages
  BY DEF InPublication, UploadStages
<1>2. PICK r \in UploadRecords : /\ upload' = [upload EXCEPT ![i] = r] /\ r.stage = s
                                 /\ r.content = upload[i].content
  BY <1>1, GoesToStage
<1>. QED
  BY <1>2, StoresStay, PublicationGoesOn

LEMMA FailsKeeps ==
  ASSUME AttachInv, NEW i \in Attachments, Publishes(i), UploadFails(i), discarding' = {}, blob' = blob,
         StoresTyped', RowsHaveBlobs'
  PROVE  AttachInv'
<1>1. CASE upload[i].published
  <2>1. Goes(i, "rescuing") /\ publishing' = publishing /\ "rescuing" \in InPublication /\ "rescuing" \in UploadStages
    BY <1>1 DEF UploadFails, InPublication, UploadStages
  <2>2. PICK r \in UploadRecords : /\ upload' = [upload EXCEPT ![i] = r] /\ r.stage = "rescuing"
                                   /\ r.content = upload[i].content
    BY <2>1, GoesToStage
  <2>. QED
    BY <2>1, <2>2, PublicationGoesOn
<1>2. CASE ~upload[i].published
  BY <1>2, UploadIsOver DEF UploadFails
<1>. QED
  BY <1>1, <1>2

LEMMA PutKeeps == ASSUME AttachInv, NEW i \in Attachments, PutAttachment(i) PROVE AttachInv'
<1>1. Publishes(i) /\ upload[i].stage = "storing" /\ UNCHANGED <<blob, pinnedBy>> /\ discarding = {}
  BY PublisherAlone DEF PutAttachment, UploadAt
<1>2. blob[i] = upload[i].content /\ upload[i].content \in Contents
  BY <1>1 DEF AttachInv, UploadsSound
<1>3. CASE UploadFails(i) /\ UNCHANGED <<discarding, row, aged>>
  BY <1>1, <1>3, StoresStay, FailsKeeps
<1>4. ASSUME NEW E \in SUBSET Attachments, ~Has(i), MakesRoom(E),
             row' = [j \in Attachments |-> IF j = i THEN upload[i].content
                                           ELSE IF j \in E THEN RowEvicted(j) ELSE row[j]],
             \/ Goes(i, "discarding") /\ discarding' = E /\ UNCHANGED publishing
             \/ UploadFails(i) /\ UNCHANGED discarding
      PROVE  AttachInv'
  <2>1. \A j \in E : Has(j) /\ pinnedBy[j] # "live" /\ j # i
    BY <1>4 DEF MakesRoom, Evictable
  <2>2. \A j \in Attachments : RowEvicted(j) \in {"none", "evicted"}
    BY DEF RowEvicted
  <2>3. StoresTyped'
    BY <1>1, <1>2, <1>4, <2>2 DEF AttachInv, StoresTyped
  <2>4. \A j \in Attachments : /\ j = i => row'[j] = upload[i].content
                               /\ j \in E => row'[j] \notin Contents
                               /\ j # i /\ j \notin E => row'[j] = row[j]
    BY <1>4, <2>1, <2>2, AttachmentAssumption
  <2>5. RowsHaveBlobs'
    BY <1>1, <1>2, <2>1, <2>4 DEF AttachInv, RowsHaveBlobs, Has
  <2>6. CASE Goes(i, "discarding") /\ discarding' = E /\ UNCHANGED publishing
    <3>1. "discarding" \in InPublication /\ "discarding" \in UploadStages
      BY DEF InPublication, UploadStages
    <3>2. PICK r \in UploadRecords : /\ upload' = [upload EXCEPT ![i] = r] /\ r.stage = "discarding"
                                     /\ r.content = upload[i].content
      BY <2>6, <3>1, GoesToStage
    <3>3. \A j \in discarding' : ~Has(j)'
      BY <2>4, <2>6 DEF Has
    <3>. QED
      BY <1>1, <2>3, <2>5, <2>6, <3>1, <3>2, <3>3, PublicationGoesOn
  <2>7. CASE UploadFails(i) /\ UNCHANGED discarding
    BY <1>1, <2>3, <2>5, <2>7, FailsKeeps
  <2>. QED
    BY <1>4, <2>6, <2>7
<1>. QED
  BY <1>3, <1>4 DEF PutAttachment

LEMMA LinkKeeps == ASSUME AttachInv, NEW i \in Attachments, LinkBlob(i) PROVE AttachInv'
<1>1. Publishes(i) /\ upload[i].stage = "linking" /\ UNCHANGED <<row, pinnedBy, discarding>> /\ discarding = {}
  BY PublisherAlone DEF LinkBlob, UploadAt, databaseVars
<1>2. upload[i].content \in Contents /\ upload[i] \in UploadRecords
  BY <1>1 DEF AttachInv, UploadsSound
<1>3. CASE /\ blob[i] = "none" /\ blob' = [blob EXCEPT ![i] = upload[i].content] /\ UNCHANGED publishing
           /\ \E stage \in {"storing", "rescuing"} :
                upload' = [upload EXCEPT ![i].stage = stage, ![i].published = TRUE]
  <2>1. PICK s \in {"storing", "rescuing"} : upload' = [upload EXCEPT ![i].stage = s, ![i].published = TRUE]
    BY <1>3
  <2>2. PICK r : r = [upload[i] EXCEPT !.stage = s, !.published = TRUE]
    OBVIOUS
  <2>3. r \in UploadRecords /\ r.stage = s /\ r.content = upload[i].content
    BY <1>2, <2>2 DEF UploadRecords, UploadStages
  <2>4. upload' = [upload EXCEPT ![i] = r]
    BY <2>1, <2>2 DEF AttachInv, UploadsSound
  <2>5. s \in InPublication
    BY DEF InPublication
  <2>6. StoresTyped' /\ blob'[i] = upload[i].content /\ \A j \in Attachments \ {i} : blob'[j] = blob[j]
    BY <1>1, <1>2, <1>3 DEF AttachInv, StoresTyped
  <2>7. ~Has(i)
    BY <1>3, AttachmentAssumption DEF AttachInv, RowsHaveBlobs, Has
  <2>8. RowsHaveBlobs'
    BY <1>1, <2>6, <2>7 DEF AttachInv, RowsHaveBlobs, Has
  <2>. QED
    BY <1>1, <1>3, <2>3, <2>4, <2>5, <2>6, <2>8, PublicationGoesOn
<1>4. CASE blob[i] = upload[i].content /\ Goes(i, "storing") /\ UNCHANGED <<blob, publishing>>
  <2>1. "storing" \in InPublication \ {"discarding"}
    BY DEF InPublication
  <2>. QED
    BY <1>1, <1>4, <2>1, StageGoesOn
<1>5. CASE UploadOver(i) /\ UNCHANGED blob
  BY <1>1, <1>5, StoresStay, UploadIsOver
<1>. QED
  BY <1>3, <1>4, <1>5 DEF LinkBlob

LEMMA AttachmentStepKeeps == ASSUME AttachInv, AttachmentsNext PROVE AttachInv'
<1>1. CASE RestartUploads
  <2>1. PICK stale \in SUBSET {i \in Attachments : ~Has(i)} :
          blob' = [i \in Attachments |-> IF i \in stale THEN "none" ELSE blob[i]]
    BY <1>1 DEF RestartUploads
  <2>2. /\ upload' = [i \in Attachments |-> NoUpload] /\ publishing' = <<>> /\ discarding' = {} /\ UNCHANGED <<row, pinnedBy>>
    BY <1>1 DEF RestartUploads, databaseVars
  <2>3. StoresTyped' /\ RowsHaveBlobs'
    BY <2>1, <2>2 DEF AttachInv, StoresTyped, RowsHaveBlobs, Has
  <2>4. LineUp(publishing', Attachments) /\ Publishers' = {}
    BY <2>2, LineEmpty DEF Publishers
  <2>5. UploadsSound'
    <3>1. NoUpload \in UploadRecords /\ NoUpload.stage = "none"
      BY DEF NoUpload, UploadRecords
    <3>. QED
      BY <2>2, <2>4, <3>1 DEF UploadsSound, InPublication
  <2>6. DiscardsGone'
    BY <2>2 DEF DiscardsGone
  <2>. QED
    BY <2>3, <2>5, <2>6 DEF AttachInv
<1>2. ASSUME NEW i \in Attachments, NEW c \in Contents, AdmitUpload(i, c) PROVE AttachInv'
  <2>1. PICK r : r = [stage |-> "receiving", content |-> c, published |-> FALSE]
    OBVIOUS
  <2>2. /\ upload' = [upload EXCEPT ![i] = r] /\ UNCHANGED <<publishing, discarding, blob, row, pinnedBy>>
        /\ upload[i].stage = "none" /\ r.stage = "receiving" /\ r.content \in Contents /\ r \in UploadRecords
    BY <1>2, <2>1 DEF AdmitUpload, Uploading, NoUpload, databaseVars, UploadRecords, UploadStages
  <2>3. upload' \in [Attachments -> UploadRecords] /\ upload'[i] = r /\ \A j \in Attachments \ {i} : upload'[j] = upload[j]
    BY <2>2 DEF AttachInv, UploadsSound
  <2>4. i \notin Publishers /\ ~Publishes(i)
    BY <2>2, PublisherAlone DEF AttachInv, UploadsSound
  <2>5. Publishers' = Publishers /\ \A j \in Attachments : (Publishes(j)' <=> Publishes(j)) /\ (Has(j)' <=> Has(j))
    BY <2>2 DEF Publishers, Publishes, Has
  <2>6. UploadsSound'
    BY <2>2, <2>3, <2>4, <2>5, PublisherAlone DEF AttachInv, UploadsSound, InPublication
  <2>7. DiscardsGone'
    BY <2>2, <2>3, <2>4, <2>5 DEF AttachInv, DiscardsGone
  <2>. QED
    BY <2>2, <2>6, <2>7, StoresStay DEF AttachInv
<1>3. ASSUME NEW i \in Attachments, ReceiveUpload(i) PROVE AttachInv'
  <2>1. upload[i].stage = "receiving" /\ UNCHANGED <<discarding, blob, row, pinnedBy>>
    BY <1>3 DEF ReceiveUpload, UploadAt, databaseVars
  <2>2. i \notin Publishers /\ ~Publishes(i)
    BY <2>1, PublisherAlone DEF AttachInv, UploadsSound
  <2>3. CASE Goes(i, "publishing") /\ publishing' = Append(publishing, i)
    <3>1. PICK r \in UploadRecords : /\ upload' = [upload EXCEPT ![i] = r] /\ r.stage = "publishing"
                                     /\ r.content = upload[i].content
      BY <2>3, GoesToStage DEF UploadStages
    <3>2. upload' \in [Attachments -> UploadRecords] /\ upload'[i] = r /\ \A j \in Attachments \ {i} : upload'[j] = upload[j]
      BY <3>1 DEF AttachInv, UploadsSound
    <3>3. LineUp(publishing', Attachments) /\ Publishers' = Publishers \cup {i} /\ Publishers \subseteq Attachments
      BY <2>2, <2>3, LineAppend, PublisherAlone DEF AttachInv, UploadsSound, Publishers
    <3>4. \A j \in Attachments : Publishes(j) => Publishes(j)'
      <4>1. publishing \in Seq(Attachments)
        BY DEF AttachInv, UploadsSound, LineUp
      <4>2. publishing # <<>> => publishing' # <<>> /\ Head(publishing') = Head(publishing)
        BY <2>3, <4>1, AppendProperties, HeadTailProperties, EmptySeq, LenProperties
      <4>. QED
        BY <4>2 DEF Publishes
    <3>5. \A j \in Attachments : Has(j)' <=> Has(j)
      BY <2>1 DEF Has
    <3>6. UploadsSound'
      <4>1. \A j \in Publishers' : upload'[j].stage \notin {"none", "receiving"}
        BY <3>1, <3>2, <3>3 DEF AttachInv, UploadsSound
      <4>2. \A j \in Attachments : upload'[j].stage \in InPublication => Publishes(j)'
        BY <3>1, <3>2, <3>4 DEF AttachInv, UploadsSound, InPublication
      <4>3. \A j \in Attachments : /\ upload'[j].stage # "none" => upload'[j].content \in Contents
                                   /\ upload'[j].stage = "storing" => blob'[j] = upload'[j].content
        BY <2>1, <3>1, <3>2 DEF AttachInv, UploadsSound
      <4>. QED
        BY <3>2, <3>3, <4>1, <4>2, <4>3 DEF UploadsSound
    <3>7. DiscardsGone'
      BY <2>1, <2>2, <3>2, <3>4, <3>5 DEF AttachInv, DiscardsGone
    <3>. QED
      BY <2>1, <3>6, <3>7, StoresStay DEF AttachInv
  <2>4. CASE UploadOver(i)
    BY <2>1, <2>2, <2>4, UploadIsOver, StoresStay
  <2>. QED
    BY <1>3, <2>3, <2>4 DEF ReceiveUpload
<1>4. ASSUME NEW i \in Attachments, LookUp(i) PROVE AttachInv'
  <2>1. Publishes(i) /\ upload[i].stage = "publishing" /\ UNCHANGED <<discarding, blob, row, pinnedBy>> /\ discarding = {}
    BY <1>4, PublisherAlone DEF LookUp, UploadAt, databaseVars
  <2>2. {"verifying", "linking"} \subseteq InPublication \ {"discarding", "storing"}
    BY DEF InPublication
  <2>3. CASE Goes(i, "verifying") /\ UNCHANGED publishing
    BY <2>1, <2>2, <2>3, StageGoesOn
  <2>4. CASE Goes(i, "linking") /\ UNCHANGED publishing
    BY <2>1, <2>2, <2>4, StageGoesOn
  <2>5. CASE UploadOver(i)
    BY <2>1, <2>5, StoresStay, UploadIsOver
  <2>. QED
    BY <1>4, <2>3, <2>4, <2>5 DEF LookUp
<1>5. ASSUME NEW i \in Attachments, VerifyStored(i) \/ Published(i) PROVE AttachInv'
  <2>1. Publishes(i) /\ UNCHANGED <<discarding, blob, row, pinnedBy>> /\ discarding = {} /\ UploadOver(i)
    BY <1>5, PublisherAlone DEF VerifyStored, Published, UploadAt, databaseVars
  <2>. QED
    BY <2>1, StoresStay, UploadIsOver
<1>6. ASSUME NEW i \in Attachments, NEW j \in Attachments, Discard(i, j) PROVE AttachInv'
  <2>1. /\ Publishes(i) /\ upload[i].stage = "discarding" /\ j \in discarding /\ discarding' = discarding \ {j}
        /\ blob' \in {blob, [blob EXCEPT ![j] = "none"]} /\ UNCHANGED <<upload, publishing, row, pinnedBy>>
    BY <1>6 DEF Discard, UploadAt, databaseVars
  <2>2. ~Has(j) /\ StoresTyped' /\ \A k \in Attachments \ {j} : blob'[k] = blob[k]
    BY <2>1 DEF AttachInv, DiscardsGone, StoresTyped
  <2>3. RowsHaveBlobs'
    BY <2>1, <2>2 DEF AttachInv, RowsHaveBlobs, Has
  <2>4. upload' = [upload EXCEPT ![i] = upload[i]] /\ upload[i] \in UploadRecords
    BY <2>1 DEF AttachInv, UploadsSound
  <2>5. \A k \in discarding' : ~Has(k)'
    BY <2>1 DEF AttachInv, DiscardsGone, Has
  <2>. QED
    BY <2>1, <2>2, <2>3, <2>4, <2>5, PublicationGoesOn DEF InPublication, AttachInv, DiscardsGone
<1>7. ASSUME NEW i \in Attachments, Rescue(i) PROVE AttachInv'
  <2>1. /\ Publishes(i) /\ upload[i].stage = "rescuing" /\ UNCHANGED <<discarding, row, pinnedBy>> /\ discarding = {} /\ UploadOver(i)
        /\ blob' = blob \/ (~Has(i) /\ blob' = [blob EXCEPT ![i] = "none"])
    BY <1>7, PublisherAlone DEF Rescue, UploadAt, databaseVars
  <2>2. StoresTyped' /\ RowsHaveBlobs'
    BY <2>1 DEF AttachInv, StoresTyped, RowsHaveBlobs, Has
  <2>. QED
    BY <2>1, <2>2, UploadIsOver
<1>8. ASSUME NEW i \in Attachments, ReferTo(i) \/ TurnOver(i) \/ GraceEnds(i) PROVE AttachInv'
  <2>1. UNCHANGED <<upload, publishing, discarding, blob, row>>
        /\ (pinnedBy' = pinnedBy \/ (Has(i) /\ pinnedBy' = [pinnedBy EXCEPT ![i] = "live"])
             \/ pinnedBy' = [pinnedBy EXCEPT ![i] = "past"])
    BY <1>8 DEF ReferTo, TurnOver, GraceEnds
  <2>2. StoresTyped' /\ RowsHaveBlobs'
    BY <2>1 DEF AttachInv, StoresTyped, RowsHaveBlobs, Has
  <2>3. UploadsSound' /\ DiscardsGone'
    BY <2>1 DEF AttachInv, UploadsSound, DiscardsGone, Publishers, Publishes, Has
  <2>. QED
    BY <2>2, <2>3 DEF AttachInv
<1>. QED
  BY <1>1, <1>2, <1>3, <1>4, <1>5, <1>6, <1>7, <1>8, LinkKeeps, PutKeeps DEF AttachmentsNext

(* A row has its blob at every moment and what a live turn refers to has   *)
(* its row, for any attachments, contents, uploads and crashes:            *)
(* FileAttachmentStore over AttachmentDatabase.                            *)
THEOREM RowsHaveBlobsHolds == AttachmentsSpec => []RowsHaveBlobs
<1>1. AttachInv => RowsHaveBlobs
  BY DEF AttachInv
<1>2. ASSUME AttachInv, UNCHANGED uploadVars PROVE AttachInv'
  BY <1>2 DEF uploadVars, AttachInv, StoresTyped, UploadsSound, DiscardsGone, RowsHaveBlobs, Publishers, Publishes, Has
<1>. QED
  BY <1>1, <1>2, InitAttachments, AttachmentStepKeeps, PTL DEF AttachmentsSpec

(***************************************************************************)
(* TurnCheckpoints                                                         *)
(***************************************************************************)
Sides == {"before", "after"}
CaptureSteps == {"reading", "capturing", "prepared", "answered", "unanswered", "undoing", "failing"}
CheckpointsTyped ==
  /\ capturedTurn \in [ChangeTurns -> {"new", "start", "working", "end", "over"}]
  /\ callLine \in Seq(ChangeTurns) /\ captureStep \in CaptureSteps
  /\ startRecords \in SUBSET ChangeTurns
  /\ endRecord \in [ChangeTurns -> {"none", "git", "unavailable"}]
  /\ turnRefs \in [ChangeTurns -> SUBSET Sides]

(* Each call in line is of another turn, and that turn waits for it.       *)
CallsApart ==
  /\ callLine = <<>> => captureStep = "reading"
  /\ \A i, j \in 1..Len(callLine) : callLine[i] = callLine[j] => i = j
  /\ \A i \in 1..Len(callLine) : capturedTurn[callLine[i]] \in {"start", "end"}

(* No ref stays without its record, but for one that could not be undone   *)
(* and that of the side which is being captured.                           *)
NoRefLeft(t) ==
  t \notin spoilt => /\ "before" \in turnRefs[t] => t \in startRecords \/ endRecord[t] = "git"
                     /\ "after" \in turnRefs[t] => endRecord[t] = "git"
NoOtherRef(t) ==
  t \notin spoilt => /\ "before" \in turnRefs[t] => t \in startRecords \/ Side(t) = "before"
                     /\ "after" \in turnRefs[t] => Side(t) = "after"

InHand(t) == callLine # <<>> /\ t = callLine[1]

RecordsNameRefs ==
  \A t \in ChangeTurns :
    /\ t \in startRecords => "before" \in turnRefs[t]
    /\ endRecord[t] = "git" => turnRefs[t] = Sides
    /\ capturedTurn[t] \in {"new", "start"} => t \notin startRecords
    /\ capturedTurn[t] # "over" => endRecord[t] # "git"
    /\ ~InHand(t) => NoRefLeft(t)

StepSound ==
  \A t \in ChangeTurns : InHand(t) =>
    /\ captureStep \in {"reading", "capturing", "prepared", "failing"} => NoRefLeft(t)
    /\ captureStep \in {"answered", "unanswered", "undoing"} => NoOtherRef(t)
    /\ captureStep = "answered" => Side(t) \in turnRefs[t]
    /\ captureStep \in {"prepared", "answered"} /\ Side(t) = "after" => "before" \in turnRefs[t]

CheckpointInv == CheckpointsTyped /\ CallsApart /\ RecordsNameRefs /\ StepSound

LEMMA InitCheckpoints == CheckpointInit => CheckpointInv
<1>. SUFFICES ASSUME CheckpointInit PROVE CheckpointInv
  OBVIOUS
<1>1. callLine \in Seq(ChangeTurns) /\ Len(callLine) = 0 /\ callLine = <<>>
  BY EmptySeq DEF CheckpointInit
<1>2. CheckpointsTyped /\ CallsApart
  BY <1>1 DEF CheckpointInit, CheckpointsTyped, CallsApart, CaptureSteps, Sides
<1>3. RecordsNameRefs /\ StepSound
  BY <1>1 DEF CheckpointInit, RecordsNameRefs, StepSound, InHand, NoRefLeft
<1>. QED
  BY <1>2, <1>3 DEF CheckpointInv

LEMMA CallLineTyped ==
  ASSUME CheckpointInv
  PROVE  /\ callLine \in Seq(ChangeTurns) /\ Len(callLine) \in Nat /\ (callLine = <<>> <=> Len(callLine) = 0)
         /\ \A i \in 1..Len(callLine) : callLine[i] \in ChangeTurns
         /\ callLine # <<>> => Head(callLine) = callLine[1] /\ 1 \in 1..Len(callLine) /\ Captured \in ChangeTurns
                               /\ capturedTurn[Captured] \in {"start", "end"}
<1>1. /\ callLine \in Seq(ChangeTurns) /\ Len(callLine) \in Nat /\ (callLine = <<>> <=> Len(callLine) = 0)
      /\ \A i \in 1..Len(callLine) : callLine[i] \in ChangeTurns
  BY LenProperties, EmptySeq, ElementOfSeq DEF CheckpointInv, CheckpointsTyped
<1>2. callLine # <<>> => 1 \in 1..Len(callLine) /\ Head(callLine) = callLine[1]
  BY <1>1
<1>. QED
  BY <1>1, <1>2 DEF Captured, CheckpointInv, CallsApart

(* The call in hand goes on to another step.                               *)
LEMMA CallGoesOn ==
  ASSUME CheckpointInv, callLine # <<>>, UNCHANGED <<capturedTurn, callLine>>, captureStep' \in CaptureSteps,
         startRecords' = startRecords, endRecord' = endRecord,
         \/ turnRefs' = turnRefs
         \/ \E R \in SUBSET Sides : turnRefs' = [turnRefs EXCEPT ![Captured] = R] /\ (Captured \in startRecords => "before" \in R),
         spoilt \subseteq spoilt', spoilt' \subseteq spoilt \cup {Captured},
         captureStep' \in {"reading", "capturing", "prepared", "failing"} => NoRefLeft(Captured)',
         captureStep' \in {"answered", "unanswered", "undoing"} => NoOtherRef(Captured)',
         captureStep' = "answered" => Side(Captured) \in turnRefs'[Captured],
         captureStep' \in {"prepared", "answered"} /\ Side(Captured) = "after" => "before" \in turnRefs'[Captured]
  PROVE  CheckpointInv'
<1>1. PICK c \in ChangeTurns : c = Captured /\ c = callLine[1] /\ capturedTurn[c] \in {"start", "end"}
  BY CallLineTyped DEF Captured
<1>2. \A t \in ChangeTurns : InHand(t)' <=> InHand(t)
  BY DEF InHand
<1>3. \A t \in ChangeTurns : InHand(t) <=> t = c
  BY <1>1 DEF InHand
<1>4. /\ turnRefs' \in [ChangeTurns -> SUBSET Sides]
      /\ \A t \in ChangeTurns \ {c} : turnRefs'[t] = turnRefs[t] /\ (t \in spoilt' <=> t \in spoilt)
      /\ c \in startRecords => "before" \in turnRefs'[c]
  BY <1>1 DEF CheckpointInv, CheckpointsTyped, RecordsNameRefs
<1>5. CheckpointsTyped' /\ CallsApart'
  BY <1>4 DEF CheckpointInv, CheckpointsTyped, CallsApart
<1>6. \A t \in ChangeTurns \ {c} : NoRefLeft(t)' <=> NoRefLeft(t)
  BY <1>4 DEF NoRefLeft
<1>7. endRecord[c] # "git"
  BY <1>1 DEF CheckpointInv, RecordsNameRefs
<1>8. RecordsNameRefs'
  BY <1>1, <1>2, <1>3, <1>4, <1>6, <1>7 DEF CheckpointInv, RecordsNameRefs
<1>9. StepSound'
  <2>1. Side(c)' = Side(c) /\ captureStep' \in CaptureSteps
    BY DEF Side
  <2>. SUFFICES ASSUME NEW t \in ChangeTurns, InHand(t)'
       PROVE  /\ captureStep' \in {"reading", "capturing", "prepared", "failing"} => NoRefLeft(t)'
              /\ captureStep' \in {"answered", "unanswered", "undoing"} => NoOtherRef(t)'
              /\ captureStep' = "answered" => Side(t)' \in turnRefs'[t]
              /\ captureStep' \in {"prepared", "answered"} /\ Side(t)' = "after" => "before" \in turnRefs'[t]
    BY DEF StepSound
  <2>2. t = c
    BY <1>2, <1>3
  <2>3. t = Captured /\ Captured' = Captured
    BY <1>1, <2>2 DEF Captured
  <2>4. NoRefLeft(Captured)' => NoRefLeft(t)'
    BY <2>3 DEF NoRefLeft
  <2>5. NoOtherRef(Captured)' => NoOtherRef(t)'
    BY <2>3 DEF NoOtherRef, Side
  <2>. QED
    BY <2>1, <2>2, <2>3, <2>4, <2>5
<1>. QED
  BY <1>5, <1>8, <1>9 DEF CheckpointInv

(* The call in hand ends, its turn with or without a record.               *)
LEMMA CheckpointCallOver ==
  ASSUME CheckpointInv, callLine # <<>>, EndsCall, turnRefs' = turnRefs,
         spoilt \subseteq spoilt', spoilt' \subseteq spoilt \cup {Captured},
         endRecord' \in [ChangeTurns -> {"none", "git", "unavailable"}], startRecords' \subseteq ChangeTurns,
         \A t \in ChangeTurns \ {Captured} :
           endRecord'[t] = endRecord[t] /\ (t \in startRecords' <=> t \in startRecords),
         Captured \in startRecords' => "before" \in turnRefs[Captured],
         endRecord'[Captured] = "git" => turnRefs[Captured] = Sides /\ Side(Captured) = "after",
         Captured \notin spoilt' =>
           /\ "before" \in turnRefs[Captured] => Captured \in startRecords' \/ endRecord'[Captured] = "git"
           /\ "after" \in turnRefs[Captured] => endRecord'[Captured] = "git"
  PROVE  CheckpointInv'
<1>1. PICK c \in ChangeTurns : c = Captured /\ c = callLine[1] /\ capturedTurn[c] \in {"start", "end"}
  BY CallLineTyped DEF Captured
<1>2. /\ callLine' \in Seq(ChangeTurns) /\ Len(callLine') = Len(callLine) - 1 /\ Len(callLine) \in Nat \ {0}
      /\ \A k \in 1..Len(callLine') : callLine'[k] = callLine[k + 1] /\ k + 1 \in 1..Len(callLine) /\ k + 1 # 1
  <2>1. /\ callLine' \in Seq(ChangeTurns) /\ Len(callLine') = Len(callLine) - 1 /\ Len(callLine) \in Nat \ {0}
        /\ \A k \in 1..Len(callLine') : callLine'[k] = callLine[k + 1]
    BY HeadTailProperties, LenProperties, CallLineTyped DEF EndsCall
  <2>. QED
    BY <2>1
<1>3. /\ capturedTurn' \in [ChangeTurns -> {"new", "start", "working", "end", "over"}] /\ captureStep' = "reading"
      /\ \A t \in ChangeTurns \ {c} : capturedTurn'[t] = capturedTurn[t]
      /\ capturedTurn'[c] = IF capturedTurn[c] = "start" THEN "working" ELSE "over"
  BY <1>1 DEF EndsCall, CheckpointInv, CheckpointsTyped
<1>4. \A k \in 1..Len(callLine') : callLine'[k] # c /\ callLine'[k] \in ChangeTurns
  BY <1>1, <1>2, CallLineTyped DEF CheckpointInv, CallsApart
<1>5. CheckpointsTyped'
  BY <1>2, <1>3 DEF CheckpointInv, CheckpointsTyped, CaptureSteps
<1>6. CallsApart'
  <2>1. \A i \in 1..Len(callLine') : capturedTurn'[callLine'[i]] \in {"start", "end"}
    BY <1>2, <1>3, <1>4 DEF CheckpointInv, CallsApart
  <2>2. \A i, j \in 1..Len(callLine') : callLine'[i] = callLine'[j] => i + 1 = j + 1
    BY <1>2 DEF CheckpointInv, CallsApart
  <2>3. \A i, j \in 1..Len(callLine') : i + 1 = j + 1 => i = j
    BY <1>2
  <2>. QED
    BY <1>3, <2>1, <2>2, <2>3 DEF CallsApart
<1>7. NoRefLeft(c)'
  BY <1>1 DEF NoRefLeft
<1>8. \A t \in ChangeTurns \ {c} : NoRefLeft(t)' /\ ~InHand(t)
  <2>1. \A t \in ChangeTurns \ {c} : ~InHand(t)
    BY <1>1 DEF InHand
  <2>2. \A t \in ChangeTurns \ {c} : NoRefLeft(t)
    BY <2>1 DEF CheckpointInv, RecordsNameRefs
  <2>. QED
    BY <1>1, <2>1, <2>2 DEF NoRefLeft
<1>9. RecordsNameRefs'
  <2>1. \A t \in ChangeTurns \ {c} :
          /\ t \in startRecords' => "before" \in turnRefs'[t]
          /\ endRecord'[t] = "git" => turnRefs'[t] = Sides
          /\ capturedTurn'[t] \in {"new", "start"} => t \notin startRecords'
          /\ capturedTurn'[t] # "over" => endRecord'[t] # "git"
    BY <1>1, <1>3 DEF CheckpointInv, RecordsNameRefs
  <2>2. /\ c \in startRecords' => "before" \in turnRefs'[c]
        /\ endRecord'[c] = "git" => turnRefs'[c] = Sides
        /\ capturedTurn'[c] \in {"new", "start"} => c \notin startRecords'
        /\ capturedTurn'[c] # "over" => endRecord'[c] # "git"
    BY <1>1, <1>3 DEF Side
  <2>. QED
    BY <1>7, <1>8, <2>1, <2>2 DEF RecordsNameRefs
<1>10. StepSound'
  BY <1>3, <1>7, <1>8 DEF StepSound
<1>. QED
  BY <1>5, <1>6, <1>9, <1>10 DEF CheckpointInv

LEMMA CheckpointStepKeeps == ASSUME CheckpointInv, CheckpointNext PROVE CheckpointInv'
<1>0. /\ CheckpointsTyped /\ CallsApart /\ RecordsNameRefs /\ StepSound
      /\ callLine # <<>> => Captured \in ChangeTurns /\ InHand(Captured) /\ capturedTurn[Captured] \in {"start", "end"}
  BY CallLineTyped DEF CheckpointInv, InHand, Captured
<1>1. ASSUME NEW t \in ChangeTurns, CallCapture(t) PROVE CheckpointInv'
  <2>1. /\ UNCHANGED <<captureStep, startRecords, endRecord, turnRefs, spoilt>> /\ capturedTurn[t] \in {"new", "working"}
        /\ \A i \in 1..Len(callLine) : callLine[i] # t
    BY <1>0, <1>1 DEF CallCapture, fileVars, CallsApart
  <2>2. /\ capturedTurn' \in [ChangeTurns -> {"new", "start", "working", "end", "over"}]
        /\ \A u \in ChangeTurns \ {t} : capturedTurn'[u] = capturedTurn[u]
        /\ capturedTurn'[t] \in {IF capturedTurn[t] = "new" THEN "start" ELSE "end", "over"}
    BY <1>0, <1>1 DEF CallCapture, CheckpointsTyped
  <2>3. CASE callLine' = callLine
    <3>1. CheckpointsTyped' /\ CallsApart'
      BY <1>0, <2>1, <2>2, <2>3, CallLineTyped DEF CheckpointsTyped, CallsApart
    <3>2. \A u \in ChangeTurns : /\ InHand(u)' <=> InHand(u)
                                 /\ NoRefLeft(u)' <=> NoRefLeft(u)
                                 /\ InHand(u) => u # t
      BY <2>1, <2>3, CallLineTyped DEF InHand, NoRefLeft
    <3>3. RecordsNameRefs'
      BY <1>0, <2>1, <2>2, <3>2 DEF RecordsNameRefs
    <3>4. StepSound'
      BY <1>0, <2>1, <2>2, <3>2 DEF StepSound, NoOtherRef, Side
    <3>. QED
      BY <3>1, <3>3, <3>4 DEF CheckpointInv
  <2>4. CASE callLine' = Append(callLine, t) /\ capturedTurn'[t] # "over"
    <3>1. /\ callLine' \in Seq(ChangeTurns) /\ Len(callLine') = Len(callLine) + 1 /\ Len(callLine) \in Nat
          /\ \A k \in 1..Len(callLine) : callLine'[k] = callLine[k]
          /\ callLine'[Len(callLine) + 1] = t
      BY <2>4, AppendProperties, CallLineTyped
    <3>2. \A k \in 1..Len(callLine') : k \in 1..Len(callLine) \/ k = Len(callLine) + 1
      BY <3>1
    <3>3. CheckpointsTyped'
      BY <1>0, <2>1, <2>2, <3>1 DEF CheckpointsTyped
    <3>4. CallsApart'
      <4>1. callLine' # <<>>
        BY <3>1, EmptySeq
      <4>. QED
        BY <1>0, <2>1, <2>2, <2>4, <3>1, <3>2, <4>1, CallLineTyped DEF CallsApart
    <3>5. callLine = <<>> => ~InHand(t) /\ NoRefLeft(t)
      BY <1>0 DEF InHand, RecordsNameRefs
    <3>6. \A u \in ChangeTurns : NoRefLeft(u)' <=> NoRefLeft(u)
      BY <2>1 DEF NoRefLeft
    <3>7. callLine # <<>> => callLine'[1] = callLine[1] /\ callLine[1] # t /\ callLine' # <<>>
      BY <2>1, <3>1, CallLineTyped, EmptySeq
    <3>8. callLine = <<>> => callLine'[1] = t
      BY <3>1, CallLineTyped
    <3>9. RecordsNameRefs'
      <4>1. \A u \in ChangeTurns : ~InHand(u)' => ~InHand(u)
        BY <3>7 DEF InHand
      <4>. QED
        BY <1>0, <2>1, <2>2, <3>6, <4>1 DEF RecordsNameRefs
    <3>10. StepSound'
      <4>1. CASE callLine # <<>>
        <5>1. \A u \in ChangeTurns : InHand(u)' => InHand(u) /\ u # t
          BY <3>7, <4>1 DEF InHand
        <5>. QED
          BY <1>0, <2>1, <2>2, <3>6, <5>1 DEF StepSound, NoOtherRef, Side
      <4>2. CASE callLine = <<>> /\ captureStep = "reading"
        <5>1. \A u \in ChangeTurns : InHand(u)' => u = t
          BY <3>8, <4>2 DEF InHand
        <5>. QED
          BY <2>1, <3>5, <3>6, <4>2, <5>1 DEF StepSound
      <4>. QED
        BY <4>1, <4>2, <1>0 DEF CallsApart
    <3>. QED
      BY <3>3, <3>4, <3>9, <3>10 DEF CheckpointInv
  <2>. QED
    BY <1>0, <1>1, <2>2, <2>3, <2>4 DEF CallCapture, CheckpointsTyped
<1>2. ASSUME NEW t \in ChangeTurns, TurnStopped(t) PROVE CheckpointInv'
  <2>1. /\ UNCHANGED <<captureStep, callLine, startRecords, endRecord, turnRefs, spoilt>> /\ capturedTurn[t] = "working"
        /\ \A i \in 1..Len(callLine) : callLine[i] # t
    BY <1>0, <1>2 DEF TurnStopped, fileVars, CallsApart
  <2>2. /\ capturedTurn' \in [ChangeTurns -> {"new", "start", "working", "end", "over"}]
        /\ \A u \in ChangeTurns \ {t} : capturedTurn'[u] = capturedTurn[u]
        /\ capturedTurn'[t] = "over"
    BY <1>0, <1>2 DEF TurnStopped, CheckpointsTyped
  <2>3. CheckpointsTyped' /\ CallsApart'
    BY <1>0, <2>1, <2>2, CallLineTyped DEF CheckpointsTyped, CallsApart
  <2>4. \A u \in ChangeTurns : /\ InHand(u)' <=> InHand(u)
                               /\ NoRefLeft(u)' <=> NoRefLeft(u)
                               /\ InHand(u) => u # t
    BY <2>1, CallLineTyped DEF InHand, NoRefLeft
  <2>5. RecordsNameRefs'
    BY <1>0, <2>1, <2>2, <2>4 DEF RecordsNameRefs
  <2>6. StepSound'
    BY <1>0, <2>1, <2>2, <2>4 DEF StepSound, NoOtherRef, Side
  <2>. QED
    BY <2>3, <2>5, <2>6 DEF CheckpointInv
<1>3. ASSUME callLine # <<>>, EndsCall, captureStep \in {"reading", "failing"}, UNCHANGED <<startRecords, turnRefs, spoilt>>,
             \/ endRecord' = endRecord
             \/ /\ endRecord' = [endRecord EXCEPT ![Captured] = IF endRecord[Captured] = "none" THEN "unavailable" ELSE @]
      PROVE  CheckpointInv'
  <2>1. NoRefLeft(Captured) /\ endRecord[Captured] # "git"
    BY <1>0, <1>3 DEF StepSound, RecordsNameRefs
  <2>2. /\ endRecord' \in [ChangeTurns -> {"none", "git", "unavailable"}]
        /\ \A t \in ChangeTurns \ {Captured} : endRecord'[t] = endRecord[t]
        /\ endRecord'[Captured] # "git"
    BY <1>0, <1>3, <2>1 DEF CheckpointsTyped
  <2>3. startRecords' \subseteq ChangeTurns /\ (Captured \in startRecords' => "before" \in turnRefs[Captured])
    BY <1>0, <1>3 DEF CheckpointsTyped, RecordsNameRefs
  <2>4. Captured \notin spoilt' =>
          /\ "before" \in turnRefs[Captured] => Captured \in startRecords' \/ endRecord'[Captured] = "git"
          /\ "after" \in turnRefs[Captured] => endRecord'[Captured] = "git"
    BY <1>3, <2>1 DEF NoRefLeft
  <2>. QED
    BY <1>3, <2>2, <2>3, <2>4, CheckpointCallOver
<1>4. ASSUME callLine # <<>>, captureStep \in {"reading", "capturing"}, StepGoes("failing") \/ StepGoes("capturing"),
             UNCHANGED <<startRecords, endRecord, turnRefs, spoilt>>
      PROVE  CheckpointInv'
  <2>1. NoRefLeft(Captured)
    BY <1>0, <1>4 DEF StepSound
  <2>2. NoRefLeft(Captured)'
    BY <1>4, <2>1 DEF NoRefLeft, Captured, StepGoes
  <2>3. captureStep' \in {"failing", "capturing"} /\ UNCHANGED <<capturedTurn, callLine>>
    BY <1>4 DEF StepGoes
  <2>. QED
    BY <1>4, <2>2, <2>3, CallGoesOn DEF CaptureSteps
<1>5. ASSUME ReadsRecords PROVE CheckpointInv'
  <2>1. callLine # <<>> /\ captureStep = "reading" /\ UNCHANGED <<startRecords, endRecord, turnRefs, spoilt>>
    BY <1>5 DEF ReadsRecords, Capturing, fileVars
  <2>. QED
    BY <1>3, <1>4, <1>5, <2>1 DEF ReadsRecords
<1>6. ASSUME Prepares PROVE CheckpointInv'
  <2>1. callLine # <<>> /\ captureStep = "capturing" /\ UNCHANGED <<startRecords, endRecord, turnRefs, spoilt>>
    BY <1>6 DEF Prepares, Capturing, fileVars
  <2>2. CASE StepGoes("prepared") /\ (Side(Captured) = "after" => "before" \in turnRefs[Captured])
    <3>1. captureStep' = "prepared" /\ UNCHANGED <<capturedTurn, callLine>>
      BY <2>2 DEF StepGoes
    <3>2. NoRefLeft(Captured)
      BY <1>0, <2>1 DEF StepSound
    <3>3. NoRefLeft(Captured)'
      BY <2>1, <3>1, <3>2 DEF NoRefLeft, Captured
    <3>. QED
      BY <2>1, <2>2, <3>1, <3>3, CallGoesOn DEF CaptureSteps
  <2>. QED
    BY <1>4, <1>6, <2>1, <2>2 DEF Prepares
<1>7. ASSUME MakesRef PROVE CheckpointInv'
  <2>1. /\ callLine # <<>> /\ captureStep = "prepared" /\ UNCHANGED <<startRecords, endRecord, spoilt, capturedTurn, callLine>>
        /\ captureStep' \in {"answered", "unanswered"}
        /\ captureStep' = "answered" => turnRefs' = [turnRefs EXCEPT ![Captured] = turnRefs[Captured] \cup {Side(Captured)}]
        /\ \/ turnRefs' = turnRefs
           \/ turnRefs' = [turnRefs EXCEPT ![Captured] = turnRefs[Captured] \cup {Side(Captured)}]
    BY <1>7 DEF MakesRef, Capturing, StepGoes
  <2>2. PICK R : R = turnRefs[Captured] \cup {Side(Captured)}
    OBVIOUS
  <2>3. R \in SUBSET Sides /\ (Captured \in startRecords => "before" \in R) /\ Side(Captured) \in R
    BY <1>0, <2>1, <2>2 DEF CheckpointsTyped, RecordsNameRefs, Side, Sides
  <2>4. Captured' = Captured /\ Side(Captured)' = Side(Captured)
    BY <2>1 DEF Captured, Side
  <2>5. /\ turnRefs'[Captured] \in {R, turnRefs[Captured]} /\ turnRefs[Captured] \subseteq turnRefs'[Captured]
        /\ captureStep' = "answered" => turnRefs'[Captured] = R
    BY <1>0, <2>1, <2>2 DEF CheckpointsTyped
  <2>6. NoRefLeft(Captured) /\ endRecord[Captured] # "git" /\ (Side(Captured) = "after" => "before" \in turnRefs[Captured])
    BY <1>0, <2>1 DEF StepSound, RecordsNameRefs
  <2>7. NoOtherRef(Captured)'
    <3>1. \A s \in turnRefs'[Captured] : s \in turnRefs[Captured] \/ s = Side(Captured)
      BY <2>2, <2>5
    <3>. QED
      BY <2>1, <2>4, <2>6, <3>1 DEF NoOtherRef, NoRefLeft
  <2>8. \/ turnRefs' = turnRefs
        \/ \E Q \in SUBSET Sides : turnRefs' = [turnRefs EXCEPT ![Captured] = Q] /\ (Captured \in startRecords => "before" \in Q)
    BY <2>1, <2>2, <2>3
  <2>9. captureStep' = "answered" => Side(Captured) \in turnRefs'[Captured]
    BY <2>3, <2>5
  <2>10. Side(Captured) = "after" => "before" \in turnRefs'[Captured]
    BY <2>5, <2>6
  <2>. QED
    BY <2>1, <2>7, <2>8, <2>9, <2>10, CallGoesOn DEF CaptureSteps
<1>8. ASSUME WritesRecord PROVE CheckpointInv'
  <2>1. callLine # <<>> /\ captureStep = "answered" /\ turnRefs' = turnRefs
    BY <1>8 DEF WritesRecord, Capturing
  <2>2. /\ NoOtherRef(Captured) /\ Side(Captured) \in turnRefs[Captured] /\ endRecord[Captured] # "git"
        /\ Side(Captured) = "after" => "before" \in turnRefs[Captured]
        /\ Captured \in startRecords => "before" \in turnRefs[Captured]
        /\ Side(Captured) \in {"before", "after"} /\ turnRefs[Captured] \subseteq Sides
    BY <1>0, <2>1 DEF StepSound, RecordsNameRefs, Side, CheckpointsTyped
  <2>3. CASE RecordLinked /\ EndsCall /\ Side(Captured) = "before"
    <3>1. spoilt' = spoilt /\ endRecord' = endRecord /\ startRecords' = startRecords \cup {Captured}
      BY <2>3 DEF RecordLinked
    <3>2. "before" \in turnRefs[Captured] /\ (Captured \notin spoilt => "after" \notin turnRefs[Captured])
      BY <2>2, <2>3 DEF NoOtherRef
    <3>3. endRecord' \in [ChangeTurns -> {"none", "git", "unavailable"}] /\ startRecords' \subseteq ChangeTurns
      BY <1>0, <2>1, <3>1 DEF CheckpointsTyped
    <3>4. \A t \in ChangeTurns \ {Captured} : endRecord'[t] = endRecord[t] /\ (t \in startRecords' <=> t \in startRecords)
      BY <3>1
    <3>. QED
      BY <2>1, <2>2, <2>3, <3>1, <3>2, <3>3, <3>4, CheckpointCallOver
  <2>4. CASE RecordLinked /\ EndsCall /\ Side(Captured) = "after"
    <3>1. spoilt' = spoilt /\ endRecord' = [endRecord EXCEPT ![Captured] = "git"] /\ startRecords' \in {startRecords, startRecords \ {Captured}}
      BY <2>4 DEF RecordLinked
    <3>2. turnRefs[Captured] = Sides
      BY <2>2, <2>4 DEF Sides
    <3>3. endRecord' \in [ChangeTurns -> {"none", "git", "unavailable"}] /\ startRecords' \subseteq ChangeTurns /\ endRecord'[Captured] = "git"
      BY <1>0, <2>1, <3>1 DEF CheckpointsTyped
    <3>4. \A t \in ChangeTurns \ {Captured} : endRecord'[t] = endRecord[t] /\ (t \in startRecords' <=> t \in startRecords)
      BY <1>0, <3>1 DEF CheckpointsTyped
    <3>5. Captured \in startRecords' => "before" \in turnRefs[Captured]
      BY <2>2, <3>1
    <3>. QED
      BY <2>1, <2>4, <3>1, <3>2, <3>3, <3>4, <3>5, CheckpointCallOver
  <2>5. CASE EndsCall /\ spoilt' = spoilt \cup {Captured} /\ UNCHANGED <<startRecords, endRecord>>
    <3>1. endRecord' \in [ChangeTurns -> {"none", "git", "unavailable"}] /\ startRecords' \subseteq ChangeTurns
      BY <1>0, <2>5 DEF CheckpointsTyped
    <3>. QED
      BY <2>1, <2>2, <2>5, <3>1, CheckpointCallOver
  <2>6. CASE StepGoes("undoing") /\ UNCHANGED <<startRecords, endRecord, spoilt>>
    <3>1. captureStep' = "undoing" /\ UNCHANGED <<capturedTurn, callLine>>
      BY <2>6 DEF StepGoes
    <3>2. NoOtherRef(Captured)'
      BY <2>1, <2>2, <2>6, <3>1 DEF NoOtherRef, Captured, Side
    <3>. QED
      BY <2>1, <2>6, <3>1, <3>2, CallGoesOn DEF CaptureSteps
  <2>. QED
    BY <1>8, <2>2, <2>3, <2>4, <2>5, <2>6 DEF WritesRecord
<1>9. ASSUME UndoesJournaled \/ Undoes PROVE CheckpointInv'
  <2>1. /\ callLine # <<>> /\ captureStep \in {"unanswered", "undoing"} /\ UNCHANGED <<startRecords, endRecord, capturedTurn, callLine>>
        /\ captureStep' = "failing" /\ Cleanup
    BY <1>9 DEF UndoesJournaled, Undoes, Capturing, StepGoes
  <2>2. NoOtherRef(Captured) /\ endRecord[Captured] # "git" /\ turnRefs[Captured] \subseteq Sides /\ Captured' = Captured
    BY <1>0, <2>1 DEF StepSound, RecordsNameRefs, CheckpointsTyped, Captured
  <2>3. CASE turnRefs' = [turnRefs EXCEPT ![Captured] = @ \ {Side(Captured)}] /\ UNCHANGED spoilt
    <3>1. PICK R : R = turnRefs[Captured] \ {Side(Captured)}
      OBVIOUS
    <3>2. turnRefs' = [turnRefs EXCEPT ![Captured] = R] /\ turnRefs'[Captured] = R /\ R \in SUBSET Sides
      BY <1>0, <2>1, <2>2, <2>3, <3>1 DEF CheckpointsTyped
    <3>3. Captured \in startRecords => "before" \in R
      BY <1>0, <2>1, <3>1 DEF RecordsNameRefs, Side
    <3>4. NoRefLeft(Captured)'
      BY <2>1, <2>2, <2>3, <3>1, <3>2 DEF NoRefLeft, NoOtherRef
    <3>. QED
      BY <2>1, <2>3, <3>2, <3>3, <3>4, CallGoesOn DEF CaptureSteps
  <2>4. CASE spoilt' = spoilt \cup {Captured} /\ UNCHANGED turnRefs
    <3>1. NoRefLeft(Captured)'
      BY <2>2, <2>4 DEF NoRefLeft
    <3>. QED
      BY <2>1, <2>4, <3>1, CallGoesOn DEF CaptureSteps
  <2>. QED
    BY <2>1, <2>3, <2>4 DEF Cleanup
<1>10. ASSUME GivesUp PROVE CheckpointInv'
  BY <1>3, <1>10 DEF GivesUp, Capturing
<1>11. ASSUME RestartChanges PROVE CheckpointInv'
  <2>1. /\ UNCHANGED <<startRecords, endRecord, turnRefs>> /\ callLine' = <<>> /\ captureStep' = "reading"
        /\ capturedTurn' = [t \in ChangeTurns |-> IF capturedTurn[t] = "new" THEN "new" ELSE "over"]
        /\ spoilt \subseteq spoilt' /\ (callLine # <<>> => Captured \in spoilt')
    BY <1>11 DEF RestartChanges
  <2>2. callLine' \in Seq(ChangeTurns) /\ Len(callLine') = 0
    BY <2>1, EmptySeq
  <2>3. CheckpointsTyped' /\ CallsApart'
    BY <1>0, <2>1, <2>2 DEF CheckpointsTyped, CallsApart, CaptureSteps
  <2>4. \A t \in ChangeTurns : NoRefLeft(t)'
    <3>1. \A t \in ChangeTurns : InHand(t) => t = Captured
      BY CallLineTyped DEF InHand, Captured
    <3>. QED
      BY <1>0, <2>1, <3>1 DEF RecordsNameRefs, NoRefLeft, InHand
  <2>5. RecordsNameRefs'
    <3>1. \A t \in ChangeTurns : (capturedTurn'[t] = "new" => capturedTurn[t] = "new") /\ capturedTurn'[t] \in {"new", "over"}
      BY <2>1
    <3>. QED
      BY <1>0, <2>1, <2>4, <3>1 DEF RecordsNameRefs
  <2>6. StepSound'
    BY <2>1 DEF StepSound, InHand
  <2>. QED
    BY <2>3, <2>5, <2>6 DEF CheckpointInv
<1>. QED
  BY <1>1, <1>2, <1>5, <1>6, <1>7, <1>8, <1>9, <1>10, <1>11 DEF CheckpointNext

(* A record always names refs that are there, and no ref stays without its *)
(* record unless its clean-up failed, for any turns, lines and crashes:    *)
(* FileTurnChangesStore.                                                   *)
THEOREM CheckpointsKeptHolds == CheckpointSpec => []CheckpointsKept
<1>1. CheckpointInv => CheckpointsKept
  <2>. SUFFICES ASSUME CheckpointInv, NEW t \in ChangeTurns
       PROVE  /\ t \in startRecords => "before" \in turnRefs[t]
              /\ endRecord[t] = "git" => Shown(t) = "ready"
              /\ (t \notin spoilt /\ capturedTurn[t] \notin {"start", "end"}) => NoRefLeft(t)
    BY DEF CheckpointsKept, NoRefLeft
  <2>1. InHand(t) => capturedTurn[t] \in {"start", "end"}
    BY CallLineTyped DEF InHand, CheckpointInv, CallsApart
  <2>. QED
    BY <2>1 DEF CheckpointInv, RecordsNameRefs, Shown, Sides
<1>2. ASSUME CheckpointInv, UNCHANGED checkpointVars PROVE CheckpointInv'
  BY <1>2 DEF checkpointVars, CheckpointInv, CheckpointsTyped, CallsApart, RecordsNameRefs, StepSound, InHand,
     NoRefLeft, NoOtherRef, Side
<1>. QED
  BY <1>1, <1>2, InitCheckpoints, CheckpointStepKeeps, PTL DEF CheckpointSpec

(***************************************************************************)
(* ArtifactCapture                                                         *)
(***************************************************************************)
(* The slot: one capture is at work if it is taken, the others wait for it.*)
CaptureQueue == ToSet(waitingLine)
CaptureWorks(c) == capture[c] \notin {"none", "waiting", "done"}
SlotInv ==
  /\ LineUp(waitingLine, OutputCaptures)
  /\ \A c \in Captures : CaptureAt(c, "waiting") <=> c \in CaptureQueue
  /\ waitingLine # <<>> => capturing
  /\ capturing => \E c \in Captures : \A d \in Captures : CaptureWorks(d) <=> d = c
  /\ ~capturing => \A d \in Captures : ~CaptureWorks(d)

(* The account: what has a row or is on its way to one is on it.           *)
BlobInHand(c) == capture[c] \in {"storing", "removing"}
HasRow(c) == artifactOf[pathOf[c]] = c
BlobsHeld == {c \in blobs : HasRow(c) \/ BlobInHand(c)}
BytesInv ==
  /\ \A c \in Captures : /\ BlobInHand(c) => c \in blobs
                         /\ HasRow(c) => capture[c] \in {"removing", "done"}
  /\ IsFiniteSet(blobs) /\ Cardinality(BlobsHeld) <= retained /\ retained <= BlobLimit

CaptureInv == CaptureTypeOK /\ SlotInv /\ BytesInv

LEMMA InitCapture == CaptureInit => CaptureInv
<1>. SUFFICES ASSUME CaptureInit PROVE CaptureInv
  OBVIOUS
<1>1. LineUp(waitingLine, OutputCaptures) /\ CaptureQueue = {}
  BY LineEmpty DEF CaptureInit, CaptureQueue
<1>2. SlotInv
  BY <1>1 DEF CaptureInit, SlotInv, CaptureAt, CaptureWorks
<1>3. CaptureTypeOK
  <2>1. retained \in Int /\ artifactRestarts \in 0..ArtifactRestarts /\ waitingLine \in Seq(OutputCaptures)
    BY <1>1, CaptureAssumption DEF CaptureInit, LineUp
  <2>2. capture \in [Captures -> CaptureStages] /\ artifactOf \in [Paths -> Captures \cup {0}]
    BY DEF CaptureInit, CaptureStages
  <2>. QED
    BY <2>1, <2>2 DEF CaptureInit, CaptureTypeOK
<1>4. BytesInv
  <2>1. BlobsHeld = {} /\ blobs = {}
    BY DEF CaptureInit, BlobsHeld
  <2>2. \A c \in Captures : ~BlobInHand(c) /\ ~HasRow(c)
    BY CaptureAssumption DEF CaptureInit, BlobInHand, HasRow
  <2>. QED
    BY <2>1, <2>2, FS_EmptySet, CaptureAssumption DEF BytesInv, CaptureInit
<1>. QED
  BY <1>2, <1>3, <1>4 DEF CaptureInv

LEMMA CaptureQueueTyped ==
  ASSUME CaptureInv
  PROVE  /\ CaptureQueue \subseteq OutputCaptures /\ CaptureQueue \subseteq Captures
         /\ waitingLine = <<>> <=> CaptureQueue = {}
  BY LineMembers, CaptureAssumption DEF CaptureInv, SlotInv, CaptureQueue

(* One at work goes on with its work.                                      *)
LEMMA CaptureGoesOn ==
  ASSUME CaptureInv, NEW c \in Captures, CaptureWorks(c), NEW s \in CaptureStages \ {"none", "waiting", "done"},
         CaptureGoes(c, s), UNCHANGED <<capturing, waitingLine>>
  PROVE  SlotInv' /\ capture' \in [Captures -> CaptureStages]
         /\ capture'[c] = s /\ \A d \in Captures \ {c} : capture'[d] = capture[d]
<1>1. /\ capture' \in [Captures -> CaptureStages] /\ capture'[c] = s
      /\ \A d \in Captures \ {c} : capture'[d] = capture[d]
  BY DEF CaptureInv, CaptureTypeOK, CaptureGoes
<1>2. CaptureQueue' = CaptureQueue /\ \A d \in Captures : (CaptureWorks(d)' <=> CaptureWorks(d)) /\ (CaptureAt(d, "waiting")' <=> CaptureAt(d, "waiting"))
  BY <1>1 DEF CaptureWorks, CaptureQueue, CaptureAt
<1>. QED
  BY <1>1, <1>2 DEF CaptureInv, SlotInv

(* One at work ends, and the first in line is at work, if there is one.    *)
LEMMA CaptureEnds ==
  ASSUME CaptureInv, NEW c \in Captures, CaptureWorks(c), EndsCapture(c, capture)
  PROVE  /\ SlotInv' /\ capture' \in [Captures -> CaptureStages] /\ waitingLine' \in Seq(OutputCaptures)
         /\ capturing' \in BOOLEAN /\ capture'[c] = "done"
         /\ \A d \in Captures \ {c} : \/ capture'[d] = capture[d]
                                      \/ capture[d] = "waiting" /\ capture'[d] = "looking"
<1>1. /\ capture \in [Captures -> CaptureStages] /\ capturing /\ c \notin CaptureQueue
      /\ \A d \in Captures : CaptureWorks(d) <=> d = c
  BY DEF CaptureInv, CaptureTypeOK, SlotInv, CaptureWorks, CaptureAt
<1>2. CASE waitingLine = <<>>
  <2>1. /\ capture' = [capture EXCEPT ![c] = "done"] /\ capturing' = FALSE /\ UNCHANGED waitingLine
    BY <1>2 DEF EndsCapture
  <2>2. CaptureQueue' = CaptureQueue /\ \A d \in Captures : ~CaptureWorks(d)' /\ (CaptureAt(d, "waiting")' <=> CaptureAt(d, "waiting"))
    BY <1>1, <2>1 DEF CaptureWorks, CaptureQueue, CaptureAt, CaptureInv, SlotInv
  <2>. QED
    BY <1>1, <1>2, <2>1, <2>2 DEF CaptureInv, SlotInv, CaptureTypeOK, CaptureStages
<1>3. CASE waitingLine # <<>>
  <2>1. PICK h : h = Head(waitingLine)
    OBVIOUS
  <2>2. /\ LineUp(Tail(waitingLine), OutputCaptures) /\ ToSet(Tail(waitingLine)) = ToSet(waitingLine) \ {h}
        /\ h \in ToSet(waitingLine) /\ h \in OutputCaptures
    BY <1>3, <2>1, LineTail DEF CaptureInv, SlotInv
  <2>3. /\ capture' = [capture EXCEPT ![c] = "done", ![h] = "looking"]
        /\ waitingLine' = Tail(waitingLine) /\ UNCHANGED capturing
    BY <1>3, <2>1 DEF EndsCapture
  <2>4. /\ LineUp(waitingLine', OutputCaptures) /\ CaptureQueue' = CaptureQueue \ {h}
        /\ h \in CaptureQueue /\ h \in Captures /\ h # c /\ capture[h] = "waiting"
    BY <1>1, <2>2, <2>3, CaptureQueueTyped DEF CaptureQueue, CaptureInv, SlotInv, CaptureAt
  <2>5. /\ capture' \in [Captures -> CaptureStages] /\ capture'[c] = "done" /\ capture'[h] = "looking"
        /\ \A d \in Captures \ {c, h} : capture'[d] = capture[d]
    BY <1>1, <2>3, <2>4 DEF CaptureStages
  <2>6. \A d \in Captures : (CaptureWorks(d)' <=> d = h) /\ (CaptureAt(d, "waiting")' <=> d \in CaptureQueue')
    BY <1>1, <2>4, <2>5 DEF CaptureWorks, CaptureAt, CaptureInv, SlotInv
  <2>. QED
    BY <1>1, <2>3, <2>4, <2>5, <2>6 DEF SlotInv, LineUp
<1>. QED
  BY <1>2, <1>3

(* The account stands as long as nothing more is held.                     *)
LEMMA HeldShrinks ==
  ASSUME CaptureInv, IsFiniteSet(blobs'), UNCHANGED retained, BlobsHeld' \subseteq BlobsHeld,
         \A c \in Captures : /\ BlobInHand(c)' => c \in blobs'
                             /\ HasRow(c)' => capture'[c] \in {"removing", "done"}
  PROVE  BytesInv'
<1>1. IsFiniteSet(BlobsHeld) /\ Cardinality(BlobsHeld') <= Cardinality(BlobsHeld) /\ Cardinality(BlobsHeld') \in Nat /\ Cardinality(BlobsHeld) \in Nat
  BY FS_Subset, FS_CardinalityType DEF CaptureInv, BytesInv, BlobsHeld
<1>. QED
  BY <1>1, CaptureAssumption DEF CaptureInv, CaptureTypeOK, BytesInv

LEMMA AcquiresKeeps == ASSUME NEW c \in Captures, CaptureInv, Acquires(c) PROVE CaptureInv'
<1>1. /\ capture[c] = "none" /\ c \notin CaptureQueue
      /\ UNCHANGED <<turn, pathOf, overdue, blobs, retained, artifactOf, storageDown, artifactRestarts>>
  BY DEF Acquires, CaptureAt, CaptureInv, SlotInv
<1>2. \E s \in {"looking", "waiting", "done"} : capture' = [capture EXCEPT ![c] = s]
  BY DEF Acquires, CaptureGoes
<1>3. BlobsHeld' \subseteq BlobsHeld
  BY <1>1, <1>2 DEF BlobsHeld, HasRow, BlobInHand, CaptureInv, CaptureTypeOK
<1>4. BytesInv'
  <2>1. \A d \in Captures : /\ BlobInHand(d)' => d \in blobs'
                            /\ HasRow(d)' => capture'[d] \in {"removing", "done"}
    BY <1>1, <1>2 DEF CaptureInv, CaptureTypeOK, BytesInv, BlobInHand, HasRow
  <2>. QED
    BY <1>1, <1>3, <2>1, HeldShrinks DEF CaptureInv, BytesInv
<1>5. CASE ~capturing /\ capturing' = TRUE /\ CaptureGoes(c, "looking") /\ UNCHANGED waitingLine
  <2>1. /\ CaptureQueue' = CaptureQueue
        /\ \A d \in Captures : (CaptureWorks(d)' <=> d = c) /\ (CaptureAt(d, "waiting")' <=> CaptureAt(d, "waiting"))
    BY <1>1, <1>5 DEF CaptureInv, CaptureTypeOK, SlotInv, CaptureGoes, CaptureWorks, CaptureQueue, CaptureAt
  <2>. QED
    BY <1>1, <1>4, <1>5, <2>1 DEF CaptureInv, CaptureTypeOK, SlotInv, CaptureGoes, CaptureStages
<1>6. CASE /\ capturing /\ c \in OutputCaptures 
           /\ CaptureGoes(c, "waiting") /\ waitingLine' = Append(waitingLine, c) /\ UNCHANGED capturing
  <2>1. CaptureQueue' = CaptureQueue \cup {c} /\ LineUp(waitingLine', OutputCaptures)
    BY <1>1, <1>6, LineAppend DEF CaptureInv, SlotInv, CaptureQueue
  <2>2. \A d \in Captures : (CaptureWorks(d)' <=> CaptureWorks(d)) /\ (CaptureAt(d, "waiting")' <=> d \in CaptureQueue')
    BY <1>1, <1>6, <2>1 DEF CaptureInv, CaptureTypeOK, SlotInv, CaptureGoes, CaptureWorks, CaptureAt
  <2>. QED
    BY <1>1, <1>4, <1>6, <2>1, <2>2 DEF CaptureInv, CaptureTypeOK, SlotInv, CaptureGoes, CaptureStages, LineUp
<1>7. CASE capturing /\ CaptureGoes(c, "done") /\ UNCHANGED <<capturing, waitingLine>>
  <2>1. /\ CaptureQueue' = CaptureQueue
        /\ \A d \in Captures : (CaptureWorks(d)' <=> CaptureWorks(d)) /\ (CaptureAt(d, "waiting")' <=> CaptureAt(d, "waiting"))
    BY <1>1, <1>7 DEF CaptureInv, CaptureTypeOK, SlotInv, CaptureGoes, CaptureWorks, CaptureQueue, CaptureAt
  <2>. QED
    BY <1>1, <1>4, <1>7, <2>1 DEF CaptureInv, CaptureTypeOK, SlotInv, CaptureGoes, CaptureStages
<1>. QED
  BY <1>5, <1>6, <1>7 DEF Acquires

LEMMA ExpiresKeeps == ASSUME NEW c \in Captures, CaptureInv, Expires(c) PROVE CaptureInv'
<1>1. /\ overdue' = overdue \cup {c}
      /\ UNCHANGED <<turn, pathOf, capturing, blobs, retained, artifactOf, storageDown, artifactRestarts>>
  BY DEF Expires
<1>2. CASE CaptureAt(c, "waiting")
  <2>1. capture' = [capture EXCEPT ![c] = "done"] /\ waitingLine' = RemoveFirst(waitingLine, c) /\ c \in CaptureQueue
    BY <1>2 DEF Expires, CaptureGoes, CaptureInv, SlotInv
  <2>2. CaptureQueue' = CaptureQueue \ {c} /\ LineUp(waitingLine', OutputCaptures)
    BY <2>1, LineRemove DEF CaptureInv, SlotInv, CaptureQueue
  <2>3. \A d \in Captures : (CaptureWorks(d)' <=> CaptureWorks(d)) /\ (CaptureAt(d, "waiting")' <=> d \in CaptureQueue')
    BY <1>2, <2>1, <2>2 DEF CaptureInv, CaptureTypeOK, SlotInv, CaptureWorks, CaptureAt
  <2>4. capturing
    BY <2>1, CaptureQueueTyped DEF CaptureInv, SlotInv
  <2>5. BlobsHeld' \subseteq BlobsHeld
    BY <1>1, <1>2, <2>1 DEF CaptureInv, CaptureTypeOK, HasRow, BlobInHand, BlobsHeld
  <2>7. \A d \in Captures : /\ BlobInHand(d)' => d \in blobs'
                            /\ HasRow(d)' => capture'[d] \in {"removing", "done"}
    BY <1>1, <1>2, <2>1 DEF CaptureInv, CaptureTypeOK, BytesInv, BlobInHand, HasRow
  <2>6. BytesInv'
    <3>1. IsFiniteSet(blobs') /\ UNCHANGED retained
      BY <1>1 DEF CaptureInv, BytesInv
    <3>. QED
      BY <2>5, <2>7, <3>1, HeldShrinks
  <2>. QED
    BY <1>1, <2>1, <2>2, <2>3, <2>4, <2>6 DEF CaptureInv, CaptureTypeOK, SlotInv, LineUp, CaptureStages
<1>3. CASE ~CaptureAt(c, "waiting")
  <2>1. UNCHANGED <<capture, waitingLine>>
    BY <1>3 DEF Expires
  <2>. QED
    BY <1>1, <2>1 DEF CaptureInv, CaptureTypeOK, SlotInv, BytesInv, BlobsHeld, BlobInHand, HasRow, CaptureQueue, CaptureWorks, CaptureAt
<1>. QED
  BY <1>2, <1>3

(* Each other step ends the capture or takes it further; what is left is   *)
(* the account.                                                            *)
LEMMA LooksKeeps == ASSUME NEW c \in Captures, CaptureInv, Looks(c) \/ ReadsFile(c) PROVE CaptureInv'
<1>1. /\ capture[c] \in {"looking", "reading"} /\ CaptureWorks(c)
      /\ UNCHANGED <<turn, pathOf, overdue, blobs, retained, artifactOf, storageDown, artifactRestarts>>
  BY DEF Looks, ReadsFile, CaptureAt, CaptureWorks
<1>2. PICK s \in {"reading", "writing"} :
        (CaptureGoes(c, s) /\ UNCHANGED <<capturing, waitingLine>>) \/ EndsCapture(c, capture)
  BY DEF Looks, ReadsFile
<1>3. /\ SlotInv' /\ capture' \in [Captures -> CaptureStages] /\ waitingLine' \in Seq(OutputCaptures)
      /\ capturing' \in BOOLEAN /\ capture'[c] \in {"reading", "writing", "done"}
      /\ \A d \in Captures \ {c} : \/ capture'[d] = capture[d]
                                   \/ capture[d] = "waiting" /\ capture'[d] = "looking"
  <2>1. CASE CaptureGoes(c, s) /\ UNCHANGED <<capturing, waitingLine>>
    <3>1. s \in CaptureStages \ {"none", "waiting", "done"}
      BY <1>2 DEF CaptureStages
    <3>2. /\ SlotInv' /\ capture' \in [Captures -> CaptureStages] /\ capture'[c] = s
          /\ \A d \in Captures \ {c} : capture'[d] = capture[d]
      BY <1>1, <2>1, <3>1, CaptureGoesOn
    <3>. QED
      BY <2>1, <3>2 DEF CaptureInv, CaptureTypeOK
  <2>2. CASE EndsCapture(c, capture)
    BY <1>1, <2>2, CaptureEnds
  <2>. QED
    BY <1>2, <2>1, <2>2
<1>4. BlobsHeld' \subseteq BlobsHeld
  BY <1>1, <1>3 DEF BlobsHeld, HasRow, BlobInHand, CaptureInv, CaptureTypeOK
<1>5. \A d \in Captures : /\ BlobInHand(d)' => d \in blobs'
                          /\ HasRow(d)' => capture'[d] \in {"removing", "done"}
  BY <1>1, <1>3 DEF CaptureInv, BytesInv, BlobInHand, HasRow
<1>6. BytesInv'
  <2>1. IsFiniteSet(blobs') /\ UNCHANGED retained
    BY <1>1 DEF CaptureInv, BytesInv
  <2>. QED
    BY <1>4, <1>5, <2>1, HeldShrinks
<1>. QED
  BY <1>1, <1>3, <1>6 DEF CaptureInv, CaptureTypeOK

LEMMA WritesBlobKeeps == ASSUME NEW c \in Captures, CaptureInv, WritesBlob(c) PROVE CaptureInv'
<1>1. /\ capture[c] = "writing" /\ CaptureWorks(c) /\ ~HasRow(c) /\ c \notin BlobsHeld
      /\ UNCHANGED <<turn, pathOf, overdue, artifactOf, storageDown, artifactRestarts>>
  BY DEF WritesBlob, CaptureAt, CaptureWorks, CaptureInv, BytesInv, BlobsHeld, BlobInHand
<1>2. CASE /\ retained < BlobLimit /\ retained' = retained + 1 /\ blobs' = blobs \cup {c}
           /\ CaptureGoes(c, IF c \in overdue THEN "removing" ELSE "storing")
           /\ UNCHANGED <<capturing, waitingLine>>
  <2>1. PICK s \in {"removing", "storing"} : CaptureGoes(c, s)
    BY <1>2
  <2>2. s \in CaptureStages \ {"none", "waiting", "done"}
    BY <2>1 DEF CaptureStages
  <2>3. /\ SlotInv' /\ capture' \in [Captures -> CaptureStages] /\ capture'[c] = s
        /\ \A d \in Captures \ {c} : capture'[d] = capture[d]
    BY <1>1, <1>2, <2>1, <2>2, CaptureGoesOn
  <2>4. BlobsHeld' = BlobsHeld \cup {c}
    BY <1>1, <1>2, <2>1, <2>3 DEF BlobsHeld, HasRow, BlobInHand, CaptureInv, CaptureTypeOK
  <2>5. /\ IsFiniteSet(blobs') /\ IsFiniteSet(BlobsHeld) /\ Cardinality(BlobsHeld') = Cardinality(BlobsHeld) + 1
        /\ Cardinality(BlobsHeld) \in Nat
    <3>1. IsFiniteSet(blobs) /\ BlobsHeld \subseteq blobs
      BY DEF CaptureInv, BytesInv, BlobsHeld
    <3>. QED
      BY <1>1, <1>2, <2>4, <3>1, FS_Subset, FS_AddElement, FS_CardinalityType
  <2>6. \A d \in Captures : /\ BlobInHand(d)' => d \in blobs'
                            /\ HasRow(d)' => capture'[d] \in {"removing", "done"}
    BY <1>1, <1>2, <2>3 DEF CaptureInv, BytesInv, BlobInHand, HasRow
  <2>7. Cardinality(BlobsHeld') <= retained' /\ retained' <= BlobLimit /\ retained' \in Int
    BY <1>2, <2>5, CaptureAssumption DEF CaptureInv, CaptureTypeOK, BytesInv
  <2>8. BytesInv'
    BY <2>5, <2>6, <2>7 DEF BytesInv
  <2>. QED
    BY <1>1, <1>2, <2>3, <2>7, <2>8 DEF CaptureInv, CaptureTypeOK
<1>3. CASE /\ EndsCapture(c, capture) /\ UNCHANGED retained
           /\ blobs' = blobs \/ blobs' = blobs \cup {c}
  <2>1. /\ SlotInv' /\ capture' \in [Captures -> CaptureStages] /\ waitingLine' \in Seq(OutputCaptures)
        /\ capturing' \in BOOLEAN /\ capture'[c] = "done"
        /\ \A d \in Captures \ {c} : \/ capture'[d] = capture[d]
                                     \/ capture[d] = "waiting" /\ capture'[d] = "looking"
    BY <1>1, <1>3, CaptureEnds
  <2>2. BlobsHeld' \subseteq BlobsHeld
    BY <1>1, <1>3, <2>1 DEF BlobsHeld, HasRow, BlobInHand, CaptureInv, CaptureTypeOK
  <2>3. \A d \in Captures : /\ BlobInHand(d)' => d \in blobs'
                            /\ HasRow(d)' => capture'[d] \in {"removing", "done"}
    BY <1>1, <1>3, <2>1 DEF CaptureInv, BytesInv, BlobInHand, HasRow
  <2>4. IsFiniteSet(blobs')
    BY <1>3, FS_AddElement DEF CaptureInv, BytesInv
  <2>5. BytesInv'
    BY <1>3, <2>2, <2>3, <2>4, HeldShrinks
  <2>. QED
    BY <1>1, <1>3, <2>1, <2>5 DEF CaptureInv, CaptureTypeOK
<1>. QED
  BY <1>2, <1>3 DEF WritesBlob

LEMMA StoresRowKeeps == ASSUME NEW c \in Captures, CaptureInv, StoresRow(c) PROVE CaptureInv'
<1>1. /\ capture[c] = "storing" /\ CaptureWorks(c) /\ c \in BlobsHeld /\ pathOf[c] \in Paths
      /\ UNCHANGED <<turn, pathOf, overdue, blobs, retained, artifactRestarts>>
  BY DEF StoresRow, CaptureAt, CaptureWorks, CaptureInv, CaptureTypeOK, BytesInv, BlobsHeld, BlobInHand
<1>2. /\ storageDown' \in BOOLEAN /\ artifactOf' \in [Paths -> Captures \cup {0}]
      /\ \/ UNCHANGED artifactOf
         \/ artifactOf[pathOf[c]] = 0 /\ artifactOf' = [artifactOf EXCEPT ![pathOf[c]] = c]
  BY <1>1 DEF StoresRow, CaptureInv, CaptureTypeOK
<1>3. (CaptureGoes(c, "removing") /\ UNCHANGED <<capturing, waitingLine>>)
        \/ (EndsCapture(c, capture) /\ artifactOf' = [artifactOf EXCEPT ![pathOf[c]] = c])
  BY DEF StoresRow
<1>4. /\ SlotInv' /\ capture' \in [Captures -> CaptureStages] /\ waitingLine' \in Seq(OutputCaptures)
      /\ capturing' \in BOOLEAN /\ capture'[c] \in {"removing", "done"}
      /\ \A d \in Captures \ {c} : \/ capture'[d] = capture[d]
                                   \/ capture[d] = "waiting" /\ capture'[d] = "looking"
  <2>1. CASE CaptureGoes(c, "removing") /\ UNCHANGED <<capturing, waitingLine>>
    <3>1. "removing" \in CaptureStages \ {"none", "waiting", "done"}
      BY DEF CaptureStages
    <3>2. /\ SlotInv' /\ capture' \in [Captures -> CaptureStages] /\ capture'[c] = "removing"
          /\ \A d \in Captures \ {c} : capture'[d] = capture[d]
      BY <1>1, <2>1, <3>1, CaptureGoesOn
    <3>. QED
      BY <2>1, <3>2 DEF CaptureInv, CaptureTypeOK
  <2>2. CASE EndsCapture(c, capture)
    BY <1>1, <2>2, CaptureEnds
  <2>. QED
    BY <1>3, <2>1, <2>2
<1>5. \A d \in Captures \ {c} : HasRow(d)' => HasRow(d)
  BY <1>1, <1>2, CaptureAssumption DEF HasRow, CaptureInv, CaptureTypeOK
<1>6. BlobsHeld' \subseteq BlobsHeld
  BY <1>1, <1>4, <1>5 DEF BlobsHeld, BlobInHand, CaptureInv, CaptureTypeOK
<1>7. \A d \in Captures : /\ BlobInHand(d)' => d \in blobs'
                          /\ HasRow(d)' => capture'[d] \in {"removing", "done"}
  BY <1>1, <1>4, <1>5 DEF CaptureInv, BytesInv, BlobInHand
<1>8. BytesInv'
  <2>1. IsFiniteSet(blobs') /\ UNCHANGED retained
    BY <1>1 DEF CaptureInv, BytesInv
  <2>. QED
    BY <1>6, <1>7, <2>1, HeldShrinks
<1>. QED
  BY <1>1, <1>2, <1>4, <1>8 DEF CaptureInv, CaptureTypeOK

LEMMA RemovesBlobKeeps == ASSUME NEW c \in Captures, CaptureInv, RemovesBlob(c) PROVE CaptureInv'
<1>1. /\ capture[c] = "removing" /\ CaptureWorks(c) /\ BlobInHand(c) /\ EndsCapture(c, capture)
      /\ UNCHANGED <<turn, pathOf, overdue, artifactOf, storageDown, artifactRestarts>>
  BY DEF RemovesBlob, CaptureAt, CaptureWorks, BlobInHand
<1>2. /\ SlotInv' /\ capture' \in [Captures -> CaptureStages] /\ waitingLine' \in Seq(OutputCaptures)
      /\ capturing' \in BOOLEAN /\ capture'[c] = "done"
      /\ \A d \in Captures \ {c} : \/ capture'[d] = capture[d]
                                   \/ capture[d] = "waiting" /\ capture'[d] = "looking"
  BY <1>1, CaptureEnds
<1>3. c \in BlobsHeld /\ BlobsHeld \subseteq blobs /\ IsFiniteSet(blobs) /\ IsFiniteSet(BlobsHeld)
  BY <1>1, FS_Subset DEF CaptureInv, BytesInv, BlobsHeld
<1>4. \A d \in Captures : /\ BlobInHand(d)' => d \in blobs'
                          /\ HasRow(d)' => capture'[d] \in {"removing", "done"}
  BY <1>1, <1>2 DEF CaptureInv, BytesInv, BlobInHand, HasRow, RemovesBlob
<1>5. CASE blobs' = blobs \ {c} /\ retained' = retained - 1
  <2>1. BlobsHeld' \subseteq BlobsHeld \ {c}
    BY <1>1, <1>2, <1>5 DEF BlobsHeld, HasRow, BlobInHand, CaptureInv, CaptureTypeOK
  <2>2. IsFiniteSet(blobs') /\ Cardinality(BlobsHeld') <= Cardinality(BlobsHeld) - 1 /\ Cardinality(BlobsHeld') \in Nat
    <3>1. IsFiniteSet(BlobsHeld \ {c}) /\ Cardinality(BlobsHeld \ {c}) = Cardinality(BlobsHeld) - 1
      BY <1>3, FS_RemoveElement
    <3>2. IsFiniteSet(BlobsHeld') /\ Cardinality(BlobsHeld') <= Cardinality(BlobsHeld \ {c})
      BY <2>1, <3>1, FS_Subset
    <3>. QED
      BY <1>3, <1>5, <3>1, <3>2, FS_RemoveElement, FS_CardinalityType
  <2>3. Cardinality(BlobsHeld') <= retained' /\ retained' <= BlobLimit /\ retained' \in Int
    BY <1>3, <1>5, <2>2, FS_CardinalityType, CaptureAssumption DEF CaptureInv, CaptureTypeOK, BytesInv
  <2>4. BytesInv'
    BY <1>4, <2>2, <2>3 DEF BytesInv
  <2>. QED
    BY <1>1, <1>2, <1>5, <2>3, <2>4 DEF CaptureInv, CaptureTypeOK
<1>6. CASE UNCHANGED <<blobs, retained>>
  <2>1. BlobsHeld' \subseteq BlobsHeld
    BY <1>1, <1>2, <1>6 DEF BlobsHeld, HasRow, BlobInHand, CaptureInv, CaptureTypeOK
  <2>2. BytesInv'
    BY <1>3, <1>4, <1>6, <2>1, HeldShrinks
  <2>. QED
    BY <1>1, <1>2, <1>6, <2>2 DEF CaptureInv, CaptureTypeOK
<1>. QED
  BY <1>5, <1>6 DEF RemovesBlob

(* A restart begins with the blobs that have a row, and counts them.       *)
LEMMA RestartArtifactsKeeps == ASSUME CaptureInv, RestartArtifacts PROVE CaptureInv'
<1>1. /\ capture' = [c \in Captures |-> IF capture[c] = "none" THEN "none" ELSE "done"]
      /\ ~capturing' /\ capturing' \in BOOLEAN /\ waitingLine' = <<>> /\ blobs' = {c \in blobs : HasRow(c)}
      /\ retained' = Cardinality(blobs') /\ UNCHANGED <<pathOf, overdue, artifactOf>> /\ storageDown' \in BOOLEAN
  BY DEF RestartArtifacts, HasRow
<1>2. turn' \in [Paths -> {"running", "ended", "superseded"}] /\ artifactRestarts' \in 0..ArtifactRestarts
  BY CaptureAssumption DEF RestartArtifacts, CaptureInv, CaptureTypeOK
<1>3. LineUp(waitingLine', OutputCaptures) /\ CaptureQueue' = {}
  BY <1>1, LineEmpty DEF CaptureQueue
<1>4. capture' \in [Captures -> CaptureStages] /\ \A c \in Captures : capture'[c] \in {"none", "done"}
  BY <1>1 DEF CaptureStages
<1>5. SlotInv'
  BY <1>1, <1>3, <1>4 DEF SlotInv, CaptureAt, CaptureWorks
<1>6. BlobsHeld' = blobs' /\ blobs' \subseteq BlobsHeld
  BY <1>1, <1>4 DEF BlobsHeld, HasRow, BlobInHand, CaptureInv, CaptureTypeOK
<1>7. BytesInv'
  <2>1. IsFiniteSet(blobs') /\ Cardinality(blobs') \in Nat /\ Cardinality(blobs') <= Cardinality(BlobsHeld)
        /\ Cardinality(BlobsHeld) \in Nat
    BY <1>6, FS_Subset, FS_CardinalityType DEF CaptureInv, BytesInv, BlobsHeld
  <2>2. Cardinality(BlobsHeld') <= retained' /\ retained' <= BlobLimit
    BY <1>1, <1>6, <2>1, CaptureAssumption DEF CaptureInv, CaptureTypeOK, BytesInv
  <2>3. \A c \in Captures : ~BlobInHand(c)' /\ (HasRow(c)' => capture'[c] = "done")
    BY <1>1, <1>4 DEF BlobInHand, HasRow, CaptureInv, BytesInv
  <2>. QED
    BY <2>1, <2>2, <2>3 DEF BytesInv
<1>8. retained' \in Int /\ blobs' \in SUBSET Captures
  BY <1>1, <1>6, FS_Subset, FS_CardinalityType DEF CaptureInv, CaptureTypeOK, BytesInv
<1>. QED
  BY <1>1, <1>2, <1>3, <1>4, <1>5, <1>7, <1>8 DEF CaptureInv, CaptureTypeOK, LineUp

LEMMA StepCapture == CaptureInv /\ [CaptureNext]_captureVars => CaptureInv'
<1>. SUFFICES ASSUME CaptureInv, [CaptureNext]_captureVars PROVE CaptureInv'
  OBVIOUS
<1>1. CASE UNCHANGED captureVars
  BY <1>1 DEF captureVars, CaptureInv, CaptureTypeOK, SlotInv, BytesInv, BlobsHeld, HasRow, BlobInHand, CaptureQueue, CaptureWorks, CaptureAt
<1>2. ASSUME NEW p \in Paths, TurnGoesOn(p) PROVE CaptureInv'
  <2>1. turn' \in [Paths -> {"running", "ended", "superseded"}]
    BY <1>2 DEF TurnGoesOn, CaptureInv, CaptureTypeOK
  <2>2. UNCHANGED <<capture, pathOf, capturing, waitingLine, overdue, blobs, retained, artifactOf,
                    storageDown, artifactRestarts>>
    BY <1>2 DEF TurnGoesOn
  <2>. QED
    BY <2>1, <2>2 DEF CaptureInv, CaptureTypeOK, SlotInv, BytesInv, BlobsHeld, HasRow, BlobInHand, CaptureQueue, CaptureWorks, CaptureAt
<1>. QED
  BY <1>1, <1>2, AcquiresKeeps, ExpiresKeeps, LooksKeeps, WritesBlobKeeps, StoresRowKeeps, RemovesBlobKeeps,
     RestartArtifactsKeeps DEF CaptureNext

(* CaptureSlotOwned, for any number of captures and files.                 *)
THEOREM CaptureSlotOwnedHolds == CaptureSpec => []CaptureSlotOwned
<1>1. CaptureInv => CaptureSlotOwned
  <2>. SUFFICES ASSUME CaptureInv PROVE CaptureSlotOwned
    OBVIOUS
  <2>1. AtWork = {c \in Captures : CaptureWorks(c)}
    BY DEF AtWork, CaptureWorks
  <2>2. Cardinality(AtWork) = IF capturing THEN 1 ELSE 0
    <3>1. CASE capturing
      <4>1. \E c : AtWork = {c}
        BY <2>1, <3>1 DEF CaptureInv, SlotInv
      <4>. QED
        BY <3>1, <4>1, FS_Singleton
    <3>2. CASE ~capturing
      <4>1. AtWork = {}
        BY <2>1, <3>2 DEF CaptureInv, SlotInv
      <4>. QED
        BY <3>2, <4>1, FS_EmptySet
    <3>. QED
      BY <3>1, <3>2
  <2>3. \A k \in DOMAIN waitingLine : capturing /\ CaptureAt(waitingLine[k], "waiting")
    <3>1. \A k \in DOMAIN waitingLine : waitingLine[k] \in CaptureQueue
      BY DEF CaptureQueue, ToSet
    <3>. QED
      BY <3>1, CaptureQueueTyped DEF CaptureInv, SlotInv
  <2>4. retained \in 0..BlobLimit
    <3>1. Cardinality(BlobsHeld) \in Nat
      BY FS_Subset, FS_CardinalityType DEF CaptureInv, BytesInv, BlobsHeld
    <3>. QED
      BY <3>1, CaptureAssumption DEF CaptureInv, CaptureTypeOK, BytesInv
  <2>. QED
    BY <2>2, <2>3, <2>4 DEF CaptureInv, SlotInv, CaptureSlotOwned, CaptureQueue
<1>. QED
  BY <1>1, InitCapture, StepCapture, PTL DEF CaptureSpec

(***************************************************************************)
(* ReadSlots                                                               *)
(***************************************************************************)
(* The slots are those of the reads under way, the admissions those of the *)
(* downloads under way; nobody waits in a closed store or for a free slot. *)
ReadersInLine == ToSet(readLine)
ReadsUnderWay == {r \in Readers : reader[r] = "reading"}
DownloadsUnderWay == {r \in DownloadReaders : reader[r] \notin {"none", "over"}}
ReadsInv ==
  /\ ReadsTypeOK /\ LineUp(readLine, Readers)
  /\ \A r \in Readers : reader[r] \in {"none", "asking", "waiting", "reading"} => readsDone[r] \in 0..1
  /\ \A r \in Readers : r \in ReadersInLine <=> reader[r] = "waiting"
  /\ IsFiniteSet(ReadsUnderWay) /\ Cardinality(ReadsUnderWay) = readSlots
  /\ IsFiniteSet(DownloadsUnderWay) /\ Cardinality(DownloadsUnderWay) = downloads
  /\ readLine # <<>> => readSlots = ReadSlotLimit
  /\ storeClosed => readLine = <<>>

LEMMA InitReads == ReadsInit => ReadsInv
<1>. SUFFICES ASSUME ReadsInit PROVE ReadsInv
  OBVIOUS
<1>1. LineUp(readLine, Readers) /\ ReadersInLine = {}
  BY LineEmpty DEF ReadsInit, ReadersInLine
<1>2. ReadsUnderWay = {} /\ DownloadsUnderWay = {}
  BY ReadAssumption DEF ReadsInit, ReadsUnderWay, DownloadsUnderWay
<1>3. ReadsTypeOK
  <2>1. readSlots \in 0..ReadSlotLimit /\ downloads \in 0..DownloadLimit /\ readLine \in Seq(Readers)
    BY <1>1, ReadAssumption DEF ReadsInit, LineUp
  <2>2. readsDone \in [Readers -> 0..2]
    BY DEF ReadsInit
  <2>. QED
    BY <2>1, <2>2 DEF ReadsInit, ReadsTypeOK
<1>. QED
  BY <1>1, <1>2, <1>3, FS_EmptySet DEF ReadsInit, ReadsInv

LEMMA ReadersInLineTyped ==
  ASSUME ReadsInv
  PROVE  ReadersInLine \subseteq Readers /\ (readLine = <<>> <=> ReadersInLine = {})
  BY LineMembers DEF ReadsInv, ReadersInLine

(* One of the downloads begins, goes on or is over.                        *)
LEMMA DownloadsCounted ==
  ASSUME ReadsInv, NEW r \in Readers,
         \A q \in Readers \ {r} : reader'[q] \notin {"none", "over"} <=> reader[q] \notin {"none", "over"},
         downloads' = IF r \notin DownloadReaders THEN downloads
                      ELSE IF reader[r] \in {"none", "over"}
                           THEN IF reader'[r] \in {"none", "over"} THEN downloads ELSE downloads + 1
                           ELSE IF reader'[r] \in {"none", "over"} THEN downloads - 1 ELSE downloads
  PROVE  IsFiniteSet(DownloadsUnderWay') /\ Cardinality(DownloadsUnderWay') = downloads'
<1>1. IsFiniteSet(DownloadsUnderWay) /\ Cardinality(DownloadsUnderWay) = downloads /\ DownloadReaders \subseteq Readers
  BY ReadAssumption DEF ReadsInv
<1>2. DownloadsUnderWay' = IF r \in DownloadReaders /\ reader'[r] \notin {"none", "over"}
                     THEN DownloadsUnderWay \cup {r} ELSE DownloadsUnderWay \ {r}
  BY <1>1 DEF DownloadsUnderWay
<1>3. r \in DownloadsUnderWay <=> r \in DownloadReaders /\ reader[r] \notin {"none", "over"}
  BY DEF DownloadsUnderWay
<1>4. /\ IsFiniteSet(DownloadsUnderWay \cup {r}) /\ IsFiniteSet(DownloadsUnderWay \ {r})
      /\ Cardinality(DownloadsUnderWay \cup {r}) = IF r \in DownloadsUnderWay THEN downloads ELSE downloads + 1
      /\ Cardinality(DownloadsUnderWay \ {r}) = IF r \in DownloadsUnderWay THEN downloads - 1 ELSE downloads
  BY <1>1, FS_AddElement, FS_RemoveElement
<1>. QED
  BY <1>2, <1>3, <1>4

LEMMA AdmitReaderKeeps == ASSUME ReadsInv, NEW r \in Readers, AdmitReader(r) PROVE ReadsInv'
<1>1. /\ reader[r] = "none" /\ UNCHANGED <<readsDone, readSlots, readLine, storeClosed>>
      /\ \E s \in {"over", "asking"} : reader' = [reader EXCEPT ![r] = s]
  BY DEF AdmitReader
<1>2. /\ reader' \in [Readers -> {"none", "asking", "waiting", "reading", "sending", "over"}]
      /\ reader'[r] \in {"over", "asking"} /\ \A q \in Readers \ {r} : reader'[q] = reader[q]
  BY <1>1 DEF ReadsInv, ReadsTypeOK
<1>3. ReadsUnderWay' = ReadsUnderWay /\ ReadersInLine' = ReadersInLine
  BY <1>1, <1>2 DEF ReadsUnderWay, ReadersInLine
<1>4. IsFiniteSet(DownloadsUnderWay') /\ Cardinality(DownloadsUnderWay') = downloads' /\ downloads' \in 0..DownloadLimit
  <2>1. CASE r \in DownloadReaders /\ downloads >= DownloadLimit
    <3>1. downloads' = downloads /\ reader'[r] = "over"
      BY <2>1, <1>2 DEF AdmitReader, ReadsInv, ReadsTypeOK
    <3>. QED
      BY <1>1, <1>2, <3>1, DownloadsCounted DEF ReadsInv, ReadsTypeOK
  <2>2. CASE ~(r \in DownloadReaders /\ downloads >= DownloadLimit)
    <3>1. (downloads' = IF r \in DownloadReaders THEN downloads + 1 ELSE downloads) /\ reader'[r] = "asking"
      BY <2>2 DEF AdmitReader, ReadsInv, ReadsTypeOK
    <3>2. IsFiniteSet(DownloadsUnderWay') /\ Cardinality(DownloadsUnderWay') = downloads'
      BY <1>1, <1>2, <3>1, DownloadsCounted
    <3>. QED
      BY <2>2, <3>1, <3>2, ReadAssumption DEF ReadsInv, ReadsTypeOK
  <2>. QED
    BY <2>1, <2>2
<1>. QED
  BY <1>1, <1>2, <1>3, <1>4 DEF ReadsInv, ReadsTypeOK

(* A request that holds no slot ends.                                      *)
LEMMA OverKeeps ==
  ASSUME ReadsInv, NEW r \in Readers, reader[r] \in {"asking", "sending"}, Over(r, reader),
         UNCHANGED <<readsDone, readSlots, readLine, storeClosed>>
  PROVE  ReadsInv'
<1>1. /\ reader' \in [Readers -> {"none", "asking", "waiting", "reading", "sending", "over"}]
      /\ reader'[r] = "over" /\ \A q \in Readers \ {r} : reader'[q] = reader[q]
  BY DEF ReadsInv, ReadsTypeOK, Over
<1>2. ReadsUnderWay' = ReadsUnderWay /\ ReadersInLine' = ReadersInLine
  BY <1>1 DEF ReadsUnderWay, ReadersInLine
<1>3. IsFiniteSet(DownloadsUnderWay') /\ Cardinality(DownloadsUnderWay') = downloads'
  BY <1>1, DownloadsCounted DEF Over
<1>4. downloads' \in 0..DownloadLimit
  BY <1>3, FS_CardinalityType, ReadAssumption DEF Over, ReadsInv, ReadsTypeOK
<1>. QED
  BY <1>1, <1>2, <1>3, <1>4 DEF ReadsInv, ReadsTypeOK

LEMMA AsksToReadKeeps == ASSUME ReadsInv, NEW r \in Readers, AsksToRead(r) PROVE ReadsInv'
<1>1. reader[r] = "asking" /\ UNCHANGED <<readsDone, storeClosed>> /\ r \notin ReadsUnderWay /\ r \notin ReadersInLine
  BY DEF AsksToRead, ReadsUnderWay, ReadsInv
<1>2. CASE storeClosed \/ Len(readLine) >= ReadWaits
  BY <1>1, <1>2, OverKeeps DEF AsksToRead
<1>3. CASE ~(storeClosed \/ Len(readLine) >= ReadWaits) /\ readSlots < ReadSlotLimit
  <2>1. /\ readSlots' = readSlots + 1 /\ reader' = [reader EXCEPT ![r] = "reading"]
        /\ UNCHANGED <<readLine, downloads>>
    BY <1>3 DEF AsksToRead
  <2>2. /\ reader' \in [Readers -> {"none", "asking", "waiting", "reading", "sending", "over"}]
        /\ reader'[r] = "reading" /\ \A q \in Readers \ {r} : reader'[q] = reader[q]
    BY <2>1 DEF ReadsInv, ReadsTypeOK
  <2>3. ReadsUnderWay' = ReadsUnderWay \cup {r} /\ ReadersInLine' = ReadersInLine /\ DownloadsUnderWay' = DownloadsUnderWay
    BY <1>1, <2>1, <2>2, ReadAssumption DEF ReadsUnderWay, ReadersInLine, DownloadsUnderWay
  <2>4. IsFiniteSet(ReadsUnderWay') /\ Cardinality(ReadsUnderWay') = readSlots'
    BY <1>1, <2>1, <2>3, FS_AddElement DEF ReadsInv
  <2>. QED
    BY <1>1, <1>3, <2>1, <2>2, <2>3, <2>4, ReadAssumption DEF ReadsInv, ReadsTypeOK
<1>4. CASE ~(storeClosed \/ Len(readLine) >= ReadWaits) /\ ~(readSlots < ReadSlotLimit)
  <2>1. /\ readLine' = Append(readLine, r) /\ reader' = [reader EXCEPT ![r] = "waiting"]
        /\ UNCHANGED <<readSlots, downloads>>
    BY <1>4 DEF AsksToRead
  <2>2. /\ reader' \in [Readers -> {"none", "asking", "waiting", "reading", "sending", "over"}]
        /\ reader'[r] = "waiting" /\ \A q \in Readers \ {r} : reader'[q] = reader[q]
    BY <2>1 DEF ReadsInv, ReadsTypeOK
  <2>3. LineUp(readLine', Readers) /\ ReadersInLine' = ReadersInLine \cup {r}
    BY <1>1, <2>1, LineAppend DEF ReadsInv, ReadersInLine
  <2>4. ReadsUnderWay' = ReadsUnderWay /\ DownloadsUnderWay' = DownloadsUnderWay
    BY <1>1, <2>2, ReadAssumption DEF ReadsUnderWay, DownloadsUnderWay
  <2>5. readSlots = ReadSlotLimit
    BY <1>4, ReadAssumption DEF ReadsInv, ReadsTypeOK
  <2>. QED
    BY <1>1, <1>4, <2>1, <2>2, <2>3, <2>4, <2>5 DEF ReadsInv, ReadsTypeOK, LineUp
<1>. QED
  BY <1>2, <1>3, <1>4

(* The read of r is over: who goes on has its slot, or it is free.         *)
LEMMA HandsOverKeeps ==
  ASSUME ReadsInv, NEW r \in Readers, reader[r] = "reading", HandsOver, UNCHANGED storeClosed,
         NEW s \in {"asking", "sending", "over"}, reader' = [Granted EXCEPT ![r] = s],
         readsDone' \in [Readers -> 0..2],
         \A q \in Readers : readsDone'[q] = readsDone[q] \/ q = r,
         s = "asking" => readsDone'[r] \in 0..1,
         downloads' = IF s = "over" /\ r \in DownloadReaders THEN downloads - 1 ELSE downloads
  PROVE  ReadsInv'
<1>1. r \in ReadsUnderWay /\ r \notin ReadersInLine /\ IsFiniteSet(ReadsUnderWay) /\ Cardinality(ReadsUnderWay) = readSlots
  BY DEF ReadsUnderWay, ReadsInv
<1>2. readSlots - 1 \in 0..ReadSlotLimit
  <2>1. Cardinality(ReadsUnderWay \ {r}) = readSlots - 1 /\ IsFiniteSet(ReadsUnderWay \ {r})
    BY <1>1, FS_RemoveElement
  <2>. QED
    BY <2>1, FS_CardinalityType, ReadAssumption DEF ReadsInv, ReadsTypeOK
<1>. DEFINE Result ==
       /\ reader' \in [Readers -> {"none", "asking", "waiting", "reading", "sending", "over"}]
       /\ reader'[r] = s
       /\ \A q \in Readers \ {r} : reader'[q] = reader[q] \/ (reader[q] = "waiting" /\ reader'[q] = "reading")
       /\ LineUp(readLine', Readers) /\ \A q \in Readers : q \in ReadersInLine' <=> reader'[q] = "waiting"
       /\ IsFiniteSet(ReadsUnderWay') /\ Cardinality(ReadsUnderWay') = readSlots' /\ readSlots' \in 0..ReadSlotLimit
       /\ readLine' # <<>> => readSlots' = ReadSlotLimit
       /\ storeClosed' => readLine' = <<>>
<1>3. ASSUME readLine = <<>> PROVE Result
  <2>1. readSlots' = readSlots - 1 /\ UNCHANGED readLine /\ reader' = [reader EXCEPT ![r] = s]
    BY <1>3 DEF HandsOver, Granted
  <2>2. /\ reader' \in [Readers -> {"none", "asking", "waiting", "reading", "sending", "over"}]
        /\ reader'[r] = s /\ \A q \in Readers \ {r} : reader'[q] = reader[q]
    BY <2>1 DEF ReadsInv, ReadsTypeOK
  <2>3. ReadsUnderWay' = ReadsUnderWay \ {r} /\ ReadersInLine' = ReadersInLine
    BY <2>1, <2>2 DEF ReadsUnderWay, ReadersInLine
  <2>4. IsFiniteSet(ReadsUnderWay') /\ Cardinality(ReadsUnderWay') = readSlots'
    BY <1>1, <2>1, <2>3, FS_RemoveElement
  <2>5. \A q \in Readers : q \in ReadersInLine' <=> reader'[q] = "waiting"
    BY <1>1, <2>2, <2>3 DEF ReadsInv
  <2>. QED
    BY <1>2, <1>3, <2>1, <2>2, <2>4, <2>5 DEF ReadsInv
<1>4. ASSUME readLine # <<>> PROVE Result
  <2>1. PICK h : h = Head(readLine)
    OBVIOUS
  <2>2. readLine' = Tail(readLine) /\ UNCHANGED readSlots /\ reader' = [reader EXCEPT ![h] = "reading", ![r] = s]
    BY <1>4, <2>1 DEF HandsOver, Granted, ReadsInv
  <2>3. /\ LineUp(readLine', Readers) /\ ReadersInLine' = ReadersInLine \ {h}
        /\ h \in ReadersInLine /\ h \in Readers /\ h # r /\ reader[h] = "waiting"
    BY <1>1, <1>4, <2>1, <2>2, LineTail DEF ReadsInv, ReadersInLine
  <2>4. /\ reader' \in [Readers -> {"none", "asking", "waiting", "reading", "sending", "over"}]
        /\ reader'[r] = s /\ reader'[h] = "reading" /\ \A q \in Readers \ {r, h} : reader'[q] = reader[q]
    BY <2>2, <2>3 DEF ReadsInv, ReadsTypeOK
  <2>5. ReadsUnderWay' = (ReadsUnderWay \ {r}) \cup {h} /\ h \notin ReadsUnderWay
    BY <2>3, <2>4 DEF ReadsUnderWay
  <2>6. IsFiniteSet(ReadsUnderWay') /\ Cardinality(ReadsUnderWay') = readSlots'
    <3>1. IsFiniteSet(ReadsUnderWay \ {r}) /\ Cardinality(ReadsUnderWay \ {r}) = readSlots - 1
      BY <1>1, FS_RemoveElement
    <3>2. IsFiniteSet(ReadsUnderWay') /\ Cardinality(ReadsUnderWay') = (readSlots - 1) + 1
      BY <2>5, <3>1, FS_AddElement
    <3>. QED
      BY <2>2, <3>2, ReadAssumption DEF ReadsInv, ReadsTypeOK
  <2>7. \A q \in Readers : q \in ReadersInLine' <=> reader'[q] = "waiting"
    BY <1>1, <2>3, <2>4 DEF ReadsInv
  <2>. QED
    BY <1>4, <2>2, <2>3, <2>4, <2>6, <2>7 DEF ReadsInv, ReadsTypeOK
<1>5. Result
  BY <1>3, <1>4
<1>. HIDE DEF Result
<1>6. IsFiniteSet(DownloadsUnderWay') /\ Cardinality(DownloadsUnderWay') = downloads'
  BY <1>5, DownloadsCounted DEF Result
<1>7. downloads' \in 0..DownloadLimit
  BY <1>6, FS_CardinalityType, ReadAssumption DEF ReadsInv, ReadsTypeOK
<1>8. \A q \in Readers : reader'[q] \in {"none", "asking", "waiting", "reading"} => readsDone'[q] \in 0..1
  BY <1>5 DEF Result, ReadsInv
<1>9. readLine' \in Seq(Readers) /\ storeClosed' \in BOOLEAN
  BY <1>5 DEF Result, LineUp, ReadsInv, ReadsTypeOK
<1>. QED
  BY <1>5, <1>6, <1>7, <1>8, <1>9 DEF Result, ReadsInv, ReadsTypeOK

LEMMA ReadsEndKeeps == ASSUME ReadsInv, NEW r \in Readers, ReadThrows(r) \/ ReadReturns(r) PROVE ReadsInv'
<1>1. reader[r] = "reading" /\ HandsOver /\ UNCHANGED storeClosed /\ readsDone \in [Readers -> 0..2]
      /\ readsDone[r] \in 0..1
  BY DEF ReadThrows, ReadReturns, ReadsInv, ReadsTypeOK
<1>2. CASE ReadThrows(r)
  <2>1. /\ reader' = [Granted EXCEPT ![r] = "over"] /\ UNCHANGED readsDone
        /\ downloads' = IF r \in DownloadReaders THEN downloads - 1 ELSE downloads
    BY <1>2 DEF ReadThrows, Over
  <2>. QED
    BY <1>1, <2>1, HandsOverKeeps
<1>3. CASE ReadReturns(r)
  <2>1. PICK s \in {"asking", "sending", "over"} :
          /\ reader' = [Granted EXCEPT ![r] = s] /\ (s = "asking" => readsDone[r] = 0)
          /\ downloads' = IF s = "over" /\ r \in DownloadReaders THEN downloads - 1 ELSE downloads
    <3>1. CASE r \in DownloadReaders
      BY <1>3, <3>1 DEF ReadReturns
    <3>2. CASE r \notin DownloadReaders
      BY <1>3, <3>2 DEF ReadReturns, Over
    <3>. QED
      BY <3>1, <3>2
  <2>2. readsDone' = [readsDone EXCEPT ![r] = readsDone[r] + 1]
    BY <1>3 DEF ReadReturns
  <2>3. readsDone' \in [Readers -> 0..2] /\ (\A q \in Readers : readsDone'[q] = readsDone[q] \/ q = r)
        /\ (s = "asking" => readsDone'[r] \in 0..1)
    BY <1>1, <2>1, <2>2
  <2>. QED
    BY <1>1, <2>1, <2>3, HandsOverKeeps
<1>. QED
  BY <1>2, <1>3

(* The close rejects those in line, and their admissions with them.        *)
LEMMA CloseStoreKeeps == ASSUME ReadsInv, CloseStore PROVE ReadsInv'
<1>1. /\ storeClosed' = TRUE /\ readLine' = <<>> /\ UNCHANGED <<readsDone, readSlots>>
      /\ reader' = [r \in Readers |-> IF r \in ReadersInLine THEN "over" ELSE reader[r]]
      /\ downloads' = downloads - Cardinality(ReadersInLine \cap DownloadReaders)
  BY DEF CloseStore, ReadersInLine
<1>2. LineUp(readLine', Readers) /\ ReadersInLine' = {}
  BY <1>1, LineEmpty DEF ReadersInLine
<1>3. /\ reader' \in [Readers -> {"none", "asking", "waiting", "reading", "sending", "over"}]
      /\ \A r \in Readers : reader'[r] # "waiting"
  BY <1>1 DEF ReadsInv, ReadsTypeOK
<1>4. ReadsUnderWay' = ReadsUnderWay
  BY <1>1 DEF ReadsUnderWay, ReadsInv
<1>5. /\ DownloadsUnderWay' = DownloadsUnderWay \ (ReadersInLine \cap DownloadReaders)
      /\ ReadersInLine \cap DownloadReaders \subseteq DownloadsUnderWay
  BY <1>1, ReadAssumption DEF DownloadsUnderWay, ReadsInv
<1>6. IsFiniteSet(DownloadsUnderWay') /\ Cardinality(DownloadsUnderWay') = downloads'
  <2>1. /\ IsFiniteSet(DownloadsUnderWay')
        /\ Cardinality(DownloadsUnderWay') = Cardinality(DownloadsUnderWay)
                                       - Cardinality(DownloadsUnderWay \cap (ReadersInLine \cap DownloadReaders))
    BY <1>5, FS_Difference DEF ReadsInv
  <2>2. DownloadsUnderWay \cap (ReadersInLine \cap DownloadReaders) = ReadersInLine \cap DownloadReaders
    BY <1>5
  <2>. QED
    BY <1>1, <2>1, <2>2 DEF ReadsInv
<1>7. downloads' \in 0..DownloadLimit
  <2>1. Cardinality(DownloadsUnderWay') \in Nat /\ Cardinality(DownloadsUnderWay') <= Cardinality(DownloadsUnderWay)
    BY <1>5, <1>6, FS_CardinalityType, FS_Subset DEF ReadsInv
  <2>. QED
    BY <1>6, <2>1, ReadAssumption DEF ReadsInv, ReadsTypeOK
<1>8. \A r \in Readers : reader'[r] \in {"none", "asking", "waiting", "reading"} => readsDone'[r] \in 0..1
  BY <1>1 DEF ReadsInv
<1>. QED
  BY <1>1, <1>2, <1>3, <1>4, <1>6, <1>7, <1>8 DEF ReadsInv, ReadsTypeOK, LineUp

LEMMA StepReads == ReadsInv /\ [ReadsNext]_readVars => ReadsInv'
<1>. SUFFICES ASSUME ReadsInv, [ReadsNext]_readVars PROVE ReadsInv'
  OBVIOUS
<1>1. CASE UNCHANGED readVars
  BY <1>1 DEF readVars, ReadsInv, ReadsTypeOK, ReadsUnderWay, DownloadsUnderWay, ReadersInLine
<1>2. ASSUME NEW r \in Readers, Sent(r) PROVE ReadsInv'
  BY <1>2, OverKeeps DEF Sent
<1>. QED
  BY <1>1, <1>2, AdmitReaderKeeps, AsksToReadKeeps, ReadsEndKeeps, CloseStoreKeeps DEF ReadsNext

(* ReadSlotsOwned, for any number of readers, slots and admissions.        *)
THEOREM ReadSlotsOwnedHolds == ReadsSpec => []ReadSlotsOwned
<1>1. ReadsInv => ReadSlotsOwned
  BY DEF ReadsInv, ReadSlotsOwned, ReadsUnderWay, DownloadsUnderWay
<1>. QED
  BY <1>1, InitReads, StepReads, PTL DEF ReadsSpec
=============================================================================
