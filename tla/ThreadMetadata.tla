--------------------------- MODULE ThreadMetadata ---------------------------
(***************************************************************************)
(* What clients note about the threads of a project: titles, pins, what is *)
(* settled or snoozed, and their order (infrastructure/sqlite/             *)
(* thread-metadata-database.ts, domain/thread-metadata.ts).  Clients edit  *)
(* what they have read earlier; new work wakes a thread.  Each operation   *)
(* is one transaction.  Titles, pins, views and removals are left out:     *)
(* they are set as `archived` is.                                          *)
(***************************************************************************)
EXTENDS Integers, FiniteSets, SequencesExt

CONSTANTS Threads, Editors,
          FinalRevision,  \* MAX_SAFE_INTEGER
          Times           \* moments that snoozes end at, without 0

ASSUME MetadataAssumption ==
  FinalRevision \in Nat /\ Times \subseteq Nat \ {0} /\ IsFiniteSet(Threads)

VARIABLES
  metadata,  \* thread -> its row
  readRow,      \* client -> the thread and row it has read, or Unread
  now        \* the time

metadataVars == <<metadata, readRow, now>>

Unordered == -1  \* sortOrder: null, behind all others
Never == 0       \* snoozedUntil: null
MetadataRows ==
  [revision: 0..FinalRevision, archived: BOOLEAN, settled: BOOLEAN,
   snoozedUntil: {Never} \cup Times, sortOrder: {Unordered} \cup (0..(Cardinality(Threads) - 1))]
Unread == <<>>

DefaultRow == [revision |-> 0, archived |-> FALSE, settled |-> FALSE,
               snoozedUntil |-> Never, sortOrder |-> Unordered]

MetadataInit ==
  /\ metadata = [t \in Threads |-> DefaultRow] /\ now = 0
  /\ readRow = [e \in Editors |-> Unread]

(* threadSection *)
Section(t) ==
  IF metadata[t].archived THEN "archived"
  ELSE IF metadata[t].settled THEN "settled"
  ELSE IF metadata[t].snoozedUntil > now THEN "snoozed" ELSE "active"

ReadsThread(e, t) ==
  /\ readRow' = [readRow EXCEPT ![e] = <<t, metadata[t]>>]
  /\ UNCHANGED <<metadata, now>>

(* patch: any fields, over the revision that the client has read; a thread *)
(* is not settled and snoozed at once.                                     *)
Patch(e, row) ==
  /\ readRow[e] # Unread
  /\ LET t == readRow[e][1] IN
       /\ metadata[t].revision = readRow[e][2].revision /\ metadata[t].revision < FinalRevision
       /\ row.revision = metadata[t].revision + 1
       /\ ~(row.settled /\ row.snoozedUntil # Never)
       /\ metadata' = [metadata EXCEPT ![t] = row]
       /\ readRow' = [readRow EXCEPT ![e] = <<t, row>>]
  /\ UNCHANGED now

(* Mutant: new work does not count as an edit.                             *)
WakesUncounted(t) ==
  /\ metadata' = [metadata EXCEPT ![t].settled = FALSE, ![t].snoozedUntil = Never]
  /\ UNCHANGED <<readRow, now>>

(* wake: part of the admission of new work, which fails with it.           *)
Wakes(t) ==
  /\ metadata[t].settled \/ metadata[t].snoozedUntil # Never
  /\ metadata[t].revision < FinalRevision
  /\ metadata' = [metadata EXCEPT ![t].revision = @ + 1, ![t].settled = FALSE, ![t].snoozedUntil = Never]
  /\ UNCHANGED <<readRow, now>>

(* The threads of a section in their order; among equals the younger work  *)
(* comes first, which may be any.                                          *)
Before(s, t) ==
  metadata[t].sortOrder = Unordered
  \/ (metadata[s].sortOrder # Unordered /\ metadata[s].sortOrder <= metadata[t].sortOrder)
Lines(S) ==
  {line \in [1..Cardinality(S) -> S] :
     /\ \A t \in S : \E i \in DOMAIN line : line[i] = t
     /\ \A i, j \in DOMAIN line : i # j => line[i] # line[j]
     /\ \A i, j \in DOMAIN line : i < j => Before(line[i], line[j])}

(* `moved` goes next to `target`.                                          *)
Placed(line, moved, target, after) ==
  LET rest == RemoveFirst(line, moved)
      at   == CHOOSE i \in DOMAIN rest : rest[i] = target
      cut  == IF after THEN at ELSE at - 1
  IN SubSeq(rest, 1, cut) \o <<moved>> \o SubSeq(rest, cut + 1, Len(rest))

(* reorder: the section is numbered anew; every row that changes counts.   *)
Reorder(moved, target, after) ==
  /\ moved # target /\ Section(moved) = Section(target) /\ Section(moved) # "archived"
  /\ \E line \in Lines({t \in Threads : Section(t) = Section(moved)}) :
       LET order == Placed(line, moved, target, after)
           Changed == {t \in Threads : \E i \in DOMAIN order :
                                         order[i] = t /\ metadata[t].sortOrder # i - 1}
       IN /\ \A t \in Changed : metadata[t].revision < FinalRevision
          /\ metadata' = [t \in Threads |->
               IF t \in Changed
               THEN [metadata[t] EXCEPT !.revision = @ + 1,
                                        !.sortOrder = (CHOOSE i \in DOMAIN order : order[i] = t) - 1]
               ELSE metadata[t]]
  /\ UNCHANGED <<readRow, now>>

TimePasses ==
  /\ \E t \in Times : now < t /\ now' = t
  /\ UNCHANGED <<metadata, readRow>>

MetadataNext ==
  \/ \E e \in Editors : (\E t \in Threads : ReadsThread(e, t)) \/ (\E row \in MetadataRows : Patch(e, row))
  \/ \E t \in Threads : Wakes(t)
  \/ \E t, u \in Threads, after \in BOOLEAN : Reorder(t, u, after)
  \/ TimePasses

MetadataSpec == MetadataInit /\ [][MetadataNext]_metadataVars

-----------------------------------------------------------------------------
MetadataTypeOK == metadata \in [Threads -> MetadataRows] /\ now \in {0} \cup Times

(* An edit overwrites nothing its author has not seen: while the revision  *)
(* a client has read is current, so is everything it has read, though new  *)
(* work, other clients and the order of other threads change rows.  No     *)
(* thread is both settled and snoozed.                                     *)
EditsOnWhatWasSeen ==
  /\ \A e \in Editors : readRow[e] # Unread /\ metadata[readRow[e][1]].revision = readRow[e][2].revision
       => metadata[readRow[e][1]] = readRow[e][2]
  /\ \A t \in Threads : ~(metadata[t].settled /\ metadata[t].snoozedUntil # Never)
=============================================================================
