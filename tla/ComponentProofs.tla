-------------------------- MODULE ComponentProofs --------------------------
(***************************************************************************)
(* The components that share no state, for any number of clients, shells,  *)
(* callers and bounds: what clients edit and what they are told            *)
(* (ThreadMetadata, ChangeStream), what callers of the database are told   *)
(* (StorageCalls), the slots of Terminals, SpeechSlot, CommandCatalog and  *)
(* PortScans, the record of subagents (SubagentLifecycle); and what holds  *)
(* of these, of the files and of the provider's side together, whichever   *)
(* of them runs.                                                           *)
(***************************************************************************)
EXTENDS MCComponents, FileProofs, ProviderProofs

(***************************************************************************)
(* ThreadMetadata and ChangeStream                                         *)
(***************************************************************************)
(* A row never goes back, and what a client has read is what it was then.  *)
RowFields == {"revision", "archived", "settled", "snoozedUntil", "sortOrder"}
Dated ==
  /\ DOMAIN metadata = Threads
  /\ \A t \in Threads : DOMAIN metadata[t] = RowFields /\ metadata[t].revision \in Nat
  /\ DOMAIN readRow = Editors
  /\ \A e \in Editors : readRow[e] # Unread =>
       /\ readRow[e] = <<readRow[e][1], readRow[e][2]>> /\ readRow[e][1] \in Threads
       /\ readRow[e][2].revision \in Nat
       /\ readRow[e][2].revision <= metadata[readRow[e][1]].revision
       /\ readRow[e][2].revision = metadata[readRow[e][1]].revision =>
            readRow[e][2] = metadata[readRow[e][1]]
  /\ \A t \in Threads : ~(metadata[t].settled /\ metadata[t].snoozedUntil # Never)

LEMMA InitDated == MetadataInit => Dated
  BY DEF MetadataInit, Dated, RowFields, DefaultRow, Never

(* Rows change only with a new revision; nobody else reads meanwhile.      *)
LEMMA NewRevision ==
  ASSUME Dated, UNCHANGED readRow, DOMAIN metadata' = Threads,
         \A t \in Threads :
           \/ metadata'[t] = metadata[t]
           \/ /\ DOMAIN metadata'[t] = RowFields /\ metadata'[t].revision = metadata[t].revision + 1
              /\ ~(metadata'[t].settled /\ metadata'[t].snoozedUntil # Never)
  PROVE  Dated'
<1>1. \A t \in Threads : DOMAIN metadata'[t] = RowFields /\ metadata'[t].revision \in Nat
  BY DEF Dated
<1>2. \A t \in Threads : ~(metadata'[t].settled /\ metadata'[t].snoozedUntil # Never)
  BY DEF Dated
<1>3. ASSUME NEW e \in Editors, readRow[e] # Unread
      PROVE  /\ readRow[e][2].revision <= metadata'[readRow[e][1]].revision
             /\ readRow[e][2].revision = metadata'[readRow[e][1]].revision =>
                  readRow[e][2] = metadata'[readRow[e][1]]
  <2>. DEFINE t == readRow[e][1]
  <2>1. t \in Threads /\ readRow[e][2].revision \in Nat /\ readRow[e][2].revision <= metadata[t].revision
    BY <1>3 DEF Dated
  <2>2. metadata[t].revision \in Nat
    BY <2>1 DEF Dated
  <2>3. CASE metadata'[t] = metadata[t]
    BY <1>3, <2>3 DEF Dated
  <2>4. CASE metadata'[t].revision = metadata[t].revision + 1
    BY <2>1, <2>2, <2>4
  <2>. QED
    BY <2>1, <2>3, <2>4
<1>. QED
  BY <1>1, <1>2, <1>3 DEF Dated, Unread

LEMMA StepDated == Dated /\ [MetadataNext]_metadataVars => Dated'
<1>. SUFFICES ASSUME Dated, [MetadataNext]_metadataVars PROVE Dated'
  OBVIOUS
<1>1. ASSUME NEW e \in Editors, NEW t \in Threads, ReadsThread(e, t) PROVE Dated'
  BY <1>1 DEF ReadsThread, Dated, Unread
<1>2. ASSUME NEW e \in Editors, NEW got \in MetadataRows, Patch(e, got) PROVE Dated'
  <2>. DEFINE t == readRow[e][1]
  <2>1. /\ t \in Threads /\ got.revision = metadata[t].revision + 1
        /\ metadata' = [metadata EXCEPT ![t] = got] /\ readRow' = [readRow EXCEPT ![e] = <<t, got>>]
        /\ ~(got.settled /\ got.snoozedUntil # Never)
    BY <1>2 DEF Patch, Dated
  <2>2. DOMAIN got = RowFields /\ got.revision \in Nat
    BY <2>1 DEF MetadataRows, RowFields, Dated
  <2>3. /\ DOMAIN metadata' = Threads /\ DOMAIN readRow' = Editors
        /\ \A u \in Threads : DOMAIN metadata'[u] = RowFields /\ metadata'[u].revision \in Nat
        /\ \A u \in Threads : ~(metadata'[u].settled /\ metadata'[u].snoozedUntil # Never)
    BY <2>1, <2>2 DEF Dated
  <2>4. ASSUME NEW f \in Editors, readRow'[f] # Unread
        PROVE  /\ readRow'[f] = <<readRow'[f][1], readRow'[f][2]>> /\ readRow'[f][1] \in Threads
               /\ readRow'[f][2].revision \in Nat
               /\ readRow'[f][2].revision <= metadata'[readRow'[f][1]].revision
               /\ readRow'[f][2].revision = metadata'[readRow'[f][1]].revision =>
                    readRow'[f][2] = metadata'[readRow'[f][1]]
    <3>1. CASE f = e
      <4>1. readRow'[f] = <<t, got>> /\ metadata'[t] = got
        BY <2>1, <3>1 DEF Dated
      <4>. QED
        BY <4>1, <2>1, <2>2
    <3>2. CASE f # e
      <4>1. readRow'[f] = readRow[f] /\ readRow[f] # Unread
        BY <2>1, <2>4, <3>2 DEF Dated, Unread
      <4>2. CASE readRow[f][1] = t
        BY <2>1, <2>2, <4>1, <4>2 DEF Dated
      <4>3. CASE readRow[f][1] # t
        BY <2>1, <4>1, <4>3 DEF Dated
      <4>. QED
        BY <4>2, <4>3
    <3>. QED
      BY <3>1, <3>2
  <2>. QED
    BY <2>3, <2>4 DEF Dated, Unread
<1>3. ASSUME NEW t \in Threads, Wakes(t) PROVE Dated'
  <2>1. UNCHANGED readRow /\ DOMAIN metadata' = Threads
    BY <1>3 DEF Wakes, Dated
  <2>2. \A u \in Threads \ {t} : metadata'[u] = metadata[u]
    BY <1>3 DEF Wakes, Dated
  <2>3. /\ metadata'[t] = [metadata[t] EXCEPT !.revision = @ + 1, !.settled = FALSE, !.snoozedUntil = Never]
        /\ DOMAIN metadata[t] = RowFields
    BY <1>3 DEF Wakes, Dated
  <2>4. DOMAIN metadata'[t] = RowFields /\ metadata'[t].revision = metadata[t].revision + 1 /\ ~metadata'[t].settled
    BY <2>3 DEF RowFields
  <2>. QED
    BY <2>1, <2>2, <2>4, NewRevision
<1>4. ASSUME NEW t \in Threads, NEW u \in Threads, NEW after \in BOOLEAN, Reorder(t, u, after) PROVE Dated'
  <2>1. UNCHANGED readRow
    BY <1>4 DEF Reorder
  <2>2. PICK Changed, rank : metadata' =
          [v \in Threads |-> IF v \in Changed
                             THEN [metadata[v] EXCEPT !.revision = @ + 1, !.sortOrder = rank[v]]
                             ELSE metadata[v]]
    <3>1. PICK ones \in Lines({v \in Threads : Section(v) = Section(t)}) :
            LET order == Placed(ones, t, u, after)
                Changed == {v \in Threads : \E i \in DOMAIN order : order[i] = v /\ metadata[v].sortOrder # i - 1}
            IN metadata' = [v \in Threads |->
                 IF v \in Changed
                 THEN [metadata[v] EXCEPT !.revision = @ + 1,
                                          !.sortOrder = (CHOOSE i \in DOMAIN order : order[i] = v) - 1]
                 ELSE metadata[v]]
      BY <1>4 DEF Reorder
    <3>. DEFINE order == Placed(ones, t, u, after)
                Changed == {v \in Threads : \E i \in DOMAIN order : order[i] = v /\ metadata[v].sortOrder # i - 1}
                rank == [v \in Threads |-> (CHOOSE i \in DOMAIN order : order[i] = v) - 1]
    <3>2. metadata' = [v \in Threads |-> IF v \in Changed
                         THEN [metadata[v] EXCEPT !.revision = @ + 1, !.sortOrder = rank[v]] ELSE metadata[v]]
      BY <3>1, Zenon
    <3>. HIDE DEF Changed, rank, order
    <3>. QED
      BY <3>2
  <2>3. ASSUME NEW v \in Threads, metadata'[v] # metadata[v]
        PROVE  /\ DOMAIN metadata'[v] = RowFields /\ metadata'[v].revision = metadata[v].revision + 1
               /\ ~(metadata'[v].settled /\ metadata'[v].snoozedUntil # Never)
    <3>1. metadata'[v] = [metadata[v] EXCEPT !.revision = @ + 1, !.sortOrder = rank[v]]
      BY <2>2, <2>3
    <3>2. DOMAIN metadata[v] = RowFields
      BY DEF Dated
    <3>3. metadata'[v].settled = metadata[v].settled /\ metadata'[v].snoozedUntil = metadata[v].snoozedUntil
      BY <3>1, <3>2 DEF RowFields
    <3>. QED
      BY <3>1, <3>2, <3>3 DEF RowFields, Dated
  <2>4. DOMAIN metadata' = Threads
    BY <2>2
  <2>. QED
    BY <2>1, <2>3, <2>4, NewRevision
<1>5. CASE TimePasses \/ UNCHANGED metadataVars
  BY <1>5 DEF TimePasses, metadataVars, Dated
<1>. QED
  BY <1>1, <1>2, <1>3, <1>4, <1>5 DEF MetadataNext

(* An edit overwrites nothing its author has not seen: patch, wake and     *)
(* reorder of ThreadMetadataDatabase.                                      *)
THEOREM EditsOnWhatWasSeenHolds == MetadataSpec => []EditsOnWhatWasSeen
<1>1. Dated => EditsOnWhatWasSeen
  BY DEF Dated, EditsOnWhatWasSeen
<1>. QED
  BY InitDated, StepDated, <1>1, PTL DEF MetadataSpec

-----------------------------------------------------------------------------
(* A client that is connected has been sent the last count, or will be.    *)
StreamTyped ==
  /\ epoch \in Nat /\ revision \in Nat
  /\ watcher \in [Watchers -> {"away", "open", "closing"}]
  /\ sending \in [Watchers -> Seq(Nat \X Nat)] /\ received \in [Watchers -> Nat \X Nat]
StreamInv == StreamTyped /\ ChangesReachWatchers

(* What was sent last stays so when the first is taken.                    *)
LEMMA LastTaken ==
  ASSUME NEW S, NEW s \in Seq(S), s # <<>>
  PROVE  /\ Tail(s) = <<>> => s[Len(s)] = Head(s)
         /\ Tail(s) # <<>> => Tail(s)[Len(Tail(s))] = s[Len(s)]
<1>1. ASSUME Tail(s) = <<>> PROVE s[Len(s)] = Head(s)
  <2>. DEFINE rest == Tail(s)
  <2>1. Len(rest) = Len(s) - 1 /\ Len(s) \in Nat
    BY HeadTailProperties, LenProperties
  <2>2. Len(rest) = 0
    BY <1>1, EmptySeq
  <2>3. Len(s) = 1
    <3>. HIDE DEF rest
    <3>. QED
      BY <2>1, <2>2
  <2>. QED
    BY <2>3
<1>2. ASSUME Tail(s) # <<>> PROVE Tail(s)[Len(Tail(s))] = s[Len(s)]
  <2>1. Tail(s) \in Seq(S) /\ Len(Tail(s)) = Len(s) - 1 /\ Len(Tail(s)) \in Nat \ {0} /\ Len(s) \in Nat
    BY <1>2, HeadTailProperties, EmptySeq, LenProperties
  <2>2. Tail(s)[Len(Tail(s))] = s[Len(Tail(s)) + 1]
    BY <1>2, <2>1, HeadTailProperties
  <2>. QED
    BY <2>1, <2>2
<1>. QED
  BY <1>1, <1>2

LEMMA FewerConnected ==
  ASSUME StreamInv, Connected' \subseteq Connected
  PROVE  Cardinality(Connected') <= WatcherLimit
<1>1. IsFiniteSet(Connected) /\ IsFiniteSet(Connected')
  BY FS_Subset, WatchersAssumption DEF Connected
<1>2. Cardinality(Connected') <= Cardinality(Connected) /\ Cardinality(Connected) <= WatcherLimit
  BY <1>1, FS_Subset DEF StreamInv, ChangesReachWatchers
<1>. QED
  BY <1>1, <1>2, ChangeStreamAssumption, FS_CardinalityType

LEMMA StepTyped == StreamTyped /\ [StreamNext]_streamVars => StreamTyped'
<1>. SUFFICES ASSUME StreamTyped, [StreamNext]_streamVars PROVE StreamTyped'
  OBVIOUS
<1>. USE ChangeStreamAssumption DEF StreamTyped, Snapshot, Nothing
<1>1. CASE Publish
  BY <1>1 DEF Publish
<1>2. CASE Announce
  <2>1. sending' \in [Watchers -> Seq(Nat \X Nat)]
    BY <1>2 DEF Announce
  <2>2. watcher' \in [Watchers -> {"away", "open", "closing"}]
    BY <1>2 DEF Announce
  <2>. QED
    BY <1>2, <2>1, <2>2 DEF Announce
<1>3. CASE Heartbeat \/ CloseStream
  BY <1>3 DEF Heartbeat, CloseStream
<1>4. ASSUME NEW c \in Watchers, Connects(c) \/ WatcherTakes(c) PROVE StreamTyped'
  <2>1. sending' \in [Watchers -> Seq(Nat \X Nat)] /\ received' \in [Watchers -> Nat \X Nat]
    <3>1. CASE Connects(c)
      <4>1. <<Snapshot>> \in Seq(Nat \X Nat)
        OBVIOUS
      <4>. QED
        BY <3>1, <4>1 DEF Connects
    <3>2. CASE WatcherTakes(c)
      <4>1. Head(sending[c]) \in Nat \X Nat /\ Tail(sending[c]) \in Seq(Nat \X Nat)
        BY <3>2, HeadTailProperties DEF WatcherTakes
      <4>. QED
        BY <3>2, <4>1 DEF WatcherTakes
    <3>. QED
      BY <1>4, <3>1, <3>2
  <2>2. watcher' \in [Watchers -> {"away", "open", "closing"}] /\ UNCHANGED <<epoch, revision>>
    BY <1>4 DEF Connects, WatcherTakes
  <2>. QED
    BY <2>1, <2>2
<1>5. ASSUME NEW c \in Watchers, CutsOff(c) \/ Disconnected(c) \/ Pong(c) PROVE StreamTyped'
  <2>1. <<>> \in Seq(Nat \X Nat) /\ <<0, 0>> \in Nat \X Nat
    OBVIOUS
  <2>. QED
    BY <1>5, <2>1 DEF CutsOff, Disconnected, Pong
<1>6. CASE UNCHANGED streamVars
  BY <1>6 DEF streamVars
<1>. QED
  BY <1>1, <1>2, <1>3, <1>4, <1>5, <1>6 DEF StreamNext

LEMMA StepStream ==
  ASSUME StreamInv, [StreamNext]_streamVars
  PROVE  StreamInv'
<1>. DEFINE ToldNow(c) == LastTold(c) = Snapshot \/ announcing
<1>0. StreamTyped'
  BY StepTyped DEF StreamInv
<1>. SUFFICES /\ \A c \in Open' : ToldNow(c)'
              /\ (streamClosed => Open = {} /\ ~announcing)'
              /\ Cardinality(Connected') <= WatcherLimit
  BY <1>0 DEF StreamInv, ChangesReachWatchers
<1>. USE DEF StreamInv, StreamTyped, ChangesReachWatchers
<1>1. CASE Publish
  <2>1. Connected' = Connected /\ Open' = Open
    BY <1>1 DEF Publish, Connected, Open
  <2>2. \A c \in Open' : announcing'
    BY <1>1, <2>1 DEF Publish
  <2>. QED
    BY <1>1, <2>1, <2>2, FewerConnected DEF Publish
<1>2. CASE Announce
  <2>1. Connected' = Connected /\ Open' = {c \in Open : ~Backlogged(c)} /\ Snapshot' = Snapshot
    BY <1>2 DEF Announce, Connected, Open, Snapshot
  <2>2. ASSUME NEW c \in Open' PROVE LastTold(c)' = Snapshot'
    <3>1. c \in Watchers /\ sending'[c] = Append(sending[c], Snapshot) /\ Snapshot \in Nat \X Nat
      BY <1>2, <2>1, <2>2 DEF Announce, Open, Snapshot
    <3>2. sending[c] \in Seq(Nat \X Nat)
      BY <3>1
    <3>3. sending'[c] # <<>> /\ sending'[c][Len(sending'[c])] = Snapshot
      BY <3>1, <3>2, AppendProperties
    <3>. QED
      BY <2>1, <3>3 DEF LastTold
  <2>. QED
    BY <1>2, <2>1, <2>2, FewerConnected DEF Announce
<1>3. CASE Heartbeat \/ CloseStream
  <2>1. Connected' = Connected /\ Open' \subseteq Open /\ UNCHANGED <<epoch, revision, sending, received>>
    BY <1>3 DEF Heartbeat, CloseStream, Connected, Open
  <2>2. CloseStream => Open' = {} /\ ~announcing'
    BY DEF CloseStream, Open
  <2>3. Heartbeat => UNCHANGED <<announcing, streamClosed>> /\ ~streamClosed
    BY DEF Heartbeat
  <2>. QED
    BY <1>3, <2>1, <2>2, <2>3, FewerConnected DEF LastTold, Snapshot
<1>4. ASSUME NEW c \in Watchers, Connects(c)
      PROVE  /\ \A d \in Open' : ToldNow(d)' 
             /\ ~streamClosed' /\ Cardinality(Connected') <= WatcherLimit
  <2>1. Connected' = Connected \cup {c} /\ Open' = Open \cup {c} /\ c \notin Connected
    BY <1>4 DEF Connects, Connected, Open
  <2>2. Cardinality(Connected') <= WatcherLimit
    <3>1. IsFiniteSet(Connected)
      BY FS_Subset, WatchersAssumption DEF Connected
    <3>2. Cardinality(Connected') = Cardinality(Connected) + 1 /\ Cardinality(Connected) \in Nat
      BY <2>1, <3>1, FS_AddElement, FS_CardinalityType
    <3>. QED
      BY <1>4, <3>2, ChangeStreamAssumption DEF Connects
  <2>3. ASSUME NEW d \in Open' PROVE ToldNow(d)'
    <3>1. CASE d = c
      <4>1. sending'[c] = <<Snapshot>> /\ Snapshot' = Snapshot
        BY <1>4 DEF Connects, Snapshot
      <4>. QED
        BY <3>1, <4>1 DEF LastTold
    <3>2. CASE d # c
      <4>1. d \in Open /\ sending'[d] = sending[d] /\ received'[d] = received[d]
        BY <1>4, <2>1, <2>3, <3>2 DEF Connects, Open
      <4>. QED
        BY <1>4, <4>1 DEF Connects, LastTold, Snapshot
    <3>. QED
      BY <3>1, <3>2
  <2>. QED
    BY <1>4, <2>2, <2>3 DEF Connects
<1>5. ASSUME NEW c \in Watchers, WatcherTakes(c)
      PROVE  \A d \in Open' : ToldNow(d)'
  <2>1. UNCHANGED <<epoch, revision, announcing, watcher>> /\ Open' = Open /\ Snapshot' = Snapshot
    BY <1>5 DEF WatcherTakes, Open, Snapshot
  <2>2. ASSUME NEW d \in Open PROVE LastTold(d)' = LastTold(d)
    <3>1. CASE d = c
      <4>1. /\ sending[c] \in Seq(Nat \X Nat) /\ sending[c] # <<>>
            /\ sending'[c] = Tail(sending[c]) /\ received'[c] = Head(sending[c])
        BY <1>5 DEF WatcherTakes
      <4>2. /\ Tail(sending[c]) = <<>> => sending[c][Len(sending[c])] = Head(sending[c])
            /\ Tail(sending[c]) # <<>> =>
                 Tail(sending[c])[Len(Tail(sending[c]))] = sending[c][Len(sending[c])]
        BY <4>1, LastTaken
      <4>. QED
        BY <3>1, <4>1, <4>2 DEF LastTold
    <3>2. CASE d # c
      BY <1>5, <2>2, <3>2 DEF WatcherTakes, LastTold, Open
    <3>. QED
      BY <3>1, <3>2
  <2>. QED
    BY <2>1, <2>2
<1>6. ASSUME NEW c \in Watchers, CutsOff(c) \/ Disconnected(c) \/ Pong(c)
      PROVE  /\ \A d \in Open' : ToldNow(d)' 
             /\ Open' \subseteq Open /\ Connected' \subseteq Connected /\ UNCHANGED <<streamClosed, announcing>>
  <2>1. /\ Open' \subseteq Open /\ Connected' \subseteq Connected
        /\ UNCHANGED <<epoch, revision, streamClosed, announcing>>
    BY <1>6 DEF CutsOff, Disconnected, Pong, Open, Connected
  <2>2. \A d \in Open' : sending'[d] = sending[d] /\ received'[d] = received[d]
    BY <1>6 DEF CutsOff, Disconnected, Pong, Open
  <2>. QED
    BY <2>1, <2>2 DEF LastTold, Snapshot
<1>7. CASE UNCHANGED streamVars
  BY <1>7 DEF streamVars, LastTold, Snapshot, Open, Connected
<1>8. ASSUME NEW c \in Watchers, WatcherTakes(c)
      PROVE  UNCHANGED <<streamClosed, announcing>> /\ Open' = Open /\ Connected' = Connected
  BY <1>8 DEF WatcherTakes, Open, Connected
<1>. QED
  BY <1>1, <1>2, <1>3, <1>4, <1>5, <1>6, <1>7, <1>8, FewerConnected DEF StreamNext

(* No change is missed by a client that stays connected: attach, upgrade   *)
(* and send of RunnerChangeTransport over RunnerChanges.                   *)
THEOREM ChangesReachWatchersHold == StreamSpec => []ChangesReachWatchers
<1>1. StreamInit => StreamInv
  <2>. SUFFICES ASSUME StreamInit PROVE StreamInv
    OBVIOUS
  <2>1. Connected = {} /\ Open = {}
    BY DEF StreamInit, Connected, Open
  <2>2. Cardinality(Connected) <= WatcherLimit
    BY <2>1, FS_EmptySet, ChangeStreamAssumption
  <2>. QED
    BY <2>1, <2>2 DEF StreamInit, StreamInv, StreamTyped, ChangesReachWatchers, Nothing
<1>2. StreamInv /\ [StreamNext]_streamVars => StreamInv'
  BY StepStream
<1>3. StreamInv => ChangesReachWatchers
  BY DEF StreamInv
<1>. QED
  BY <1>1, <1>2, <1>3, PTL DEF StreamSpec

(***************************************************************************)
(* StorageCalls                                                            *)
(***************************************************************************)
(* Posted requests and replies on their way; the request to close is the   *)
(* last of either, and behind it nothing is on its way to the worker.      *)
CallIds == StorageRequests \cup {CloseRequest}
Posted(r) == \E k \in 1..Len(inbox) : inbox[k] = r
Replied(r) == \E k \in 1..Len(outbox) : outbox[k][1] = r
CloseLast ==
  /\ \A k \in 1..Len(inbox) : inbox[k] = CloseRequest => k = Len(inbox)
  /\ \A k \in 1..Len(outbox) : outbox[k][1] = CloseRequest => k = Len(outbox)
  /\ Replied(CloseRequest) => worker = "gone" /\ inbox = <<>>
  /\ Posted(CloseRequest) \/ Replied(CloseRequest) => storageClosed

(* A call that waits has been posted or answered, as long as the worker    *)
(* lives and once the close has been answered.                             *)
WaitingKnown ==
  /\ worker # "gone" => \A r \in Waiting : Posted(r) \/ Replied(r)
  /\ Replied(CloseRequest) => \A r \in Waiting : Replied(r)
  /\ storageClosed /\ closing # "pending" => Waiting = {}
  /\ closing # "no" => storageClosed
  /\ exitSeen => storageClosed /\ closing # "pending"

(* What was answered well has been made before.                            *)
MadeBefore ==
  /\ \A k \in 1..Len(outbox) : outbox[k][2] /\ outbox[k][1] \in ChangeRequests => outbox[k][1] \in stored
  /\ handling = "done" /\ inbox[1] \in ChangeRequests => inbox[1] \in stored
  /\ handling # "nothing" => inbox # <<>>

CallsInv ==
  /\ StorageTypeOK /\ CloseLast /\ WaitingKnown /\ MadeBefore
  /\ \A r \in ChangeRequests : requests[r] = "answered" => r \in announced

ReplyPairs == CallIds \X BOOLEAN

LEMMA CallsTyped ==
  ASSUME CallsInv
  PROVE  /\ inbox \in Seq(CallIds) /\ outbox \in Seq(ReplyPairs) /\ Len(inbox) \in Nat /\ Len(outbox) \in Nat
         /\ inbox = <<>> <=> Len(inbox) = 0
         /\ outbox = <<>> <=> Len(outbox) = 0
         /\ \A k \in 1..Len(inbox) : inbox[k] \in CallIds
         /\ \A k \in 1..Len(outbox) : outbox[k] \in ReplyPairs
         /\ \A r \in Waiting : r \in StorageRequests /\ r # CloseRequest
  BY LenProperties, EmptySeq, ElementOfSeq, StorageAssumption
     DEF CallsInv, StorageTypeOK, CallIds, ReplyPairs, Waiting, CloseRequest

LEMMA InitCalls == StorageInit => CallsInv
<1>. SUFFICES ASSUME StorageInit PROVE CallsInv
  OBVIOUS
<1>1. inbox \in Seq(CallIds) /\ outbox \in Seq(ReplyPairs) /\ Len(inbox) = 0 /\ Len(outbox) = 0
  BY EmptySeq DEF StorageInit
<1>2. Waiting = {} /\ ~Posted(CloseRequest) /\ ~Replied(CloseRequest)
  BY <1>1 DEF StorageInit, Waiting, Posted, Replied
<1>3. StorageTypeOK
  BY <1>1 DEF StorageInit, StorageTypeOK, CallIds, ReplyPairs
<1>4. CloseLast /\ WaitingKnown
  BY <1>1, <1>2 DEF StorageInit, CloseLast, WaitingKnown
<1>5. MadeBefore
  BY <1>1 DEF StorageInit, MadeBefore
<1>6. \A r \in ChangeRequests : requests[r] # "answered"
  BY StorageAssumption DEF StorageInit
<1>. QED
  BY <1>3, <1>4, <1>5, <1>6 DEF CallsInv

LEMMA MakesCallKeeps == ASSUME CallsInv, NEW r \in StorageRequests, MakesCall(r) PROVE CallsInv'
<1>1. /\ UNCHANGED <<worker, handling, outbox, storageClosed, exitSeen, closing, stored, announced>>
      /\ requests \in [StorageRequests -> {"new", "pending", "answered", "error", "busy", "unavailable"}]
      /\ r \in CallIds /\ r # CloseRequest /\ requests[r] = "new"
  BY StorageAssumption DEF MakesCall, CallsInv, StorageTypeOK, CallIds, CloseRequest
<1>2. CASE UNCHANGED inbox /\ \E s \in {"unavailable", "busy"} : requests' = [requests EXCEPT ![r] = s]
  <2>1. /\ requests' \in [StorageRequests -> {"new", "pending", "answered", "error", "busy", "unavailable"}]
        /\ Waiting' = Waiting /\ \A q \in StorageRequests : requests'[q] = "answered" => requests[q] = "answered"
    BY <1>1, <1>2 DEF Waiting
  <2>2. StorageTypeOK'
    BY <1>1, <1>2, <2>1 DEF CallsInv, StorageTypeOK
  <2>3. CloseLast' /\ WaitingKnown' /\ MadeBefore'
    BY <1>1, <1>2, <2>1 DEF CallsInv, CloseLast, WaitingKnown, MadeBefore, Posted, Replied
  <2>. QED
    BY <1>1, <2>1, <2>2, <2>3, StorageAssumption DEF CallsInv
<1>3. CASE ~storageClosed /\ requests' = [requests EXCEPT ![r] = "pending"] /\ inbox' = Append(inbox, r)
  <2>1. /\ requests' \in [StorageRequests -> {"new", "pending", "answered", "error", "busy", "unavailable"}]
        /\ Waiting' = Waiting \cup {r} /\ \A q \in StorageRequests : requests'[q] = "answered" => requests[q] = "answered"
    BY <1>1, <1>3 DEF Waiting
  <2>2. /\ inbox' \in Seq(CallIds) /\ Len(inbox') = Len(inbox) + 1 /\ Len(inbox) \in Nat
        /\ \A k \in 1..Len(inbox) : inbox'[k] = inbox[k]
        /\ inbox'[Len(inbox) + 1] = r
    BY <1>1, <1>3, CallsTyped, AppendMembers
  <2>3. \A k \in 1..Len(inbox') : k \in 1..Len(inbox) \/ k = Len(inbox) + 1
    BY <2>2
  <2>4. /\ ~Posted(CloseRequest) /\ ~Replied(CloseRequest)
    BY <1>3 DEF CallsInv, CloseLast
  <2>5. /\ ~Posted(CloseRequest)' /\ ~Replied(CloseRequest)' /\ Posted(r)'
        /\ \A q : (Posted(q) => Posted(q)') /\ (Replied(q)' <=> Replied(q))
    BY <1>1, <2>2, <2>3, <2>4 DEF Posted, Replied
  <2>6. StorageTypeOK'
    BY <1>1, <2>1, <2>2 DEF CallsInv, StorageTypeOK, CallIds
  <2>7. CloseLast'
    BY <1>1, <2>5 DEF CallsInv, CloseLast, Posted, Replied
  <2>8. WaitingKnown'
    BY <1>1, <1>3, <2>1, <2>4, <2>5 DEF CallsInv, WaitingKnown
  <2>9. MadeBefore'
    <3>1. handling # "nothing" => 1 \in 1..Len(inbox)
      BY <2>2, CallsTyped DEF CallsInv, MadeBefore
    <3>2. inbox' # <<>>
      BY <2>2, EmptySeq
    <3>. QED
      BY <1>1, <2>2, <3>1, <3>2 DEF CallsInv, MadeBefore
  <2>. QED
    BY <1>1, <2>1, <2>6, <2>7, <2>8, <2>9, StorageAssumption DEF CallsInv
<1>. QED
  BY <1>2, <1>3 DEF MakesCall

LEMMA ClosesStorageKeeps == ASSUME CallsInv, ClosesStorage PROVE CallsInv'
<1>1. /\ UNCHANGED <<worker, handling, outbox, requests, exitSeen, stored, announced>> /\ Waiting' = Waiting
      /\ closing = "no"
  BY DEF ClosesStorage, Waiting
<1>2. CASE storageClosed /\ closing' = "terminating" /\ UNCHANGED <<inbox, storageClosed>>
  <2>1. StorageTypeOK' /\ CloseLast' /\ WaitingKnown' /\ MadeBefore'
    BY <1>1, <1>2 DEF CallsInv, StorageTypeOK, CloseLast, WaitingKnown, MadeBefore, Posted, Replied
  <2>. QED
    BY <1>1, <2>1 DEF CallsInv
<1>3. CASE ~storageClosed /\ storageClosed' = TRUE /\ closing' = "pending" /\ inbox' = Append(inbox, CloseRequest)
  <2>2. /\ inbox' \in Seq(CallIds) /\ Len(inbox') = Len(inbox) + 1 /\ Len(inbox) \in Nat
        /\ \A k \in 1..Len(inbox) : inbox'[k] = inbox[k]
    BY <1>3, CallsTyped, AppendMembers DEF CallIds
  <2>3. \A k \in 1..Len(inbox') : k \in 1..Len(inbox) \/ k = Len(inbox')
    BY <2>2
  <2>4. /\ ~Posted(CloseRequest) /\ ~Replied(CloseRequest)
    BY <1>3 DEF CallsInv, CloseLast
  <2>5. /\ ~Replied(CloseRequest)' /\ \A q : (Posted(q) => Posted(q)') /\ (Replied(q)' <=> Replied(q))
    BY <1>1, <2>2, <2>4 DEF Posted, Replied
  <2>6. StorageTypeOK'
    BY <1>1, <1>3, <2>2 DEF CallsInv, StorageTypeOK, CallIds
  <2>7. CloseLast'
    BY <1>1, <1>3, <2>2, <2>3, <2>4, <2>5 DEF CallsInv, CloseLast, Posted, Replied
  <2>8. WaitingKnown'
    BY <1>1, <1>3, <2>5 DEF CallsInv, WaitingKnown
  <2>9. MadeBefore'
    <3>1. handling # "nothing" => 1 \in 1..Len(inbox)
      BY <2>2, CallsTyped DEF CallsInv, MadeBefore
    <3>2. inbox' # <<>>
      BY <2>2, EmptySeq
    <3>. QED
      BY <1>1, <2>2, <3>1, <3>2 DEF CallsInv, MadeBefore
  <2>. QED
    BY <1>1, <2>6, <2>7, <2>8, <2>9 DEF CallsInv
<1>. QED
  BY <1>2, <1>3 DEF ClosesStorage

LEMMA WorkerHandlesKeeps == ASSUME CallsInv, WorkerHandles PROVE CallsInv'
<1>1. /\ UNCHANGED <<worker, inbox, outbox, requests, storageClosed, exitSeen, closing, announced>> /\ inbox # <<>>
      /\ Waiting' = Waiting
  BY DEF WorkerHandles, Waiting
<1>2. inbox[1] = Head(inbox) /\ inbox[1] \in CallIds
  BY <1>1, CallsTyped, TailMembers
<1>3. \/ handling' = "done" /\ stored' = stored \cup {q \in {inbox[1]} : q \in ChangeRequests}
      \/ handling' = "threw" /\ UNCHANGED stored
  BY <1>2 DEF WorkerHandles, ChangesInventory
<1>4. StorageTypeOK' /\ stored \subseteq stored'
  BY <1>1, <1>3 DEF CallsInv, StorageTypeOK
<1>5. CloseLast' /\ WaitingKnown'
  BY <1>1 DEF CallsInv, CloseLast, WaitingKnown, Posted, Replied
<1>6. MadeBefore'
  BY <1>1, <1>3, <1>4 DEF CallsInv, MadeBefore
<1>. QED
  BY <1>1, <1>4, <1>5, <1>6 DEF CallsInv

LEMMA WorkerRepliesKeeps == ASSUME CallsInv, WorkerReplies PROVE CallsInv'
<1>1. /\ UNCHANGED <<requests, storageClosed, exitSeen, closing, stored, announced>> /\ Waiting' = Waiting
      /\ inbox # <<>> /\ worker = "up" /\ handling # "nothing" /\ handling' = "nothing" /\ inbox' = Tail(inbox)
      /\ worker' = IF Head(inbox) = CloseRequest THEN "gone" ELSE worker
  BY DEF WorkerReplies, Waiting, CallsInv, MadeBefore
<1>2. /\ inbox' \in Seq(CallIds) /\ Len(inbox') = Len(inbox) - 1 /\ Len(inbox) \in Nat \ {0}
      /\ \A k \in 1..Len(inbox') : inbox'[k] = inbox[k + 1]
      /\ Head(inbox) = inbox[1] /\ inbox[1] \in CallIds
  BY <1>1, CallsTyped, TailMembers
<1>3. PICK e : e = <<inbox[1], handling = "done">>
  OBVIOUS
<1>4. e \in ReplyPairs /\ e[1] = inbox[1] /\ (e[2] => handling = "done") /\ outbox' = Append(outbox, e)
  <2>. DEFINE b == handling = "done"
  <2>1. b \in BOOLEAN /\ (b => handling = "done") /\ e = <<inbox[1], b>> /\ outbox' = Append(outbox, <<inbox[1], b>>)
    BY <1>2, <1>3 DEF WorkerReplies
  <2>. HIDE DEF b
  <2>. QED
    BY <1>2, <2>1 DEF ReplyPairs
<1>5. /\ outbox' \in Seq(ReplyPairs) /\ Len(outbox') = Len(outbox) + 1 /\ Len(outbox) \in Nat
      /\ \A k \in 1..Len(outbox) : outbox'[k] = outbox[k]
      /\ outbox'[Len(outbox) + 1] = e
  BY <1>4, CallsTyped, AppendMembers
<1>6. /\ \A k \in 1..Len(outbox') : k \in 1..Len(outbox) \/ k = Len(outbox) + 1
      /\ \A k \in 1..Len(inbox') : k + 1 \in 1..Len(inbox) /\ k + 1 # 1
      /\ \A k \in 1..Len(inbox) : k = 1 \/ (k - 1 \in 1..Len(inbox') /\ inbox'[k - 1] = inbox[k])
      /\ 1 \in 1..Len(inbox)
  BY <1>2, <1>5
<1>7. /\ \A q : Replied(q)' <=> Replied(q) \/ q = inbox[1]
      /\ \A q : Posted(q)' => Posted(q)
      /\ \A q : Posted(q) => Posted(q)' \/ q = inbox[1]
  <2>1. \A q : Replied(q)' <=> Replied(q) \/ q = inbox[1]
    BY <1>4, <1>5, <1>6 DEF Replied
  <2>2. \A q : Posted(q)' => Posted(q)
    BY <1>2, <1>6 DEF Posted
  <2>3. \A q : Posted(q) => Posted(q)' \/ q = inbox[1]
    BY <1>6 DEF Posted
  <2>. QED
    BY <2>1, <2>2, <2>3
<1>8. ~Replied(CloseRequest) /\ Posted(inbox[1])
  BY <1>1, <1>6 DEF CallsInv, CloseLast, Posted
<1>9. inbox[1] = CloseRequest => Len(inbox) = 1 /\ inbox' = <<>>
  <2>1. inbox[1] = CloseRequest => Len(inbox) = 1
    BY <1>6 DEF CallsInv, CloseLast
  <2>4. Len(inbox) = 1 => Len(inbox') = 0
    BY <1>2
  <2>2. inbox[1] = CloseRequest => Len(inbox') = 0
    BY <2>1, <2>4
  <2>3. inbox' = <<>> <=> Len(inbox') = 0
    BY <1>2, EmptySeq
  <2>. QED
    BY <2>1, <2>2, <2>3
<1>10. StorageTypeOK'
  BY <1>1, <1>2, <1>5 DEF CallsInv, StorageTypeOK, CallIds, ReplyPairs
<1>11. CloseLast'
  <2>1. \A k \in 1..Len(inbox') : inbox'[k] = CloseRequest => k = Len(inbox')
    BY <1>2, <1>6 DEF CallsInv, CloseLast
  <2>2. \A k \in 1..Len(outbox') : outbox'[k][1] = CloseRequest => k = Len(outbox')
    BY <1>5, <1>6, <1>8 DEF Replied
  <2>3. Replied(CloseRequest)' => worker' = "gone" /\ inbox' = <<>>
    BY <1>1, <1>2, <1>7, <1>8, <1>9
  <2>4. Posted(CloseRequest)' \/ Replied(CloseRequest)' => storageClosed'
    BY <1>1, <1>7, <1>8 DEF CallsInv, CloseLast
  <2>. QED
    BY <2>1, <2>2, <2>3, <2>4 DEF CloseLast
<1>12. WaitingKnown'
  <2>1. \A r \in Waiting : Posted(r) \/ Replied(r)
    BY <1>1 DEF CallsInv, WaitingKnown
  <2>2. \A r \in Waiting : Posted(r)' \/ Replied(r)'
    BY <1>7, <2>1
  <2>3. Replied(CloseRequest)' => \A q : ~Posted(q)'
    <3>1. Replied(CloseRequest)' => Len(inbox') = 0
      BY <1>2, <1>7, <1>8, <1>9
    <3>. QED
      BY <3>1 DEF Posted
  <2>. QED
    BY <1>1, <2>2, <2>3 DEF CallsInv, WaitingKnown
<1>13. MadeBefore'
  BY <1>1, <1>4, <1>5, <1>6 DEF CallsInv, MadeBefore
<1>. QED
  BY <1>1, <1>10, <1>11, <1>12, <1>13 DEF CallsInv

LEMMA ReplyArrivesKeeps == ASSUME CallsInv, ReplyArrives PROVE CallsInv'
<1>1. PICK r, ok : r = outbox[1][1] /\ ok = outbox[1][2]
  OBVIOUS
<1>2. /\ outbox' \in Seq(ReplyPairs) /\ Len(outbox') = Len(outbox) - 1 /\ Len(outbox) \in Nat \ {0}
      /\ \A k \in 1..Len(outbox') : outbox'[k] = outbox[k + 1]
      /\ Head(outbox) = outbox[1] /\ outbox[1] \in ReplyPairs
  BY CallsTyped, TailMembers DEF ReplyArrives
<1>3. /\ requests' = IF r \in Waiting THEN [requests EXCEPT ![r] = IF ok THEN "answered" ELSE "error"] ELSE requests
      /\ announced' = IF ok /\ r \in Waiting /\ r \in ChangeRequests THEN announced \cup {r} ELSE announced
      /\ closing' = IF r = CloseRequest /\ closing = "pending" THEN "terminating" ELSE closing
      /\ UNCHANGED <<worker, handling, inbox, storageClosed, exitSeen, stored>>
  BY <1>1, <1>2 DEF ReplyArrives, ChangesInventory
<1>4. r \in CallIds /\ ok \in BOOLEAN
  BY <1>1, <1>2 DEF ReplyPairs
<1>5. /\ requests' \in [StorageRequests -> {"new", "pending", "answered", "error", "busy", "unavailable"}]
      /\ Waiting' = Waiting \ {r}
      /\ \A q \in StorageRequests : requests'[q] = "answered" => requests[q] = "answered" \/ (q = r /\ r \in Waiting /\ ok)
  BY <1>3 DEF CallsInv, StorageTypeOK, Waiting
<1>6. /\ \A k \in 1..Len(outbox') : k + 1 \in 1..Len(outbox)
      /\ \A k \in 1..Len(outbox) : k = 1 \/ (k - 1 \in 1..Len(outbox') /\ outbox'[k - 1] = outbox[k])
      /\ 1 \in 1..Len(outbox)
  BY <1>2
<1>7. /\ \A q : Replied(q) => Replied(q)' \/ q = r
      /\ \A q : Replied(q)' => Replied(q)
      /\ \A q : Posted(q)' <=> Posted(q)
  <2>1. \A q : Replied(q) => Replied(q)' \/ q = r
    BY <1>1, <1>6 DEF Replied
  <2>2. \A q : Replied(q)' => Replied(q)
    BY <1>2, <1>6 DEF Replied
  <2>. QED
    BY <1>3, <2>1, <2>2 DEF Posted
<1>8. Replied(r) /\ (r = CloseRequest => Waiting = {} /\ \A q : ~Replied(q)')
  <2>1. Replied(r)
    BY <1>1, <1>6 DEF Replied
  <2>2. r = CloseRequest => Len(outbox) = 1
    BY <1>1, <1>6 DEF CallsInv, CloseLast
  <2>3. r = CloseRequest => \A q \in Waiting : q = r
    <3>1. r = CloseRequest => \A q \in Waiting : Replied(q)
      BY <2>1 DEF CallsInv, WaitingKnown
    <3>2. Len(outbox) = 1 => \A q : Replied(q) => q = outbox[1][1]
      <4>1. Len(outbox) = 1 => \A k \in 1..Len(outbox) : k = 1
        BY <1>2
      <4>. QED
        BY <4>1 DEF Replied
    <3>. QED
      BY <1>1, <2>2, <3>1, <3>2
  <2>4. r = CloseRequest => \A q : ~Replied(q)'
    <3>1. Len(outbox) = 1 => \A k \in 1..Len(outbox') : FALSE
      BY <1>2
    <3>. QED
      BY <2>2, <3>1 DEF Replied
  <2>. QED
    BY <2>1, <2>3, <2>4, CallsTyped
<1>9. ok /\ r \in ChangeRequests => r \in stored
  BY <1>1, <1>6 DEF CallsInv, MadeBefore
<1>10. StorageTypeOK'
  BY <1>2, <1>3, <1>5, <1>9 DEF CallsInv, StorageTypeOK, CallIds, ReplyPairs
<1>11. CloseLast'
  <2>1. \A k \in 1..Len(outbox') : outbox'[k][1] = CloseRequest => k = Len(outbox')
    BY <1>2, <1>6 DEF CallsInv, CloseLast
  <2>. QED
    BY <1>3, <1>7, <2>1 DEF CallsInv, CloseLast
<1>12. WaitingKnown'
  BY <1>3, <1>5, <1>7, <1>8 DEF CallsInv, WaitingKnown
<1>13. MadeBefore'
  BY <1>2, <1>3, <1>6 DEF CallsInv, MadeBefore
<1>14. \A q \in ChangeRequests : requests'[q] = "answered" => q \in announced'
  BY <1>3, <1>5, StorageAssumption DEF CallsInv
<1>. QED
  BY <1>10, <1>11, <1>12, <1>13, <1>14 DEF CallsInv

(* fail: nobody waits any more.                                            *)
LEMMA FailsCallsKeeps ==
  ASSUME CallsInv, FailsCalls, UNCHANGED <<worker, handling, inbox, outbox, stored, announced>>,
         exitSeen' \in BOOLEAN
  PROVE  CallsInv'
<1>1. /\ requests' \in [StorageRequests -> {"new", "pending", "answered", "error", "busy", "unavailable"}]
      /\ Waiting' = {} /\ \A q \in StorageRequests : requests'[q] = "answered" => requests[q] = "answered"
  BY DEF FailsCalls, CallsInv, StorageTypeOK, Waiting
<1>2. storageClosed' /\ storageClosed' \in BOOLEAN /\ closing' \in {"no", "terminating", "returned"}
  BY DEF FailsCalls, CallsInv, StorageTypeOK
<1>3. StorageTypeOK'
  BY <1>1, <1>2 DEF CallsInv, StorageTypeOK
<1>4. CloseLast' /\ WaitingKnown' /\ MadeBefore'
  BY <1>1, <1>2 DEF CallsInv, CloseLast, WaitingKnown, MadeBefore, Posted, Replied
<1>. QED
  BY <1>1, <1>3, <1>4, StorageAssumption DEF CallsInv

LEMMA WorkerDiesKeeps == ASSUME CallsInv, WorkerDies PROVE CallsInv'
<1>1. /\ worker = "up" /\ worker' = "gone" /\ handling' = "nothing" /\ inbox' = <<>> /\ Waiting' = Waiting
      /\ UNCHANGED <<requests, storageClosed, exitSeen, closing, stored, announced>>
      /\ outbox' = outbox \/ outbox' = <<>>
  BY DEF WorkerDies, Waiting
<1>2. Len(inbox') = 0 /\ inbox' \in Seq(CallIds)
  BY <1>1, EmptySeq
<1>3. outbox' = outbox \/ (outbox' \in Seq(ReplyPairs) /\ Len(outbox') = 0)
  BY <1>1, EmptySeq
<1>4. ~Replied(CloseRequest) /\ ~Replied(CloseRequest)' /\ ~Posted(CloseRequest)'
  BY <1>1, <1>2, <1>3 DEF CallsInv, CloseLast, Replied, Posted
<1>5. StorageTypeOK'
  BY <1>1, <1>2, <1>3 DEF CallsInv, StorageTypeOK, CallIds, ReplyPairs
<1>6. CloseLast'
  BY <1>1, <1>2, <1>3, <1>4 DEF CallsInv, CloseLast, Replied, Posted
<1>7. WaitingKnown'
  BY <1>1, <1>4 DEF CallsInv, WaitingKnown
<1>8. MadeBefore'
  BY <1>1, <1>3 DEF CallsInv, MadeBefore
<1>. QED
  BY <1>1, <1>5, <1>6, <1>7, <1>8 DEF CallsInv

LEMMA StepCalls == CallsInv /\ [StorageNext]_storageVars => CallsInv'
<1>. SUFFICES ASSUME CallsInv, [StorageNext]_storageVars PROVE CallsInv'
  OBVIOUS
<1>1. CASE UNCHANGED storageVars
  BY <1>1 DEF storageVars, CallsInv, StorageTypeOK, CloseLast, WaitingKnown, MadeBefore, Posted, Replied, Waiting
<1>2. CASE StorageOpens
  BY <1>2 DEF StorageOpens, CallsInv, StorageTypeOK, CloseLast, WaitingKnown, MadeBefore, Posted, Replied, Waiting
<1>3. CASE CallTimesOut \/ ExitReported
  <2>1. exitSeen' \in BOOLEAN
    BY <1>3 DEF CallTimesOut, ExitReported, CallsInv, StorageTypeOK
  <2>. QED
    BY <1>3, <2>1, FailsCallsKeeps DEF CallTimesOut, ExitReported
<1>4. CASE CloseReturns
  BY <1>4 DEF CloseReturns, CallsInv, StorageTypeOK, CloseLast, WaitingKnown, MadeBefore, Posted, Replied, Waiting
<1>. QED
  BY <1>1, <1>2, <1>3, <1>4, MakesCallKeeps, ClosesStorageKeeps, WorkerHandlesKeeps, WorkerRepliesKeeps,
     ReplyArrivesKeeps, WorkerDiesKeeps DEF StorageNext

(* CallersToldTheTruth, for any number of requests.                        *)
THEOREM CallersToldTheTruthHolds == StorageSpec => []CallersToldTheTruth
<1>1. CallsInv => CallersToldTheTruth
  BY DEF CallsInv, WaitingKnown, CallersToldTheTruth
<1>. QED
  BY <1>1, InitCalls, StepCalls, PTL DEF StorageSpec

(***************************************************************************)
(* Terminals                                                               *)
(***************************************************************************)
(* An opening has no shell before it spawns one, one that is not attached  *)
(* is still being opened, one whose session has gone could not be closed,  *)
(* and of a place no other is opened meanwhile.                            *)
Fresh(o) == o \notin terminals /\ o \notin shells /\ o \notin exited /\ o \notin attached
OpeningSound(o) ==
  /\ opening[o] \in {"none", "resolving"} => Fresh(o)
  /\ opening[o] = "validating" => o \notin shells /\ o \notin exited
  /\ o \in shells => /\ o \notin exited
                     /\ \/ o \in attached /\ o \in terminals
                        \/ opening[o] \in {"spawning", "revalidating"}
                        \/ o \in unclosed
  /\ o \in shells /\ o \notin attached => opening[o] = "spawning"
PlacesSound ==
  /\ \A o, s \in Openings : o \in InProgress /\ s \in InProgress /\ place[s] = place[o] => s = o
  /\ \A o, s \in Openings : o \in InProgress /\ s \in terminals \ exited /\ place[s] = place[o] => s = o
  /\ \A o, s \in terminals \ exited : place[s] = place[o] => s = o
WithinLimit ==
  /\ IsFiniteSet(terminals) /\ IsFiniteSet(InProgress)
  /\ Cardinality(terminals \cup InProgress) <= SessionLimit
TerminalInv == TerminalTypeOK /\ (\A o \in Openings : OpeningSound(o)) /\ PlacesSound /\ WithinLimit

LEMMA InitTerminals == TerminalInit => TerminalInv
<1>. SUFFICES ASSUME TerminalInit PROVE TerminalInv
  OBVIOUS
<1>1. TerminalTypeOK
  BY DEF TerminalInit, TerminalTypeOK
<1>2. InProgress = {} /\ terminals = {} /\ \A o \in Openings : OpeningSound(o)
  BY DEF TerminalInit, InProgress, OpeningSound, Fresh
<1>3. WithinLimit
  BY <1>2, FS_EmptySet, TerminalAssumption DEF WithinLimit
<1>. QED
  BY <1>1, <1>2, <1>3 DEF TerminalInv, PlacesSound

(* Sessions leave and openings end.                                        *)
LEMMA Shrinks ==
  ASSUME WithinLimit, terminals' \subseteq terminals \cup InProgress, InProgress' \subseteq InProgress
  PROVE  WithinLimit'
<1>1. IsFiniteSet(terminals \cup InProgress) /\ terminals' \cup InProgress' \subseteq terminals \cup InProgress
  BY FS_Union DEF WithinLimit
<1>2. /\ IsFiniteSet(terminals') /\ IsFiniteSet(InProgress')
      /\ Cardinality(terminals' \cup InProgress') <= Cardinality(terminals \cup InProgress)
      /\ Cardinality(terminals' \cup InProgress') \in Nat /\ Cardinality(terminals \cup InProgress) \in Nat
  BY <1>1, FS_Subset, FS_CardinalityType
<1>. QED
  BY <1>2, TerminalAssumption DEF WithinLimit

LEMMA OpensKeeps ==
  ASSUME NEW o \in Openings, NEW idle \in SUBSET terminals, TerminalInv, Opens(o, idle)
  PROVE  TerminalInv'
<1>1. /\ opening[o] = "none" /\ Fresh(o) /\ Live(place[o]) = {} /\ o \notin InProgress
      /\ \A other \in InProgress : place[other] # place[o]
      /\ terminals' = terminals \ idle /\ shells' \subseteq shells
      /\ unclosed \subseteq unclosed' /\ unclosed' \subseteq Openings
      /\ \A s \in shells' \cap idle \cap attached : s \in unclosed'
      /\ UNCHANGED <<place, exited, attached, terminalsClosed>>
  BY DEF Opens, Removes, TerminalTypeOK, TerminalInv, OpeningSound, InProgress
<1>2. \/ opening' = [opening EXCEPT ![o] = "over"]
      \/ /\ opening' = [opening EXCEPT ![o] = "resolving"]
         /\ Cardinality(terminals') + Cardinality(InProgress) < SessionLimit
  BY DEF Opens, OpeningGoes
<1>3. TerminalTypeOK'
  BY <1>1, <1>2 DEF TerminalInv, TerminalTypeOK
<1>4. \A s \in Openings : OpeningSound(s)'
  BY <1>1, <1>2 DEF TerminalInv, TerminalTypeOK, OpeningSound, Fresh
<1>5. PlacesSound'
  BY <1>1, <1>2 DEF TerminalInv, TerminalTypeOK, PlacesSound, InProgress, Live
<1>6. WithinLimit'
  <2>1. CASE opening' = [opening EXCEPT ![o] = "over"]
    <3>1. InProgress' = InProgress
      BY <1>1, <2>1 DEF InProgress, TerminalInv, TerminalTypeOK
    <3>. QED
      BY <1>1, <3>1, Shrinks DEF TerminalInv
  <2>2. CASE /\ opening' = [opening EXCEPT ![o] = "resolving"]
             /\ Cardinality(terminals') + Cardinality(InProgress) < SessionLimit
    <3>1. InProgress' = InProgress \cup {o}
      BY <2>2 DEF InProgress, TerminalInv, TerminalTypeOK
    <3>2. IsFiniteSet(terminals') /\ IsFiniteSet(InProgress)
      BY <1>1, FS_Subset DEF TerminalInv, WithinLimit
    <3>3. /\ IsFiniteSet(InProgress') /\ Cardinality(InProgress') = Cardinality(InProgress) + 1
          /\ Cardinality(InProgress) \in Nat /\ Cardinality(terminals') \in Nat
      BY <1>1, <3>1, <3>2, FS_AddElement, FS_CardinalityType
    <3>4. /\ Cardinality(terminals' \cup InProgress') <= Cardinality(terminals') + Cardinality(InProgress')
      <4>1. /\ IsFiniteSet(terminals' \cup InProgress') /\ IsFiniteSet(terminals' \cap InProgress')
            /\ Cardinality(terminals' \cup InProgress') =
                 Cardinality(terminals') + Cardinality(InProgress') - Cardinality(terminals' \cap InProgress')
        BY <3>2, <3>3, FS_Union, FS_Intersection
      <4>2. Cardinality(terminals' \cap InProgress') \in Nat /\ Cardinality(terminals' \cup InProgress') \in Nat
        BY <4>1, FS_CardinalityType
      <4>. QED
        BY <3>3, <4>1, <4>2
    <3>5. Cardinality(terminals' \cup InProgress') \in Nat
      BY <3>2, <3>3, FS_Union, FS_CardinalityType
    <3>. QED
      BY <2>2, <3>2, <3>3, <3>4, <3>5, TerminalAssumption DEF WithinLimit
  <2>. QED
    BY <1>2, <2>1, <2>2
<1>. QED
  BY <1>3, <1>4, <1>5, <1>6 DEF TerminalInv

(* Every other step takes an opening on its way, or a session away.        *)
LEMMA StepTerminals == TerminalInv /\ [TerminalNext]_terminalVars => TerminalInv'
<1>. SUFFICES ASSUME TerminalInv, [TerminalNext]_terminalVars PROVE TerminalInv'
  OBVIOUS
<1>. USE DEF TerminalInv
<1>1. ASSUME NEW o \in Openings, Resolves(o) PROVE TerminalInv'
  <2>1. TerminalTypeOK' /\ \A s \in Openings : OpeningSound(s)'
    BY <1>1 DEF Resolves, OpeningGoes, TerminalTypeOK, OpeningSound, Fresh
  <2>2. PlacesSound'
    BY <1>1 DEF Resolves, OpeningGoes, TerminalTypeOK, PlacesSound, InProgress
  <2>3. terminals' \subseteq terminals \cup InProgress /\ InProgress' \subseteq InProgress
    BY <1>1 DEF Resolves, OpeningGoes, TerminalTypeOK, InProgress
  <2>. QED
    BY <2>1, <2>2, <2>3, Shrinks
<1>2. ASSUME NEW o \in Openings, Validates(o) \/ Spawns(o) \/ Attaches(o) \/ Revalidates(o) PROVE TerminalInv'
  <2>1. TerminalTypeOK'
    BY <1>2 DEF Validates, Spawns, Attaches, Revalidates, OpeningGoes, Removes, TerminalTypeOK
  <2>2. \A s \in Openings : OpeningSound(s)'
    BY <1>2 DEF Validates, Spawns, Attaches, Revalidates, OpeningGoes, Removes, TerminalTypeOK, OpeningSound, Fresh
  <2>3. terminals' \subseteq terminals /\ InProgress' \subseteq InProgress /\ UNCHANGED <<exited, place>>
    BY <1>2 DEF Validates, Spawns, Attaches, Revalidates, OpeningGoes, Removes, TerminalTypeOK, InProgress
  <2>4. PlacesSound'
    BY <2>3 DEF PlacesSound
  <2>. QED
    BY <2>1, <2>2, <2>3, <2>4, Shrinks
<1>3. ASSUME CloseTerminals \/ \E s \in Openings : RemoveSession(s) \/ ShellExits(s) PROVE TerminalInv'
  <2>1. TerminalTypeOK' /\ \A o \in Openings : OpeningSound(o)'
    BY <1>3 DEF RemoveSession, ShellExits, CloseTerminals, Removes, TerminalTypeOK, OpeningSound, Fresh
  <2>2. /\ terminals' \subseteq terminals /\ InProgress' = InProgress /\ UNCHANGED place
        /\ exited \subseteq exited'
    BY <1>3 DEF RemoveSession, ShellExits, CloseTerminals, Removes, InProgress
  <2>3. PlacesSound'
    BY <2>2 DEF PlacesSound
  <2>. QED
    BY <2>1, <2>2, <2>3, Shrinks
<1>4. CASE UNCHANGED terminalVars
  BY <1>4 DEF terminalVars, TerminalTypeOK, OpeningSound, Fresh, PlacesSound, WithinLimit, InProgress
<1>. QED
  BY <1>1, <1>2, <1>3, <1>4, OpensKeeps DEF TerminalNext

(* ShellsOwned, for any number of calls and places and any limit.          *)
THEOREM ShellsOwnedHolds == TerminalSpec => []ShellsOwned
<1>1. TerminalInv => ShellsOwned
  <2>. SUFFICES ASSUME TerminalInv PROVE ShellsOwned
    OBVIOUS
  <2>1. \A o \in shells : o \in terminals \/ o \in InProgress \/ o \in unclosed
    BY DEF TerminalInv, TerminalTypeOK, OpeningSound, InProgress
  <2>2. ASSUME NEW p \in Places PROVE Cardinality(Live(p)) <= 1
    <3>1. \A s, t \in Live(p) : s = t
      BY DEF TerminalInv, PlacesSound, Live
    <3>2. CASE Live(p) = {}
      BY <3>2, FS_EmptySet
    <3>3. CASE Live(p) # {}
      <4>1. PICK s : Live(p) = {s}
        BY <3>1, <3>3
      <4>. QED
        BY <4>1, FS_Singleton
    <3>. QED
      BY <3>2, <3>3
  <2>. QED
    BY <2>1, <2>2 DEF TerminalInv, WithinLimit, ShellsOwned
<1>. QED
  BY <1>1, InitTerminals, StepTerminals, PTL DEF TerminalSpec

(***************************************************************************)
(* SpeechSlot                                                              *)
(***************************************************************************)
(* The request that has the slot, if it is taken, and those in line.       *)
InLine == ToSet(slotLine)
HasSlot(r) == speech[r] = "forwarding" \/ (speech[r] = "waiting" /\ r \notin InLine)
SpeechInv ==
  /\ SpeechTypeOK /\ LineUp(slotLine, SpeechRequests)
  /\ \A r \in InLine : forwarding /\ speech[r] = "waiting"
  /\ forwarding => \E r \in SpeechRequests : \A s \in SpeechRequests : HasSlot(s) <=> s = r
  /\ ~forwarding => \A s \in SpeechRequests : ~HasSlot(s)

LEMMA InitSpeech == SpeechInit => SpeechInv
<1>. SUFFICES ASSUME SpeechInit PROVE SpeechInv
  OBVIOUS
<1>1. LineUp(slotLine, SpeechRequests) /\ InLine = {}
  BY LineEmpty DEF SpeechInit, InLine
<1>. QED
  BY <1>1 DEF SpeechInit, SpeechInv, SpeechTypeOK, HasSlot, LineUp

LEMMA InLineTyped ==
  ASSUME SpeechInv
  PROVE  InLine \subseteq SpeechRequests /\ (slotLine = <<>> <=> InLine = {})
  BY LineMembers DEF SpeechInv, InLine

(* The holder is done with the slot: the first in line has it, or nobody.  *)
LEMMA Released ==
  ASSUME SpeechInv, NEW r \in SpeechRequests, HasSlot(r), speech' = [speech EXCEPT ![r] = "over"],
         ReleaseSlot, UNCHANGED <<cutOff, speechClosed>>
  PROVE  SpeechInv'
<1>1. forwarding /\ r \notin InLine /\ \A s \in SpeechRequests : HasSlot(s) <=> s = r
  BY DEF SpeechInv, HasSlot
<1>2. CASE slotLine = <<>>
  <2>1. ~forwarding' /\ slotLine' = slotLine /\ forwarding' \in BOOLEAN /\ InLine' = {}
    BY <1>2, LineEmpty DEF ReleaseSlot, InLine
  <2>2. SpeechTypeOK' /\ \A s \in SpeechRequests : ~HasSlot(s)'
    BY <1>1, <1>2, <2>1, InLineTyped DEF SpeechInv, SpeechTypeOK, HasSlot
  <2>. QED
    BY <2>1, <2>2 DEF SpeechInv
<1>3. CASE slotLine # <<>>
  <2>. DEFINE h == Head(slotLine)
  <2>1. /\ LineUp(slotLine', SpeechRequests) /\ InLine' = InLine \ {h} /\ h \in InLine /\ h \in SpeechRequests
        /\ forwarding' = forwarding
    <3>1. /\ LineUp(Tail(slotLine), SpeechRequests) /\ ToSet(Tail(slotLine)) = ToSet(slotLine) \ {h}
          /\ h \in ToSet(slotLine) /\ h \in SpeechRequests
      BY <1>3, LineTail DEF SpeechInv
    <3>2. slotLine' = Tail(slotLine) /\ forwarding' = forwarding
      BY <1>3 DEF ReleaseSlot
    <3>. QED
      BY <3>1, <3>2 DEF InLine
  <2>. HIDE DEF h
  <2>2. SpeechTypeOK'
    BY <2>1 DEF SpeechInv, SpeechTypeOK, LineUp
  <2>3. \A s \in SpeechRequests : HasSlot(s)' <=> s = h
    BY <1>1, <2>1 DEF SpeechInv, SpeechTypeOK, HasSlot
  <2>4. \A s \in InLine' : forwarding' /\ speech'[s] = "waiting"
    BY <1>1, <2>1, InLineTyped DEF SpeechInv, SpeechTypeOK
  <2>. QED
    BY <1>1, <2>1, <2>2, <2>3, <2>4 DEF SpeechInv
<1>. QED
  BY <1>2, <1>3

LEMMA StepSpeech == SpeechInv /\ [SpeechNext]_speechVars => SpeechInv'
<1>. SUFFICES ASSUME SpeechInv, [SpeechNext]_speechVars PROVE SpeechInv'
  OBVIOUS
<1>1. ASSUME NEW r \in SpeechRequests, Transcribe(r) PROVE SpeechInv'
  <2>1. /\ speech[r] = "none" /\ UNCHANGED <<forwarding, slotLine, cutOff, speechClosed>>
        /\ \E s \in {"over", "reading"} : speech' = [speech EXCEPT ![r] = s]
    BY <1>1 DEF Transcribe, SpeechGoes
  <2>2. InLine' = InLine /\ \A s \in SpeechRequests : HasSlot(s)' <=> HasSlot(s)
    BY <2>1 DEF SpeechInv, SpeechTypeOK, HasSlot, InLine
  <2>. QED
    BY <2>1, <2>2 DEF SpeechInv, SpeechTypeOK
<1>2. ASSUME NEW r \in SpeechRequests, AsksForSlot(r) PROVE SpeechInv'
  <2>1. speech[r] = "reading" /\ UNCHANGED <<cutOff, speechClosed>> /\ ~HasSlot(r) /\ r \notin InLine
    BY <1>2 DEF AsksForSlot, SpeechInv, HasSlot
  <2>2. CASE SpeechGoes(r, "over") /\ UNCHANGED <<forwarding, slotLine>>
    <3>1. InLine' = InLine /\ \A s \in SpeechRequests : HasSlot(s)' <=> HasSlot(s)
      BY <2>1, <2>2 DEF SpeechInv, SpeechTypeOK, HasSlot, InLine, SpeechGoes
    <3>. QED
      BY <2>1, <2>2, <3>1 DEF SpeechInv, SpeechTypeOK, SpeechGoes
  <2>3. CASE ~forwarding /\ forwarding' = TRUE /\ SpeechGoes(r, "forwarding") /\ UNCHANGED slotLine
    <3>1. InLine' = InLine /\ \A s \in SpeechRequests : HasSlot(s)' <=> s = r
      BY <2>1, <2>3 DEF SpeechInv, SpeechTypeOK, HasSlot, InLine, SpeechGoes
    <3>. QED
      BY <2>1, <2>3, <3>1 DEF SpeechInv, SpeechTypeOK, SpeechGoes
  <2>4. CASE /\ forwarding /\ SpeechGoes(r, "waiting")
             /\ slotLine' = Append(slotLine, r) /\ UNCHANGED forwarding
    <3>1. InLine' = InLine \cup {r} /\ LineUp(slotLine', SpeechRequests)
      BY <2>1, <2>4, LineAppend DEF SpeechInv, InLine
    <3>2. \A s \in SpeechRequests : HasSlot(s)' <=> HasSlot(s)
      BY <2>1, <2>4, <3>1 DEF SpeechInv, SpeechTypeOK, HasSlot, SpeechGoes
    <3>. QED
      BY <2>1, <2>4, <3>1, <3>2 DEF SpeechInv, SpeechTypeOK, SpeechGoes, LineUp
  <2>. QED
    BY <1>2, <2>2, <2>3, <2>4 DEF AsksForSlot
<1>3. ASSUME NEW r \in SpeechRequests, SpeechGranted(r) PROVE SpeechInv'
  <2>1. InLine' = InLine /\ \A s \in SpeechRequests : HasSlot(s)' <=> HasSlot(s)
    BY <1>3 DEF SpeechGranted, SpeechInv, SpeechTypeOK, HasSlot, InLine, SpeechGoes
  <2>. QED
    BY <1>3, <2>1 DEF SpeechGranted, SpeechInv, SpeechTypeOK, SpeechGoes, InLine
<1>4. ASSUME NEW r \in SpeechRequests, Abandons(r) PROVE SpeechInv'
  <2>1. /\ speech[r] = "waiting" /\ speech' = [speech EXCEPT ![r] = "over"] /\ UNCHANGED <<cutOff, speechClosed>>
    BY <1>4 DEF Abandons, SpeechGoes
  <2>2. CASE r \in InLine
    <3>1. slotLine' = RemoveFirst(slotLine, r) /\ UNCHANGED forwarding
      BY <1>4, <2>2 DEF Abandons, InLine
    <3>2. InLine' = InLine \ {r} /\ LineUp(slotLine', SpeechRequests)
      BY <2>2, <3>1, LineRemove DEF SpeechInv, InLine
    <3>3. \A s \in SpeechRequests : HasSlot(s)' <=> HasSlot(s)
      BY <2>1, <2>2, <3>2 DEF SpeechInv, SpeechTypeOK, HasSlot
    <3>. QED
      BY <2>1, <3>1, <3>2, <3>3, InLineTyped DEF SpeechInv, SpeechTypeOK, LineUp
  <2>3. CASE r \notin InLine
    <3>1. HasSlot(r) /\ ReleaseSlot
      BY <1>4, <2>1, <2>3 DEF Abandons, InLine, HasSlot
    <3>. QED
      BY <2>1, <3>1, Released
  <2>. QED
    BY <2>2, <2>3
<1>5. ASSUME NEW r \in SpeechRequests, Forwarded(r) PROVE SpeechInv'
  BY <1>5, Released DEF Forwarded, SpeechGoes, HasSlot
<1>6. ASSUME UNCHANGED <<speech, forwarding, slotLine>>, cutOff' \in SUBSET SpeechRequests, speechClosed' \in BOOLEAN
      PROVE  SpeechInv'
  BY <1>6 DEF SpeechInv, SpeechTypeOK, HasSlot, InLine
<1>7. CASE CloseSpeech \/ UNCHANGED speechVars \/ \E r \in SpeechRequests : CutOff(r)
  <2>1. UNCHANGED <<speech, forwarding, slotLine>>
    BY <1>7 DEF CloseSpeech, speechVars, CutOff
  <2>2. cutOff' \in SUBSET SpeechRequests /\ speechClosed' \in BOOLEAN
    BY <1>7 DEF CloseSpeech, speechVars, CutOff, Admitted, SpeechInv, SpeechTypeOK
  <2>. QED
    BY <1>6, <2>1, <2>2
<1>. QED
  BY <1>1, <1>2, <1>3, <1>4, <1>5, <1>7 DEF SpeechNext

(* SpeechSlotOwned, for any number of requests.                            *)
THEOREM SpeechSlotOwnedHolds == SpeechSpec => []SpeechSlotOwned
<1>1. SpeechInv => SpeechSlotOwned
  <2>. SUFFICES ASSUME SpeechInv PROVE SpeechSlotOwned
    OBVIOUS
  <2>1. Holders = {r \in SpeechRequests : HasSlot(r)}
    BY DEF Holders, HasSlot, InLine
  <2>2. Cardinality(Holders) = IF forwarding THEN 1 ELSE 0
    <3>1. CASE forwarding
      <4>1. \E r : Holders = {r}
        BY <2>1, <3>1 DEF SpeechInv
      <4>. QED
        BY <3>1, <4>1, FS_Singleton
    <3>2. CASE ~forwarding
      <4>1. Holders = {}
        BY <2>1, <3>2 DEF SpeechInv
      <4>. QED
        BY <3>2, <4>1, FS_EmptySet
    <3>. QED
      BY <3>1, <3>2
  <2>3. \A k \in DOMAIN slotLine : slotLine[k] \in InLine
    BY DEF InLine, ToSet
  <2>. QED
    BY <2>2, <2>3 DEF SpeechInv, SpeechSlotOwned
<1>. QED
  BY <1>1, InitSpeech, StepSpeech, PTL DEF SpeechSpec

(***************************************************************************)
(* CommandCatalog                                                          *)
(***************************************************************************)
(* The catalogs known have been read by now, and are few.                  *)
KnownCatalogs == [key : CatalogKeys, at : 0..CatalogTicks]
KnownByNow(s) == s \in Seq(KnownCatalogs) /\ \A i \in 1..Len(s) : s[i].at <= clock

CatalogInv ==
  /\ CatalogTypeOK /\ KnownByNow(catalogs) /\ Len(catalogs) <= CachedKeys
  /\ IsFiniteSet(Probing) /\ Cardinality(Probing) <= ConcurrentProbes
  /\ \A c \in CatalogCallers :
       /\ readers[c].pc = "answered" => readers[c].age < StaleTicks
       /\ readers[c].pc = "waiting" => readers[c].key \in Probing
  /\ cancellation = "closed" => Probing = {} /\ catalogs = <<>>

LEMMA InitCatalogs == CatalogInit => CatalogInv
<1>. SUFFICES ASSUME CatalogInit PROVE CatalogInv
  OBVIOUS
<1>1. catalogs \in Seq(KnownCatalogs) /\ Len(catalogs) = 0 /\ KnownByNow(catalogs)
  BY EmptySeq DEF CatalogInit, KnownByNow
<1>2. Probing = {}
  BY DEF CatalogInit, Probing
<1>3. PICK k \in CatalogKeys : readers = [c \in CatalogCallers |-> [pc |-> "new", key |-> k, age |-> 0]]
  BY CatalogAssumption DEF CatalogInit
<1>4. clock \in 0..CatalogTicks /\ 0 <= CachedKeys /\ 0 <= ConcurrentProbes
  BY CatalogAssumption DEF CatalogInit
<1>5. CatalogTypeOK
  BY <1>1, <1>3, <1>4 DEF CatalogInit, CatalogTypeOK, KnownCatalogs
<1>. QED
  BY <1>1, <1>2, <1>3, <1>4, <1>5, FS_EmptySet DEF CatalogInit, CatalogInv

(* What is left without a key was there before.                            *)
LEMMA OthersKnown ==
  ASSUME CatalogInv, NEW k \in CatalogKeys
  PROVE  KnownByNow(Others(k)) /\ Len(Others(k)) <= Len(catalogs)
<1>1. catalogs \in Seq(KnownCatalogs) /\ Len(catalogs) \in Nat /\ KnownByNow(catalogs)
  BY LenProperties DEF CatalogInv, KnownByNow
<1>2. CASE ~\E i \in 1..Len(catalogs) : catalogs[i].key = k
  <2>1. Others(k) = catalogs
    BY <1>2 DEF Others, RemoveFirstMatch
  <2>. QED
    BY <1>1, <2>1
<1>3. CASE \E i \in 1..Len(catalogs) : catalogs[i].key = k
  <2>. DEFINE I == {i \in 1..Len(catalogs) : catalogs[i].key = k}
  <2>1. Others(k) = RemoveAt(catalogs, Min(I))
    BY <1>3 DEF Others, RemoveFirstMatch, SelectInSeq
  <2>2. Min(I) \in 1..Len(catalogs)
    <3>1. I # {} /\ I \in SUBSET Nat /\ I \subseteq 1..Len(catalogs)
      BY <1>1, <1>3
    <3>. HIDE DEF I
    <3>2. \E m \in I : \A n \in I : m <= n
      BY <3>1, LeastNatural
    <3>. QED
      BY <3>1, <3>2 DEF Min
  <2>. HIDE DEF I
  <2>3. PICK j \in 1..Len(catalogs) : Others(k) = RemoveAt(catalogs, j)
    BY <2>1, <2>2
  <2>4. /\ Others(k) \in Seq(KnownCatalogs) /\ Len(Others(k)) = Len(catalogs) - 1
        /\ \A i \in 1..Len(catalogs) - 1 : Others(k)[i] = catalogs[i] \/ Others(k)[i] = catalogs[i + 1]
    BY <1>1, <2>3, RemoveAtElements
  <2>5. \A i \in 1..Len(catalogs) - 1 : i \in 1..Len(catalogs) /\ i + 1 \in 1..Len(catalogs)
    BY <1>1
  <2>. QED
    BY <1>1, <2>4, <2>5 DEF KnownByNow
<1>. QED
  BY <1>2, <1>3

LEMMA StaleForgotten ==
  ASSUME CatalogInv, NEW k \in CatalogKeys, ForgetsStale(k), UNCHANGED clock
  PROVE  KnownByNow(catalogs)' /\ Len(catalogs') <= CachedKeys
<1>1. KnownByNow(catalogs') /\ Len(catalogs') <= Len(catalogs) /\ Len(catalogs) <= CachedKeys
      /\ Len(catalogs) \in Nat /\ Len(catalogs') \in Nat
  BY OthersKnown, LenProperties DEF ForgetsStale, CatalogInv, KnownByNow
<1>. QED
  BY <1>1, CatalogAssumption DEF KnownByNow

LEMMA GoodIsRecent ==
  ASSUME CatalogInv, NEW k \in CatalogKeys, NEW at \in LastGood(k)
  PROVE  clock - at \in Nat /\ clock - at < StaleTicks
<1>1. PICK i \in 1..Len(catalogs) : catalogs[i].at = at
  BY DEF LastGood, Of
<1>2. catalogs[i] \in KnownCatalogs
  BY ElementOfSeq DEF CatalogInv, KnownByNow
<1>. QED
  BY <1>1, <1>2, CatalogAssumption DEF CatalogInv, CatalogTypeOK, KnownByNow, LastGood, KnownCatalogs

CatalogReaders == [pc : {"new", "project", "waiting", "answered", "refused"}, key : CatalogKeys, age : Nat]

LEMMA ReaderGets ==
  ASSUME CatalogInv, NEW c \in CatalogCallers, NEW p \in {"waiting", "answered", "refused"}, NEW a \in Nat,
         Gets(c, p, a)
  PROVE  /\ readers' \in [CatalogCallers -> CatalogReaders]
         /\ readers'[c].pc = p /\ readers'[c].age = a /\ readers'[c].key = readers[c].key
         /\ \A d \in CatalogCallers \ {c} : readers'[d] = readers[d]
<1>1. readers \in [CatalogCallers -> CatalogReaders] /\ readers[c] \in CatalogReaders
  BY DEF CatalogInv, CatalogTypeOK, CatalogReaders
<1>2. PICK r : r = [readers[c] EXCEPT !.pc = p, !.age = a]
  OBVIOUS
<1>3. r \in CatalogReaders /\ r.pc = p /\ r.age = a /\ r.key = readers[c].key
  BY <1>1, <1>2 DEF CatalogReaders
<1>4. readers' = [readers EXCEPT ![c] = r]
  BY <1>2 DEF Gets
<1>. QED
  BY <1>1, <1>3, <1>4

(* A probe is over, and those who wait for it are told.                    *)
LEMMA ProbeSettles ==
  ASSUME CatalogInv, NEW k \in Probing, NEW p \in {"answered", "refused"}, NEW a \in Nat,
         p = "answered" => a < StaleTicks, Settles(k, p, a), UNCHANGED <<clock, cancellation>>,
         KnownByNow(catalogs)', Len(catalogs') <= CachedKeys
  PROVE  CatalogInv'
<1>1. readers \in [CatalogCallers -> CatalogReaders] /\ probes \in [CatalogKeys -> {"none", "checkout", "reading"}]
      /\ k \in CatalogKeys
  BY DEF CatalogInv, CatalogTypeOK, CatalogReaders, Probing
<1>2. probes' = [probes EXCEPT ![k] = "none"]
  BY DEF Settles
<1>3. Probing' = Probing \ {k} /\ probes' \in [CatalogKeys -> {"none", "checkout", "reading"}]
  BY <1>1, <1>2 DEF Probing
<1>4. IsFiniteSet(Probing') /\ Cardinality(Probing') <= ConcurrentProbes
  <2>1. IsFiniteSet(Probing') /\ Cardinality(Probing') <= Cardinality(Probing)
        /\ Cardinality(Probing') \in Nat /\ Cardinality(Probing) \in Nat
    BY <1>3, FS_Subset, FS_CardinalityType DEF CatalogInv
  <2>. QED
    BY <2>1, CatalogAssumption DEF CatalogInv
<1>5. ASSUME NEW c \in CatalogCallers
      PROVE  /\ readers'[c] \in CatalogReaders
             /\ readers'[c].pc = "answered" => readers'[c].age < StaleTicks
             /\ readers'[c].pc = "waiting" => readers'[c].key \in Probing'
  <2>1. CASE readers[c].pc = "waiting" /\ readers[c].key = k
    <3>1. PICK r : r = [readers[c] EXCEPT !.pc = p, !.age = a]
      OBVIOUS
    <3>2. r \in CatalogReaders /\ r.pc = p /\ r.age = a
      BY <1>1, <3>1 DEF CatalogReaders
    <3>3. readers'[c] = r
      BY <2>1, <3>1 DEF Settles
    <3>. QED
      BY <3>2, <3>3
  <2>2. CASE ~(readers[c].pc = "waiting" /\ readers[c].key = k)
    <3>1. readers'[c] = readers[c]
      BY <2>2 DEF Settles
    <3>. QED
      BY <1>1, <1>3, <2>2, <3>1 DEF CatalogInv
  <2>. QED
    BY <2>1, <2>2
<1>6. readers' \in [CatalogCallers -> CatalogReaders]
  <2>1. readers' = [c \in CatalogCallers |-> readers'[c]]
    BY DEF Settles
  <2>. QED
    BY <1>5, <2>1
<1>7. cancellation # "closed"
  BY DEF CatalogInv
<1>. QED
  BY <1>3, <1>4, <1>5, <1>6, <1>7 DEF CatalogInv, CatalogTypeOK, KnownByNow, KnownCatalogs, CatalogReaders

LEMMA FindsProjectKeeps == ASSUME CatalogInv, NEW c \in CatalogCallers, FindsProject(c) PROVE CatalogInv'
<1>. DEFINE k == readers[c].key
<1>1. k \in CatalogKeys /\ readers[c].pc = "project" /\ UNCHANGED <<clock, cancellation>>
      /\ probes \in [CatalogKeys -> {"none", "checkout", "reading"}]
  BY DEF FindsProject, CatalogInv, CatalogTypeOK
<1>2. KnownByNow(catalogs)' /\ Len(catalogs') <= CachedKeys
  <2>1. UNCHANGED catalogs \/ ForgetsStale(k)
    BY DEF FindsProject
  <2>. QED
    BY <1>1, <2>1, StaleForgotten DEF CatalogInv, KnownByNow
<1>3. cancellation # "open" => UNCHANGED catalogs
  BY DEF FindsProject
<1>. HIDE DEF k
<1>4. ASSUME UNCHANGED probes, NEW p \in {"waiting", "answered", "refused"}, NEW a \in Nat, Gets(c, p, a),
             p = "waiting" => k \in Probing, p = "answered" => a < StaleTicks
      PROVE  CatalogInv'
  <2>1. /\ readers' \in [CatalogCallers -> CatalogReaders]
        /\ readers'[c].pc = p /\ readers'[c].age = a /\ readers'[c].key = readers[c].key
        /\ \A d \in CatalogCallers \ {c} : readers'[d] = readers[d]
    BY <1>4, ReaderGets
  <2>2. Probing' = Probing
    BY <1>4 DEF Probing
  <2>. QED
    BY <1>1, <1>2, <1>3, <1>4, <2>1, <2>2 DEF CatalogInv, CatalogTypeOK, KnownByNow, KnownCatalogs, CatalogReaders, k
<1>5. ASSUME k \notin Probing, Cardinality(Probing) < ConcurrentProbes, cancellation = "open",
             probes' = [probes EXCEPT ![k] = "checkout"], Gets(c, "waiting", 0)
      PROVE  CatalogInv'
  <2>1. /\ readers' \in [CatalogCallers -> CatalogReaders]
        /\ readers'[c].pc = "waiting" /\ readers'[c].key = k
        /\ \A d \in CatalogCallers \ {c} : readers'[d] = readers[d]
    BY <1>5, ReaderGets DEF k
  <2>2. Probing' = Probing \cup {k} /\ probes' \in [CatalogKeys -> {"none", "checkout", "reading"}]
    BY <1>1, <1>5 DEF Probing
  <2>3. IsFiniteSet(Probing') /\ Cardinality(Probing') <= ConcurrentProbes
    <3>1. IsFiniteSet(Probing') /\ Cardinality(Probing') = Cardinality(Probing) + 1 /\ Cardinality(Probing) \in Nat
      BY <1>5, <2>2, FS_AddElement, FS_CardinalityType DEF CatalogInv
    <3>. QED
      BY <1>5, <3>1, CatalogAssumption
  <2>4. CatalogTypeOK'
    BY <1>1, <1>2, <2>1, <2>2 DEF CatalogInv, CatalogTypeOK, KnownByNow, KnownCatalogs, CatalogReaders
  <2>5. ASSUME NEW d \in CatalogCallers
        PROVE  /\ readers'[d].pc = "answered" => readers'[d].age < StaleTicks
               /\ readers'[d].pc = "waiting" => readers'[d].key \in Probing'
    <3>1. CASE d = c
      BY <2>1, <2>2, <3>1
    <3>2. CASE d # c
      BY <2>1, <2>2, <3>2 DEF CatalogInv
    <3>. QED
      BY <3>1, <3>2
  <2>. QED
    BY <1>1, <1>2, <1>5, <2>2, <2>3, <2>4, <2>5 DEF CatalogInv
<1>6. CASE Gets(c, "refused", 0) /\ UNCHANGED probes
  BY <1>4, <1>6
<1>7. CASE UNCHANGED probes /\ \E at \in LastGood(k) : Gets(c, "answered", clock - at)
  BY <1>1, <1>4, <1>7, GoodIsRecent
<1>8. CASE UNCHANGED probes /\ k \in Probing /\ Gets(c, "waiting", 0)
  BY <1>4, <1>8
<1>. QED
  BY <1>5, <1>6, <1>7, <1>8 DEF FindsProject, k

LEMMA StepCatalogs == CatalogInv /\ [CatalogNext]_catalogVars => CatalogInv'
<1>. SUFFICES ASSUME CatalogInv, [CatalogNext]_catalogVars PROVE CatalogInv'
  OBVIOUS
<1>1. CASE UNCHANGED catalogVars
  BY <1>1 DEF catalogVars, CatalogInv, CatalogTypeOK, KnownByNow, Probing
<1>2. CASE CatalogTick
  <2>1. clock' \in 0..CatalogTicks /\ clock < clock' /\ UNCHANGED <<catalogs, probes, readers, cancellation>>
    BY <1>2, CatalogAssumption DEF CatalogTick, CatalogInv, CatalogTypeOK
  <2>2. KnownByNow(catalogs)'
    <3>1. \A i \in 1..Len(catalogs) : catalogs[i] \in KnownCatalogs /\ catalogs[i].at <= clock
      BY ElementOfSeq DEF CatalogInv, KnownByNow
    <3>2. \A i \in 1..Len(catalogs) : catalogs[i].at <= clock'
      BY <2>1, <3>1, CatalogAssumption DEF CatalogInv, CatalogTypeOK, KnownCatalogs
    <3>. QED
      BY <2>1, <3>2 DEF CatalogInv, KnownByNow
  <2>. QED
    BY <2>1, <2>2 DEF CatalogInv, CatalogTypeOK, Probing
<1>3. CASE ClosesCatalogs
  <2>1. UNCHANGED <<clock, probes, readers>> /\ Probing' = Probing /\ cancellation' \in {"closing", "closed"}
    BY <1>3 DEF ClosesCatalogs, Probing
  <2>2. catalogs' = catalogs \/ (catalogs' = <<>> /\ Probing = {})
    BY <1>3 DEF ClosesCatalogs
  <2>3. KnownByNow(catalogs)' /\ Len(catalogs') <= CachedKeys
    <3>1. CASE catalogs' = catalogs
      BY <2>1, <3>1 DEF CatalogInv, KnownByNow
    <3>2. CASE catalogs' = <<>>
      <4>1. catalogs' \in Seq(KnownCatalogs) /\ Len(catalogs') = 0
        BY <3>2, EmptySeq
      <4>. QED
        BY <4>1, CatalogAssumption DEF KnownByNow
    <3>. QED
      BY <2>2, <3>1, <3>2
  <2>. QED
    BY <1>3, <2>1, <2>2, <2>3 DEF ClosesCatalogs, CatalogInv, CatalogTypeOK, KnownByNow, KnownCatalogs
<1>4. ASSUME NEW k \in CatalogKeys, ChecksOut(k) PROVE CatalogInv'
  <2>1. Probing' = Probing /\ probes' \in [CatalogKeys -> {"none", "checkout", "reading"}]
    BY <1>4 DEF ChecksOut, Probing, CatalogInv, CatalogTypeOK
  <2>. QED
    BY <1>4, <2>1 DEF ChecksOut, CatalogInv, CatalogTypeOK, KnownByNow
<1>5. ASSUME NEW k \in CatalogKeys, StoresCatalog(k) PROVE CatalogInv'
  <2>1. k \in Probing /\ Settles(k, "answered", 0) /\ UNCHANGED <<clock, cancellation>>
    BY <1>5 DEF StoresCatalog, Probing
  <2>2. PICK lot : /\ lot = Append(Others(k), [key |-> k, at |-> clock])
                   /\ catalogs' = IF Len(lot) > CachedKeys THEN Tail(lot) ELSE lot
    BY <1>5 DEF StoresCatalog
  <2>3. PICK e : e = [key |-> k, at |-> clock]
    OBVIOUS
  <2>4. e \in KnownCatalogs /\ e.at = clock
    BY <2>3 DEF KnownCatalogs, CatalogInv, CatalogTypeOK
  <2>5. Others(k) \in Seq(KnownCatalogs) /\ Len(Others(k)) \in Nat /\ Len(Others(k)) <= CachedKeys
    BY OthersKnown, LenProperties, CatalogAssumption DEF KnownByNow, CatalogInv
  <2>6. /\ lot \in Seq(KnownCatalogs) /\ Len(lot) = Len(Others(k)) + 1
        /\ \A i \in 1..Len(Others(k)) : lot[i] = Others(k)[i]
        /\ lot[Len(Others(k)) + 1] = e
    BY <2>2, <2>3, <2>4, <2>5, AppendProperties
  <2>7. KnownByNow(lot)
    <3>1. \A i \in 1..Len(lot) : i \in 1..Len(Others(k)) \/ i = Len(Others(k)) + 1
      BY <2>5, <2>6
    <3>2. \A i \in 1..Len(Others(k)) : Others(k)[i].at <= clock
      BY OthersKnown DEF KnownByNow
    <3>3. clock <= clock
      BY CatalogAssumption DEF CatalogInv, CatalogTypeOK
    <3>. QED
      BY <2>4, <2>6, <3>1, <3>2, <3>3 DEF KnownByNow
  <2>8. CASE Len(lot) > CachedKeys
    <3>1. catalogs' = Tail(lot) /\ lot # <<>>
      BY <2>2, <2>5, <2>6, <2>8, EmptySeq
    <3>2. /\ catalogs' \in Seq(KnownCatalogs) /\ Len(catalogs') = Len(lot) - 1
          /\ \A i \in 1..Len(catalogs') : catalogs'[i] = lot[i + 1]
      BY <2>6, <3>1, HeadTailProperties
    <3>3. \A i \in 1..Len(catalogs') : i + 1 \in 1..Len(lot)
      BY <2>5, <2>6, <3>2
    <3>4. KnownByNow(catalogs)' /\ Len(catalogs') <= CachedKeys
      BY <2>1, <2>5, <2>6, <2>7, <3>2, <3>3, CatalogAssumption DEF KnownByNow
    <3>. QED
      BY <2>1, <3>4, ProbeSettles, CatalogAssumption
  <2>9. CASE ~(Len(lot) > CachedKeys)
    <3>1. catalogs' = lot /\ Len(lot) <= CachedKeys
      BY <2>2, <2>5, <2>6, <2>9, CatalogAssumption
    <3>2. KnownByNow(catalogs)' /\ Len(catalogs') <= CachedKeys
      BY <2>1, <2>7, <3>1 DEF KnownByNow
    <3>. QED
      BY <2>1, <3>2, ProbeSettles, CatalogAssumption
  <2>. QED
    BY <2>8, <2>9
<1>6. ASSUME NEW k \in CatalogKeys, FallsBack(k) PROVE CatalogInv'
  <2>1. k \in Probing /\ UNCHANGED <<clock, cancellation>>
    BY <1>6 DEF FallsBack
  <2>2. KnownByNow(catalogs)' /\ Len(catalogs') <= CachedKeys
    BY <1>6, <2>1, StaleForgotten DEF FallsBack, CatalogInv, KnownByNow
  <2>3. (\E at \in LastGood(k) : Settles(k, "answered", clock - at)) \/ Settles(k, "refused", 0)
    BY <1>6 DEF FallsBack
  <2>. QED
    BY <2>1, <2>2, <2>3, ProbeSettles, GoodIsRecent
<1>7. ASSUME NEW c \in CatalogCallers, NEW k \in CatalogKeys, AsksCatalog(c, k) PROVE CatalogInv'
  <2>0. PICK p \in {"project", "refused"} : p = IF cancellation = "open" THEN "project" ELSE "refused"
    OBVIOUS
  <2>1. PICK r : r \in CatalogReaders /\ r.pc = p /\ readers' = [readers EXCEPT ![c] = r]
    <3>1. PICK r : r = [pc |-> p, key |-> k, age |-> 0]
      OBVIOUS
    <3>2. r \in CatalogReaders /\ r.pc = p
      BY <3>1 DEF CatalogReaders
    <3>3. readers' = [readers EXCEPT ![c] = r]
      BY <1>7, <2>0, <3>1 DEF AsksCatalog
    <3>. QED
      BY <3>2, <3>3
  <2>2. UNCHANGED <<clock, catalogs, probes, cancellation>> /\ Probing' = Probing
    BY <1>7 DEF AsksCatalog, Probing
  <2>3. readers \in [CatalogCallers -> CatalogReaders]
    BY DEF CatalogInv, CatalogTypeOK, CatalogReaders
  <2>4. /\ readers' \in [CatalogCallers -> CatalogReaders] /\ readers'[c].pc \in {"project", "refused"}
        /\ \A d \in CatalogCallers \ {c} : readers'[d] = readers[d]
    BY <2>1, <2>3
  <2>. QED
    BY <2>2, <2>4 DEF CatalogInv, CatalogTypeOK, KnownByNow, CatalogReaders
<1>. QED
  BY <1>1, <1>2, <1>3, <1>4, <1>5, <1>6, <1>7, FindsProjectKeeps DEF CatalogNext

(* CatalogsServed, for any number of callers, checkouts and bounds.        *)
THEOREM CatalogsServedHolds == CatalogSpec => []CatalogsServed
<1>1. CatalogInv => CatalogsServed
  BY DEF CatalogInv, CatalogsServed
<1>. QED
  BY <1>1, InitCatalogs, StepCatalogs, PTL DEF CatalogSpec

(***************************************************************************)
(* PortScans                                                               *)
(***************************************************************************)
(* What is remembered is under way or has a list, and a scan under way is  *)
(* remembered; those under way are of different scopes and have a slot.    *)
PortInv ==
  /\ PortTypeOK /\ \A i \in Scans : scan[i].at <= scanClock
  /\ \A i \in portCache : scan[i].pc \in {"collecting", "settled"}
  /\ Scanning \subseteq portCache
  /\ \A i, j \in Scanning : scan[i].scope = scan[j].scope => i = j
  /\ IsFiniteSet(Scanning) /\ Cardinality(Scanning) = scanSlots /\ scanSlots <= ConcurrentScans
  /\ \A c \in PortCallers :
       /\ portCallers[c].pc = "waiting" =>
            portCallers[c].scan \in Scanning /\ scan[portCallers[c].scan].scope = portCallers[c].scope
       /\ portCallers[c].pc \in {"waiting", "answered"} => portCallers[c].age < FreshScan

ScanRecords == [pc : {"unused", "collecting", "settled", "late", "over"}, scope : Scopes, at : 0..ScanTicks]
Askers == [pc : {"new", "waiting", "answered", "refused"}, scan : Scans, scope : Scopes, age : Nat]

LEMMA InitPorts == PortInit => PortInv
<1>. SUFFICES ASSUME PortInit PROVE PortInv
  OBVIOUS
<1>1. PICK s \in Scopes, i \in Scans :
        /\ scan = [n \in Scans |-> [pc |-> "unused", scope |-> s, at |-> 0]]
        /\ portCallers = [c \in PortCallers |-> [pc |-> "new", scan |-> i, scope |-> s, age |-> 0]]
  BY PortAssumption DEF PortInit
<1>2. Scanning = {} /\ portCache = {} /\ scanSlots = 0 /\ scanClock = 0
  BY <1>1 DEF PortInit, Scanning
<1>3. /\ scan \in [Scans -> ScanRecords] /\ portCallers \in [PortCallers -> Askers]
      /\ \A n \in Scans : scan[n].at <= scanClock
  BY <1>1, <1>2, PortAssumption DEF ScanRecords, Askers
<1>4. PortTypeOK
  BY <1>2, <1>3, PortAssumption DEF PortTypeOK, ScanRecords, Askers
<1>5. \A c \in PortCallers : portCallers[c].pc = "new"
  BY <1>1
<1>. QED
  BY <1>2, <1>3, <1>4, <1>5, FS_EmptySet, PortAssumption DEF PortInv

(* A scan under way is over, with a list or without, and those who wait    *)
(* for it are told.                                                        *)
LEMMA ScanEnds ==
  ASSUME PortInv, NEW i \in Scanning, NEW r \in ScanRecords, r.pc # "collecting", r.at <= scanClock,
         scan' = [scan EXCEPT ![i] = r], scanSlots' = scanSlots - 1, UNCHANGED scanClock,
         \/ r.pc = "settled" /\ UNCHANGED portCache
         \/ portCache' = portCache \ {i},
         NEW p \in {"answered", "refused"}, Tells(i, p)
  PROVE  PortInv'
<1>1. scan \in [Scans -> ScanRecords] /\ portCallers \in [PortCallers -> Askers] /\ i \in Scans
      /\ scan[i].pc = "collecting"
  BY DEF PortInv, PortTypeOK, ScanRecords, Askers, Scanning
<1>2. scan' \in [Scans -> ScanRecords] /\ scan'[i] = r /\ \A j \in Scans \ {i} : scan'[j] = scan[j]
  BY <1>1
<1>3. Scanning' = Scanning \ {i}
  BY <1>1, <1>2 DEF Scanning
<1>4. IsFiniteSet(Scanning') /\ Cardinality(Scanning') = scanSlots' /\ scanSlots' \in Nat /\ scanSlots' <= ConcurrentScans
  <2>1. IsFiniteSet(Scanning') /\ Cardinality(Scanning') = scanSlots - 1
    BY <1>3, FS_RemoveElement DEF PortInv
  <2>. QED
    BY <2>1, FS_CardinalityType, PortAssumption DEF PortInv, PortTypeOK
<1>5. ASSUME NEW c \in PortCallers
      PROVE  /\ portCallers'[c] \in Askers
             /\ portCallers'[c].pc = "waiting" =>
                  portCallers'[c].scan \in Scanning' /\ scan'[portCallers'[c].scan].scope = portCallers'[c].scope
             /\ portCallers'[c].pc \in {"waiting", "answered"} => portCallers'[c].age < FreshScan
  <2>1. CASE portCallers[c].pc = "waiting" /\ portCallers[c].scan = i
    <3>1. PICK a : a = [portCallers[c] EXCEPT !.pc = p]
      OBVIOUS
    <3>2. a \in Askers /\ a.pc = p /\ a.age = portCallers[c].age
      BY <1>1, <3>1 DEF Askers
    <3>3. portCallers'[c] = a
      BY <2>1, <3>1 DEF Tells
    <3>. QED
      BY <2>1, <3>2, <3>3 DEF PortInv
  <2>2. CASE ~(portCallers[c].pc = "waiting" /\ portCallers[c].scan = i)
    <3>1. portCallers'[c] = portCallers[c]
      BY <2>2 DEF Tells
    <3>. QED
      BY <1>1, <1>2, <1>3, <2>2, <3>1 DEF PortInv, Scanning
  <2>. QED
    BY <2>1, <2>2
<1>6. portCallers' \in [PortCallers -> Askers]
  <2>1. portCallers' = [c \in PortCallers |-> portCallers'[c]]
    BY DEF Tells
  <2>. QED
    BY <1>5, <2>1
<1>7. /\ portCache' \subseteq Scans /\ Scanning' \subseteq portCache'
      /\ \A j \in portCache' : scan'[j].pc \in {"collecting", "settled"}
  BY <1>1, <1>2, <1>3 DEF PortInv, PortTypeOK
<1>8. /\ \A j \in Scans : scan'[j].at <= scanClock'
      /\ \A j, k \in Scanning' : scan'[j].scope = scan'[k].scope => j = k
  BY <1>1, <1>2, <1>3 DEF PortInv, Scanning
<1>. QED
  BY <1>2, <1>4, <1>5, <1>6, <1>7, <1>8 DEF PortInv, PortTypeOK, ScanRecords, Askers

LEMMA AsksPortsKeeps ==
  ASSUME PortInv, NEW c \in PortCallers, NEW s \in Scopes, AsksPorts(c, s)
  PROVE  PortInv'
<1>1. /\ scan \in [Scans -> ScanRecords] /\ portCallers \in [PortCallers -> Askers]
      /\ UNCHANGED scanClock /\ scanClock \in Nat
  BY PortAssumption DEF PortInv, PortTypeOK, ScanRecords, Askers, AsksPorts
<1>2. CASE \E i \in CacheHits(s) :
             /\ portCallers' = [portCallers EXCEPT ![c] =
                  [pc |-> IF ScanSettled(i) THEN "answered" ELSE "waiting", scan |-> i, scope |-> s,
                   age |-> IF ScanSettled(i) THEN scanClock - scan[i].at ELSE 0]]
             /\ UNCHANGED <<scan, portCache, scanSlots>>
  <2>1. PICK i \in CacheHits(s) :
          /\ portCallers' = [portCallers EXCEPT ![c] =
               [pc |-> IF ScanSettled(i) THEN "answered" ELSE "waiting", scan |-> i, scope |-> s,
                age |-> IF ScanSettled(i) THEN scanClock - scan[i].at ELSE 0]]
          /\ UNCHANGED <<scan, portCache, scanSlots>>
    BY <1>2
  <2>2. /\ i \in portCache /\ i \in Scans /\ scan[i].scope = s /\ scan[i].at \in Nat /\ scan[i].at <= scanClock
        /\ (~ScanSettled(i) \/ scanClock - scan[i].at < FreshScan)
    BY <1>1, <2>1, PortAssumption DEF CacheHits, PortInv, PortTypeOK, ScanRecords
  <2>3. ~ScanSettled(i) => i \in Scanning
    BY <2>2 DEF ScanSettled, Scanning, PortInv
  <2>4. PICK a : a = [pc |-> IF ScanSettled(i) THEN "answered" ELSE "waiting", scan |-> i, scope |-> s,
                      age |-> IF ScanSettled(i) THEN scanClock - scan[i].at ELSE 0]
    OBVIOUS
  <2>5. /\ a \in Askers /\ a.age < FreshScan /\ a.scan = i /\ a.scope = s
        /\ a.pc = IF ScanSettled(i) THEN "answered" ELSE "waiting"
    BY <1>1, <2>2, <2>4, PortAssumption DEF Askers
  <2>6. portCallers' = [portCallers EXCEPT ![c] = a] /\ Scanning' = Scanning
    BY <2>1, <2>4 DEF Scanning
  <2>7. /\ portCallers' \in [PortCallers -> Askers] /\ portCallers'[c] = a
        /\ \A d \in PortCallers \ {c} : portCallers'[d] = portCallers[d]
    BY <1>1, <2>5, <2>6
  <2>. QED
    BY <1>1, <2>1, <2>2, <2>3, <2>5, <2>6, <2>7 DEF PortInv, PortTypeOK, Askers
<1>3. CASE portCallers' = [portCallers EXCEPT ![c].pc = "refused"] /\ UNCHANGED <<scan, portCache, scanSlots>>
  <2>1. PICK a : a = [portCallers[c] EXCEPT !.pc = "refused"]
    OBVIOUS
  <2>2. a \in Askers /\ a.pc = "refused" /\ portCallers' = [portCallers EXCEPT ![c] = a]
    BY <1>1, <1>3, <2>1 DEF Askers
  <2>3. /\ portCallers' \in [PortCallers -> Askers] /\ portCallers'[c] = a
        /\ \A d \in PortCallers \ {c} : portCallers'[d] = portCallers[d]
    BY <1>1, <2>2
  <2>4. Scanning' = Scanning
    BY <1>3 DEF Scanning
  <2>. QED
    BY <1>1, <1>3, <2>2, <2>3, <2>4 DEF PortInv, PortTypeOK, Askers
<1>4. CASE /\ CacheHits(s) = {} /\ scanSlots < ConcurrentScans /\ scanSlots' = scanSlots + 1
           /\ \E i \in Scans :
                /\ scan[i].pc = "unused"
                /\ scan' = [scan EXCEPT ![i] = [pc |-> "collecting", scope |-> s, at |-> scanClock]]
                /\ portCallers' = [portCallers EXCEPT ![c] =
                                     [pc |-> "waiting", scan |-> i, scope |-> s, age |-> 0]]
                /\ portCache' = Evict({j \in portCache : scan[j].scope # s} \cup {i})
  <2>1. PICK i \in Scans :
          /\ scan[i].pc = "unused"
          /\ scan' = [scan EXCEPT ![i] = [pc |-> "collecting", scope |-> s, at |-> scanClock]]
          /\ portCallers' = [portCallers EXCEPT ![c] = [pc |-> "waiting", scan |-> i, scope |-> s, age |-> 0]]
          /\ portCache' = Evict({j \in portCache : scan[j].scope # s} \cup {i})
    BY <1>4
  <2>2. PICK r, a : r = [pc |-> "collecting", scope |-> s, at |-> scanClock]
                    /\ a = [pc |-> "waiting", scan |-> i, scope |-> s, age |-> 0]
    OBVIOUS
  <2>3. /\ r \in ScanRecords /\ r.pc = "collecting" /\ r.scope = s /\ r.at = scanClock
        /\ a \in Askers /\ a.pc = "waiting" /\ a.scan = i /\ a.scope = s /\ a.age < FreshScan
    BY <2>2, PortAssumption DEF ScanRecords, Askers, PortInv, PortTypeOK
  <2>4. /\ scan' \in [Scans -> ScanRecords] /\ scan'[i] = r /\ \A j \in Scans \ {i} : scan'[j] = scan[j]
        /\ portCallers' \in [PortCallers -> Askers] /\ portCallers'[c] = a
        /\ \A d \in PortCallers \ {c} : portCallers'[d] = portCallers[d]
    BY <1>1, <2>1, <2>2, <2>3
  <2>5. i \notin Scanning /\ i \notin portCache /\ Scanning' = Scanning \cup {i}
    BY <2>1, <2>3, <2>4 DEF Scanning, PortInv
  <2>6. \A j \in Scanning : scan[j].scope # s
    BY <1>4 DEF Scanning, PortInv, CacheHits, ScanSettled
  <2>7. /\ portCache' \subseteq portCache \cup {i} /\ Scanning' \subseteq portCache'
    BY <2>1, <2>5, <2>6 DEF Evict, ScanSettled, Scanning, PortInv
  <2>8. IsFiniteSet(Scanning') /\ Cardinality(Scanning') = scanSlots' /\ scanSlots' \in Nat /\ scanSlots' <= ConcurrentScans
    <3>1. IsFiniteSet(Scanning') /\ Cardinality(Scanning') = scanSlots + 1
      BY <2>5, FS_AddElement DEF PortInv
    <3>. QED
      BY <1>4, <3>1, PortAssumption DEF PortInv, PortTypeOK
  <2>9. /\ portCache' \subseteq Scans /\ \A j \in portCache' : scan'[j].pc \in {"collecting", "settled"}
    BY <2>3, <2>4, <2>7 DEF PortInv, PortTypeOK
  <2>10. \A j \in Scans : scan'[j].at <= scanClock'
    BY <1>1, <2>3, <2>4 DEF PortInv
  <2>11. \A j, k \in Scanning' : scan'[j].scope = scan'[k].scope => j = k
    BY <2>3, <2>4, <2>5, <2>6 DEF PortInv, Scanning
  <2>12. ASSUME NEW d \in PortCallers
         PROVE  /\ portCallers'[d].pc = "waiting" =>
                     portCallers'[d].scan \in Scanning' /\ scan'[portCallers'[d].scan].scope = portCallers'[d].scope
                /\ portCallers'[d].pc \in {"waiting", "answered"} => portCallers'[d].age < FreshScan
    <3>1. CASE d = c
      BY <2>3, <2>4, <2>5, <3>1
    <3>2. CASE d # c
      BY <2>4, <2>5, <3>2 DEF PortInv, Scanning
    <3>. QED
      BY <3>1, <3>2
  <2>. QED
    BY <1>1, <2>4, <2>7, <2>8, <2>9, <2>10, <2>11, <2>12 DEF PortInv, PortTypeOK, ScanRecords, Askers
<1>. QED
  BY <1>2, <1>3, <1>4 DEF AsksPorts

LEMMA StepPorts == PortInv /\ [PortNext]_portVars => PortInv'
<1>. SUFFICES ASSUME PortInv, [PortNext]_portVars PROVE PortInv'
  OBVIOUS
<1>1. CASE UNCHANGED portVars
  BY <1>1 DEF portVars, PortInv, PortTypeOK, Scanning
<1>2. CASE ScanTick
  <2>1. scanClock' \in 0..ScanTicks /\ scanClock < scanClock' /\ UNCHANGED <<scan, portCache, scanSlots, portCallers>>
    BY <1>2, PortAssumption DEF ScanTick, PortInv, PortTypeOK
  <2>2. \A i \in Scans : scan'[i].at <= scanClock'
    <3>1. \A i \in Scans : scan[i].at \in 0..ScanTicks
      BY DEF PortInv, PortTypeOK
    <3>. QED
      BY <2>1, <3>1, PortAssumption DEF PortInv, PortTypeOK
  <2>. QED
    BY <2>1, <2>2 DEF PortInv, PortTypeOK, Scanning
<1>3. ASSUME NEW i \in Scans, ScanSettles(i) PROVE PortInv'
  <2>1. PICK r : r = [scan[i] EXCEPT !.pc = "settled", !.at = scanClock]
    OBVIOUS
  <2>2. scan \in [Scans -> ScanRecords] /\ scanClock \in 0..ScanTicks /\ i \in Scanning
    BY <1>3 DEF PortInv, PortTypeOK, ScanRecords, ScanSettles, Scanning
  <2>3. r \in ScanRecords /\ r.pc = "settled" /\ r.at <= scanClock
    <3>1. scan[i] \in ScanRecords
      BY <2>2
    <3>2. r \in ScanRecords /\ r.pc = "settled" /\ r.at = scanClock
      BY <2>1, <2>2, <3>1 DEF ScanRecords
    <3>. QED
      BY <2>2, <3>2, PortAssumption
  <2>4. scan' = [scan EXCEPT ![i] = r]
    BY <1>3, <2>1, <2>2 DEF ScanSettles
  <2>. QED
    BY <1>3, <2>2, <2>3, <2>4, ScanEnds DEF ScanSettles
<1>4. ASSUME NEW i \in Scans, ScanFails(i) PROVE PortInv'
  <2>1. PICK p \in {"over", "late"} : scan' = [scan EXCEPT ![i].pc = p]
    BY <1>4 DEF ScanFails
  <2>2. PICK r : r = [scan[i] EXCEPT !.pc = p]
    OBVIOUS
  <2>3. scan \in [Scans -> ScanRecords] /\ i \in Scanning /\ scan[i].at <= scanClock
    BY <1>4 DEF PortInv, PortTypeOK, ScanRecords, ScanFails, Scanning
  <2>4. r \in ScanRecords /\ r.pc # "collecting" /\ r.at <= scanClock
    BY <2>2, <2>3 DEF ScanRecords
  <2>5. scan' = [scan EXCEPT ![i] = r]
    BY <2>1, <2>2, <2>3
  <2>. QED
    BY <1>4, <2>3, <2>4, <2>5, ScanEnds DEF ScanFails
<1>5. ASSUME NEW i \in Scans, LateScanEnds(i) PROVE PortInv'
  <2>1. PICK r : r = [scan[i] EXCEPT !.pc = "over"]
    OBVIOUS
  <2>2. scan \in [Scans -> ScanRecords] /\ scan[i].pc = "late" /\ UNCHANGED <<scanClock, portCache, scanSlots, portCallers>>
    BY <1>5 DEF PortInv, PortTypeOK, ScanRecords, LateScanEnds
  <2>3. r \in ScanRecords /\ r.pc = "over" /\ r.at = scan[i].at
    BY <2>1, <2>2 DEF ScanRecords
  <2>4. scan' = [scan EXCEPT ![i] = r]
    BY <1>5, <2>1, <2>2 DEF LateScanEnds
  <2>5. scan' \in [Scans -> ScanRecords] /\ scan'[i] = r /\ \A j \in Scans \ {i} : scan'[j] = scan[j]
    BY <2>2, <2>3, <2>4
  <2>6. Scanning' = Scanning
    BY <2>2, <2>3, <2>5 DEF Scanning
  <2>7. i \notin portCache /\ i \notin Scanning
    BY <2>2 DEF PortInv, Scanning
  <2>8. PortTypeOK'
    BY <2>2, <2>5 DEF PortInv, PortTypeOK, ScanRecords
  <2>9. /\ \A j \in Scans : scan'[j].at <= scanClock'
        /\ \A j \in portCache' : scan'[j].pc \in {"collecting", "settled"}
        /\ \A j \in Scanning' : j # i /\ scan'[j] = scan[j]
    BY <2>2, <2>3, <2>5, <2>6, <2>7 DEF PortInv, PortTypeOK, Scanning
  <2>. QED
    BY <2>2, <2>6, <2>8, <2>9 DEF PortInv
<1>. QED
  BY <1>1, <1>2, <1>3, <1>4, <1>5, AsksPortsKeeps DEF PortNext

(* ScansShared, for any number of callers, scopes, scans and bounds.       *)
THEOREM ScansSharedHolds == PortSpec => []ScansShared
<1>1. PortInv => ScansShared
  BY DEF PortInv, ScansShared
<1>. QED
  BY <1>1, InitPorts, StepPorts, PTL DEF PortSpec

(***************************************************************************)
(* SubagentLifecycle: one entry for each agent                             *)
(***************************************************************************)
Identities ==
  [tool : AgentTools \cup {Absent}, task : AgentTasks \cup {Absent}, thread : AgentThreads \cup {Absent}]
(* Frames name at most two of the aliases of an agent.                     *)
Named12(who) ==
  /\ who.tool # Absent \/ who.task # Absent \/ who.thread # Absent
  /\ who.thread # Absent => who.tool = Absent /\ who.task = Absent

Apart(d, e) ==
  /\ d.tool = Absent \/ d.tool # e.tool
  /\ d.task = Absent \/ d.task # e.task
  /\ d.thread = Absent \/ d.thread # e.thread
Recorded(seq) ==
  /\ seq \in Seq(AgentEntries)
  /\ \A k \in DOMAIN seq : seq[k].task \notin Shells
  /\ \A j, k \in DOMAIN seq : j # k => seq[j].id # seq[k].id /\ Apart(seq[j], seq[k])
(* The same agent, with other news of it.                                  *)
SameAgent(d, e) ==
  d \in AgentEntries /\ d.id = e.id /\ d.tool = e.tool /\ d.task = e.task /\ d.thread = e.thread

LifecycleInv ==
  /\ Recorded(agents) /\ Len(agents) <= RetainedAgents
  /\ counted \in Seq(AgentTools) /\ Len(counted) <= CountedLimit
  /\ truncated \in BOOLEAN /\ exhausted \in BOOLEAN
  /\ \A shell \in typed : <<"task", shell>> \in excluded \/ exhausted

LEMMA MatchesField ==
  ASSUME NEW e, NEW who
  PROVE  Matches(e, who) <=> \/ who.tool # Absent /\ e.tool = who.tool
                             \/ who.task # Absent /\ e.task = who.task
                             \/ who.thread # Absent /\ e.thread = who.thread
BY DEF Matches

LEMMA RecordsSubagents == LifecycleInv => SubagentRecords /\ LifecycleTypeOK
<1>. SUFFICES ASSUME LifecycleInv PROVE SubagentRecords /\ LifecycleTypeOK
  OBVIOUS
<1>1. agents \in Seq(AgentEntries)
  BY DEF LifecycleInv, Recorded
<1>2. \A k \in DOMAIN agents : agents[k] \in AgentEntries
  BY <1>1
<1>3. ASSUME NEW j \in DOMAIN agents, NEW k \in DOMAIN agents, j # k, NEW alias \in {"tool", "task", "thread"}
      PROVE  agents[j][alias] = Absent \/ agents[j][alias] # agents[k][alias]
  BY <1>3 DEF LifecycleInv, Recorded, Apart
<1>. QED
  BY <1>2, <1>3 DEF LifecycleInv, Recorded, SubagentRecords, AliasesUnique, NoShellInvented, LifecycleTypeOK

LEMMA InitRecordsSubagents == LifecycleInit => LifecycleInv
<1>. SUFFICES ASSUME LifecycleInit PROVE LifecycleInv
  OBVIOUS
<1>1. agents = <<>> /\ agents \in Seq(AgentEntries) /\ DOMAIN agents = {} /\ Len(agents) = 0
  BY DEF LifecycleInit
<1>2. counted \in Seq(AgentTools) /\ Len(counted) = 0 /\ typed = {}
  BY DEF LifecycleInit
<1>3. truncated \in BOOLEAN /\ exhausted \in BOOLEAN
  BY Zenon DEF LifecycleInit
<1>. QED
  BY <1>1, <1>2, <1>3, LifecycleAssumption DEF LifecycleInv, Recorded

(* What the changes of an entry do to its aliases.                         *)
LEMMA MergedFields ==
  ASSUME NEW a \in AgentEntries, NEW b \in AgentEntries
  PROVE  /\ Merged(a, b) \in AgentEntries /\ Merged(a, b).id = a.id
         /\ Merged(a, b).tool = Or(a.tool, b.tool) /\ Merged(a, b).task = Or(a.task, b.task)
         /\ Merged(a, b).thread = Or(a.thread, b.thread)
<1>1. /\ Merged(a, b).id = a.id
      /\ Merged(a, b).tool = Or(a.tool, b.tool) /\ Merged(a, b).task = Or(a.task, b.task)
      /\ Merged(a, b).thread = Or(a.thread, b.thread)
  BY DEF Merged, AgentEntries
<1>2. ASSUME NEW s \in {<<"failed", "interrupted", "completed", "running">>, <<"failed", "completed">>}, NEW X
      PROVE  Worst(X, s) = Absent \/ Worst(X, s) \in {s[i] : i \in DOMAIN s} \cap X
  <2>1. DOMAIN s = 1..Len(s) /\ (Len(s) = 4 \/ Len(s) = 2)
    OBVIOUS
  <2>. DEFINE I == {i \in DOMAIN s : s[i] \in X}
  <2>. DEFINE P(i) == s[i] \in X /\ \A j \in 1..(i - 1) : s[j] \notin X
  <2>2. CASE I = {}
    <3>1. X \cap {s[i] : i \in DOMAIN s} = {}
      BY <2>2
    <3>. QED
      BY <3>1 DEF Worst
  <2>3. CASE I # {}
    <3>0. X \cap {s[i] : i \in DOMAIN s} # {}
      BY <2>3
    <3>1. I \in SUBSET Nat
      BY <2>1
    <3>. HIDE DEF I
    <3>2. PICK m \in I : \A n \in I : m <= n
      BY <2>3, <3>1, LeastNatural
    <3>. USE DEF I
    <3>3. m \in DOMAIN s /\ P(m)
      BY <2>1, <3>2
    <3>4. (CHOOSE i \in DOMAIN s : P(i)) \in DOMAIN s /\ P(CHOOSE i \in DOMAIN s : P(i))
      BY <3>3
    <3>5. Worst(X, s) = s[CHOOSE i \in DOMAIN s : P(i)]
      BY <3>0 DEF Worst
    <3>. QED
      BY <3>4, <3>5
  <2>. QED
    BY <2>2, <2>3
<1>3. Merged(a, b) \in AgentEntries
  <2>. DEFINE t == Worst({a.telemetry, b.telemetry}, <<"failed", "interrupted", "completed", "running">>)
  <2>. DEFINE o == Worst({a.outcome, b.outcome}, <<"failed", "completed">>)
  <2>1. t = Absent \/ t \in {a.telemetry, b.telemetry}
    BY <1>2
  <2>2. o = Absent \/ o \in {a.outcome, b.outcome}
    BY <1>2
  <2>. HIDE DEF t, o
  <2>3. t \in AgentStates \cup {Absent} /\ o \in {"completed", "failed", Absent}
    BY <2>1, <2>2 DEF AgentEntries
  <2>4. Merged(a, b) = [a EXCEPT !.tool = Or(a.tool, b.tool), !.task = Or(a.task, b.task),
                          !.thread = Or(a.thread, b.thread),
                          !.parent = IF a.parent = b.parent THEN a.parent ELSE Absent,
                          !.telemetry = t, !.outcome = o,
                          !.nested = IF a.nested = 0 THEN b.nested ELSE a.nested]
    BY DEF Merged, t, o
  <2>. QED
    BY <2>3, <2>4 DEF AgentEntries, Or
<1>. QED
  BY <1>1, <1>3

(* An agent has failed when its outcome or its telemetry says so.          *)
HasFailed(e) == "failed" \in {e.outcome, e.telemetry}
LEMMA FailedState == ASSUME NEW e \in AgentEntries PROVE StateOf(e) = "failed" <=> HasFailed(e)
BY DEF StateOf, HasFailed, Or, AgentEntries, Absent

LEMMA MergedFails ==
  ASSUME NEW a \in AgentEntries, NEW b \in AgentEntries, HasFailed(a) \/ HasFailed(b)
  PROVE  HasFailed(Merged(a, b))
<1>1. ASSUME NEW s \in {<<"failed", "interrupted", "completed", "running">>, <<"failed", "completed">>},
             NEW X, "failed" \in X
      PROVE  Worst(X, s) = "failed"
  <2>1. DOMAIN s = 1..Len(s) /\ (Len(s) = 4 \/ Len(s) = 2) /\ s[1] = "failed"
    OBVIOUS
  <2>. DEFINE P(i) == s[i] \in X /\ \A j \in 1..(i - 1) : s[j] \notin X
  <2>. DEFINE c == CHOOSE i \in DOMAIN s : P(i)
  <2>2. 1 \in DOMAIN s /\ P(1)
    BY <1>1, <2>1
  <2>3. c \in DOMAIN s /\ P(c)
    BY <2>2
  <2>4. X \cap {s[i] : i \in DOMAIN s} # {}
    BY <1>1, <2>1, <2>2
  <2>5. Worst(X, s) = s[c]
    BY <2>4 DEF Worst
  <2>. HIDE DEF c
  <2>6. c = 1
    <3>1. CASE c > 1
      BY <1>1, <2>1, <2>3, <3>1
    <3>. QED
      BY <2>1, <2>3, <3>1
  <2>. QED
    BY <2>1, <2>5, <2>6
<1>. DEFINE t == Worst({a.telemetry, b.telemetry}, <<"failed", "interrupted", "completed", "running">>)
<1>. DEFINE o == Worst({a.outcome, b.outcome}, <<"failed", "completed">>)
<1>2. t = "failed" \/ o = "failed"
  BY <1>1 DEF HasFailed
<1>3. Merged(a, b).telemetry = t /\ Merged(a, b).outcome = o
  BY DEF Merged, AgentEntries
<1>. QED
  BY <1>2, <1>3 DEF HasFailed

LEMMA NamedFields ==
  ASSUME NEW e \in AgentEntries, NEW who \in Identities
  PROVE  /\ Named(e, who) \in AgentEntries /\ Named(e, who).id = e.id
         /\ Named(e, who).tool = Or(who.tool, e.tool) /\ Named(e, who).task = Or(who.task, e.task)
         /\ Named(e, who).thread = Or(who.thread, e.thread)
<1>1. Named(e, who) \in AgentEntries
  <2>. DEFINE x == Or(who.tool, e.tool)
  <2>. DEFINE y == Or(who.task, e.task)
  <2>. DEFINE z == Or(who.thread, e.thread)
  <2>1. /\ x \in AgentTools \cup {Absent} /\ y \in AgentTasks \cup Shells \cup {Absent}
        /\ z \in AgentThreads \cup {Absent}
    BY DEF AgentEntries, Identities, Or
  <2>2. Named(e, who) = [e EXCEPT !.tool = x, !.task = y, !.thread = z]
    BY DEF Named
  <2>. HIDE DEF x, y, z
  <2>. QED
    BY <2>1, <2>2 DEF AgentEntries
<1>. QED
  BY <1>1 DEF Named, AgentEntries

LEMMA NewAgentFields ==
  ASSUME NEW kind \in {"tool", "task", "thread"}, NEW x \in AgentTools \cup AgentTasks \cup AgentThreads
  PROVE  LET e == NewAgent(<<kind, x>>) IN
           e \in AgentEntries /\ e.tool = Absent /\ e.task = Absent /\ e.thread = Absent
BY LifecycleAssumption DEF NewAgent, AgentEntries

LEMMA ApartSymmetric == ASSUME NEW d, NEW e, Apart(d, e) PROVE Apart(e, d)
BY DEF Apart

(* A record in which only the news changed.                                *)
LEMMA SameAgentsRecorded ==
  ASSUME NEW seq, Recorded(seq), NEW new, new = [k \in DOMAIN seq |-> new[k]],
         \A k \in DOMAIN seq : SameAgent(new[k], seq[k])
  PROVE  Recorded(new) /\ Len(new) = Len(seq)
<1>1. seq \in Seq(AgentEntries) /\ Len(seq) \in Nat /\ DOMAIN seq = 1..Len(seq)
  BY DEF Recorded
<1>2. new \in Seq(AgentEntries)
  BY <1>1 DEF SameAgent
<1>3. DOMAIN new = DOMAIN seq /\ Len(new) = Len(seq)
  BY <1>1
<1>. QED
  BY <1>2, <1>3 DEF Recorded, SameAgent, Apart

(* Another agent, which nobody knew.                                       *)
LEMMA PutRecorded ==
  ASSUME NEW seq, Recorded(seq), NEW e \in AgentEntries, e.task \notin Shells,
         \A k \in DOMAIN seq : Apart(e, seq[k])
  PROVE  Recorded(Put(seq, e)) /\ Len(Put(seq, e)) <= Len(seq) + 1
<1>1. seq \in Seq(AgentEntries) /\ Len(seq) \in Nat /\ DOMAIN seq = 1..Len(seq)
  BY DEF Recorded
<1>2. \A k \in DOMAIN seq : Apart(seq[k], e)
  BY ApartSymmetric
<1>3. CASE \E k \in DOMAIN seq : seq[k].id = e.id
  <2>. DEFINE new == [k \in DOMAIN seq |-> IF seq[k].id = e.id THEN e ELSE seq[k]]
  <2>1. Put(seq, e) = new
    BY <1>3 DEF Put
  <2>2. new \in Seq(AgentEntries) /\ DOMAIN new = DOMAIN seq /\ Len(new) = Len(seq)
    BY <1>1
  <2>3. \A k \in DOMAIN seq : new[k] = IF seq[k].id = e.id THEN e ELSE seq[k]
    OBVIOUS
  <2>. HIDE DEF new
  <2>4. Recorded(new)
    BY <1>2, <2>2, <2>3 DEF Recorded
  <2>. QED
    BY <1>1, <2>1, <2>2, <2>4
<1>4. CASE \A k \in DOMAIN seq : seq[k].id # e.id
  <2>. DEFINE new == Append(seq, e)
  <2>1. Put(seq, e) = new
    BY <1>4 DEF Put
  <2>2. new \in Seq(AgentEntries) /\ Len(new) = Len(seq) + 1 /\ DOMAIN new = 1..Len(seq) + 1
    BY <1>1
  <2>3. \A k \in DOMAIN seq : new[k] = seq[k]
    BY <1>1
  <2>4. new[Len(seq) + 1] = e
    BY <1>1
  <2>. HIDE DEF new
  <2>5. \A k \in DOMAIN new : k \in DOMAIN seq \/ k = Len(seq) + 1
    BY <1>1, <2>2
  <2>6. Recorded(new)
    BY <1>2, <1>4, <2>2, <2>3, <2>4, <2>5 DEF Recorded
  <2>. QED
    BY <1>1, <2>1, <2>2, <2>6
<1>. QED
  BY <1>3, <1>4

(* What becomes of an entry while an identity is resolved.                 *)
CarriesOver(e, f, who) ==
  f = e \/ (Matches(e, who) /\ Matches(f, who) /\ (HasFailed(e) => HasFailed(f)))

(* Once an identity is resolved one entry at most matches it.              *)
LEMMA ResolvedRecorded ==
  ASSUME Recorded(agents), NEW who \in Identities, Named12(who)
  PROVE  /\ Recorded(Resolved(who)) /\ Len(Resolved(who)) <= Len(agents)
         /\ \A j, k \in Hits(Resolved(who), who) : j = k
         /\ \A k \in DOMAIN agents : \E l \in DOMAIN Resolved(who) : CarriesOver(agents[k], Resolved(who)[l], who)
<1>. DEFINE hits == Hits(agents, who)
<1>1. agents \in Seq(AgentEntries) /\ Len(agents) \in Nat /\ DOMAIN agents = 1..Len(agents)
  BY DEF Recorded
<1>2. hits \subseteq 1..Len(agents) /\ hits \in SUBSET Nat
  BY <1>1 DEF Hits
<1>3. IsFiniteSet(hits)
  <2>1. IsFiniteSet(1..Len(agents))
    BY <1>1, FS_Interval
  <2>. QED
    BY <1>2, <2>1, FS_Subset
<1>4. CASE Cardinality(hits) < 2
  <2>1. Resolved(who) = agents
    BY <1>4 DEF Resolved
  <2>2. ASSUME NEW j \in hits, NEW k \in hits, j # k PROVE FALSE
    <3>1. Cardinality({j, k}) = 2
      <4>1. IsFiniteSet({j}) /\ Cardinality({j}) = 1
        BY FS_Singleton
      <4>2. Cardinality({j} \cup {k}) = Cardinality({j}) + 1
        BY <2>2, <4>1, FS_AddElement
      <4>3. {j, k} = {j} \cup {k}
        OBVIOUS
      <4>. QED
        BY <4>1, <4>2, <4>3
    <3>2. {j, k} \subseteq hits
      OBVIOUS
    <3>3. Cardinality({j, k}) <= Cardinality(hits)
      BY <1>3, <3>2, FS_Subset
    <3>4. Cardinality(hits) \in Nat
      BY <1>3, FS_CardinalityType
    <3>. QED
      BY <1>4, <3>1, <3>3, <3>4
  <2>. QED
    BY <1>1, <2>1, <2>2 DEF CarriesOver
<1>5. CASE ~(Cardinality(hits) < 2)
  <2>. DEFINE i == CHOOSE k \in hits : \A l \in hits : k <= l
  <2>. DEFINE j == CHOOSE k \in hits : k # i
  <2>. DEFINE one == [agents EXCEPT ![i] = Merged(@, agents[j])]
  <2>. DEFINE R == RemoveAt(one, j)
  <2>1. Resolved(who) = R
    BY <1>5 DEF Resolved
  <2>2. hits # {}
    BY <1>5, FS_EmptySet
  <2>3. i \in hits
    <3>. HIDE DEF hits
    <3>1. \E m \in hits : \A n \in hits : m <= n
      BY <1>2, <2>2, LeastNatural
    <3>. QED
      BY <3>1
  <2>. HIDE DEF i
  <2>4. \E k \in hits : k # i
    <3>1. SUFFICES ASSUME hits = {i} PROVE FALSE
      BY <2>3
    <3>2. Cardinality({i}) = 1
      BY FS_Singleton
    <3>. QED
      BY <1>5, <3>1, <3>2
  <2>5. j \in hits /\ j # i
    BY <2>4
  <2>. HIDE DEF j
  <2>6. i \in DOMAIN agents /\ j \in DOMAIN agents /\ agents[i] \in AgentEntries /\ agents[j] \in AgentEntries
    BY <1>1, <1>2, <2>3, <2>5
  <2>. DEFINE m == Merged(agents[i], agents[j])
  <2>7. /\ m \in AgentEntries /\ m.id = agents[i].id
        /\ m.tool = Or(agents[i].tool, agents[j].tool) /\ m.task = Or(agents[i].task, agents[j].task)
        /\ m.thread = Or(agents[i].thread, agents[j].thread)
    BY <2>6, MergedFields
  <2>8. /\ one \in Seq(AgentEntries) /\ Len(one) = Len(agents) /\ one[i] = m
        /\ \A k \in DOMAIN agents \ {i} : one[k] = agents[k]
    BY <1>1, <2>6, <2>7
  <2>. HIDE DEF m, one
  <2>. DEFINE from(k) == IF k <= j - 1 THEN k ELSE k + 1
  <2>9. /\ R \in Seq(AgentEntries) /\ Len(R) = Len(agents) - 1
        /\ \A k \in 1..Len(agents) - 1 : R[k] = one[from(k)]
    BY <1>1, <2>6, <2>8, RemoveAtElements
  <2>. HIDE DEF R
  <2>10. DOMAIN R = 1..Len(agents) - 1
    BY <2>9
  <2>11. \A k \in DOMAIN R : from(k) \in DOMAIN agents /\ from(k) # j /\ R[k] = one[from(k)]
    BY <1>1, <2>6, <2>9, <2>10
  <2>12. \A k, l \in DOMAIN R : k # l => from(k) # from(l)
    BY <1>1, <2>6, <2>10
  <2>f. \A k \in DOMAIN agents \ {j} : \E l \in DOMAIN R : from(l) = k
    <3>1. ASSUME NEW k \in DOMAIN agents \ {j} PROVE \E l \in DOMAIN R : from(l) = k
      <4>1. CASE k < j
        BY <1>1, <2>6, <2>10, <4>1
      <4>2. CASE k > j
        <5>1. k - 1 \in DOMAIN R /\ from(k - 1) = k
          BY <1>1, <2>6, <2>10, <4>2
        <5>. QED
          BY <5>1
      <4>. QED
        BY <1>1, <2>6, <4>1, <4>2
    <3>. QED
      BY <3>1
  <2>. HIDE DEF from
  <2>13. \A q \in DOMAIN agents \ {i, j} : Apart(agents[i], agents[q]) /\ Apart(agents[j], agents[q])
    BY <2>5, <2>6 DEF Recorded
  <2>14. \A q \in DOMAIN agents \ {i, j} : Apart(m, agents[q]) /\ m.id # agents[q].id
    BY <2>6, <2>7, <2>13 DEF Recorded, Apart, Or
  <2>15. \A p, q \in DOMAIN agents \ {j} : p # q => one[p].id # one[q].id /\ Apart(one[p], one[q])
    <3>1. ASSUME NEW p \in DOMAIN agents \ {j}, NEW q \in DOMAIN agents \ {j}, p # q
          PROVE  one[p].id # one[q].id /\ Apart(one[p], one[q])
      <4>1. CASE p = i
        BY <2>8, <2>14, <3>1, <4>1
      <4>2. CASE q = i
        BY <2>8, <2>14, <3>1, <4>2, ApartSymmetric
      <4>3. CASE p # i /\ q # i
        BY <2>8, <3>1, <4>3 DEF Recorded
      <4>. QED
        BY <4>1, <4>2, <4>3
    <3>. QED
      BY <3>1
  <2>16. \A p \in DOMAIN agents \ {j} : one[p].task \notin Shells
    BY <2>6, <2>7, <2>8, LifecycleAssumption DEF Recorded, Or, Absent
  <2>17. Recorded(R)
    <3>1. \A k \in DOMAIN R : from(k) \in DOMAIN agents \ {j} /\ R[k] = one[from(k)]
      BY <2>11
    <3>2. \A k \in DOMAIN R : R[k].task \notin Shells
      BY <2>16, <3>1
    <3>3. \A k, l \in DOMAIN R : k # l => R[k].id # R[l].id /\ Apart(R[k], R[l])
      BY <2>12, <2>15, <3>1
    <3>. QED
      BY <2>9, <3>2, <3>3 DEF Recorded
  <2>18. Matches(agents[i], who) /\ Matches(agents[j], who)
    BY <2>3, <2>5 DEF Hits
  <2>19. Apart(agents[i], agents[j])
    BY <2>5, <2>6 DEF Recorded
  <2>20. \A q \in DOMAIN agents \ {i, j} : ~Matches(agents[q], who)
    BY <2>13, <2>18, <2>19, MatchesField DEF Apart, Named12
  <2>21. \A k \in Hits(R, who) : k \in DOMAIN R /\ from(k) = i
    BY <2>8, <2>11, <2>20 DEF Hits
  <2>22. \A k, l \in Hits(R, who) : k = l
    BY <2>12, <2>21
  <2>23. \A k \in DOMAIN agents : \E l \in DOMAIN R : CarriesOver(agents[k], R[l], who)
    <3>1. ASSUME NEW k \in DOMAIN agents \ {i, j} PROVE \E l \in DOMAIN R : CarriesOver(agents[k], R[l], who)
      <4>1. PICK l \in DOMAIN R : from(l) = k
        BY <2>f, <3>1
      <4>2. R[l] = agents[k]
        BY <2>8, <2>11, <3>1, <4>1
      <4>. QED
        BY <4>2 DEF CarriesOver
    <3>2. PICK l \in DOMAIN R : from(l) = i
      BY <2>5, <2>6, <2>f
    <3>3. R[l] = m
      BY <2>8, <2>11, <3>2
    <3>4. Matches(m, who)
      BY <2>7, <2>18, MatchesField DEF Or
    <3>5. HasFailed(agents[i]) \/ HasFailed(agents[j]) => HasFailed(m)
      BY <2>6, MergedFails DEF m
    <3>6. CarriesOver(agents[i], R[l], who) /\ CarriesOver(agents[j], R[l], who)
      BY <2>18, <3>3, <3>4, <3>5 DEF CarriesOver
    <3>. QED
      BY <3>1, <3>6
  <2>. QED
    BY <1>1, <2>1, <2>9, <2>17, <2>22, <2>23
<1>. QED
  BY <1>4, <1>5

LEMMA WithAgentRecorded ==
  ASSUME Recorded(agents), Len(agents) <= RetainedAgents, NEW who \in Identities, Named12(who)
  PROVE  Recorded(WithAgent(who)) /\ Len(WithAgent(who)) <= RetainedAgents
<1>. DEFINE seq == Resolved(who)
<1>. DEFINE hits == Hits(seq, who)
<1>. DEFINE h == CHOOSE k \in hits : TRUE
<1>. DEFINE new == Named(NewAgent(FirstKey(who)), who)
<1>1. Recorded(seq) /\ Len(seq) <= Len(agents) /\ \A j, k \in hits : j = k
  BY ResolvedRecorded
<1>2. WithAgent(who) = IF hits # {} THEN [seq EXCEPT ![h] = Named(@, who)]
                       ELSE IF Len(seq) >= RetainedAgents THEN seq ELSE Put(seq, new)
  BY DEF WithAgent
<1>n. /\ RetainedAgents \in Nat /\ Len(agents) \in Nat /\ Len(seq) \in Nat
      /\ seq \in Seq(AgentEntries) /\ DOMAIN seq = 1..Len(seq)
  BY <1>1, LifecycleAssumption DEF Recorded
<1>3. Len(seq) <= RetainedAgents
  BY <1>1, <1>n
<1>t. who.task \notin Shells
  BY LifecycleAssumption DEF Identities, Absent
<1>m. \A k \in hits : k \in DOMAIN seq /\ Matches(seq[k], who)
  BY DEF Hits
<1>u. \A k \in DOMAIN seq \ hits : ~Matches(seq[k], who)
  BY DEF Hits
<1>. HIDE DEF seq, hits
<1>4. CASE hits # {}
  <2>1. h \in hits
    BY <1>4
  <2>. HIDE DEF h
  <2>. DEFINE e == Named(seq[h], who)
  <2>. DEFINE changed == [seq EXCEPT ![h] = Named(@, who)]
  <2>2. h \in DOMAIN seq /\ seq[h] \in AgentEntries
    BY <1>m, <1>n, <2>1
  <2>3. /\ e \in AgentEntries /\ e.id = seq[h].id
        /\ e.tool = Or(who.tool, seq[h].tool) /\ e.task = Or(who.task, seq[h].task)
        /\ e.thread = Or(who.thread, seq[h].thread)
    BY <2>2, NamedFields
  <2>4. /\ changed \in Seq(AgentEntries) /\ DOMAIN changed = DOMAIN seq /\ Len(changed) = Len(seq) /\ changed[h] = e
        /\ \A k \in DOMAIN seq \ {h} : changed[k] = seq[k]
    BY <1>n, <2>2, <2>3
  <2>. HIDE DEF e, changed
  <2>5. \A k \in DOMAIN seq \ {h} : Apart(seq[h], seq[k]) /\ ~Matches(seq[k], who) /\ seq[h].id # seq[k].id
    BY <1>1, <1>u, <2>1, <2>2 DEF Recorded
  <2>6. \A k \in DOMAIN seq \ {h} : Apart(e, seq[k]) /\ Apart(seq[k], e)
    <3>1. ASSUME NEW k \in DOMAIN seq \ {h} PROVE Apart(e, seq[k])
      BY <2>3, <2>5, MatchesField DEF Apart, Or
    <3>. QED
      BY <3>1, ApartSymmetric
  <2>7. e.task \notin Shells
    BY <1>1, <1>t, <2>2, <2>3 DEF Or, Recorded
  <2>8. Recorded(changed)
    BY <1>1, <2>3, <2>4, <2>5, <2>6, <2>7 DEF Recorded
  <2>9. WithAgent(who) = changed
    BY <1>2, <1>4 DEF changed
  <2>. QED
    BY <1>3, <2>4, <2>8, <2>9
<1>5. CASE hits = {} /\ Len(seq) >= RetainedAgents
  BY <1>1, <1>2, <1>3, <1>5
<1>6. CASE hits = {} /\ ~(Len(seq) >= RetainedAgents)
  <2>. DEFINE e == NewAgent(FirstKey(who))
  <2>1. e \in AgentEntries /\ e.tool = Absent /\ e.task = Absent /\ e.thread = Absent
    BY NewAgentFields DEF FirstKey, Identities, Named12
  <2>. HIDE DEF e
  <2>2. /\ Named(e, who) \in AgentEntries /\ Named(e, who).tool = who.tool
        /\ Named(e, who).task = who.task /\ Named(e, who).thread = who.thread
    BY <2>1, NamedFields DEF Or
  <2>3. \A k \in DOMAIN seq : ~Matches(seq[k], who)
    BY <1>6, <1>u
  <2>4. \A k \in DOMAIN seq : Apart(Named(e, who), seq[k])
    BY <2>2, <2>3, MatchesField DEF Apart
  <2>5. Recorded(Put(seq, Named(e, who))) /\ Len(Put(seq, Named(e, who))) <= Len(seq) + 1
    BY <1>1, <1>t, <2>2, <2>4, PutRecorded
  <2>6. WithAgent(who) = Put(seq, Named(e, who))
    BY <1>2, <1>6 DEF e
  <2>7. Len(seq) + 1 <= RetainedAgents
    BY <1>6, <1>n
  <2>8. Len(Put(seq, Named(e, who))) \in Nat
    BY <2>5 DEF Recorded
  <2>. QED
    BY <1>n, <2>5, <2>6, <2>7, <2>8
<1>. QED
  BY <1>4, <1>5, <1>6

(* A failure that is on record under its key is not lost by an event.      *)
FailureKept(e, seq) ==
  \E l \in DOMAIN seq : HasFailed(seq[l]) /\ (seq[l].id = e.id \/ Matches(e, seq[l]))

LEMMA WithAgentKeepsFailures ==
  ASSUME Recorded(agents), NEW who \in Identities, Named12(who), who.thread = Absent,
         NEW k \in DOMAIN agents, HasFailed(agents[k]), KeyHolds(agents[k])
  PROVE  FailureKept(agents[k], WithAgent(who))
<1>. DEFINE seq == Resolved(who)
<1>. DEFINE hits == Hits(seq, who)
<1>. DEFINE h == CHOOSE q \in hits : TRUE
<1>. DEFINE new == Named(NewAgent(FirstKey(who)), who)
<1>1. Recorded(seq) /\ \A p, q \in hits : p = q
  BY ResolvedRecorded
<1>2. PICK l \in DOMAIN seq : CarriesOver(agents[k], seq[l], who)
  BY ResolvedRecorded
<1>3. WithAgent(who) = IF hits # {} THEN [seq EXCEPT ![h] = Named(@, who)]
                       ELSE IF Len(seq) >= RetainedAgents THEN seq ELSE Put(seq, new)
  BY DEF WithAgent
<1>4. /\ \A q \in hits : q \in DOMAIN seq /\ Matches(seq[q], who)
      /\ \A q \in DOMAIN seq \ hits : ~Matches(seq[q], who)
  BY DEF Hits
<1>5. HasFailed(seq[l])
  BY <1>2 DEF CarriesOver
<1>n. seq \in Seq(AgentEntries) /\ Len(seq) \in Nat /\ DOMAIN seq = 1..Len(seq) /\ seq[l] \in AgentEntries
  BY <1>1 DEF Recorded
<1>. HIDE DEF seq, hits
<1>6. CASE hits # {}
  <2>1. h \in hits
    BY <1>6
  <2>. HIDE DEF h
  <2>2. WithAgent(who) = [seq EXCEPT ![h] = Named(seq[h], who)] /\ h \in DOMAIN seq
    BY <1>3, <1>4, <1>6, <2>1 DEF h
  <2>3. CASE l # h
    <3>1. l \in DOMAIN WithAgent(who) /\ WithAgent(who)[l] = seq[l]
      BY <2>2, <2>3
    <3>2. ~Matches(seq[l], who)
      BY <1>1, <1>4, <2>1, <2>3
    <3>. QED
      BY <1>2, <1>5, <3>1, <3>2 DEF CarriesOver, FailureKept
  <2>4. CASE l = h
    <3>. DEFINE f == Named(seq[l], who)
    <3>1. l \in DOMAIN WithAgent(who) /\ WithAgent(who)[l] = f
      BY <2>2, <2>4
    <3>2. /\ f.id = seq[l].id /\ f.tool = Or(who.tool, seq[l].tool) /\ f.task = Or(who.task, seq[l].task)
          /\ f.thread = Or(who.thread, seq[l].thread)
      BY <1>n, NamedFields
    <3>3. HasFailed(f)
      BY <1>5, <1>n DEF HasFailed, Named, AgentEntries
    <3>. HIDE DEF f
    <3>4. Matches(agents[k], who) => Matches(agents[k], f)
      BY <3>2, MatchesField DEF Or
    <3>. QED
      BY <1>2, <3>1, <3>2, <3>3, <3>4 DEF CarriesOver, FailureKept
  <2>. QED
    BY <2>3, <2>4
<1>7. CASE hits = {}
  <2>1. ~Matches(seq[l], who)
    BY <1>4, <1>7
  <2>2. seq[l] = agents[k]
    BY <1>2, <2>1 DEF CarriesOver
  <2>3. CASE Len(seq) >= RetainedAgents
    BY <1>3, <1>5, <1>7, <2>2, <2>3 DEF FailureKept
  <2>4. CASE ~(Len(seq) >= RetainedAgents)
    <3>1. WithAgent(who) = Put(seq, new)
      BY <1>3, <1>7, <2>4
    <3>2. FirstKey(who) \in {<<"tool", who.tool>>, <<"task", who.task>>}
          /\ (FirstKey(who) = <<"tool", who.tool>> => who.tool # Absent)
          /\ (FirstKey(who) = <<"task", who.task>> => who.task # Absent)
      BY DEF FirstKey, Named12
    <3>3. seq[l].id # FirstKey(who)
      BY <2>1, <2>2, <3>2, MatchesField DEF KeyHolds
    <3>4. new.id = FirstKey(who)
      BY DEF Named, NewAgent
    <3>. HIDE DEF new
    <3>5. l \in DOMAIN Put(seq, new) /\ Put(seq, new)[l] = seq[l]
      BY <1>n, <3>3, <3>4 DEF Put
    <3>. QED
      BY <1>5, <2>2, <3>1, <3>5 DEF FailureKept
  <2>. QED
    BY <2>3, <2>4
<1>. QED
  BY <1>6, <1>7

(* An event of an agent: whatever news it brings, the record is one of     *)
(* agents.                                                                 *)
LEMMA NewsKeep ==
  ASSUME LifecycleInv, NEW who \in Identities, Named12(who),
         agents' = [k \in DOMAIN WithAgent(who) |-> agents'[k]],
         \A k \in DOMAIN WithAgent(who) :
           agents'[k] = WithAgent(who)[k] \/ SameAgent(agents'[k], WithAgent(who)[k]),
         truncated' \in BOOLEAN, UNCHANGED <<counted, excluded, exhausted, typed>>
  PROVE  LifecycleInv'
<1>. DEFINE seq == WithAgent(who)
<1>1. Recorded(seq) /\ Len(seq) <= RetainedAgents
  BY WithAgentRecorded DEF LifecycleInv
<1>2. \A k \in DOMAIN seq : seq[k] \in AgentEntries
  BY <1>1 DEF Recorded
<1>. HIDE DEF seq
<1>3. \A k \in DOMAIN seq : SameAgent(agents'[k], seq[k])
  BY <1>2 DEF SameAgent, seq
<1>4. agents' = [k \in DOMAIN seq |-> agents'[k]]
  BY DEF seq
<1>5. Recorded(agents') /\ Len(agents') = Len(seq)
  BY <1>1, <1>3, <1>4, SameAgentsRecorded
<1>. QED
  BY <1>1, <1>5 DEF LifecycleInv

LEMMA ToolCallKeeps == ASSUME LifecycleInv, NEW tool \in AgentTools, ToolCall(tool) PROVE LifecycleInv'
<1>. DEFINE who == Identity(tool, Absent, Absent)
<1>1. who \in Identities /\ Named12(who)
  BY LifecycleAssumption DEF Identity, Identities, Named12, Absent
<1>2. /\ agents' = [k \in DOMAIN WithAgent(who) |-> agents'[k]]
      /\ \A k \in DOMAIN WithAgent(who) : agents'[k] = WithAgent(who)[k]
  BY DEF ToolCall, Retain, Same
<1>3. truncated' \in BOOLEAN /\ UNCHANGED <<counted, excluded, exhausted, typed>>
  BY DEF ToolCall, Retain
<1>. HIDE DEF who
<1>. QED
  BY <1>1, <1>2, <1>3, NewsKeep

LEMMA ToolResultKeeps ==
  ASSUME LifecycleInv, NEW tool \in AgentTools, NEW outcome \in {"completed", "failed"}, ToolResult(tool, outcome)
  PROVE  LifecycleInv'
<1>. DEFINE who == Identity(tool, Absent, Absent)
<1>. DEFINE seq == WithAgent(who)
<1>. DEFINE Set(e) == [e EXCEPT !.outcome = Or(@, outcome)]
<1>1. who \in Identities /\ Named12(who)
  BY LifecycleAssumption DEF Identity, Identities, Named12, Absent
<1>2. agents' = [k \in DOMAIN seq |-> IF Matches(seq[k], who) THEN Set(seq[k]) ELSE seq[k]]
  BY DEF ToolResult, Retain
<1>3. truncated' \in BOOLEAN /\ UNCHANGED <<counted, excluded, exhausted, typed>>
  BY DEF ToolResult, Retain
<1>. HIDE DEF who
<1>4. \A e \in AgentEntries : SameAgent(Set(e), e)
  BY DEF SameAgent, AgentEntries, Or
<1>5. \A k \in DOMAIN seq : seq[k] \in AgentEntries
  BY <1>1, WithAgentRecorded DEF LifecycleInv, Recorded
<1>. HIDE DEF Set
<1>6. /\ agents' = [k \in DOMAIN seq |-> agents'[k]]
      /\ \A k \in DOMAIN seq : agents'[k] = seq[k] \/ SameAgent(agents'[k], seq[k])
  BY <1>2, <1>4, <1>5
<1>. QED
  BY <1>1, <1>3, <1>6, NewsKeep

(* Telemetry of a task, a thread or a turn.                                *)
LEMMA TelemetryKeeps ==
  ASSUME LifecycleInv, NEW who \in Identities, Named12(who),
         agents' = [k \in DOMAIN WithAgent(who) |-> agents'[k]],
         \A k \in DOMAIN WithAgent(who) : \E status \in AgentStates \cup {Absent} :
           agents'[k] \in {WithAgent(who)[k], [WithAgent(who)[k] EXCEPT !.telemetry = status]},
         truncated' \in BOOLEAN, UNCHANGED <<counted, excluded, exhausted, typed>>
  PROVE  LifecycleInv'
<1>. DEFINE seq == WithAgent(who)
<1>1. \A e \in AgentEntries, status \in AgentStates \cup {Absent} :
        SameAgent([e EXCEPT !.telemetry = status], e)
  BY DEF SameAgent, AgentEntries
<1>2. \A k \in DOMAIN seq : seq[k] \in AgentEntries
  BY WithAgentRecorded DEF LifecycleInv, Recorded
<1>3. \A k \in DOMAIN seq : agents'[k] = seq[k] \/ SameAgent(agents'[k], seq[k])
  BY <1>1, <1>2
<1>. QED
  BY <1>3, NewsKeep

LEMMA TaskFrameKeeps ==
  ASSUME LifecycleInv, NEW tool \in AgentTools \cup {Absent}, NEW task \in AgentTasks \cup {Absent},
         NEW status \in Statuses, TaskFrame(tool, task, status)
  PROVE  LifecycleInv'
<1>. DEFINE who == Identity(tool, task, Absent)
<1>. DEFINE seq == WithAgent(who)
<1>1. who \in Identities /\ Named12(who)
  BY DEF Identity, Identities, Named12, TaskFrame
<1>2. agents' = [k \in DOMAIN seq |-> IF Matches(seq[k], who)
                                      THEN [seq[k] EXCEPT !.telemetry = Telemetry(seq[k], status)] ELSE seq[k]]
  BY DEF TaskFrame, Retain
<1>3. truncated' \in BOOLEAN /\ UNCHANGED <<counted, excluded, exhausted, typed>>
  BY DEF TaskFrame, Retain
<1>. HIDE DEF who
<1>4. \A k \in DOMAIN seq : seq[k] \in AgentEntries
  BY <1>1, WithAgentRecorded DEF LifecycleInv, Recorded
<1>5. \A e \in AgentEntries : Telemetry(e, status) \in AgentStates \cup {Absent}
  BY LifecycleAssumption DEF Telemetry, AgentEntries, AgentStates
<1>6. /\ agents' = [k \in DOMAIN seq |-> agents'[k]]
      /\ \A k \in DOMAIN seq : \E s \in AgentStates \cup {Absent} :
           agents'[k] \in {seq[k], [seq[k] EXCEPT !.telemetry = s]}
  BY <1>2, <1>4, <1>5
<1>. QED
  BY <1>1, <1>3, <1>6, TelemetryKeeps

(* Once a shell has told what it is its frames are either known to be its  *)
(* own, or taken for those of an agent only when one is known by its name. *)
LEMMA ShellTaskFrameNever ==
  ASSUME LifecycleInv, NEW shell \in Shells, TaskFrame(Absent, shell, "running") PROVE FALSE
<1>. DEFINE who == Identity(Absent, shell, Absent)
<1>1. shell \in typed /\ ~IsExcluded(who) /\ ~Ambiguous(who)
  BY DEF TaskFrame
<1>2. who.tool = Absent /\ who.task = shell /\ who.thread = Absent
  BY DEF Identity
<1>3. exhausted
  BY <1>1, <1>2 DEF IsExcluded, LifecycleInv
<1>4. PICK k \in DOMAIN agents : Matches(agents[k], who)
  BY <1>1, <1>3 DEF Ambiguous, Hits
<1>5. agents[k].task = shell
  BY <1>2, <1>4, MatchesField
<1>. QED
  BY <1>5 DEF LifecycleInv, Recorded

LEMMA ActivityKeeps ==
  ASSUME LifecycleInv, NEW thread \in AgentThreads,
         NEW activity \in {"started", "interacted", "interrupted", "completed"}, Activity(thread, activity)
  PROVE  LifecycleInv'
<1>. DEFINE who == Identity(Absent, Absent, thread)
<1>. DEFINE seq == WithAgent(who)
<1>. DEFINE changed == IF activity \in {"completed", "interrupted"} THEN activity ELSE "running"
<1>1. who \in Identities /\ Named12(who)
  BY LifecycleAssumption DEF Identity, Identities, Named12, Absent
<1>2. agents' = [k \in DOMAIN seq |-> IF Matches(seq[k], who)
                   THEN IF activity = "interacted" \/ seq[k].telemetry \in {Absent, "running"}
                        THEN [seq[k] EXCEPT !.telemetry = changed] ELSE seq[k]
                   ELSE seq[k]]
  BY DEF Activity, Retain
<1>3. truncated' \in BOOLEAN /\ UNCHANGED <<counted, excluded, exhausted, typed>>
  BY DEF Activity, Retain
<1>4. changed \in AgentStates \cup {Absent}
  BY DEF AgentStates
<1>. HIDE DEF who, changed
<1>5. /\ agents' = [k \in DOMAIN seq |-> agents'[k]]
      /\ \A k \in DOMAIN seq : \E s \in AgentStates \cup {Absent} :
           agents'[k] \in {seq[k], [seq[k] EXCEPT !.telemetry = s]}
  BY <1>2, <1>4
<1>. QED
  BY <1>1, <1>3, <1>5, TelemetryKeeps

LEMMA TurnDoneKeeps ==
  ASSUME LifecycleInv, NEW thread \in AgentThreads, NEW status \in {"completed", "failed"}, TurnDone(thread, status)
  PROVE  LifecycleInv'
<1>. DEFINE who == Identity(Absent, Absent, thread)
<1>. DEFINE seq == WithAgent(who)
<1>1. who \in Identities /\ Named12(who)
  BY LifecycleAssumption DEF Identity, Identities, Named12, Absent
<1>2. agents' = [k \in DOMAIN seq |-> IF Matches(seq[k], who)
                                      THEN [seq[k] EXCEPT !.telemetry = status] ELSE seq[k]]
  BY DEF TurnDone, Retain
<1>3. truncated' \in BOOLEAN /\ UNCHANGED <<counted, excluded, exhausted, typed>>
  BY DEF TurnDone, Retain
<1>. HIDE DEF who
<1>4. status \in AgentStates \cup {Absent}
  BY DEF AgentStates
<1>5. /\ agents' = [k \in DOMAIN seq |-> agents'[k]]
      /\ \A k \in DOMAIN seq : \E s \in AgentStates \cup {Absent} :
           agents'[k] \in {seq[k], [seq[k] EXCEPT !.telemetry = s]}
  BY <1>2, <1>4
<1>. QED
  BY <1>1, <1>3, <1>5, TelemetryKeeps

LEMMA ShellFrameKeeps == ASSUME LifecycleInv, NEW shell \in Shells, ShellFrame(shell) PROVE LifecycleInv'
<1>1. UNCHANGED <<agents, counted>> /\ typed' = typed \cup {shell} /\ excluded \subseteq excluded'
  BY DEF ShellFrame
<1>2. exhausted => exhausted'
  BY DEF ShellFrame
<1>3. <<"task", shell>> \in excluded' \/ exhausted'
  BY DEF ShellFrame
<1>4. truncated' \in BOOLEAN /\ exhausted' \in BOOLEAN
  BY DEF ShellFrame, LifecycleInv
<1>. QED
  BY <1>1, <1>2, <1>3, <1>4 DEF LifecycleInv

LEMMA RememberTyped ==
  ASSUME counted \in Seq(AgentTools), Len(counted) <= CountedLimit, NEW tool \in AgentTools
  PROVE  Remember(tool) \in Seq(AgentTools) /\ Len(Remember(tool)) <= CountedLimit
<1>. DEFINE more == Append(counted, tool)
<1>1. more \in Seq(AgentTools) /\ Len(more) = Len(counted) + 1 /\ Len(counted) \in Nat /\ CountedLimit \in Nat
  BY LifecycleAssumption
<1>2. Remember(tool) = IF Len(more) > CountedLimit THEN Tail(more) ELSE more
  BY DEF Remember
<1>. HIDE DEF more
<1>3. more # <<>>
  <2>1. Len(<<>>) = 0
    OBVIOUS
  <2>. QED
    BY <1>1, <2>1
<1>4. Tail(more) \in Seq(AgentTools) /\ Len(Tail(more)) = Len(more) - 1
  BY <1>1, <1>3
<1>. QED
  BY <1>1, <1>2, <1>4

LEMMA NestedCallKeeps ==
  ASSUME LifecycleInv, NEW tool \in AgentTools, NEW caller \in AgentTools, NestedCall(tool, caller)
  PROVE  LifecycleInv'
<1>. DEFINE who == Identity(tool, Absent, Absent)
<1>. DEFINE root == NestedRoot(agents, caller, 8)
<1>. DEFINE raised == [agents EXCEPT ![root].nested = IF @ < NestedLimit THEN @ + 1 ELSE @]
<1>. DEFINE entry == EntryOf(agents, tool)
<1>. DEFINE new == [NewAgent(<<"tool", tool>>) EXCEPT !.tool = tool, !.parent = caller]
<1>. UNCHANGED <<excluded, exhausted, typed>>
  BY DEF NestedCall
<1>1. \/ truncated' = TRUE /\ UNCHANGED <<agents, counted>>
      \/ agents' = [raised EXCEPT ![entry].parent = caller] /\ UNCHANGED <<truncated, counted>>
      \/ agents' = raised /\ truncated' = TRUE /\ counted' = Remember(tool)
      \/ /\ Hits(agents, who) = {} /\ ~(Len(agents) >= RetainedAgents)
         /\ agents' = Put(raised, new) /\ UNCHANGED <<truncated, counted>>
  BY DEF NestedCall
<1>. HIDE DEF root, entry
<1>2. agents \in Seq(AgentEntries) /\ \A k \in DOMAIN agents : agents[k] \in AgentEntries
  BY DEF LifecycleInv, Recorded
<1>3. raised = [k \in DOMAIN agents |-> raised[k]] /\ \A k \in DOMAIN agents : SameAgent(raised[k], agents[k])
  <2>1. ASSUME NEW e \in AgentEntries
        PROVE  SameAgent([e EXCEPT !.nested = IF e.nested < NestedLimit THEN e.nested + 1 ELSE e.nested], e)
    BY LifecycleAssumption DEF SameAgent, AgentEntries
  <2>2. \A e \in AgentEntries : SameAgent(e, e)
    BY DEF SameAgent
  <2>. QED
    BY <1>2, <2>1, <2>2
<1>. HIDE DEF raised
<1>4. Recorded(raised) /\ Len(raised) = Len(agents)
  BY <1>3, SameAgentsRecorded DEF LifecycleInv
<1>5. CASE truncated' = TRUE /\ UNCHANGED <<agents, counted>>
  BY <1>5 DEF LifecycleInv
<1>6. CASE agents' = [raised EXCEPT ![entry].parent = caller] /\ UNCHANGED <<truncated, counted>>
  <2>1. \A k \in DOMAIN raised : raised[k] \in AgentEntries
    BY <1>4 DEF Recorded
  <2>2. /\ agents' = [k \in DOMAIN raised |-> agents'[k]]
        /\ \A k \in DOMAIN raised : SameAgent(agents'[k], raised[k])
    <3>1. \A e \in AgentEntries : SameAgent([e EXCEPT !.parent = caller], e) /\ SameAgent(e, e)
      BY DEF SameAgent, AgentEntries
    <3>. QED
      BY <1>6, <2>1, <3>1
  <2>3. Recorded(agents') /\ Len(agents') = Len(raised)
    BY <1>4, <2>2, SameAgentsRecorded
  <2>. QED
    BY <1>4, <1>6, <2>3 DEF LifecycleInv
<1>7. CASE agents' = raised /\ truncated' = TRUE /\ counted' = Remember(tool)
  BY <1>4, <1>7, RememberTyped DEF LifecycleInv
<1>8. CASE /\ Hits(agents, who) = {} /\ ~(Len(agents) >= RetainedAgents)
           /\ agents' = Put(raised, new) /\ UNCHANGED <<truncated, counted>>
  <2>1. LET e == NewAgent(<<"tool", tool>>) IN
          e \in AgentEntries /\ e.tool = Absent /\ e.task = Absent /\ e.thread = Absent
    BY NewAgentFields
  <2>2. new \in AgentEntries /\ new.tool = tool /\ new.task = Absent /\ new.thread = Absent
    BY <2>1 DEF AgentEntries
  <2>. HIDE DEF new
  <2>3. \A k \in DOMAIN agents : agents[k].tool # tool
    BY <1>8, MatchesField, LifecycleAssumption DEF Hits, Identity, Absent
  <2>4. \A k \in DOMAIN raised : Apart(new, raised[k])
    BY <1>3, <2>2, <2>3 DEF Apart, SameAgent
  <2>5. new.task \notin Shells
    BY <2>2, LifecycleAssumption DEF Absent
  <2>6. Recorded(agents') /\ Len(agents') <= Len(raised) + 1
    BY <1>4, <1>8, <2>2, <2>4, <2>5, PutRecorded
  <2>7. Len(agents) \in Nat /\ Len(agents') \in Nat /\ RetainedAgents \in Nat
    BY <1>2, <2>6, LifecycleAssumption DEF Recorded
  <2>8. Len(agents') <= RetainedAgents
    BY <1>4, <1>8, <2>6, <2>7
  <2>. QED
    BY <1>8, <2>6, <2>8 DEF LifecycleInv
<1>. QED
  BY <1>1, <1>5, <1>6, <1>7, <1>8

LEMMA LifecycleStepKeeps == LifecycleInv /\ [LifecycleNext]_lifecycleVars => LifecycleInv'
<1>. SUFFICES ASSUME LifecycleInv, [LifecycleNext]_lifecycleVars PROVE LifecycleInv'
  OBVIOUS
<1>1. ASSUME NEW tool \in AgentTools, ToolCall(tool) PROVE LifecycleInv'
  BY <1>1, ToolCallKeeps
<1>2. ASSUME NEW tool \in AgentTools, NEW outcome \in {"completed", "failed"}, ToolResult(tool, outcome)
      PROVE  LifecycleInv'
  BY <1>2, ToolResultKeeps
<1>3. ASSUME NEW tool \in AgentTools, NEW caller \in AgentTools, NestedCall(tool, caller) PROVE LifecycleInv'
  BY <1>3, NestedCallKeeps
<1>4. ASSUME NEW tool \in AgentTools \cup {Absent}, NEW task \in AgentTasks \cup {Absent},
             NEW status \in Statuses, TaskFrame(tool, task, status)
      PROVE  LifecycleInv'
  BY <1>4, TaskFrameKeeps
<1>5. ASSUME NEW shell \in Shells, ShellFrame(shell) PROVE LifecycleInv'
  BY <1>5, ShellFrameKeeps
<1>6. ASSUME NEW shell \in Shells, TaskFrame(Absent, shell, "running") PROVE LifecycleInv'
  BY <1>6, ShellTaskFrameNever
<1>7. ASSUME NEW thread \in AgentThreads, NEW activity \in {"started", "interacted", "interrupted", "completed"},
             Activity(thread, activity)
      PROVE  LifecycleInv'
  BY <1>7, ActivityKeeps
<1>8. ASSUME NEW thread \in AgentThreads, NEW status \in {"completed", "failed"}, TurnDone(thread, status)
      PROVE  LifecycleInv'
  BY <1>8, TurnDoneKeeps
<1>9. CASE UNCHANGED lifecycleVars
  BY <1>9 DEF lifecycleVars, LifecycleInv
<1>. QED
  BY <1>1, <1>2, <1>3, <1>4, <1>5, <1>6, <1>7, <1>8, <1>9 DEF LifecycleNext

(* News of agents that undo no failure lose none.                          *)
LEMMA NewsKeepFailures ==
  ASSUME NEW e, NEW seq, Recorded(seq), FailureKept(e, seq), agents' = [k \in DOMAIN seq |-> agents'[k]],
         \A k \in DOMAIN seq : /\ agents'[k] = seq[k] \/ SameAgent(agents'[k], seq[k])
                               /\ HasFailed(seq[k]) => HasFailed(agents'[k])
  PROVE  FailureKept(e, agents')
<1>1. PICK l \in DOMAIN seq : HasFailed(seq[l]) /\ (seq[l].id = e.id \/ Matches(e, seq[l]))
  BY DEF FailureKept
<1>2. l \in DOMAIN agents' /\ HasFailed(agents'[l])
  BY <1>1
<1>3. agents'[l].id = e.id \/ Matches(e, agents'[l])
  BY <1>1, MatchesField DEF SameAgent
<1>. QED
  BY <1>2, <1>3 DEF FailureKept

LEMMA RetainKeepsFailures ==
  ASSUME LifecycleInv, NEW who \in Identities, Named12(who), who.thread = Absent,
         agents' = [k \in DOMAIN WithAgent(who) |-> agents'[k]],
         \A k \in DOMAIN WithAgent(who) :
           /\ agents'[k] = WithAgent(who)[k] \/ SameAgent(agents'[k], WithAgent(who)[k])
           /\ HasFailed(WithAgent(who)[k]) => HasFailed(agents'[k]),
         NEW k \in DOMAIN agents, HasFailed(agents[k]), KeyHolds(agents[k])
  PROVE  FailureKept(agents[k], agents')
<1>. DEFINE seq == WithAgent(who)
<1>1. Recorded(seq) /\ FailureKept(agents[k], seq)
  BY WithAgentRecorded, WithAgentKeepsFailures DEF LifecycleInv
<1>. HIDE DEF seq
<1>2. /\ agents' = [q \in DOMAIN seq |-> agents'[q]]
      /\ \A q \in DOMAIN seq : /\ agents'[q] = seq[q] \/ SameAgent(agents'[q], seq[q])
                               /\ HasFailed(seq[q]) => HasFailed(agents'[q])
  BY DEF seq
<1>. QED
  BY <1>1, <1>2, NewsKeepFailures

LEMMA NestedKeepsFailures ==
  ASSUME LifecycleInv, NEW tool \in AgentTools, NEW caller \in AgentTools, NestedCall(tool, caller),
         NEW k \in DOMAIN agents, HasFailed(agents[k]), KeyHolds(agents[k])
  PROVE  FailureKept(agents[k], agents')
<1>. DEFINE who == Identity(tool, Absent, Absent)
<1>. DEFINE root == NestedRoot(agents, caller, 8)
<1>. DEFINE raised == [agents EXCEPT ![root].nested = IF @ < NestedLimit THEN @ + 1 ELSE @]
<1>. DEFINE entry == EntryOf(agents, tool)
<1>. DEFINE new == [NewAgent(<<"tool", tool>>) EXCEPT !.tool = tool, !.parent = caller]
<1>1. \/ UNCHANGED agents
      \/ agents' = [raised EXCEPT ![entry].parent = caller]
      \/ agents' = raised
      \/ Hits(agents, who) = {} /\ agents' = Put(raised, new)
  BY DEF NestedCall
<1>. HIDE DEF root, entry
<1>2. \A q \in DOMAIN agents : agents[q] \in AgentEntries
  BY DEF LifecycleInv, Recorded
<1>3. DOMAIN raised = DOMAIN agents /\ raised[k].id = agents[k].id /\ HasFailed(raised[k])
  BY <1>2 DEF HasFailed, AgentEntries
<1>. DEFINE under == [raised EXCEPT ![entry].parent = caller]
<1>4. DOMAIN under = DOMAIN agents /\ under[k].id = raised[k].id /\ HasFailed(under[k])
  <2>1. raised[k] \in AgentEntries
    BY <1>2, LifecycleAssumption DEF AgentEntries
  <2>. HIDE DEF raised
  <2>. QED
    BY <1>3, <2>1 DEF HasFailed, AgentEntries
<1>5. new.id = <<"tool", tool>>
  BY DEF NewAgent
<1>. HIDE DEF raised, new, under
<1>6. CASE Hits(agents, who) = {} /\ agents' = Put(raised, new)
  <2>1. agents[k].tool # tool
    BY <1>6, MatchesField, LifecycleAssumption DEF Hits, Identity, Absent
  <2>2. agents[k].id # <<"tool", tool>>
    BY <2>1 DEF KeyHolds
  <2>3. k \in DOMAIN Put(raised, new) /\ Put(raised, new)[k] = raised[k]
    <3>1. raised = [q \in DOMAIN agents |-> raised[q]] /\ Len(raised) \in Nat /\ DOMAIN raised = 1..Len(raised)
      BY DEF raised, LifecycleInv, Recorded
    <3>. QED
      BY <1>3, <1>5, <2>2, <3>1 DEF Put
  <2>. QED
    BY <1>3, <1>6, <2>3 DEF FailureKept
<1>. QED
  BY <1>1, <1>3, <1>4, <1>6 DEF FailureKept, under

LEMMA ClaudeKeepsFailures ==
  ASSUME LifecycleInv, LifecycleNext, stream = "claude",
         NEW k \in DOMAIN agents, HasFailed(agents[k]), KeyHolds(agents[k])
  PROVE  FailureKept(agents[k], agents')
<1>. DEFINE Goal == FailureKept(agents[k], agents')
<1>e. \A who \in Identities : Named12(who) => \A q \in DOMAIN WithAgent(who) : WithAgent(who)[q] \in AgentEntries
  BY WithAgentRecorded DEF LifecycleInv, Recorded
<1>1. ASSUME NEW tool \in AgentTools, ToolCall(tool) PROVE Goal
  <2>. DEFINE who == Identity(tool, Absent, Absent)
  <2>1. who \in Identities /\ Named12(who) /\ who.thread = Absent
    BY LifecycleAssumption DEF Identity, Identities, Named12, Absent
  <2>2. /\ agents' = [q \in DOMAIN WithAgent(who) |-> agents'[q]]
        /\ \A q \in DOMAIN WithAgent(who) : agents'[q] = WithAgent(who)[q]
    BY <1>1 DEF ToolCall, Retain, Same
  <2>. HIDE DEF who
  <2>. QED
    BY <2>1, <2>2, RetainKeepsFailures
<1>2. ASSUME NEW tool \in AgentTools, NEW outcome \in {"completed", "failed"}, ToolResult(tool, outcome) PROVE Goal
  <2>. DEFINE who == Identity(tool, Absent, Absent)
  <2>. DEFINE seq == WithAgent(who)
  <2>. DEFINE Set(e) == [e EXCEPT !.outcome = Or(@, outcome)]
  <2>1. who \in Identities /\ Named12(who) /\ who.thread = Absent
    BY LifecycleAssumption DEF Identity, Identities, Named12, Absent
  <2>2. agents' = [q \in DOMAIN seq |-> IF Matches(seq[q], who) THEN Set(seq[q]) ELSE seq[q]]
    BY <1>2 DEF ToolResult, Retain
  <2>. HIDE DEF who
  <2>3. \A e \in AgentEntries : SameAgent(Set(e), e) /\ (HasFailed(e) => HasFailed(Set(e)))
    BY DEF SameAgent, AgentEntries, Or, HasFailed, Absent
  <2>4. \A q \in DOMAIN seq : seq[q] \in AgentEntries
    BY <1>e, <2>1
  <2>. HIDE DEF Set
  <2>5. /\ agents' = [q \in DOMAIN seq |-> agents'[q]]
        /\ \A q \in DOMAIN seq : /\ agents'[q] = seq[q] \/ SameAgent(agents'[q], seq[q])
                                 /\ HasFailed(seq[q]) => HasFailed(agents'[q])
    BY <2>2, <2>3, <2>4
  <2>. QED
    BY <2>1, <2>5, RetainKeepsFailures
<1>3. ASSUME NEW tool \in AgentTools, NEW caller \in AgentTools, NestedCall(tool, caller) PROVE Goal
  BY <1>3, NestedKeepsFailures
<1>4. ASSUME NEW tool \in AgentTools \cup {Absent}, NEW task \in AgentTasks \cup {Absent},
             NEW status \in Statuses, TaskFrame(tool, task, status)
      PROVE  Goal
  <2>. DEFINE who == Identity(tool, task, Absent)
  <2>. DEFINE seq == WithAgent(who)
  <2>. DEFINE Set(e) == [e EXCEPT !.telemetry = Telemetry(e, status)]
  <2>1. who \in Identities /\ Named12(who) /\ who.thread = Absent
    BY <1>4 DEF Identity, Identities, Named12, TaskFrame
  <2>2. agents' = [q \in DOMAIN seq |-> IF Matches(seq[q], who) THEN Set(seq[q]) ELSE seq[q]]
    BY <1>4 DEF TaskFrame, Retain
  <2>. HIDE DEF who
  <2>3. \A e \in AgentEntries : SameAgent(Set(e), e) /\ (HasFailed(e) => HasFailed(Set(e)))
    <3>1. ASSUME NEW e \in AgentEntries PROVE SameAgent(Set(e), e) /\ (HasFailed(e) => HasFailed(Set(e)))
      <4>1. Telemetry(e, status) \in AgentStates \cup {Absent} /\ (e.telemetry = "failed" => Telemetry(e, status) = "failed")
        BY LifecycleAssumption DEF Telemetry, AgentEntries, AgentStates
      <4>. QED
        BY <4>1 DEF SameAgent, AgentEntries, HasFailed
    <3>. QED
      BY <3>1
  <2>4. \A q \in DOMAIN seq : seq[q] \in AgentEntries
    BY <1>e, <2>1
  <2>. HIDE DEF Set
  <2>5. /\ agents' = [q \in DOMAIN seq |-> agents'[q]]
        /\ \A q \in DOMAIN seq : /\ agents'[q] = seq[q] \/ SameAgent(agents'[q], seq[q])
                                 /\ HasFailed(seq[q]) => HasFailed(agents'[q])
    BY <2>2, <2>3, <2>4
  <2>. QED
    BY <2>1, <2>5, RetainKeepsFailures
<1>5. ASSUME NEW shell \in Shells, ShellFrame(shell) PROVE Goal
  BY <1>5 DEF ShellFrame, FailureKept
<1>6. ASSUME NEW shell \in Shells, TaskFrame(Absent, shell, "running") PROVE Goal
  BY <1>6, ShellTaskFrameNever
<1>7. /\ \A thread \in AgentThreads, activity \in {"started", "interacted", "interrupted", "completed"} :
           ~Activity(thread, activity)
      /\ \A thread \in AgentThreads, status \in {"completed", "failed"} : ~TurnDone(thread, status)
  BY DEF Activity, TurnDone
<1>. QED
  BY <1>1, <1>2, <1>3, <1>4, <1>5, <1>6, <1>7 DEF LifecycleNext

(* Tombstones, in whatever order the frames name the aliases of agents.    *)
THEOREM TombstonesHold == LifecycleSpec => Tombstones
<1>. DEFINE A == stream = "claude" => \A k \in DOMAIN agents : LET e == agents[k] IN
                   StateOf(e) = "failed" /\ KeyHolds(e) =>
                     \E l \in DOMAIN agents' : StateOf(agents'[l]) = "failed" /\
                        (agents'[l].id = e.id \/ Matches(e, agents'[l]))
<1>1. ASSUME LifecycleInv, LifecycleInv', LifecycleNext PROVE A
  <2>1. \A k \in DOMAIN agents : StateOf(agents[k]) = "failed" <=> HasFailed(agents[k])
    BY <1>1, FailedState DEF LifecycleInv, Recorded
  <2>2. \A k \in DOMAIN agents' : StateOf(agents'[k]) = "failed" <=> HasFailed(agents'[k])
    <3>1. \A k \in DOMAIN agents' : agents'[k] \in AgentEntries
      BY <1>1 DEF LifecycleInv, Recorded
    <3>. QED
      BY <3>1, FailedState
  <2>. QED
    BY <1>1, <2>1, <2>2, ClaudeKeepsFailures DEF FailureKept
<1>2. LifecycleInv /\ LifecycleInv' /\ [LifecycleNext]_lifecycleVars => [A]_lifecycleVars
  BY <1>1
<1>. QED
  BY <1>2, InitRecordsSubagents, LifecycleStepKeeps, PTL DEF LifecycleSpec, Tombstones

(* SubagentRecords, for any number of agents, shells and entries kept.     *)
THEOREM SubagentRecordsHold == LifecycleSpec => []SubagentRecords
BY RecordsSubagents, InitRecordsSubagents, LifecycleStepKeeps, PTL DEF LifecycleSpec

(***************************************************************************)
(* Types                                                                   *)
(***************************************************************************)
(* AttachmentsTypeOK: an upload is there with its content, or there is     *)
(* none.                                                                   *)
UploadsUnderWay == [stage: UploadStages, content: Contents, published: BOOLEAN]
UploadsBounded ==
  /\ upload \in [Attachments -> UploadsUnderWay \cup {NoUpload}]
  /\ aged \subseteq Attachments /\ uploadRestarts \in 0..UploadRestarts

LEMMA StageReached ==
  ASSUME UploadsBounded, NEW i \in Attachments, upload[i].stage # "none", NEW s \in UploadStages,
         \/ Goes(i, s)
         \/ upload' = [upload EXCEPT ![i].stage = s, ![i].published = TRUE]
  PROVE  upload' \in [Attachments -> UploadsUnderWay \cup {NoUpload}]
<1>1. upload[i] \in UploadsUnderWay
  BY DEF UploadsBounded, NoUpload
<1>2. PICK r \in UploadsUnderWay : r = [upload[i] EXCEPT !.stage = s] \/ r = [upload[i] EXCEPT !.stage = s, !.published = TRUE]
  BY <1>1 DEF UploadsUnderWay
<1>3. /\ [upload[i] EXCEPT !.stage = s] \in UploadsUnderWay
      /\ [upload[i] EXCEPT !.stage = s, !.published = TRUE] \in UploadsUnderWay
  BY <1>1 DEF UploadsUnderWay
<1>4. CASE Goes(i, s)
  <2>1. upload' = [upload EXCEPT ![i] = [upload[i] EXCEPT !.stage = s]]
    BY <1>4 DEF Goes, UploadsBounded
  <2>. QED
    BY <1>3, <2>1 DEF UploadsBounded
<1>5. CASE upload' = [upload EXCEPT ![i].stage = s, ![i].published = TRUE]
  <2>1. upload' = [upload EXCEPT ![i] = [upload[i] EXCEPT !.stage = s, !.published = TRUE]]
    BY <1>5 DEF UploadsBounded
  <2>. QED
    BY <1>3, <2>1 DEF UploadsBounded
<1>. QED
  BY <1>4, <1>5

LEMMA UploadBlank ==
  ASSUME UploadsBounded, NEW i \in Attachments, UploadOver(i)
  PROVE  upload' \in [Attachments -> UploadsUnderWay \cup {NoUpload}]
BY DEF UploadsBounded, UploadOver

LEMMA UploadStepBounded == UploadsBounded /\ [AttachmentsNext]_uploadVars => UploadsBounded'
<1>. SUFFICES ASSUME UploadsBounded, [AttachmentsNext]_uploadVars PROVE UploadsBounded'
  OBVIOUS
<1>1. CASE RestartUploads
  BY <1>1, AttachmentAssumption DEF RestartUploads, databaseVars, UploadsBounded
<1>2. ASSUME NEW i \in Attachments, NEW c \in Contents, AdmitUpload(i, c) PROVE UploadsBounded'
  <2>1. [stage |-> "receiving", content |-> c, published |-> FALSE] \in UploadsUnderWay
    BY DEF UploadsUnderWay, UploadStages
  <2>2. upload' = [upload EXCEPT ![i] = [stage |-> "receiving", content |-> c, published |-> FALSE]]
    BY <1>2 DEF AdmitUpload
  <2>3. upload' \in [Attachments -> UploadsUnderWay \cup {NoUpload}]
    BY <2>1, <2>2 DEF UploadsBounded
  <2>. QED
    BY <1>2, <2>3 DEF AdmitUpload, databaseVars, UploadsBounded
<1>3. ASSUME NEW i \in Attachments, ReceiveUpload(i) \/ LookUp(i) \/ VerifyStored(i) \/ Published(i) \/ Rescue(i)
      PROVE  UploadsBounded'
  <2>1. UNCHANGED <<aged, uploadRestarts>> /\ upload[i].stage # "none"
    BY <1>3 DEF ReceiveUpload, LookUp, VerifyStored, Published, Rescue, UploadAt, databaseVars
  <2>2. Goes(i, "publishing") \/ Goes(i, "verifying") \/ Goes(i, "linking") \/ UploadOver(i)
    BY <1>3 DEF ReceiveUpload, LookUp, VerifyStored, Published, Rescue
  <2>3. upload' \in [Attachments -> UploadsUnderWay \cup {NoUpload}]
    BY <2>1, <2>2, StageReached, UploadBlank DEF UploadStages
  <2>. QED
    BY <2>1, <2>3 DEF UploadsBounded
<1>4. ASSUME NEW i \in Attachments, LinkBlob(i) PROVE UploadsBounded'
  <2>1. UNCHANGED <<aged, uploadRestarts>> /\ upload[i].stage # "none"
    BY <1>4 DEF LinkBlob, UploadAt, databaseVars
  <2>2. \/ \E s \in {"storing", "rescuing"} : upload' = [upload EXCEPT ![i].stage = s, ![i].published = TRUE]
        \/ Goes(i, "storing") \/ UploadOver(i)
    BY <1>4 DEF LinkBlob
  <2>3. upload' \in [Attachments -> UploadsUnderWay \cup {NoUpload}]
    BY <2>1, <2>2, StageReached, UploadBlank DEF UploadStages
  <2>. QED
    BY <2>1, <2>3 DEF UploadsBounded
<1>5. ASSUME NEW i \in Attachments, PutAttachment(i) PROVE UploadsBounded'
  <2>1. UNCHANGED uploadRestarts /\ upload[i].stage # "none" /\ aged' \subseteq aged
    BY <1>5 DEF PutAttachment, UploadAt
  <2>2. Goes(i, "discarding") \/ Goes(i, "rescuing") \/ UploadOver(i)
    BY <1>5 DEF PutAttachment, UploadFails
  <2>3. upload' \in [Attachments -> UploadsUnderWay \cup {NoUpload}]
    BY <2>1, <2>2, StageReached, UploadBlank DEF UploadStages
  <2>. QED
    BY <2>1, <2>3 DEF UploadsBounded
<1>6. ASSUME NEW i \in Attachments,
             (\E j \in Attachments : Discard(i, j)) \/ ReferTo(i) \/ TurnOver(i) \/ GraceEnds(i)
      PROVE  UploadsBounded'
  BY <1>6 DEF Discard, ReferTo, TurnOver, GraceEnds, databaseVars, UploadsBounded
<1>7. CASE UNCHANGED uploadVars
  BY <1>7 DEF uploadVars, UploadsBounded
<1>. QED
  BY <1>1, <1>2, <1>3, <1>4, <1>5, <1>6, <1>7 DEF AttachmentsNext

LEMMA AttachmentsWellTyped == AttachmentsSpec => []AttachmentsTypeOK
<1>1. AttachmentsInit => UploadsBounded
  BY AttachmentAssumption DEF AttachmentsInit, UploadsBounded
<1>2. ASSUME AttachInv, UNCHANGED uploadVars PROVE AttachInv'
  BY <1>2 DEF uploadVars, AttachInv, StoresTyped, UploadsSound, DiscardsGone, RowsHaveBlobs, Publishers, Publishes, Has
<1>3. AttachInv /\ UploadsBounded => AttachmentsTypeOK
  BY DEF AttachInv, StoresTyped, UploadsSound, DiscardsGone, LineUp, UploadsBounded, UploadsUnderWay, AttachmentsTypeOK
<1>. QED
  BY <1>1, <1>2, <1>3, InitAttachments, AttachmentStepKeeps, UploadStepBounded, PTL DEF AttachmentsSpec

(* CheckpointTypeOK: no more calls are in line than there is room for.     *)
CallsBounded ==
  /\ Len(callLine) <= CallLimit /\ spoilt \subseteq ChangeTurns /\ changeRestarts \in 0..ChangeRestarts

LEMMA CallStepBounded == ASSUME CheckpointInv, CallsBounded, [CheckpointNext]_checkpointVars PROVE CallsBounded'
<1>. USE CheckpointAssumption
<1>0. callLine \in Seq(ChangeTurns) /\ Len(callLine) \in Nat
  BY CallLineTyped
<1>1. ASSUME NEW t \in ChangeTurns, CallCapture(t) \/ TurnStopped(t) PROVE CallsBounded'
  <2>1. UNCHANGED <<spoilt, changeRestarts>> /\ (callLine' = callLine \/ (Len(callLine) < CallLimit /\ callLine' = Append(callLine, t)))
    BY <1>1 DEF CallCapture, TurnStopped, fileVars
  <2>2. Len(Append(callLine, t)) = Len(callLine) + 1
    BY <1>0, AppendProperties
  <2>. QED
    BY <1>0, <2>1, <2>2 DEF CallsBounded
<1>2. ASSUME callLine # <<>>, EndsCall \/ callLine' = callLine, spoilt' \subseteq spoilt \cup {Captured},
             UNCHANGED changeRestarts
      PROVE  CallsBounded'
  <2>1. Captured \in ChangeTurns
    BY <1>2, CallLineTyped
  <2>2. Len(Tail(callLine)) <= Len(callLine) /\ Len(Tail(callLine)) \in Nat
    BY <1>0, <1>2, HeadTailProperties, LenProperties
  <2>3. Len(callLine') <= CallLimit
    BY <1>0, <1>2, <2>2 DEF EndsCall, CallsBounded
  <2>. QED
    BY <1>2, <2>1, <2>3 DEF CallsBounded
<1>3. CASE ReadsRecords \/ Prepares \/ MakesRef
  BY <1>2, <1>3 DEF ReadsRecords, Prepares, MakesRef, Capturing, StepGoes, fileVars
<1>4. CASE WritesRecord
  BY <1>2, <1>4 DEF WritesRecord, RecordLinked, Capturing, StepGoes
<1>5. CASE UndoesJournaled \/ Undoes \/ GivesUp
  BY <1>2, <1>5 DEF UndoesJournaled, Undoes, GivesUp, Cleanup, Capturing, StepGoes
<1>6. CASE RestartChanges
  <2>1. Len(callLine') = 0 /\ changeRestarts' = changeRestarts + 1 /\ changeRestarts < ChangeRestarts
        /\ (spoilt' = spoilt \/ (callLine # <<>> /\ spoilt' = spoilt \cup {Captured}))
    BY <1>6, EmptySeq DEF RestartChanges
  <2>. QED
    BY <2>1, CallLineTyped DEF CallsBounded
<1>7. CASE UNCHANGED checkpointVars
  BY <1>7 DEF checkpointVars, CallsBounded
<1>. QED
  BY <1>1, <1>3, <1>4, <1>5, <1>6, <1>7 DEF CheckpointNext

LEMMA CheckpointsWellTyped == CheckpointSpec => []CheckpointTypeOK
<1>1. CheckpointInit => CallsBounded
  BY EmptySeq, CheckpointAssumption DEF CheckpointInit, CallsBounded
<1>2. ASSUME CheckpointInv, UNCHANGED checkpointVars PROVE CheckpointInv'
  BY <1>2 DEF checkpointVars, CheckpointInv, CheckpointsTyped, CallsApart, RecordsNameRefs, StepSound, InHand,
     NoRefLeft, NoOtherRef, Side
<1>3. CheckpointInv /\ CallsBounded => CheckpointTypeOK
  BY DEF CheckpointInv, CheckpointsTyped, CallsBounded, CheckpointTypeOK, CaptureSteps, Sides
<1>. QED
  BY <1>1, <1>2, <1>3, InitCheckpoints, CheckpointStepKeeps, CallStepBounded, PTL DEF CheckpointSpec

(* StreamTypeOK: a client that takes nothing is not sent more than its     *)
(* backlog.                                                                *)
Flags == announcing \in BOOLEAN /\ streamClosed \in BOOLEAN
StreamBounded ==
  /\ epoch \in 1..Epochs /\ revision \in 0..LastRevision /\ Flags /\ alive \subseteq Watchers
  /\ \A c \in Watchers : Len(sending[c]) <= SendBacklog + 1

LEMMA StreamStepBounded == ASSUME StreamTyped, StreamBounded, [StreamNext]_streamVars PROVE StreamBounded'
<1>. USE ChangeStreamAssumption
<1>0. \A c \in Watchers : sending[c] \in Seq(Nat \X Nat) /\ Len(sending[c]) \in Nat
  BY LenProperties DEF StreamTyped
<1>a. SendBacklog \in Nat /\ LastRevision \in Nat
  OBVIOUS
<1>b. \A c \in Watchers : Len(sending[c]) <= SendBacklog + 1
  BY DEF StreamBounded
<1>1. Flags'
  BY DEF StreamNext, streamVars, Publish, Announce, Heartbeat, CloseStream, Connects, WatcherTakes, CutsOff,
     Disconnected, Pong, StreamBounded, Flags
<1>2. epoch' \in 1..Epochs /\ revision' \in 0..LastRevision
  <2>1. CASE Publish
    BY <2>1 DEF Publish, StreamBounded
  <2>2. CASE ~Publish
    BY <2>2 DEF StreamNext, streamVars, Announce, Heartbeat, CloseStream, Connects, WatcherTakes, CutsOff,
       Disconnected, Pong, StreamBounded
  <2>. QED
    BY <2>1, <2>2
<1>3. alive' \subseteq Watchers
  BY DEF StreamNext, streamVars, Publish, Announce, Heartbeat, CloseStream, Connects, WatcherTakes, CutsOff,
     Disconnected, Pong, StreamBounded
<1>4. ASSUME NEW c \in Watchers PROVE Len(sending'[c]) <= SendBacklog + 1
  <2>1. Len(Append(sending[c], Snapshot)) = Len(sending[c]) + 1
    <3>1. Snapshot \in Nat \X Nat
      BY DEF StreamTyped, Snapshot
    <3>. QED
      BY <1>0, <3>1, AppendProperties
  <2>2. CASE Announce
    <3>1. sending'[c] = IF c \in Open /\ ~Backlogged(c) THEN Append(sending[c], Snapshot) ELSE sending[c]
      BY <2>2 DEF Announce
    <3>. QED
      BY <1>0, <2>1, <3>1 DEF Backlogged, StreamBounded
  <2>3. ASSUME NEW d \in Watchers, Connects(d) \/ Disconnected(d) PROVE Len(sending'[c]) <= SendBacklog + 1
    <3>1. Len(<<Snapshot>>) = 1 /\ Len(<< >>) = 0
      OBVIOUS
    <3>2. sending'[c] \in {sending[c], <<Snapshot>>, << >>}
      BY <2>3 DEF Connects, Disconnected, StreamTyped
    <3>3. Len(sending'[c]) = Len(sending[c]) \/ Len(sending'[c]) = 1 \/ Len(sending'[c]) = 0
      BY <3>1, <3>2, Zenon
    <3>4. 1 <= SendBacklog + 1 /\ 0 <= SendBacklog + 1
      BY <1>a
    <3>5. CASE Len(sending'[c]) = Len(sending[c])
      BY <1>b, <3>5
    <3>. QED
      BY <3>3, <3>4, <3>5
  <2>4. ASSUME NEW d \in Watchers, WatcherTakes(d) PROVE Len(sending'[c]) <= SendBacklog + 1
    <3>1. sending'[c] = sending[c] \/ (sending[c] # <<>> /\ sending'[c] = Tail(sending[c]))
      BY <2>4 DEF WatcherTakes, StreamTyped
    <3>2. sending[c] # <<>> => Len(Tail(sending[c])) = Len(sending[c]) - 1
      BY <1>0, HeadTailProperties
    <3>3. Len(sending'[c]) = Len(sending[c]) \/ Len(sending'[c]) = Len(sending[c]) - 1
      BY <3>1, <3>2, Zenon
    <3>. QED
      BY <1>0, <1>a, <1>b, <3>3
  <2>5. CASE sending' = sending
    BY <2>5 DEF StreamBounded
  <2>. QED
    BY <2>2, <2>3, <2>4, <2>5 DEF StreamNext, streamVars, Publish, Heartbeat, CloseStream, CutsOff, Pong
<1>. QED
  BY <1>1, <1>2, <1>3, <1>4 DEF StreamBounded

LEMMA StreamWellTyped == StreamSpec => []StreamTypeOK
<1>1. StreamInit => StreamTyped /\ StreamBounded
  <2>. SUFFICES ASSUME StreamInit PROVE StreamTyped /\ StreamBounded
    OBVIOUS
  <2>1. Len(<< >>) = 0 /\ SendBacklog \in Nat /\ Epochs \in Nat \ {0} /\ LastRevision \in Nat
    BY ChangeStreamAssumption
  <2>2. StreamTyped
    BY EmptySeq DEF StreamInit, StreamTyped, Nothing
  <2>3. \A c \in Watchers : Len(sending[c]) <= SendBacklog + 1
    <3>. SUFFICES ASSUME NEW c \in Watchers PROVE Len(sending[c]) <= SendBacklog + 1
      OBVIOUS
    <3>1. sending[c] = << >>
      BY DEF StreamInit
    <3>2. Len(sending[c]) = 0
      BY <2>1, <3>1, Zenon
    <3>. QED
      BY <2>1, <3>2
  <2>4. Flags
    BY Zenon DEF StreamInit, Flags
  <2>5. StreamBounded
    BY <2>1, <2>3, <2>4 DEF StreamInit, StreamBounded
  <2>. QED
    BY <2>2, <2>5
<1>2. StreamTyped /\ StreamBounded => StreamTypeOK
  BY DEF StreamTyped, StreamBounded, Flags, StreamTypeOK
<1>. QED
  BY <1>1, <1>2, StepTyped, StreamStepBounded, PTL DEF StreamSpec

(* InstructionTypeOK: who waits is in line, each once, and a call has only *)
(* to do with the paths of its workspace.                                  *)
ApplyLineSound ==
  /\ apply \in [Applies -> {"none", "waiting", "over"}] /\ LineUp(applyLine, Applies)
  /\ ToSet(applyLine) = {a \in Applies : apply[a] = "waiting"}
PathsKnown ==
  /\ borrowed \subseteq InstructionPaths /\ all \subseteq InstructionPaths /\ target \subseteq InstructionPaths
  /\ raced \subseteq InstructionPaths /\ touched \subseteq InstructionPaths
SyncBounded ==
  /\ syncStep \in {"granted", "observing", "applying", "replacing", "verified"}
  /\ edits \in 0..EditLimit /\ instructionRestarts \in 0..InstructionRestarts
InstructionBounded == ApplyLineSound /\ PathsKnown /\ SyncBounded

LEMMA ApplyLineKeeps == ApplyLineSound /\ [InstructionNext]_instructionVars => ApplyLineSound'
<1>. SUFFICES ASSUME ApplyLineSound, [InstructionNext]_instructionVars PROVE ApplyLineSound'
  OBVIOUS
<1>1. ASSUME NEW a \in Applies, apply[a] = "none", applyLine' = Append(applyLine, a),
             apply' = [apply EXCEPT ![a] = "waiting"]
      PROVE  ApplyLineSound'
  <2>1. a \notin ToSet(applyLine)
    BY <1>1 DEF ApplyLineSound
  <2>2. LineUp(applyLine', Applies) /\ ToSet(applyLine') = ToSet(applyLine) \cup {a}
    BY <1>1, <2>1, LineAppend DEF ApplyLineSound
  <2>. QED
    BY <1>1, <2>2 DEF ApplyLineSound
<1>2. ASSUME NEW a \in Applies, apply[a] = "none", UNCHANGED applyLine, apply' = [apply EXCEPT ![a] = "over"]
      PROVE  ApplyLineSound'
  BY <1>2 DEF ApplyLineSound
<1>3. ASSUME NEW a \in Applies, LeavesLine(a) PROVE ApplyLineSound'
  <2>1. a \in ToSet(applyLine) /\ apply' = [apply EXCEPT ![a] = "over"] /\ applyLine' = RemoveFirst(applyLine, a)
    BY <1>3 DEF LeavesLine, ApplyLineSound
  <2>2. LineUp(applyLine', Applies) /\ ToSet(applyLine') = ToSet(applyLine) \ {a}
    BY <2>1, LineRemove DEF ApplyLineSound
  <2>. QED
    BY <2>1, <2>2 DEF ApplyLineSound
<1>4. ASSUME applyLine # <<>>, EndsApply PROVE ApplyLineSound'
  <2>1. apply' = [apply EXCEPT ![Head(applyLine)] = "over"] /\ applyLine' = Tail(applyLine)
    BY <1>4 DEF EndsApply
  <2>2. /\ LineUp(applyLine', Applies) /\ ToSet(applyLine') = ToSet(applyLine) \ {Head(applyLine)}
        /\ Head(applyLine) \in Applies
    BY <1>4, <2>1, LineTail DEF ApplyLineSound
  <2>. QED
    BY <2>1, <2>2 DEF ApplyLineSound
<1>5. CASE RestartInstructions
  <2>1. apply' = [a \in Applies |-> IF apply[a] = "none" THEN "none" ELSE "over"] /\ applyLine' = <<>>
    BY <1>5 DEF RestartInstructions
  <2>2. LineUp(applyLine', Applies) /\ ToSet(applyLine') = {}
    BY <2>1, LineEmpty
  <2>. QED
    BY <2>1, <2>2 DEF ApplyLineSound
<1>6. CASE UNCHANGED <<apply, applyLine>>
  BY <1>6 DEF ApplyLineSound
<1>7. ASSUME NEW a \in Applies, CallApply(a) PROVE ApplyLineSound'
  BY <1>1, <1>2, <1>7 DEF CallApply
<1>8. ASSUME NEW p \in InstructionPaths, Observes(p) \/ LooksAgain(p) \/ Replaces(p) \/ \E t \in FileTexts : Edit(p, t)
      PROVE  UNCHANGED <<apply, applyLine>>
  BY <1>8 DEF Observes, LooksAgain, Replaces, Edit, SyncGoes
<1>9. ReadsManifest \/ WritesJournal \/ Verifies \/ UNCHANGED instructionVars => UNCHANGED <<apply, applyLine>>
  BY DEF ReadsManifest, WritesJournal, Verifies, SyncGoes, instructionVars
<1>10. ApplyFails \/ CommitsManifest => applyLine # <<>> /\ EndsApply
  BY DEF ApplyFails, CommitsManifest, At
<1>. QED
  BY <1>3, <1>4, <1>5, <1>6, <1>7, <1>8, <1>9, <1>10 DEF InstructionNext, FileTexts

LEMMA PathsStayKnown == PathsKnown /\ [InstructionNext]_instructionVars => PathsKnown'
<1>. SUFFICES ASSUME PathsKnown, [InstructionNext]_instructionVars PROVE PathsKnown'
  OBVIOUS
<1>1. ASSUME NEW a \in Applies, CallApply(a) \/ LeavesLine(a) PROVE PathsKnown'
  BY <1>1 DEF CallApply, LeavesLine, PathsKnown, plannedVars, outsideVars
<1>2. CASE ApplyFails \/ CommitsManifest \/ RestartInstructions
  BY <1>2 DEF ApplyFails, CommitsManifest, RestartInstructions, EndsApply, PathsKnown, outsideVars
<1>3. CASE ReadsManifest
  BY <1>3 DEF ReadsManifest, PathsKnown, Managed, Present, outsideVars
<1>4. CASE WritesJournal \/ Verifies \/ UNCHANGED instructionVars
  BY <1>4 DEF WritesJournal, Verifies, PathsKnown, plannedVars, outsideVars, instructionVars
<1>5. ASSUME NEW p \in InstructionPaths, Observes(p) PROVE PathsKnown'
  BY <1>5 DEF Observes, PathsKnown, outsideVars
<1>6. ASSUME NEW p \in InstructionPaths, LooksAgain(p) PROVE PathsKnown'
  BY <1>6 DEF LooksAgain, PathsKnown, plannedVars, outsideVars
<1>7. ASSUME NEW p \in InstructionPaths, Replaces(p) PROVE PathsKnown'
  BY <1>7 DEF Replaces, PathsKnown, plannedVars, outsideVars
<1>8. ASSUME NEW p \in InstructionPaths, NEW t \in FileTexts, Edit(p, t) PROVE PathsKnown'
  BY <1>8 DEF Edit, PathsKnown, plannedVars
<1>. QED
  BY <1>1, <1>2, <1>3, <1>4, <1>5, <1>6, <1>7, <1>8 DEF InstructionNext, FileTexts

LEMMA SyncStaysBounded == SyncBounded /\ [InstructionNext]_instructionVars => SyncBounded'
<1>. SUFFICES ASSUME SyncBounded, [InstructionNext]_instructionVars PROVE SyncBounded'
  OBVIOUS
<1>. USE InstructionAssumption
<1>1. ASSUME NEW a \in Applies, CallApply(a) \/ LeavesLine(a) PROVE SyncBounded'
  BY <1>1 DEF CallApply, LeavesLine, SyncBounded, outsideVars
<1>2. CASE ApplyFails \/ CommitsManifest
  BY <1>2 DEF ApplyFails, CommitsManifest, EndsApply, SyncBounded, outsideVars
<1>3. CASE RestartInstructions
  BY <1>3 DEF RestartInstructions, SyncBounded
<1>4. CASE ReadsManifest \/ WritesJournal \/ Verifies \/ UNCHANGED instructionVars
  BY <1>4 DEF ReadsManifest, WritesJournal, Verifies, SyncGoes, SyncBounded, outsideVars, instructionVars
<1>5. ASSUME NEW p \in InstructionPaths, Observes(p) \/ LooksAgain(p) \/ Replaces(p) PROVE SyncBounded'
  BY <1>5 DEF Observes, LooksAgain, Replaces, SyncGoes, SyncBounded, outsideVars
<1>6. ASSUME NEW p \in InstructionPaths, NEW t \in FileTexts, Edit(p, t) PROVE SyncBounded'
  BY <1>6 DEF Edit, SyncBounded
<1>. QED
  BY <1>1, <1>2, <1>3, <1>4, <1>5, <1>6 DEF InstructionNext, FileTexts

LEMMA InstructionsWellTyped == InstructionSpec => []InstructionTypeOK
<1>1. InstructionInit => InstructionBounded
  <2>. SUFFICES ASSUME InstructionInit PROVE InstructionBounded
    OBVIOUS
  <2>1. LineUp(applyLine, Applies) /\ ToSet(applyLine) = {}
    BY LineEmpty DEF InstructionInit
  <2>2. ApplyLineSound
    BY <2>1 DEF InstructionInit, ApplyLineSound
  <2>3. PathsKnown /\ SyncBounded
    BY InstructionAssumption DEF InstructionInit, PathsKnown, SyncBounded
  <2>. QED
    BY <2>2, <2>3 DEF InstructionBounded
<1>2. InstructionBounded /\ [InstructionNext]_instructionVars => InstructionBounded'
  BY ApplyLineKeeps, PathsStayKnown, SyncStaysBounded DEF InstructionBounded
<1>3. FilesInv /\ InstructionBounded => InstructionTypeOK
  <2>. SUFFICES ASSUME FilesInv, InstructionBounded PROVE InstructionTypeOK
    OBVIOUS
  <2>1. manifest.journal \in BOOLEAN /\ left \subseteq InstructionPaths /\ applyLine \in Seq(Applies)
    BY DEF FilesInv, FilesTyped, Planned, InstructionBounded, ApplyLineSound, PathsKnown, LineUp
  <2>2. isolation \in {"in-place", "worktree"}
    BY DEF FilesInv, Planned
  <2>. QED
    BY <2>1, <2>2 DEF FilesInv, FilesTyped, FileTexts, InstructionBounded, ApplyLineSound, PathsKnown, SyncBounded, InstructionTypeOK
<1>. QED
  BY <1>1, <1>2, <1>3, InitFiles, StepFiles, PTL DEF InstructionSpec

(* MetadataTypeOK: a section that is numbered anew has as many numbers as  *)
(* it has threads.                                                         *)
LEMMA SectionInLine ==
  ASSUME NEW S \in SUBSET Threads, NEW ones \in Lines(S)
  PROVE  /\ LineUp(ones, Threads) /\ ToSet(ones) = S
         /\ Len(ones) = Cardinality(S) /\ Cardinality(S) <= Cardinality(Threads) /\ Cardinality(Threads) \in Nat
<1>1. IsFiniteSet(S) /\ Cardinality(S) \in Nat /\ Cardinality(Threads) \in Nat /\ Cardinality(S) <= Cardinality(Threads)
  BY MetadataAssumption, FS_Subset, FS_CardinalityType
<1>2. ones \in [1..Cardinality(S) -> S]
  BY DEF Lines
<1>3. ones \in Seq(S) /\ Len(ones) = Cardinality(S) /\ DOMAIN ones = 1..Len(ones)
  BY <1>1, <1>2, SeqDef
<1>4. ones \in Seq(Threads)
  BY <1>1, <1>2, SeqDef
<1>5. \A t \in S : \E i \in DOMAIN ones : ones[i] = t
  BY DEF Lines
<1>6. \A i, j \in DOMAIN ones : i # j => ones[i] # ones[j]
  BY DEF Lines
<1>7. ToSet(ones) = S
  BY <1>2, <1>3, <1>5 DEF ToSet
<1>. QED
  BY <1>1, <1>3, <1>4, <1>6, <1>7 DEF LineUp

LEMMA PlacedKeepsLength ==
  ASSUME NEW ones, LineUp(ones, Threads), NEW moved \in ToSet(ones), NEW target_ \in ToSet(ones),
         moved # target_, NEW after
  PROVE  LET order == Placed(ones, moved, target_, after)
         IN  DOMAIN order = 1..Len(ones)
<1>. DEFINE rest == RemoveFirst(ones, moved)
            at   == CHOOSE i \in DOMAIN rest : rest[i] = target_
            cut  == IF after THEN at ELSE at - 1
            front == SubSeq(rest, 1, cut)
            back  == SubSeq(rest, cut + 1, Len(rest))
            order == (front \o <<moved>>) \o back
<1>1. LineUp(rest, Threads) /\ ToSet(rest) = ToSet(ones) \ {moved} /\ Len(rest) = Len(ones) - 1
  BY LineRemove
<1>2. rest \in Seq(Threads) /\ Len(rest) \in Nat /\ DOMAIN rest = 1..Len(rest) /\ moved \in Threads /\ Len(ones) \in Nat
  <2>1. moved \in Threads /\ Len(ones) \in Nat
    BY LineMembers
  <2>. QED
    BY <1>1, <2>1, LineMembers DEF LineUp
<1>3. at \in 1..Len(rest)
  <2>1. \E i \in DOMAIN rest : rest[i] = target_
    <3>1. target_ \in ToSet(rest)
      BY <1>1
    <3>. HIDE DEF rest
    <3>. QED
      BY <1>1, <1>2, <3>1, LineMembers
  <2>. HIDE DEF rest
  <2>. QED
    BY <1>2, <2>1
<1>4. cut \in 0..Len(rest)
  <2>. HIDE DEF rest, at
  <2>. QED
    BY <1>2, <1>3
<1>5. front \in Seq(Threads) /\ Len(front) = cut
  <2>. HIDE DEF rest, cut
  <2>1. 1 \in Int /\ cut \in Int /\ \A i \in 1..cut : rest[i] \in Threads
    BY <1>2, <1>4, ElementOfSeq
  <2>2. SubSeq(rest, 1, cut) \in Seq(Threads) /\ Len(SubSeq(rest, 1, cut)) = IF 1 <= cut THEN cut - 1 + 1 ELSE 0
    BY <2>1, SubSeqProperties
  <2>. QED
    BY <1>4, <2>2
<1>6. back \in Seq(Threads) /\ Len(back) = Len(rest) - cut
  <2>. HIDE DEF rest, cut
  <2>1. cut + 1 \in Int /\ Len(rest) \in Int /\ \A i \in cut + 1..Len(rest) : rest[i] \in Threads
    BY <1>2, <1>4, ElementOfSeq
  <2>2. /\ SubSeq(rest, cut + 1, Len(rest)) \in Seq(Threads)
        /\ Len(SubSeq(rest, cut + 1, Len(rest))) = IF cut + 1 <= Len(rest) THEN Len(rest) - (cut + 1) + 1 ELSE 0
    BY <2>1, SubSeqProperties
  <2>3. \A n \in Nat : \A m \in 0..n : (IF m + 1 <= n THEN n - (m + 1) + 1 ELSE 0) = n - m
    OBVIOUS
  <2>4. (IF cut + 1 <= Len(rest) THEN Len(rest) - (cut + 1) + 1 ELSE 0) = Len(rest) - cut
    BY <1>2, <1>4, <2>3, Zenon
  <2>. HIDE DEF back
  <2>5. back \in Seq(Threads) /\ Len(back) = IF cut + 1 <= Len(rest) THEN Len(rest) - (cut + 1) + 1 ELSE 0
    BY <2>2 DEF back
  <2>. QED
    BY <2>4, <2>5
<1>7. order \in Seq(Threads) /\ Len(order) = Len(ones)
  <2>. HIDE DEF front, back, cut, rest
  <2>1. <<moved>> \in Seq(Threads) /\ Len(<<moved>>) = 1
    BY <1>2
  <2>2. front \o <<moved>> \in Seq(Threads) /\ Len(front \o <<moved>>) = Len(front) + 1
    BY <1>5, <2>1, ConcatProperties
  <2>3. order \in Seq(Threads) /\ Len(order) = Len(front) + 1 + Len(back)
    BY <1>6, <2>2, ConcatProperties
  <2>. QED
    BY <1>1, <1>2, <1>4, <1>5, <1>6, <2>3
<1>8. order = Placed(ones, moved, target_, after)
  BY DEF Placed
<1>. HIDE DEF order
<1>. QED
  BY <1>7, <1>8, LenProperties

LEMMA MetadataStepTyped == MetadataTypeOK /\ [MetadataNext]_metadataVars => MetadataTypeOK'
<1>. SUFFICES ASSUME MetadataTypeOK, [MetadataNext]_metadataVars PROVE MetadataTypeOK'
  OBVIOUS
<1>0. FinalRevision \in Nat /\ FALSE \in BOOLEAN
  BY MetadataAssumption
<1>1. ASSUME NEW e \in Editors, NEW t \in Threads, ReadsThread(e, t) PROVE MetadataTypeOK'
  BY <1>1 DEF ReadsThread, MetadataTypeOK
<1>2. ASSUME NEW e \in Editors, NEW r \in MetadataRows, Patch(e, r) PROVE MetadataTypeOK'
  BY <1>2 DEF Patch, MetadataTypeOK
<1>3. ASSUME NEW t \in Threads, Wakes(t) PROVE MetadataTypeOK'
  <2>1. metadata[t] \in MetadataRows /\ metadata[t].revision < FinalRevision /\ now' = now
        /\ metadata' = [metadata EXCEPT ![t] = [metadata[t] EXCEPT !.revision = metadata[t].revision + 1,
                                                  !.settled = FALSE, !.snoozedUntil = Never]]
    BY <1>3 DEF Wakes, MetadataTypeOK
  <2>2. metadata[t].revision + 1 \in 0..FinalRevision
    BY <1>0, <2>1 DEF MetadataRows
  <2>3. [metadata[t] EXCEPT !.revision = metadata[t].revision + 1, !.settled = FALSE, !.snoozedUntil = Never] \in MetadataRows
    BY <1>0, <2>1, <2>2 DEF MetadataRows
  <2>. QED
    BY <2>1, <2>3 DEF MetadataTypeOK
<1>4. ASSUME NEW t \in Threads, NEW u \in Threads, NEW after \in BOOLEAN, Reorder(t, u, after) PROVE MetadataTypeOK'
  <2>. DEFINE S == {v \in Threads : Section(v) = Section(t)}
  <2>1. PICK ones \in Lines(S) :
          LET order == Placed(ones, t, u, after)
              Changed == {v \in Threads : \E i \in DOMAIN order : order[i] = v /\ metadata[v].sortOrder # i - 1}
          IN /\ \A v \in Changed : metadata[v].revision < FinalRevision
             /\ metadata' = [v \in Threads |->
                 IF v \in Changed
                 THEN [metadata[v] EXCEPT !.revision = @ + 1,
                                          !.sortOrder = (CHOOSE i \in DOMAIN order : order[i] = v) - 1]
                 ELSE metadata[v]]
    BY <1>4 DEF Reorder
  <2>. DEFINE order == Placed(ones, t, u, after)
              Changed == {v \in Threads : \E i \in DOMAIN order : order[i] = v /\ metadata[v].sortOrder # i - 1}
              rank == [v \in Threads |-> (CHOOSE i \in DOMAIN order : order[i] = v) - 1]
  <2>2. \A v \in Changed : metadata[v].revision < FinalRevision
    BY <2>1, Zenon
  <2>3. metadata' = [v \in Threads |-> IF v \in Changed
                       THEN [metadata[v] EXCEPT !.revision = @ + 1, !.sortOrder = rank[v]] ELSE metadata[v]]
    BY <2>1, Zenon
  <2>4. LineUp(ones, Threads) /\ ToSet(ones) = S
        /\ Len(ones) = Cardinality(S) /\ Cardinality(S) <= Cardinality(Threads) /\ Cardinality(Threads) \in Nat
    BY SectionInLine
  <2>5. t \in ToSet(ones) /\ u \in ToSet(ones) /\ t # u /\ now' = now /\ Len(ones) \in Nat
    BY <1>4, <2>4, LineMembers DEF Reorder
  <2>6. DOMAIN order = 1..Len(ones)
    BY <2>4, <2>5, PlacedKeepsLength, Zenon
  <2>7. \A v \in Changed : rank[v] \in 0..Cardinality(Threads) - 1
    <3>. SUFFICES ASSUME NEW v \in Changed PROVE rank[v] \in 0..Cardinality(Threads) - 1
      OBVIOUS
    <3>. DEFINE c == CHOOSE i \in DOMAIN order : order[i] = v
    <3>1. \E i \in DOMAIN order : order[i] = v
      OBVIOUS
    <3>. HIDE DEF order
    <3>2. c \in 1..Len(ones)
      BY <2>6, <3>1
    <3>3. rank[v] = c - 1
      OBVIOUS
    <3>. HIDE DEF rank, c
    <3>. QED
      BY <2>4, <2>5, <3>2, <3>3
  <2>. HIDE DEF rank, order, Changed
  <2>8. ASSUME NEW v \in Threads PROVE metadata'[v] \in MetadataRows
    <3>1. metadata[v] \in MetadataRows
      BY DEF MetadataTypeOK
    <3>2. CASE v \in Changed
      <4>1. metadata'[v] = [metadata[v] EXCEPT !.revision = metadata[v].revision + 1, !.sortOrder = rank[v]]
        BY <2>3, <3>2
      <4>2. metadata[v].revision + 1 \in 0..FinalRevision
        BY <1>0, <2>2, <3>1, <3>2 DEF MetadataRows
      <4>. QED
        BY <2>7, <3>1, <3>2, <4>1, <4>2 DEF MetadataRows
    <3>3. CASE v \notin Changed
      BY <2>3, <3>1, <3>3
    <3>. QED
      BY <3>2, <3>3
  <2>. QED
    BY <2>3, <2>5, <2>8 DEF MetadataTypeOK
<1>5. CASE TimePasses \/ UNCHANGED metadataVars
  BY <1>5 DEF TimePasses, metadataVars, MetadataTypeOK
<1>. QED
  BY <1>1, <1>2, <1>3, <1>4, <1>5 DEF MetadataNext

LEMMA MetadataWellTyped == MetadataSpec => []MetadataTypeOK
<1>1. MetadataInit => MetadataTypeOK
  <2>1. DefaultRow \in MetadataRows
    BY MetadataAssumption DEF DefaultRow, MetadataRows
  <2>. QED
    BY <2>1 DEF MetadataInit, MetadataTypeOK
<1>. QED
  BY <1>1, MetadataStepTyped, PTL DEF MetadataSpec

(* ProtocolTypeOK: the attempts and polls within their bounds, and a       *)
(* verdict exactly at the end.                                             *)
Verdicts == {"none", "own", "stale"}
ProtocolBounded ==
  /\ attempts \in 0..MaxAttempts /\ mcpStage \in Stages
  /\ polls \in 0..MaxPolls /\ acceptedAfterPoll \in -1..MaxPolls
  /\ callback \in {"idle", "pending", "accepted", "rejected"} /\ verdict \in Verdicts
  /\ mcpStage = "ended" <=> mcpEnd # "none"

LEMMA ProtocolWellTyped == ProtocolSpec => []ProtocolTypeOK
<1>1. ProtocolInit => ProtocolBounded
  BY ProtocolAssumption DEF ProtocolInit, ProtocolBounded, Stages, Verdicts
<1>2. ASSUME ProtocolBounded, ConversationInv, ReadsLine PROVE ProtocolBounded'
  <2>. DEFINE l == Head(said)
  <2>. HIDE DEF l
  <2>. USE <1>2, ProtocolAssumption DEF ProtocolBounded, Stages, Verdicts
  <2>1. ASSUME UnchangedByStage, Continues PROVE ProtocolBounded'
    BY <2>1 DEF UnchangedByStage, Continues
  <2>2. ASSUME UnchangedByStage, mcpStage # "ended", NEW h, h # "none", VerdictFalls(h, "own") PROVE ProtocolBounded'
    BY <2>2 DEF UnchangedByStage, VerdictFalls
  <2>3. ASSUME UnchangedByStage, mcpStage # "ended", NEW s \in Stages \ {"ended"}, NEW w, Enters(s, w) PROVE ProtocolBounded'
    BY <2>3 DEF UnchangedByStage, Enters
  <2>4. CASE Handshaken(l)
    <3>1. UnchangedByStage /\ mcpStage = "handshake" /\ mcpMachine \in Machines
      BY <2>4 DEF Handshaken, ConversationInv, ConversationTyped
    <3>2. \/ VerdictFalls("handshake", "own") \/ Enters("authenticating", "auth") \/ Enters("clearing", "clear")
          \/ Enters("requesting", "login") \/ Enters("reading", "read")
      BY <2>4, <3>1 DEF Handshaken, Machines
    <3>. QED
      BY <3>1, <3>2, <2>2, <2>3
  <2>5. CASE Located(l)
    <3>1. UnchangedByStage /\ mcpStage \in {"clearing", "authenticating"}
      BY <2>5 DEF Located
    <3>2. CASE /\ attempts < MaxAttempts /\ attempts' = attempts + 1 /\ UNCHANGED <<mcpStage, mcpEnd, verdict>>
      BY <3>1, <3>2 DEF UnchangedByStage
    <3>3. CASE Enters("authenticating", "auth")
      BY <3>1, <3>3, <2>3
    <3>4. CASE \E h \in {"notFound", "done", "unsupported", "completed", "finishInBrowser", "payload"} : VerdictFalls(h, "own")
      BY <3>1, <3>4, <2>2
    <3>5. CASE mcpStage' = "awaiting" /\ UNCHANGED <<mcpEnd, verdict, attempts, asked>>
      BY <3>1, <3>5 DEF UnchangedByStage
    <3>. QED
      BY <2>5, <3>2, <3>3, <3>4, <3>5 DEF Located
  <2>6. CASE CodexAnswered(l)
    BY <2>6, <2>2, <2>3 DEF CodexAnswered, VerdictFalls, UnchangedByStage
  <2>7. CASE Completed(l)
    BY <2>7, <2>2 DEF Completed, VerdictFalls, UnchangedByStage
  <2>8. CASE Awaited(l)
    BY <2>8 DEF Awaited, VerdictFalls, Continues
  <2>. QED
    BY <1>2, <2>1, <2>4, <2>5, <2>6, <2>7, <2>8 DEF ReadsLine, l
<1>3. ProtocolBounded /\ ConversationInv /\ [ProtocolNext]_protocolVars => ProtocolBounded'
  BY <1>2, ProtocolAssumption DEF ProtocolNext, protocolVars, ProtocolBounded, Stages, Verdicts, ProviderAnswers, ProviderWrites,
         ServerSettles, LoginCompletes, StartTimesOut, PollStatus, SubmitCallback, VerdictFalls, UnchangedByStage
<1>4. ConversationInv /\ ProtocolBounded => ProtocolTypeOK
  BY DEF ConversationInv, ConversationTyped, ProtocolBounded, ProtocolTypeOK, Verdicts
<1>. QED
  BY <1>1, <1>3, <1>4, InitConversation, ConversationStepKeeps, PTL DEF ProtocolSpec

(* LoginTypeOK: only known sessions are retained or called back.           *)
SessionsKnown == sessions \subseteq Logins /\ delivering \subseteq Logins

LEMMA LoginsWellTyped == LoginSpec => []LoginTypeOK
<1>1. LoginInit => SessionsKnown
  BY DEF LoginInit, SessionsKnown
<1>2. SessionsKnown /\ [LoginNext]_loginVars => SessionsKnown'
  BY DEF SessionsKnown, LoginNext, loginVars, Begin, Attempt, LoginExits, AttemptEnds, Discarded, Evicted, FinishLogin,
         OtherLogins, ForgetLogin, AbortLogin, DeliverCallback, CallbackDelivered, CloseLogins, LoginsClosed
<1>3. LoginsInv /\ SessionsKnown => LoginTypeOK
  BY DEF LoginsInv, LoginsTyped, SessionsKnown, LoginTypeOK, Phases
<1>. QED
  BY <1>1, <1>2, <1>3, InitLogins, LoginStepKeeps, PTL DEF LoginSpec

(***************************************************************************)
(* All components                                                          *)
(***************************************************************************)
(* A step is one of the component that runs; to each of the others it is   *)
(* none.                                                                   *)
LEMMA ComponentSteps ==
  [ComponentsNext]_componentVars =>
    /\ [CaptureNext]_captureVars /\ [TerminalNext]_terminalVars /\ [SpeechNext]_speechVars
    /\ [ReadsNext]_readVars /\ [CatalogNext]_catalogVars /\ [PortNext]_portVars
    /\ [StorageNext]_storageVars /\ [CliNext]_cliVars
    /\ [StreamNext]_streamVars /\ [MetadataNext]_metadataVars
    /\ [AttachmentsNext]_uploadVars /\ [InstructionNext]_instructionVars /\ [CheckpointNext]_checkpointVars
    /\ [LoginNext]_loginVars /\ [ProtocolNext]_protocolVars
    /\ [DeliveryNext]_deliveryVars /\ [TreeNext]_treeVars /\ [InvocationNext]_invocationVars
    /\ [ClaudeNext]_claudeVars /\ [CodexNext]_codexVars /\ [LifecycleNext]_lifecycleVars
    /\ [CloneNext]_cloneVars /\ [SyncNext]_syncVars
<1>1. CASE ComponentsNext
  BY <1>1 DEF ComponentsNext
<1>2. CASE UNCHANGED componentVars
  BY <1>2 DEF componentVars
<1>. QED
  BY <1>1, <1>2

(* SlotsAccountedFor, whichever of the components runs.                    *)
THEOREM SlotsAccountedForHolds == ComponentsSpec => []SlotsAccountedFor
<1>1. ComponentsInit => /\ CaptureInit /\ TerminalInit /\ SpeechInit /\ ReadsInit /\ CatalogInit /\ PortInit
  BY DEF ComponentsInit
<1>2. ComponentsSpec => ComponentsInit /\ [][ComponentsNext]_componentVars
  BY DEF ComponentsSpec
<1>3. ComponentsSpec => /\ CaptureSpec /\ TerminalSpec /\ SpeechSpec /\ ReadsSpec /\ CatalogSpec /\ PortSpec
  BY <1>1, <1>2, ComponentSteps, PTL DEF CaptureSpec, TerminalSpec, SpeechSpec, ReadsSpec, CatalogSpec, PortSpec
<1>. QED
  BY <1>3, CaptureSlotOwnedHolds, ShellsOwnedHolds, SpeechSlotOwnedHolds, ReadSlotsOwnedHolds,
     CatalogsServedHolds, ScansSharedHolds, PTL DEF SlotsAccountedFor

(* AnswersTrue, whichever of the components runs.                          *)
THEOREM AnswersTrueHolds == ComponentsSpec => []AnswersTrue
<1>1. ComponentsInit => StorageInit /\ CliInit /\ StreamInit /\ MetadataInit
  BY DEF ComponentsInit
<1>2. ComponentsSpec => ComponentsInit /\ [][ComponentsNext]_componentVars
  BY DEF ComponentsSpec
<1>3. ComponentsSpec => StorageSpec /\ CliSpec /\ StreamSpec /\ MetadataSpec
  BY <1>1, <1>2, ComponentSteps, PTL DEF StorageSpec, CliSpec, StreamSpec, MetadataSpec
<1>. QED
  BY <1>3, CallersToldTheTruthHolds, ResultTellsAllHolds, EditsOnWhatWasSeenHolds,
     ChangesReachWatchersHold, PTL DEF AnswersTrue

(* FilesAccountedFor, whichever of the components runs.                    *)
THEOREM FilesAccountedForHolds == ComponentsSpec => []FilesAccountedFor
<1>1. ComponentsInit => AttachmentsInit /\ InstructionInit /\ CheckpointInit
  BY DEF ComponentsInit
<1>2. ComponentsSpec => ComponentsInit /\ [][ComponentsNext]_componentVars
  BY DEF ComponentsSpec
<1>3. ComponentsSpec => AttachmentsSpec /\ InstructionSpec /\ CheckpointSpec
  BY <1>1, <1>2, ComponentSteps, PTL DEF AttachmentsSpec, InstructionSpec, CheckpointSpec
<1>. QED
  BY <1>3, RowsHaveBlobsHolds, InstructionRecordsHold, CheckpointsKeptHolds, PTL DEF FilesAccountedFor

(* LoginsSound, whichever of the components runs.                          *)
THEOREM LoginsSoundHolds == ComponentsSpec => []LoginsSound
<1>1. ComponentsInit => LoginInit /\ ProtocolInit
  BY DEF ComponentsInit
<1>2. ComponentsSpec => ComponentsInit /\ [][ComponentsNext]_componentVars
  BY DEF ComponentsSpec
<1>3. ComponentsSpec => LoginSpec /\ ProtocolSpec
  BY <1>1, <1>2, ComponentSteps, PTL DEF LoginSpec, ProtocolSpec
<1>. QED
  BY <1>3, OneLoginProcessHolds, VerdictIsOwnHolds, PTL DEF LoginsSound

(* What is known of each component alone holds whichever of them runs:     *)
(* the providers, then files, logins and clients, then slots and callers.  *)
LEMMA ProvidersWellTyped == ComponentsSpec =>
  [](DeliveryTypeOK /\ TreeTypeOK /\ InvocationTypeOK /\ ClaudeTypeOK /\ CodexTypeOK /\ LifecycleTypeOK)
<1>1. ComponentsInit => /\ DeliveryInit /\ TreeInit /\ InvocationInit /\ ClaudeInit /\ CodexInit /\ LifecycleInit
  BY DEF ComponentsInit
<1>2. ComponentsSpec => ComponentsInit /\ [][ComponentsNext]_componentVars
  BY DEF ComponentsSpec
<1>3. ComponentsSpec => /\ DeliverySpec /\ TreeSpec /\ ClaudeSpec /\ CodexSpec /\ LifecycleSpec
                        /\ InvocationInit /\ [][InvocationNext]_invocationVars
  BY <1>1, <1>2, ComponentSteps, PTL DEF DeliverySpec, TreeSpec, ClaudeSpec, CodexSpec, LifecycleSpec
<1>4. DeliverySpec => []DeliveryTypeOK
  <2>1. DeliveryInv => DeliveryTypeOK
    BY DEF DeliveryInv
  <2>. QED
    BY <2>1, InitDelivery, StepDelivery, PTL DEF DeliverySpec
<1>5. CodexSpec => []CodexTypeOK
  <2>1. FramesInv => CodexTypeOK
    BY DEF FramesInv
  <2>. QED
    BY <2>1, InitFrames, StepFrames, PTL DEF CodexSpec
<1>6. LifecycleSpec => []LifecycleTypeOK
  BY RecordsSubagents, InitRecordsSubagents, LifecycleStepKeeps, PTL DEF LifecycleSpec
<1>. QED
  BY <1>3, <1>4, <1>5, <1>6, TreeWellTyped, InvocationWellTyped, ClaudeWellTyped, PTL

LEMMA FilesWellTyped == ComponentsSpec =>
  [](/\ CloneTypeOK /\ SyncTypeOK /\ AttachmentsTypeOK /\ InstructionTypeOK /\ CheckpointTypeOK
     /\ LoginTypeOK /\ ProtocolTypeOK /\ StreamTypeOK /\ MetadataTypeOK)
<1>1. ComponentsInit => /\ CloneInit /\ SyncInit /\ AttachmentsInit /\ InstructionInit /\ CheckpointInit
                        /\ LoginInit /\ ProtocolInit /\ StreamInit /\ MetadataInit
  BY DEF ComponentsInit
<1>2. ComponentsSpec => ComponentsInit /\ [][ComponentsNext]_componentVars
  BY DEF ComponentsSpec
<1>3. ComponentsSpec => /\ CloneSpec /\ SyncSpec /\ AttachmentsSpec /\ InstructionSpec /\ CheckpointSpec
                        /\ LoginSpec /\ ProtocolSpec /\ StreamSpec /\ MetadataSpec
  BY <1>1, <1>2, ComponentSteps, PTL DEF CloneSpec, SyncSpec, AttachmentsSpec, InstructionSpec, CheckpointSpec,
     LoginSpec, ProtocolSpec, StreamSpec, MetadataSpec
<1>. QED
  BY <1>3, ClonesWellTyped, SyncWellTyped, AttachmentsWellTyped, InstructionsWellTyped, CheckpointsWellTyped,
     LoginsWellTyped, ProtocolWellTyped, StreamWellTyped, MetadataWellTyped, PTL

LEMMA SlotsWellTyped == ComponentsSpec =>
  [](/\ CaptureTypeOK /\ TerminalTypeOK /\ SpeechTypeOK /\ ReadsTypeOK
     /\ StorageTypeOK /\ CliTypeOK /\ CatalogTypeOK /\ PortTypeOK)
<1>1. ComponentsInit => /\ CaptureInit /\ TerminalInit /\ SpeechInit /\ ReadsInit
                        /\ StorageInit /\ CliInit /\ CatalogInit /\ PortInit
  BY DEF ComponentsInit
<1>2. ComponentsSpec => ComponentsInit /\ [][ComponentsNext]_componentVars
  BY DEF ComponentsSpec
<1>3. /\ CaptureInv => CaptureTypeOK
      /\ TerminalInv => TerminalTypeOK
      /\ SpeechInv => SpeechTypeOK
      /\ ReadsInv => ReadsTypeOK
      /\ CallsInv => StorageTypeOK
      /\ CliInv => CliTypeOK
      /\ CatalogInv => CatalogTypeOK
      /\ PortInv => PortTypeOK
  BY DEF CaptureInv, TerminalInv, SpeechInv, ReadsInv, CallsInv, CliInv, CatalogInv, PortInv
<1>4. ASSUME CliInv, [CliNext]_cliVars PROVE CliInv'
  <2>1. CASE CliNext
    BY <1>4, <2>1, CliStepKeeps
  <2>2. CASE UNCHANGED cliVars
    BY <1>4, <2>2 DEF cliVars, CliInv, CliTypeOK, HeldInLine, KeptInOrder, KeptOrHeld, CliOver
  <2>. QED
    BY <1>4, <2>1, <2>2
<1>5. ComponentsSpec => [](CaptureTypeOK /\ TerminalTypeOK /\ SpeechTypeOK /\ ReadsTypeOK)
  BY <1>1, <1>2, <1>3, ComponentSteps, InitCapture, StepCapture, InitTerminals, StepTerminals,
     InitSpeech, StepSpeech, InitReads, StepReads, PTL
<1>6. ComponentsSpec => [](StorageTypeOK /\ CliTypeOK /\ CatalogTypeOK /\ PortTypeOK)
  BY <1>1, <1>2, <1>3, <1>4, ComponentSteps, InitCalls, StepCalls, InitCli, InitCatalogs, StepCatalogs,
     InitPorts, StepPorts, PTL
<1>. QED
  BY <1>5, <1>6, PTL

(* ComponentsTypeOK: every component keeps its types, whichever runs, and  *)
(* with them the bounds of the code: lines no longer than their limits,    *)
(* numbers in their range, nobody held who is unknown.                     *)
THEOREM ComponentsTypeOKHolds == ComponentsSpec => []ComponentsTypeOK
BY ProvidersWellTyped, FilesWellTyped, SlotsWellTyped, PTL DEF ComponentsTypeOK
=============================================================================
