---------------------------- MODULE ChangeStream ----------------------------
(***************************************************************************)
(* How clients learn that something changed: RunnerChanges counts the      *)
(* changes (application/runner-changes.ts), and RunnerChangeTransport      *)
(* sends the count to the clients connected to it, once for all changes of *)
(* a moment (transport/changes.ts).  A client reads the rest over HTTP.    *)
(***************************************************************************)
EXTENDS Naturals, Sequences, FiniteSets

CONSTANTS Watchers,
          WatcherLimit,    \* connections (16 in the code)
          SendBacklog,     \* messages not yet taken by a client (16384 bytes)
          LastRevision,    \* MAX_SAFE_INTEGER
          Epochs           \* bound: epochs

ASSUME ChangeStreamAssumption ==
  /\ {WatcherLimit, SendBacklog, LastRevision} \subseteq Nat /\ Epochs \in Nat \ {0}

(* Clients connect one at a time.                                          *)
ASSUME WatchersAssumption == IsFiniteSet(Watchers)

VARIABLES
  epoch, revision, \* the state of RunnerChanges
  announcing,      \* pending: the timer of the next "changed"
  watcher,         \* client -> "away", "open", or "closing" until its 'close'
  alive,           \* clients heard of since the last heartbeat
  sending,         \* client -> messages on their way
  received,        \* client -> the last one it got, or Nothing
  streamClosed

streamVars == <<epoch, revision, announcing, watcher, alive, sending, received, streamClosed>>

Nothing == <<0, 0>>
Snapshot == <<epoch, revision>>

StreamInit ==
  /\ epoch = 1 /\ revision = 0 /\ announcing = FALSE /\ streamClosed = FALSE
  /\ watcher = [c \in Watchers |-> "away"] /\ alive = {}
  /\ sending = [c \in Watchers |-> <<>>] /\ received = [c \in Watchers |-> Nothing]

Connected == {c \in Watchers : watcher[c] # "away"}
Open == {c \in Watchers : watcher[c] = "open"}

(* publish: a count that cannot grow starts a new epoch; the listener of   *)
(* the transport starts its timer unless it runs already.                  *)
Publish ==
  /\ IF revision = LastRevision THEN epoch' = epoch + 1 /\ revision' = 0
     ELSE revision' = revision + 1 /\ UNCHANGED epoch
  /\ epoch' <= Epochs
  /\ announcing' = ~streamClosed
  /\ UNCHANGED <<watcher, alive, sending, received, streamClosed>>

(* send: a client that takes nothing is cut off instead.                   *)
Backlogged(c) == Len(sending[c]) > SendBacklog

Announce ==
  /\ announcing /\ announcing' = FALSE
  /\ sending' = [c \in Watchers |-> IF c \in Open /\ ~Backlogged(c) THEN Append(sending[c], Snapshot)
                                    ELSE sending[c]]
  /\ watcher' = [c \in Watchers |-> IF c \in Open /\ Backlogged(c) THEN "closing" ELSE watcher[c]]
  /\ UNCHANGED <<epoch, revision, alive, received, streamClosed>>

(* Mutant: a new client is told only of what changes from now on.          *)
ConnectsUntold(c) ==
  /\ ~streamClosed /\ watcher[c] = "away" /\ Cardinality(Connected) < WatcherLimit
  /\ watcher' = [watcher EXCEPT ![c] = "open"] /\ alive' = alive \cup {c}
  /\ UNCHANGED <<epoch, revision, announcing, sending, received, streamClosed>>

(* upgrade: a new client is told where things stand.                       *)
Connects(c) ==
  /\ ~streamClosed /\ watcher[c] = "away" /\ Cardinality(Connected) < WatcherLimit
  /\ watcher' = [watcher EXCEPT ![c] = "open"] /\ alive' = alive \cup {c}
  /\ sending' = [sending EXCEPT ![c] = <<Snapshot>>]
  /\ UNCHANGED <<epoch, revision, announcing, received, streamClosed>>

WatcherTakes(c) ==
  /\ watcher[c] = "open" /\ sending[c] # <<>>
  /\ received' = [received EXCEPT ![c] = Head(sending[c])]
  /\ sending' = [sending EXCEPT ![c] = Tail(@)]
  /\ UNCHANGED <<epoch, revision, announcing, watcher, alive, streamClosed>>

(* The client says something, or its connection fails.                     *)
CutsOff(c) ==
  /\ watcher[c] = "open" /\ watcher' = [watcher EXCEPT ![c] = "closing"]
  /\ UNCHANGED <<epoch, revision, announcing, alive, sending, received, streamClosed>>
Disconnected(c) ==
  /\ watcher[c] = "closing" /\ watcher' = [watcher EXCEPT ![c] = "away"] /\ alive' = alive \ {c}
  /\ sending' = [sending EXCEPT ![c] = <<>>] /\ received' = [received EXCEPT ![c] = Nothing]
  /\ UNCHANGED <<epoch, revision, announcing, streamClosed>>

(* heartbeat: who has not been heard of since the last one is cut off.     *)
Heartbeat ==
  /\ ~streamClosed /\ alive' = {}
  /\ watcher' = [c \in Watchers |-> IF c \in Open \ alive THEN "closing" ELSE watcher[c]]
  /\ UNCHANGED <<epoch, revision, announcing, sending, received, streamClosed>>
Pong(c) ==
  /\ watcher[c] = "open" /\ alive' = alive \cup {c}
  /\ UNCHANGED <<epoch, revision, announcing, watcher, sending, received, streamClosed>>

CloseStream ==
  /\ ~streamClosed /\ streamClosed' = TRUE /\ announcing' = FALSE /\ alive' = {}
  /\ watcher' = [c \in Watchers |-> IF c \in Open THEN "closing" ELSE watcher[c]]
  /\ UNCHANGED <<epoch, revision, sending, received>>

StreamNext ==
  \/ Publish \/ Announce \/ Heartbeat \/ CloseStream
  \/ \E c \in Watchers : Connects(c) \/ WatcherTakes(c) \/ CutsOff(c) \/ Disconnected(c) \/ Pong(c)

StreamSpec == StreamInit /\ [][StreamNext]_streamVars

-----------------------------------------------------------------------------
StreamTypeOK ==
  /\ epoch \in 1..Epochs /\ revision \in 0..LastRevision
  /\ announcing \in BOOLEAN /\ streamClosed \in BOOLEAN
  /\ watcher \in [Watchers -> {"away", "open", "closing"}] /\ alive \subseteq Watchers
  /\ \A c \in Watchers : Len(sending[c]) <= SendBacklog + 1

LastTold(c) == IF sending[c] = <<>> THEN received[c] ELSE sending[c][Len(sending[c])]

(* No change is missed: a client that is connected has been sent the last  *)
(* count, or a timer runs that will send it, however changes, connections, *)
(* timers and cut-offs fall together; and a closed stream keeps nobody.    *)
ChangesReachWatchers ==
  /\ \A c \in Open : LastTold(c) = Snapshot \/ announcing
  /\ streamClosed => Open = {} /\ ~announcing
  /\ Cardinality(Connected) <= WatcherLimit
=============================================================================
