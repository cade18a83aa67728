---------------------------- MODULE Interactions ----------------------------
(***************************************************************************)
(* What a provider asks of the user during one turn: approvals             *)
(* (application/approval-service.ts) and questions (question-service.ts),  *)
(* their durable rows, the adapters that hold the provider's request open  *)
(* (claude-interactive.ts, codex-interactive.ts), the client calls that    *)
(* answer, and the end of the turn: by itself, by Stop, by shutdown or by  *)
(* a crash. A step is what the code does between two awaits; a storage     *)
(* request is one step. Where StorageFails, a request may be refused, and  *)
(* the storage worker may die, with answers that are still under way.      *)
(***************************************************************************)
EXTENDS Integers, FiniteSets, FiniteSetsExt

CONSTANTS Approvals, Questions, \* requests of the turn, numbered as they come
          Calls,                \* answer calls of clients
          Decisions,            \* what a client may answer
          PendingLimit,         \* APPROVAL_LIMITS.pending
          Retained,             \* APPROVAL_LIMITS.retained
          StorageFails

Requests == Approvals \cup Questions

ASSUME RequestsAssumption == Approvals \subseteq Nat /\ Questions \subseteq Nat /\ Approvals \cap Questions = {}
ASSUME LimitsAssumption == PendingLimit \in Nat /\ Retained \in Nat
ASSUME StorageAssumption == StorageFails \in BOOLEAN

Unanswered == {"cancelled", "expired", "timedOut"}
RowStatus  == {"absent", "pending", "gone"} \cup Unanswered \cup Decisions
AskPoints  == {"none", "creating", "created", "refused", "waiting", "settling", "done"}
Timers     == {"off", "set", "asked", "timedOut", "late"}
CallPoints == {"listed", "sent", "answered"}
Stages     == {"executing", "exited", "recorded", "released", "expiring", "over", "down"}

ASSUME DecisionsAssumption ==
  Decisions \cap ({"absent", "pending", "gone", "open", "rejected", "unanswered", "none"} \cup Unanswered) = {}

VARIABLES
  running,   \* the task row says so
  stage,     \* of run() from the provider on; "down" is a dead process
  aborted,   \* abort.signal of the run
  closing,
  broken,    \* the storage worker is gone: every request fails
  stopping,  \* cancelTask has committed and the abort is owed
  row,       \* request -> status of its row
  ask,       \* request -> await point of ask()
  waiting,   \* the requests with a waiter in the map
  outcome,   \* request -> what settled the waiter's promise first
  timer,     \* approval -> its timer and timeOut()
  withdrawn, \* requests the adapter no longer replies to
  told,      \* request -> what the provider was told
  call,      \* answer call -> its await point, request, decision, what it saw
  lost       \* history: requests a storage request failed for

taskVars == <<running, stage, aborted, closing, broken, stopping>>
askVars  == <<row, ask, waiting, outcome, timer, withdrawn, told>>
vars == <<taskVars, askVars, call, lost>>

NoCall    == [at |-> "unused"]
EndedCall == [at |-> "done"]
CallState ==
  {NoCall, EndedCall} \cup [at : CallPoints, of : Requests, decision : Decisions, pending : BOOLEAN, waiter : BOOLEAN]

TypeOK ==
  /\ running \in BOOLEAN
  /\ stage \in Stages
  /\ aborted \in BOOLEAN /\ closing \in BOOLEAN /\ broken \in BOOLEAN /\ stopping \in BOOLEAN
  /\ row \in [Requests -> RowStatus]
  /\ ask \in [Requests -> AskPoints]
  /\ waiting \subseteq Requests
  /\ outcome \in [Requests -> {"open", "rejected", "unanswered"} \cup Decisions]
  /\ timer \in [Requests -> Timers]
  /\ withdrawn \subseteq Requests
  /\ told \in [Requests -> {"none", "unanswered"} \cup Decisions]
  /\ call \in [Calls -> CallState]
  /\ lost \subseteq Requests

Init ==
  /\ running = TRUE /\ stage = "executing"
  /\ aborted = FALSE /\ closing = FALSE /\ broken = FALSE /\ stopping = FALSE
  /\ row = [r \in Requests |-> "absent"]
  /\ ask = [r \in Requests |-> "none"]
  /\ waiting = {}
  /\ outcome = [r \in Requests |-> "open"]
  /\ timer = [r \in Requests |-> "off"]
  /\ withdrawn = {}
  /\ told = [r \in Requests |-> "none"]
  /\ call = [c \in Calls |-> NoCall]
  /\ lost = {}

-----------------------------------------------------------------------------
(* Helpers.                                                                *)

Pending(R) == {r \in R : row[r] = "pending"}

\* The rows when the pending ones of R get status s.
Settled(R, s) == [r \in Requests |-> IF r \in Pending(R) THEN s ELSE row[r]]

\* The settled approval rows that createApproval drops: all but the newest.
Evicted ==
  LET settled == {r \in Approvals : row[r] \notin {"absent", "pending", "gone"}}
  IN  {r \in settled : Cardinality({s \in settled : s > r}) >= Retained}

\* An ask that listens to its signal.
Listening(r) == ask[r] \in {"creating", "created", "waiting"}

\* The signal of an ask: of the run and, for an approval, of its request.
Signalled(r, gone, abort) == abort \/ (r \in Approvals /\ r \in gone)

\* The signals fire: the adapter no longer replies to the requests in gone, and
\* the waiters whose signal is aborted now are rejected.
Interrupt(gone, abort) ==
  /\ withdrawn' = gone
  /\ aborted' = abort
  /\ outcome' = [r \in Requests |-> IF Listening(r) /\ outcome[r] = "open" /\ Signalled(r, gone, abort)
                                    THEN "rejected" ELSE outcome[r]]

\* The provider ends or is killed: dispose() withdraws all of its requests.
Dispose(abort) == /\ stage' = "exited"
                  /\ Interrupt(Requests, abort)

\* A promise settles once.
Resolved(r, value) == IF outcome[r] = "open" THEN [outcome EXCEPT ![r] = value] ELSE outcome

\* A storage request of r is refused, by a busy, full or dead storage.
Fails(r) == StorageFails /\ lost' = lost \cup {r}

-----------------------------------------------------------------------------
(* ask().                                                                  *)

NoOpenQuestion ==
  \A q \in Questions : ask[q] # "none" => told[q] # "none" \/ q \in withdrawn

\* An answer is seen only where the promise is awaited.
Decided(r) == ask[r] = "waiting" /\ outcome[r] \in Decisions

\* What the provider is told of a request that ended.
Reply(r) ==
  told' = IF r \in withdrawn THEN told
          ELSE [told EXCEPT ![r] = IF Decided(r) THEN outcome[r] ELSE "unanswered"]

NextAsk(r) ==
  /\ stage = "executing" /\ ask[r] = "none"
  /\ \A s \in Requests : s < r => ask[s] # "none"
  /\ r \in Questions => NoOpenQuestion

Ask(r) ==
  /\ NextAsk(r)
  /\ ask' = [ask EXCEPT ![r] = "creating"]
  /\ waiting' = waiting \cup {r}
  /\ UNCHANGED <<taskVars, row, outcome, timer, withdrawn, told, call, lost>>

\* The process waits for too many approvals, of any turn. Questions have a place
\* for each active turn, which asks one at a time.
AskBusy(r) ==
  /\ NextAsk(r) /\ r \in Approvals
  /\ ask' = [ask EXCEPT ![r] = "done"]
  /\ told' = [told EXCEPT ![r] = "unanswered"]
  /\ UNCHANGED <<taskVars, row, waiting, outcome, timer, withdrawn, call, lost>>

\* Mutant: a request is admitted whatever became of its turn.
AdmissibleAnyTurn(r) ==
  IF r \in Approvals THEN Cardinality(Pending(Approvals)) < PendingLimit
                     ELSE Pending(Questions) = {}

Admissible(r) ==
  /\ running
  /\ IF r \in Approvals THEN Cardinality(Pending(Approvals)) < PendingLimit
                        ELSE Pending(Questions) = {}

\* createApproval, createQuestion; the storage worker serves requests in order.
CreateRow(r) ==
  /\ ask[r] = "creating"
  /\ \A s \in Requests : s < r => ask[s] # "creating"
  /\ \/ /\ ~broken /\ Admissible(r)
        /\ row' = [s \in Requests |-> IF s = r THEN "pending"
                                      ELSE IF r \in Approvals /\ s \in Evicted THEN "gone" ELSE row[s]]
        /\ ask' = [ask EXCEPT ![r] = "created"]
        /\ UNCHANGED lost
     \/ /\ \/ ~Admissible(r) /\ UNCHANGED lost
           \/ Fails(r)
        /\ ask' = [ask EXCEPT ![r] = "refused"]
        /\ UNCHANGED row
  /\ UNCHANGED <<taskVars, waiting, outcome, timer, withdrawn, told, call>>

\* The promise of an ask that is over is garbage.
DropOutcome(r) == outcome' = [outcome EXCEPT ![r] = "open"]

\* Mutant: an aborted ask leaves its row behind.
LeaveUnsettled(r) ==
  /\ waiting' = waiting \ {r}
  /\ timer' = [timer EXCEPT ![r] = IF @ = "set" THEN "off" ELSE @]
  /\ ask' = [ask EXCEPT ![r] = "done"]
  /\ Reply(r) /\ DropOutcome(r)
  /\ UNCHANGED <<taskVars, withdrawn, row, call, lost>>

\* The finally block: an aborted ask settles its row before it is over. An
\* approval that ends otherwise is replied to; a question is replied to when it
\* was answered, else the adapter ends the provider.
Leave(r) ==
  /\ waiting' = waiting \ {r}
  /\ timer' = [timer EXCEPT ![r] = IF @ = "set" THEN "off" ELSE @]
  /\ IF Signalled(r, withdrawn, aborted)
     THEN /\ ask' = [ask EXCEPT ![r] = "settling"]
          /\ DropOutcome(r) /\ UNCHANGED <<told, stage, withdrawn, aborted>>
     ELSE /\ ask' = [ask EXCEPT ![r] = "done"]
          /\ IF r \in Questions /\ ~Decided(r) /\ stage = "executing"
             THEN Dispose(aborted) /\ UNCHANGED told
             ELSE Reply(r) /\ DropOutcome(r) /\ UNCHANGED <<stage, withdrawn, aborted>>
  /\ UNCHANGED <<running, closing, broken, stopping, row, call, lost>>

\* The answer to the create request: throwIfAborted, then the timer is set.
Created(r) ==
  /\ ask[r] = "created"
  /\ IF Signalled(r, withdrawn, aborted)
     THEN Leave(r)
     ELSE /\ ask' = [ask EXCEPT ![r] = "waiting"]
          /\ timer' = IF r \in Approvals THEN [timer EXCEPT ![r] = "set"] ELSE timer
          /\ UNCHANGED <<taskVars, row, waiting, outcome, withdrawn, told, call, lost>>

Refused(r) == ask[r] = "refused" /\ Leave(r)

OutcomeSeen(r) == ask[r] = "waiting" /\ outcome[r] # "open" /\ Leave(r)

\* settleApproval of this row, or expireQuestions of the task.
SettleRow(r) ==
  /\ ask[r] = "settling"
  /\ ask' = [ask EXCEPT ![r] = "done"]
  /\ \/ /\ ~broken
        /\ row' = IF r \in Approvals THEN Settled({r}, "cancelled") ELSE Settled(Questions, "expired")
        /\ UNCHANGED lost
     \/ Fails(r) /\ UNCHANGED row
  /\ UNCHANGED <<taskVars, waiting, outcome, timer, withdrawn, told, call>>

-----------------------------------------------------------------------------
(* timeOut(). The waiter is looked up before the request and after it: an  *)
(* answer that was stored first wins.                                      *)

\* Mutant: the waiter goes when the timer fires, before the row is timed out.
TimerTakesWaiter(r) ==
  /\ timer[r] = "set" /\ r \in waiting
  /\ timer' = [timer EXCEPT ![r] = "asked"]
  /\ waiting' = waiting \ {r}
  /\ UNCHANGED <<taskVars, row, ask, outcome, withdrawn, told, call, lost>>

TimerFires(r) ==
  /\ timer[r] = "set" /\ r \in waiting
  /\ timer' = [timer EXCEPT ![r] = "asked"]
  /\ UNCHANGED <<taskVars, row, ask, waiting, outcome, withdrawn, told, call, lost>>

\* Mutant: a failed request counts as no transition.
TimeoutRowOrGiveUp(r) ==
  /\ timer[r] = "asked"
  /\ \/ /\ ~broken
        /\ timer' = [timer EXCEPT ![r] = IF row[r] = "pending" THEN "timedOut" ELSE "late"]
        /\ row' = Settled({r}, "timedOut")
        /\ UNCHANGED lost
     \/ /\ Fails(r)
        /\ timer' = [timer EXCEPT ![r] = "late"]
        /\ UNCHANGED row
  /\ UNCHANGED <<taskVars, ask, waiting, outcome, withdrawn, told, call>>

\* A failed request counts as a transition.
TimeoutRow(r) ==
  /\ timer[r] = "asked"
  /\ \/ /\ ~broken
        /\ timer' = [timer EXCEPT ![r] = IF row[r] = "pending" THEN "timedOut" ELSE "late"]
        /\ row' = Settled({r}, "timedOut")
        /\ UNCHANGED lost
     \/ /\ Fails(r)
        /\ timer' = [timer EXCEPT ![r] = "timedOut"]
        /\ UNCHANGED row
  /\ UNCHANGED <<taskVars, ask, waiting, outcome, withdrawn, told, call>>

\* Mutant: the answer to the timeout request is not looked at.
TimeoutSeenAnyway(r) ==
  /\ timer[r] \in {"timedOut", "late"}
  /\ timer' = [timer EXCEPT ![r] = "off"]
  /\ IF r \in waiting
     THEN waiting' = waiting \ {r} /\ outcome' = Resolved(r, "unanswered")
     ELSE UNCHANGED <<waiting, outcome>>
  /\ UNCHANGED <<taskVars, row, ask, withdrawn, told, call, lost>>

TimeoutSeen(r) ==
  /\ timer[r] \in {"timedOut", "late"}
  /\ timer' = [timer EXCEPT ![r] = "off"]
  /\ IF timer[r] = "timedOut" /\ r \in waiting
     THEN waiting' = waiting \ {r} /\ outcome' = Resolved(r, "unanswered")
     ELSE UNCHANGED <<waiting, outcome>>
  /\ UNCHANGED <<taskVars, row, ask, withdrawn, told, call, lost>>

-----------------------------------------------------------------------------
(* answer(). Clients answer in any order, twice, and after the turn.       *)

\* The list request: what the client's request looks like now.
ListRow(c, r, d) ==
  /\ stage # "down" /\ ~broken /\ call[c] = NoCall
  /\ row[r] \notin {"absent", "gone"}
  /\ call' = [call EXCEPT ![c] = [at |-> "listed", of |-> r, decision |-> d,
                                  pending |-> row[r] = "pending", waiter |-> FALSE]]
  /\ UNCHANGED <<taskVars, askVars, lost>>

\* The waiter is looked up; a pending request nobody waits for is a conflict.
Look(c) ==
  /\ call[c].at = "listed"
  /\ LET w == call[c].of \in waiting
     IN  call' = [call EXCEPT ![c] = IF @.pending /\ ~w THEN EndedCall
                                     ELSE [@ EXCEPT !.at = "sent", !.waiter = w]]
  /\ UNCHANGED <<taskVars, askVars, lost>>

\* answerApproval, answerQuestion: a repeated answer is returned, any other needs
\* a pending row of a running turn.
AnswerRow(c) ==
  /\ call[c].at = "sent"
  /\ LET r == call[c].of
         d == call[c].decision
         stored == row[r] = "pending" /\ running
     IN  \/ /\ ~broken
            /\ row' = IF stored THEN [row EXCEPT ![r] = d] ELSE row
            /\ call' = [call EXCEPT ![c] = IF stored \/ row[r] = d THEN [@ EXCEPT !.at = "answered"] ELSE EndedCall]
            /\ UNCHANGED lost
         \/ /\ Fails(r)
            /\ call' = [call EXCEPT ![c] = EndedCall]
            /\ UNCHANGED row
  /\ UNCHANGED <<taskVars, ask, waiting, outcome, timer, withdrawn, told>>

\* The waiter is resolved if it is still the one that was looked up.
Resolve(c) ==
  /\ call[c].at = "answered"
  /\ call' = [call EXCEPT ![c] = EndedCall]
  /\ outcome' = IF call[c].waiter /\ call[c].of \in waiting
                THEN Resolved(call[c].of, call[c].decision) ELSE outcome
  /\ UNCHANGED <<taskVars, row, ask, waiting, timer, withdrawn, told, lost>>

-----------------------------------------------------------------------------
(* The provider and the end of the turn.                                   *)

\* The provider takes an approval back (control_cancel_request, resolved).
ProviderCancels(r) ==
  /\ stage = "executing" /\ r \in Approvals \ withdrawn
  /\ ask[r] # "none" /\ told[r] = "none"
  /\ Interrupt(withdrawn \cup {r}, aborted)
  /\ UNCHANGED <<running, stage, closing, broken, stopping, row, ask, waiting, timer, told, call, lost>>

\* The provider ends by itself, also by taking a question back or asking two.
ProviderEnds ==
  /\ stage = "executing"
  /\ Dispose(aborted)
  /\ UNCHANGED <<running, closing, broken, stopping, row, ask, waiting, timer, told, call, lost>>

\* abort.abort(): an executing provider is killed.
Abort == /\ IF stage = "executing" THEN Dispose(TRUE)
                                   ELSE Interrupt(withdrawn, TRUE) /\ UNCHANGED stage
         /\ UNCHANGED <<running, broken, row, ask, waiting, timer, told, call, lost>>

\* Stop: the transaction settles the rows, the abort follows its answer.
CancelTask ==
  /\ stage # "down" /\ ~broken /\ running
  /\ running' = FALSE
  /\ row' = Settled(Requests, "cancelled")
  /\ stopping' = TRUE
  /\ UNCHANGED <<stage, aborted, closing, broken, ask, waiting, outcome, timer, withdrawn, told, call, lost>>

CancelActive == stopping /\ stopping' = FALSE /\ Abort /\ UNCHANGED closing

\* Shutdown; once the end of the turn is recorded it changes nothing here.
Close == stage \in {"executing", "exited"} /\ ~closing /\ closing' = TRUE /\ Abort /\ UNCHANGED stopping

\* finishTask, unless the service is closing. A turn that was stopped stays so.
FinishTask ==
  /\ stage = "exited" /\ stage' = "recorded"
  /\ \/ /\ ~closing /\ ~broken /\ running
        /\ running' = FALSE
        /\ row' = Settled(Requests, "expired")
     \/ /\ closing \/ ~running \/ StorageFails
        /\ UNCHANGED <<running, row>>
  /\ UNCHANGED <<aborted, closing, broken, stopping, ask, waiting, outcome, timer, withdrawn, told, call, lost>>

\* The finally block of run(): the abort, then questions, then approvals. All
\* waiters are rejected by the abort, so expire() has only rows left to settle.
ReleaseRun ==
  /\ stage = "recorded" /\ stage' = "released"
  /\ Interrupt(withdrawn, TRUE)
  /\ UNCHANGED <<running, closing, broken, stopping, row, ask, waiting, timer, told, call, lost>>

ExpireQuestions ==
  /\ stage = "released" /\ stage' = "expiring"
  /\ \/ /\ ~broken
        /\ row' = Settled(Questions, "expired")
        /\ waiting' = waiting \ Questions
     \/ StorageFails /\ UNCHANGED <<row, waiting>>
  /\ UNCHANGED <<running, aborted, closing, broken, stopping, ask, outcome, timer, withdrawn, told, call, lost>>

ExpireApprovals ==
  /\ stage = "expiring" /\ stage' = "over"
  /\ \/ ~broken /\ row' = Settled(Approvals, "expired")
     \/ StorageFails /\ UNCHANGED row
  /\ waiting' = waiting \ Approvals
  /\ timer' = [r \in Requests |-> IF r \in waiting /\ timer[r] = "set" THEN "off" ELSE timer[r]]
  /\ UNCHANGED <<running, aborted, closing, broken, stopping, ask, outcome, withdrawn, told, call, lost>>

\* The storage worker dies or misses its deadline: what it has done stays done,
\* and each caller that has no answer yet takes that for a failure.
StorageDies ==
  /\ StorageFails /\ stage # "down" /\ ~broken
  /\ broken' = TRUE /\ stopping' = FALSE
  /\ LET Unheard(c) == call[c].at = "answered"
     IN  /\ call' = [c \in Calls |-> IF Unheard(c) THEN EndedCall ELSE call[c]]
         /\ lost' = lost \cup {r \in Requests : ask[r] = "created" \/ timer[r] = "late"}
                         \cup {call[c].of : c \in {d \in Calls : Unheard(d)}}
  /\ ask' = [r \in Requests |-> IF ask[r] = "created" THEN "refused" ELSE ask[r]]
  /\ timer' = [r \in Requests |-> IF timer[r] = "late" THEN "timedOut" ELSE timer[r]]
  /\ UNCHANGED <<running, stage, aborted, closing, row, waiting, outcome, withdrawn, told>>

\* The process dies at any point; only the rows are left, and the next process
\* asks nothing more for this turn.
Crash ==
  /\ stage # "down" /\ stage' = "down"
  /\ aborted' = TRUE /\ closing' = FALSE /\ stopping' = FALSE
  /\ ask' = [r \in Requests |-> "done"]
  /\ waiting' = {} /\ withdrawn' = Requests
  /\ outcome' = [r \in Requests |-> "open"]
  /\ timer' = [r \in Requests |-> "off"]
  /\ call' = [c \in Calls |-> IF call[c] = NoCall THEN NoCall ELSE EndedCall]
  /\ UNCHANGED <<running, broken, row, told, lost>>

\* questions.expire() and interruptRunningTasks() of the next process.
Restart ==
  /\ stage = "down" /\ stage' = "over"
  /\ running' = FALSE
  /\ row' = Settled(Requests, "expired")
  /\ broken' = FALSE
  /\ UNCHANGED <<aborted, closing, stopping, ask, waiting, outcome, timer, withdrawn, told, call, lost>>

-----------------------------------------------------------------------------
AskGoesOn(r)   == CreateRow(r) \/ Created(r) \/ Refused(r) \/ OutcomeSeen(r) \/ SettleRow(r)
TimerGoesOn(r) == TimerFires(r) \/ TimeoutRow(r) \/ TimeoutSeen(r)
CallGoesOn(c)  == Look(c) \/ AnswerRow(c) \/ Resolve(c)
RunEnds        == FinishTask \/ ReleaseRun \/ ExpireQuestions \/ ExpireApprovals

Next ==
  \/ \E r \in Requests : Ask(r) \/ AskBusy(r) \/ AskGoesOn(r) \/ TimerGoesOn(r) \/ ProviderCancels(r)
  \/ \E c \in Calls : (\E r \in Requests, d \in Decisions : ListRow(c, r, d)) \/ CallGoesOn(c)
  \/ ProviderEnds \/ CancelTask \/ CancelActive \/ Close \/ RunEnds
  \/ StorageDies \/ Crash \/ Restart

Spec == Init /\ [][Next]_vars

\* Timers fire, storage answers and the event loop goes on. Nothing is assumed
\* of clients and of the provider.
FairSpec ==
  /\ Spec
  /\ \A r \in Requests : WF_vars(AskGoesOn(r)) /\ WF_vars(TimerGoesOn(r))
  /\ \A c \in Calls : WF_vars(CallGoesOn(c))
  /\ WF_vars(RunEnds) /\ WF_vars(CancelActive)

-----------------------------------------------------------------------------
(* The provider is told what the row records: a decision only if that      *)
(* decision is stored (or was, before its row made room), and "unanswered" *)
(* never of a request whose row holds a decision, whichever of timer,      *)
(* answers, cancel and end of turn came first. A request whose storage     *)
(* failed may be told "unanswered" and answered later.                     *)
ToldAsRecorded ==
  \A r \in Requests :
    /\ told[r] \in Decisions => row[r] \in {told[r], "gone"}
    /\ told[r] = "unanswered" /\ r \notin lost => row[r] \notin Decisions \cup {"pending"}

(* A pending row, which clients are shown as something to answer, belongs  *)
(* to a running turn: rows and status change in the same transactions.     *)
PendingWhileRunning ==
  \A r \in Requests : row[r] = "pending" => running

(* A pending row has an ask that answers it or will settle it, unless the  *)
(* process died or storage failed: there is no prompt that stays on the    *)
(* screen and that no answer reaches.                                      *)
PendingIsOwned ==
  \A r \in Requests :
    row[r] = "pending" /\ stage # "down" /\ r \notin lost => ask[r] \in {"created", "waiting", "settling"}

(* What is shown, recorded and told of a prompt agree.                     *)
PromptsSound == ToldAsRecorded /\ PendingWhileRunning /\ PendingIsOwned

(* An answer the client was told is stored reaches the provider, unless    *)
(* the provider took its request back, ended or lost its storage: a timer  *)
(* that fires beside the answer does not take the waiter away from it.     *)
AnswersReach ==
  \A r \in Requests : row[r] \in Decisions ~> (told[r] \in Decisions \/ r \in withdrawn \cup lost)

(* Every approval comes to an end, by an answer or by its timer, even if   *)
(* storage fails under the timer; a question ends with its turn. One case  *)
(* is left to the provider's own timeout: storage dies after it settled    *)
(* the row, and nobody learns of the Stop or the answer that settled it.   *)
SettledUnheard(r) == broken /\ row[r] \notin {"absent", "pending"}
RequestsEnd ==
  /\ \A r \in Approvals : ask[r] # "none" ~> ask[r] = "done" \/ SettledUnheard(r)
  /\ \A r \in Questions : ask[r] # "none" /\ stage # "executing" ~> ask[r] = "done"
=============================================================================
