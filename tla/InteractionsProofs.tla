------------------------- MODULE InteractionsProofs -------------------------
(***************************************************************************)
(* What the provider is told, what is recorded and what clients are shown  *)
(* agree, for any number of requests, answer calls and decisions.          *)
(***************************************************************************)
EXTENDS Interactions, TLAPS

(* Nothing has happened to a request that has not begun, and only a lost   *)
(* one that was refused has a row.                                         *)
Begins ==
  \A r \in Requests :
    /\ ask[r] \in {"none", "creating", "created", "refused"} => timer[r] = "off" /\ told[r] = "none"
    /\ ask[r] \in {"none", "creating"} => row[r] = "absent"
    /\ ask[r] = "refused" => row[r] = "absent" \/ r \in lost
    /\ ask[r] = "none" => outcome[r] = "open"

(* The provider hears of no request after it ended.                        *)
Withdrawn == stage # "executing" => withdrawn = Requests

(* What settles a waiter is stored already, or the signal says why not.    *)
OutcomeStored ==
  \A r \in Requests :
    /\ outcome[r] \in Decisions => row[r] \in {outcome[r], "gone"}
    /\ outcome[r] = "unanswered" => row[r] \in {"timedOut", "gone"} \/ r \in lost
    /\ outcome[r] = "rejected" /\ Listening(r) => Signalled(r, withdrawn, aborted)
TimeoutStored ==
  \A r \in Requests : timer[r] = "timedOut" => row[r] \in {"timedOut", "gone"} \/ r \in lost
AnswerStored ==
  \A c \in Calls :
    /\ call[c].at \in CallPoints => row[call[c].of] # "absent"
    /\ call[c].at = "answered" => row[call[c].of] \in {call[c].decision, "gone"}

(* The provider was told what is stored and will stay so.                  *)
ToldStored ==
  \A r \in Requests :
    /\ told[r] # "none" => ask[r] = "done"
    /\ told[r] \in Decisions => row[r] \in {told[r], "gone"}
    /\ told[r] = "unanswered" => row[r] \in {"absent", "timedOut", "gone"} \/ r \in lost

StoredRest ==
  /\ Begins /\ Withdrawn /\ OutcomeStored /\ TimeoutStored /\ AnswerStored /\ ToldStored
  /\ PendingIsOwned /\ PendingWhileRunning
StoredInv == TypeOK /\ StoredRest

LEMMA InitStored == Init => StoredInv
<1>0. NoCall \in CallState
  BY DEF CallState
<1>1. ASSUME Init PROVE TypeOK
  <2>1. call \in [Calls -> CallState]
    BY <1>0, <1>1 DEF Init
  <2>. QED
    BY <1>1, <2>1 DEF Init, TypeOK, RowStatus, AskPoints, Timers, Stages
<1>2. Init => StoredRest
  BY DecisionsAssumption DEF Init, StoredRest, Begins, Withdrawn, OutcomeStored, TimeoutStored,
     AnswerStored, ToldStored, PendingIsOwned, PendingWhileRunning, NoCall, CallPoints
<1>. QED
  BY <1>1, <1>2 DEF StoredInv

-----------------------------------------------------------------------------
(* Helpers of the model.                                                   *)

LEMMA SettledRows ==
  ASSUME TypeOK, NEW R \in SUBSET Requests, NEW s \in Unanswered, row' = Settled(R, s)
  PROVE  /\ row' \in [Requests -> RowStatus]
         /\ \A r \in Requests : row'[r] = IF r \in R /\ row[r] = "pending" THEN s ELSE row[r]
  BY DEF Settled, Pending, TypeOK, RowStatus

LEMMA EvictedRows ==
  \A r \in Evicted : row[r] \notin {"absent", "pending", "gone"}
  BY DEF Evicted

LEMMA CallType ==
  ASSUME TypeOK, NEW c \in Calls, call[c].at \in CallPoints
  PROVE  call[c].of \in Requests /\ call[c].decision \in Decisions
  BY DEF TypeOK, CallState, NoCall, EndedCall, CallPoints

LEMMA InterruptType ==
  ASSUME TypeOK, NEW gone \in SUBSET Requests, NEW abort \in BOOLEAN, Interrupt(gone, abort)
  PROVE  /\ withdrawn' \subseteq Requests /\ aborted' \in BOOLEAN
         /\ outcome' \in [Requests -> {"open", "rejected", "unanswered"} \cup Decisions]
  BY DEF Interrupt, TypeOK

(* Pending rows may settle while nothing else of the requests and of the   *)
(* calls changes, and no turn that has pending rows stops running.         *)
LEMMA RowsSettle ==
  ASSUME StoredInv, row' \in [Requests -> RowStatus],
         \A r \in Requests : \/ row'[r] = row[r]
                             \/ row[r] = "pending" /\ row'[r] \in Unanswered \cup Decisions,
         \A r \in Requests : row'[r] = "pending" => running',
         UNCHANGED <<told, call, withdrawn, aborted, outcome>>,
         UNCHANGED ask,
         stage # "down", stage # "executing" => stage' # "executing",
         stage' # "executing" => withdrawn = Requests,
         \A r \in Requests : timer'[r] \in {timer[r], "off"},
         lost \subseteq lost'
  PROVE  StoredRest'
<1>. USE DEF StoredInv, StoredRest
<1>1. Begins' /\ ToldStored'
  BY DecisionsAssumption DEF Begins, ToldStored, TypeOK
<1>2. Withdrawn'
  BY DEF Withdrawn
<1>3. OutcomeStored' /\ TimeoutStored'
  BY DecisionsAssumption DEF OutcomeStored, TimeoutStored, Listening, Signalled, Unanswered, TypeOK
<1>4. AnswerStored'
  BY CallType, DecisionsAssumption DEF AnswerStored, CallPoints, Unanswered
<1>5. PendingIsOwned' /\ PendingWhileRunning'
  BY DecisionsAssumption DEF PendingIsOwned, PendingWhileRunning, Unanswered
<1>. QED
  BY <1>1, <1>2, <1>3, <1>4, <1>5

-----------------------------------------------------------------------------
(* ask().                                                                  *)

LEMMA CreateKeeps == ASSUME StoredInv, NEW r \in Requests, CreateRow(r) PROVE StoredInv'
<1>. USE DEF StoredInv, StoredRest
<1>1. TypeOK'
  BY DEF TypeOK, CreateRow, Fails, RowStatus, AskPoints, taskVars
<1>2. \A s \in Requests :
        \/ row'[s] = row[s]
        \/ s = r /\ row'[s] = "pending" /\ running /\ ask'[r] = "created"
        \/ row[s] \notin {"absent", "pending", "gone"} /\ row'[s] = "gone"
  BY EvictedRows DEF CreateRow, Admissible, TypeOK, Fails
<1>3. /\ UNCHANGED <<taskVars, waiting, outcome, timer, withdrawn, told, call>>
      /\ ask[r] = "creating" /\ lost \subseteq lost'
      /\ ask' = [ask EXCEPT ![r] = "created"] \/ (ask' = [ask EXCEPT ![r] = "refused"] /\ row' = row)
  BY DEF CreateRow, Fails
<1>4. row[r] = "absent" /\ told[r] = "none" /\ timer[r] = "off"
  BY <1>3 DEF Begins
<1>5. Begins' /\ ToldStored' /\ Withdrawn'
  BY <1>2, <1>3, <1>4, DecisionsAssumption DEF Begins, ToldStored, Withdrawn, TypeOK, taskVars
<1>6. OutcomeStored' /\ TimeoutStored'
  BY <1>2, <1>3, <1>4, DecisionsAssumption DEF OutcomeStored, TimeoutStored, Listening, Signalled, TypeOK, taskVars
<1>7. AnswerStored'
  BY <1>2, <1>3, <1>4, CallType, DecisionsAssumption DEF AnswerStored, CallPoints
<1>8. PendingIsOwned' /\ PendingWhileRunning'
  BY <1>2, <1>3, <1>4 DEF PendingIsOwned, PendingWhileRunning, TypeOK, taskVars
<1>. QED
  BY <1>1, <1>5, <1>6, <1>7, <1>8

LEMMA LeaveKeeps ==
  ASSUME StoredInv, NEW r \in Requests, Created(r) \/ Refused(r) \/ OutcomeSeen(r)
  PROVE  StoredInv'
<1>. USE DEF StoredInv, StoredRest
<1>1. CASE Created(r)
  <2>1. TypeOK'
    BY <1>1 DEF TypeOK, Created, Leave, Signalled, DropOutcome, AskPoints, Timers, taskVars
  <2>2. StoredRest'
    BY <1>1, DecisionsAssumption DEF TypeOK, Created, Leave, DropOutcome, Begins, Withdrawn, OutcomeStored,
       TimeoutStored, AnswerStored, ToldStored, PendingIsOwned, PendingWhileRunning, Listening,
       Signalled, taskVars
  <2>. QED
    BY <2>1, <2>2
<1>2. ASSUME Refused(r) \/ OutcomeSeen(r) PROVE StoredInv'
  <2>0. Leave(r) /\ ask[r] \in {"refused", "waiting"}
    BY <1>2 DEF Refused, OutcomeSeen
  <2>1. TypeOK'
    <3>1. CASE Dispose(aborted)
      BY <2>0, <3>1, InterruptType DEF TypeOK, Leave, Dispose, AskPoints, Timers, Stages, Reply, Decided, DropOutcome
    <3>2. CASE ~Dispose(aborted)
      BY <2>0, <3>2 DEF TypeOK, Leave, DropOutcome, Reply, Decided, AskPoints, Timers
    <3>. QED
      BY <3>1, <3>2
  <2>2. StoredRest'
    BY <1>2, DecisionsAssumption DEF TypeOK, Refused, OutcomeSeen, Leave, Reply, DropOutcome, Dispose,
       Interrupt, Decided, Begins, Withdrawn, OutcomeStored, TimeoutStored, AnswerStored, ToldStored,
       PendingIsOwned, PendingWhileRunning, Listening, Signalled
  <2>. QED
    BY <2>1, <2>2
<1>. QED
  BY <1>1, <1>2

LEMMA SettleKeeps == ASSUME StoredInv, NEW r \in Requests, SettleRow(r) PROVE StoredInv'
<1>. USE DEF StoredInv, StoredRest
<1>1. /\ row' \in [Requests -> RowStatus]
      /\ \A s \in Requests : row'[s] = row[s] \/ (row[s] = "pending" /\ row'[s] \in Unanswered)
      /\ row'[r] # "pending" \/ r \in lost'
  <2>1. CASE row' = row /\ r \in lost'
    BY <2>1 DEF TypeOK
  <2>2. CASE row' = Settled({r}, "cancelled")
    BY <2>2, SettledRows DEF Unanswered
  <2>3. CASE row' = Settled(Questions, "expired") /\ r \in Questions
    BY <2>3, SettledRows DEF Unanswered, Requests
  <2>. QED
    BY <2>1, <2>2, <2>3 DEF SettleRow, Fails, Requests
<1>2. /\ UNCHANGED <<taskVars, waiting, outcome, timer, withdrawn, told, call>>
      /\ ask[r] = "settling" /\ ask' = [ask EXCEPT ![r] = "done"]
      /\ lost \subseteq lost' /\ lost' \subseteq Requests
  BY DEF SettleRow, Fails, TypeOK
<1>3. TypeOK'
  BY <1>1, <1>2 DEF TypeOK, AskPoints, taskVars
<1>4. Begins' /\ ToldStored' /\ Withdrawn'
  BY <1>1, <1>2, DecisionsAssumption DEF Begins, ToldStored, Withdrawn, TypeOK, taskVars
<1>5. OutcomeStored' /\ TimeoutStored'
  BY <1>1, <1>2, DecisionsAssumption DEF OutcomeStored, TimeoutStored, Listening, Signalled, TypeOK, taskVars
<1>6. AnswerStored'
  BY <1>1, <1>2, CallType, DecisionsAssumption DEF AnswerStored, CallPoints, Unanswered
<1>7. PendingIsOwned' /\ PendingWhileRunning'
  BY <1>1, <1>2 DEF PendingIsOwned, PendingWhileRunning, Unanswered, TypeOK, taskVars
<1>. QED
  BY <1>3, <1>4, <1>5, <1>6, <1>7

LEMMA AskKeeps == ASSUME StoredInv, NEW r \in Requests, Ask(r) \/ AskBusy(r) PROVE StoredInv'
<1>. USE DEF StoredInv, StoredRest
<1>1. TypeOK'
  BY DEF TypeOK, Ask, AskBusy, NextAsk, AskPoints, taskVars
<1>2. StoredRest'
  BY DecisionsAssumption DEF TypeOK, Ask, AskBusy, NextAsk, taskVars, Begins, Withdrawn, OutcomeStored,
     TimeoutStored, AnswerStored, ToldStored, PendingIsOwned, PendingWhileRunning, Listening, Signalled
<1>. QED
  BY <1>1, <1>2

-----------------------------------------------------------------------------
(* timeOut().                                                              *)

LEMMA TimerKeeps == ASSUME StoredInv, NEW r \in Requests, TimerGoesOn(r) PROVE StoredInv'
<1>. USE DEF StoredInv, StoredRest
<1>1. CASE TimerFires(r) \/ TimeoutSeen(r)
  <2>1. TypeOK'
    BY <1>1 DEF TypeOK, TimerFires, TimeoutSeen, Resolved, Timers, taskVars
  <2>2. StoredRest'
    BY <1>1, DecisionsAssumption DEF TypeOK, TimerFires, TimeoutSeen, Resolved, taskVars, Begins, Withdrawn,
       OutcomeStored, TimeoutStored, AnswerStored, ToldStored, PendingIsOwned, PendingWhileRunning,
       Listening, Signalled
  <2>. QED
    BY <2>1, <2>2
<1>2. CASE TimeoutRow(r)
  <2>1. /\ row' \in [Requests -> RowStatus]
        /\ \A s \in Requests : row'[s] = row[s] \/ (row[s] = "pending" /\ row'[s] \in Unanswered)
        /\ timer'[r] = "timedOut" => row'[r] = "timedOut" \/ r \in lost'
    <3>1. CASE row' = row /\ r \in lost'
      BY <3>1 DEF TypeOK
    <3>2. CASE row' = Settled({r}, "timedOut")
      <4>1. \A s \in Requests : row'[s] = IF s \in {r} /\ row[s] = "pending" THEN "timedOut" ELSE row[s]
        BY <3>2, SettledRows DEF Unanswered
      <4>2. row' \in [Requests -> RowStatus]
        BY <3>2, SettledRows DEF Unanswered
      <4>3. timer'[r] = "timedOut" => row[r] = "pending" \/ r \in lost'
        BY <1>2 DEF TimeoutRow, Fails, TypeOK
      <4>. QED
        BY <4>1, <4>2, <4>3 DEF Unanswered
    <3>. QED
      BY <1>2, <3>1, <3>2 DEF TimeoutRow, Fails
  <2>2. /\ UNCHANGED <<taskVars, ask, waiting, outcome, withdrawn, told, call>>
        /\ timer[r] = "asked"
        /\ \E t \in {"timedOut", "late"} : timer' = [timer EXCEPT ![r] = t]
        /\ lost \subseteq lost' /\ lost' \subseteq Requests
    BY <1>2 DEF TimeoutRow, Fails, TypeOK
  <2>3. TypeOK'
    BY <2>1, <2>2 DEF TypeOK, Timers, taskVars
  <2>4. Begins' /\ ToldStored' /\ Withdrawn'
    BY <2>1, <2>2, DecisionsAssumption DEF Begins, ToldStored, Withdrawn, TypeOK, taskVars
  <2>5. OutcomeStored' /\ TimeoutStored'
    BY <2>1, <2>2, DecisionsAssumption DEF OutcomeStored, TimeoutStored, Listening, Signalled, TypeOK, taskVars
  <2>6. AnswerStored'
    BY <2>1, <2>2, CallType, DecisionsAssumption DEF AnswerStored, CallPoints, Unanswered
  <2>7. PendingIsOwned' /\ PendingWhileRunning'
    BY <2>1, <2>2 DEF PendingIsOwned, PendingWhileRunning, Unanswered, TypeOK, taskVars
  <2>. QED
    BY <2>3, <2>4, <2>5, <2>6, <2>7
<1>. QED
  BY <1>1, <1>2 DEF TimerGoesOn

-----------------------------------------------------------------------------
(* answer().                                                               *)

LEMMA ListKeeps ==
  ASSUME StoredInv, NEW c \in Calls, NEW r \in Requests, NEW d \in Decisions, ListRow(c, r, d)
  PROVE  StoredInv'
<1>. USE DEF StoredInv, StoredRest
<1>1. TypeOK'
  BY DEF TypeOK, ListRow, CallState, CallPoints, taskVars, askVars
<1>2. StoredRest'
  BY DecisionsAssumption DEF TypeOK, ListRow, taskVars, askVars, Begins, Withdrawn, OutcomeStored,
     TimeoutStored, AnswerStored, ToldStored, PendingIsOwned, PendingWhileRunning, Listening, Signalled
<1>. QED
  BY <1>1, <1>2

LEMMA LookKeeps == ASSUME StoredInv, NEW c \in Calls, Look(c) PROVE StoredInv'
<1>. USE DEF StoredInv, StoredRest
<1>1. call[c] \in [at : CallPoints, of : Requests, decision : Decisions, pending : BOOLEAN, waiter : BOOLEAN]
  BY DEF TypeOK, Look, CallState, NoCall, EndedCall
<1>. DEFINE w == call[c].of \in waiting
<1>2. call' = [call EXCEPT ![c] = IF call[c].pending /\ ~w THEN EndedCall
                                  ELSE [call[c] EXCEPT !.at = "sent", !.waiter = w]]
  BY DEF Look
<1>3. UNCHANGED <<taskVars, askVars, lost>> /\ call[c].at = "listed"
  BY DEF Look
<1>4. call' \in [Calls -> CallState]
  <2>1. \A b \in BOOLEAN : [call[c] EXCEPT !.at = "sent", !.waiter = b] \in CallState
    BY <1>1 DEF CallState, CallPoints
  <2>2. w \in BOOLEAN
    OBVIOUS
  <2>3. [call[c] EXCEPT !.at = "sent", !.waiter = w] \in CallState
    BY <2>1, <2>2, Zenon
  <2>. QED
    BY <1>2, <2>3 DEF TypeOK, CallState
<1>5. AnswerStored'
  <2>1. ASSUME NEW b \in Calls, b # c PROVE call'[b] = call[b]
    BY <1>2, <2>1 DEF TypeOK
  <2>2. \/ call'[c] = EndedCall
        \/ call'[c].at = "sent" /\ call'[c].of = call[c].of
    BY <1>1, <1>2 DEF TypeOK
  <2>. QED
    BY <1>1, <1>3, <2>1, <2>2 DEF AnswerStored, EndedCall, CallPoints, askVars
<1>6. TypeOK' /\ Begins' /\ Withdrawn' /\ OutcomeStored' /\ TimeoutStored' /\ ToldStored'
      /\ PendingIsOwned' /\ PendingWhileRunning'
  BY <1>3, <1>4 DEF TypeOK, Begins, Withdrawn, OutcomeStored, TimeoutStored, ToldStored, PendingIsOwned,
     PendingWhileRunning, Listening, Signalled, taskVars, askVars
<1>. QED
  BY <1>5, <1>6

LEMMA AnswerKeeps == ASSUME StoredInv, NEW c \in Calls, AnswerRow(c) PROVE StoredInv'
<1>. USE DEF StoredInv, StoredRest
<1>. DEFINE r == call[c].of
            d == call[c].decision
<1>1. call[c] \in [at : CallPoints, of : Requests, decision : Decisions, pending : BOOLEAN, waiter : BOOLEAN]
  BY DEF TypeOK, AnswerRow, CallState, NoCall, EndedCall
<1>2. /\ row' = row \/ (row[r] = "pending" /\ row' = [row EXCEPT ![r] = d])
      /\ \/ call' = [call EXCEPT ![c] = EndedCall]
         \/ call' = [call EXCEPT ![c] = [call[c] EXCEPT !.at = "answered"]] /\ row'[r] = d
      /\ lost \subseteq lost' /\ lost' \subseteq Requests
      /\ UNCHANGED <<taskVars, ask, waiting, outcome, timer, withdrawn, told>>
  BY <1>1 DEF AnswerRow, Fails, TypeOK
<1>3. call' \in [Calls -> CallState]
  BY <1>1, <1>2 DEF TypeOK, CallState, CallPoints
<1>4. TypeOK'
  BY <1>1, <1>2, <1>3 DEF TypeOK, RowStatus, taskVars
<1>5. \A s \in Requests : row'[s] = row[s] \/ (row[s] = "pending" /\ row'[s] \in Decisions)
  BY <1>1, <1>2 DEF TypeOK
<1>6. AnswerStored'
  <2>1. ASSUME NEW b \in Calls, b # c PROVE call'[b] = call[b]
    BY <1>2, <2>1 DEF TypeOK
  <2>2. call'[c] = EndedCall \/ (call'[c] = [call[c] EXCEPT !.at = "answered"] /\ row'[r] = d)
    BY <1>2 DEF TypeOK
  <2>. QED
    BY <1>1, <1>5, <2>1, <2>2, CallType, DecisionsAssumption DEF AnswerStored, EndedCall, CallPoints
<1>7. Begins' /\ ToldStored' /\ Withdrawn'
  BY <1>2, <1>5, DecisionsAssumption DEF Begins, ToldStored, Withdrawn, TypeOK, taskVars
<1>8. OutcomeStored' /\ TimeoutStored'
  BY <1>2, <1>5, DecisionsAssumption DEF OutcomeStored, TimeoutStored, Listening, Signalled, TypeOK, taskVars
<1>9. PendingIsOwned' /\ PendingWhileRunning'
  BY <1>2, <1>5, DecisionsAssumption DEF PendingIsOwned, PendingWhileRunning, TypeOK, taskVars
<1>. QED
  BY <1>4, <1>6, <1>7, <1>8, <1>9

LEMMA ResolveKeeps == ASSUME StoredInv, NEW c \in Calls, Resolve(c) PROVE StoredInv'
<1>. USE DEF StoredInv, StoredRest
<1>1. TypeOK'
  BY CallType DEF TypeOK, Resolve, Resolved, CallState, CallPoints, taskVars
<1>2. StoredRest'
  BY CallType, DecisionsAssumption DEF TypeOK, Resolve, Resolved, taskVars, EndedCall, CallPoints, Begins,
     Withdrawn, OutcomeStored, TimeoutStored, AnswerStored, ToldStored, PendingIsOwned,
     PendingWhileRunning, Listening, Signalled
<1>. QED
  BY <1>1, <1>2

-----------------------------------------------------------------------------
(* The provider and the end of the turn.                                   *)

LEMMA ProviderKeeps ==
  ASSUME StoredInv,
         (\E r \in Requests : ProviderCancels(r)) \/ ProviderEnds \/ CancelActive \/ Close \/ ReleaseRun
  PROVE  StoredInv'
<1>. USE DEF StoredInv, StoredRest
<1>1. /\ UNCHANGED <<running, broken, row, ask, waiting, timer, told, call, lost>>
      /\ \E gone \in SUBSET Requests, abort \in BOOLEAN :
           /\ Interrupt(gone, abort)
           /\ withdrawn \subseteq gone /\ (aborted => abort)
           /\ stage' # "executing" => gone = Requests
      /\ stage # "down" \/ stage' = "down"
      /\ stage' \in Stages /\ closing' \in BOOLEAN /\ stopping' \in BOOLEAN
  <2>1. CASE \E r \in Requests : ProviderCancels(r)
    BY <2>1 DEF ProviderCancels, TypeOK, Requests
  <2>2. CASE ProviderEnds
    BY <2>2 DEF ProviderEnds, Dispose, TypeOK, Stages
  <2>3. CASE ReleaseRun
    BY <2>3 DEF ReleaseRun, TypeOK, Stages, Withdrawn
  <2>4. CASE Abort /\ closing' \in BOOLEAN /\ stopping' \in BOOLEAN
    BY <2>4 DEF Abort, Dispose, TypeOK, Stages, Withdrawn
  <2>. QED
    BY <2>1, <2>2, <2>3, <2>4 DEF CancelActive, Close, TypeOK
<1>2. TypeOK'
  BY <1>1, InterruptType DEF TypeOK
<1>3. StoredRest'
  BY <1>1, DecisionsAssumption DEF TypeOK, Interrupt, Begins, Withdrawn, OutcomeStored, TimeoutStored,
     AnswerStored, ToldStored, PendingIsOwned, PendingWhileRunning, Listening, Signalled
<1>. QED
  BY <1>2, <1>3

LEMMA TurnKeeps ==
  ASSUME StoredInv, CancelTask \/ FinishTask \/ ExpireQuestions \/ ExpireApprovals
  PROVE  StoredInv'
<1>. USE DEF StoredInv, StoredRest
<1>1. /\ row' \in [Requests -> RowStatus]
      /\ \A r \in Requests : \/ row'[r] = row[r]
                             \/ row[r] = "pending" /\ row'[r] \in Unanswered
      /\ \A r \in Requests : row'[r] = "pending" => running'
  <2>1. CASE row' = row /\ running' = running
    BY <2>1 DEF TypeOK, PendingWhileRunning
  <2>2. CASE row' = Settled(Requests, "cancelled")
    BY <2>2, SettledRows DEF Unanswered
  <2>3. CASE row' = Settled(Requests, "expired")
    BY <2>3, SettledRows DEF Unanswered
  <2>4. ASSUME NEW R \in SUBSET Requests, row' = Settled(R, "expired"), running' = running
        PROVE  /\ row' \in [Requests -> RowStatus]
               /\ \A r \in Requests : \/ row'[r] = row[r]
                                      \/ row[r] = "pending" /\ row'[r] \in Unanswered
               /\ \A r \in Requests : row'[r] = "pending" => running'
    BY <2>4, SettledRows DEF Unanswered, PendingWhileRunning
  <2>. QED
    BY <2>1, <2>2, <2>3, <2>4 DEF CancelTask, FinishTask, ExpireQuestions, ExpireApprovals, Requests
<1>2. /\ UNCHANGED <<broken, told, call, withdrawn, aborted, outcome, ask, lost>>
      /\ stage # "down" /\ stage' \in Stages /\ running' \in BOOLEAN /\ stopping' \in BOOLEAN /\ closing' \in BOOLEAN
      /\ waiting' \subseteq waiting
      /\ stage # "executing" => stage' # "executing"
      /\ stage' # "executing" => withdrawn = Requests
      /\ \A r \in Requests : timer'[r] \in {timer[r], "off"}
      /\ timer' \in [Requests -> Timers]
  BY DEF CancelTask, FinishTask, ExpireQuestions, ExpireApprovals, Withdrawn, TypeOK, Stages, Timers
<1>3. TypeOK'
  BY <1>1, <1>2 DEF TypeOK
<1>4. StoredRest'
  BY <1>1, <1>2, RowsSettle
<1>. QED
  BY <1>3, <1>4

(* Storage takes with it the answers under way, and marks their requests.  *)
LEMMA StorageKeeps == ASSUME StoredInv, StorageDies PROVE StoredInv'
<1>. USE DEF StoredInv, StoredRest
<1>1. /\ UNCHANGED <<running, stage, aborted, closing, row, waiting, outcome, withdrawn, told>>
      /\ \A r \in Requests : \/ ask'[r] = ask[r]
                             \/ ask[r] = "created" /\ ask'[r] = "refused" /\ r \in lost'
      /\ \A r \in Requests : \/ timer'[r] = timer[r]
                             \/ timer[r] = "late" /\ timer'[r] = "timedOut" /\ r \in lost'
      /\ \A c \in Calls : call'[c] \in {call[c], EndedCall}
      /\ lost \subseteq lost'
  BY DEF StorageDies
<1>2. TypeOK'
  <2>1. lost' \subseteq Requests
    BY CallType DEF StorageDies, TypeOK, CallPoints
  <2>2. call' \in [Calls -> CallState]
    BY DEF StorageDies, TypeOK, CallState
  <2>. QED
    BY <1>1, <2>1, <2>2 DEF StorageDies, TypeOK, AskPoints, Timers
<1>3. Begins' /\ ToldStored' /\ Withdrawn'
  BY <1>1 DEF Begins, ToldStored, Withdrawn
<1>4. OutcomeStored' /\ TimeoutStored'
  BY <1>1 DEF OutcomeStored, TimeoutStored, Listening, Signalled
<1>5. AnswerStored'
  BY <1>1 DEF AnswerStored, EndedCall, CallPoints
<1>6. PendingIsOwned' /\ PendingWhileRunning'
  BY <1>1 DEF PendingIsOwned, PendingWhileRunning
<1>. QED
  BY <1>2, <1>3, <1>4, <1>5, <1>6

LEMMA ProcessKeeps == ASSUME StoredInv, Crash \/ Restart PROVE StoredInv'
<1>. USE DEF StoredInv, StoredRest
<1>1. CASE Crash
  <2>1. call' \in [Calls -> CallState] /\ \A c \in Calls : call'[c].at \notin CallPoints
    BY <1>1 DEF Crash, CallState, CallPoints, NoCall, EndedCall
  <2>2. TypeOK'
    BY <1>1, <2>1 DEF TypeOK, Crash, AskPoints, Timers, Stages
  <2>3. Begins' /\ Withdrawn' /\ OutcomeStored' /\ TimeoutStored' /\ ToldStored' /\ PendingIsOwned'
        /\ PendingWhileRunning'
    BY <1>1, DecisionsAssumption DEF TypeOK, Crash, Begins, Withdrawn, OutcomeStored, TimeoutStored,
       ToldStored, PendingIsOwned, PendingWhileRunning
  <2>. QED
    BY <2>1, <2>2, <2>3 DEF AnswerStored, CallPoints
<1>2. CASE Restart
  <2>1. /\ row' \in [Requests -> RowStatus]
        /\ \A r \in Requests : row'[r] # "pending" /\ (row'[r] = row[r] \/ (row[r] = "pending" /\ row'[r] \in Unanswered))
    BY <1>2, SettledRows DEF Restart, Unanswered
  <2>2. TypeOK'
    BY <1>2, <2>1 DEF TypeOK, Restart, Stages
  <2>3. Begins' /\ ToldStored' /\ Withdrawn'
    BY <1>2, <2>1, DecisionsAssumption DEF Restart, Begins, ToldStored, Withdrawn, TypeOK
  <2>4. OutcomeStored' /\ TimeoutStored'
    BY <1>2, <2>1, DecisionsAssumption DEF Restart, OutcomeStored, TimeoutStored, Listening, Signalled, TypeOK
  <2>5. AnswerStored'
    BY <1>2, <2>1, CallType, DecisionsAssumption DEF Restart, AnswerStored, CallPoints, Unanswered
  <2>6. PendingIsOwned' /\ PendingWhileRunning'
    BY <2>1 DEF PendingIsOwned, PendingWhileRunning
  <2>. QED
    BY <2>2, <2>3, <2>4, <2>5, <2>6
<1>. QED
  BY <1>1, <1>2

-----------------------------------------------------------------------------
(* Every state is one where what was told is stored.                       *)
THEOREM InteractionsStored == Spec => []StoredInv
<1>1. ASSUME StoredInv, [Next]_vars PROVE StoredInv'
  <2>1. ASSUME NEW r \in Requests,
               Ask(r) \/ AskBusy(r) \/ AskGoesOn(r) \/ TimerGoesOn(r) \/ ProviderCancels(r)
        PROVE  StoredInv'
    BY <1>1, <2>1, AskKeeps, CreateKeeps, LeaveKeeps, SettleKeeps, TimerKeeps, ProviderKeeps DEF AskGoesOn
  <2>2. ASSUME NEW c \in Calls, (\E r \in Requests, d \in Decisions : ListRow(c, r, d)) \/ CallGoesOn(c)
        PROVE  StoredInv'
    BY <1>1, <2>2, ListKeeps, LookKeeps, AnswerKeeps, ResolveKeeps DEF CallGoesOn
  <2>3. CASE ProviderEnds \/ CancelTask \/ CancelActive \/ Close \/ RunEnds \/ StorageDies \/ Crash \/ Restart
    BY <1>1, <2>3, ProviderKeeps, TurnKeeps, StorageKeeps, ProcessKeeps DEF RunEnds
  <2>4. CASE UNCHANGED vars
    BY <1>1, <2>4 DEF vars, taskVars, askVars, StoredInv, StoredRest, TypeOK, Begins, Withdrawn,
       OutcomeStored, TimeoutStored, AnswerStored, ToldStored, PendingIsOwned, PendingWhileRunning,
       Listening, Signalled
  <2>. QED
    BY <1>1, <2>1, <2>2, <2>3, <2>4 DEF Next
<1>. QED
  BY InitStored, <1>1, PTL DEF Spec

(* The provider is never told a decision other than the stored one, nor    *)
(* that nobody answered what is stored as answered.                        *)
THEOREM InteractionsTold == Spec => []ToldAsRecorded
<1>1. StoredInv => ToldAsRecorded
  BY DecisionsAssumption DEF StoredInv, StoredRest, ToldStored, ToldAsRecorded, Unanswered
<1>. QED
  BY <1>1, InteractionsStored, PTL

(* No prompt is left that no answer reaches.                               *)
THEOREM InteractionsOwned == Spec => []PendingIsOwned
  BY InteractionsStored, PTL DEF StoredInv, StoredRest

(* No turn that is over shows a prompt.                                    *)
THEOREM InteractionsPending == Spec => []PendingWhileRunning
  BY InteractionsStored, PTL DEF StoredInv, StoredRest

(* Rows, clients and provider agree on every prompt.                       *)
THEOREM InteractionsSound == Spec => []PromptsSound
  BY InteractionsTold, InteractionsOwned, InteractionsPending, PTL DEF PromptsSound
=============================================================================
