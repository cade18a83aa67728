---------------------------- MODULE StorageCalls ----------------------------
(***************************************************************************)
(* The calls of the runner to its database: the database runs in a worker  *)
(* thread that handles one request after the other, each call waits for    *)
(* its reply with a deadline, and a worker that is slow or dies fails      *)
(* every call under way (infrastructure/sqlite/index.ts and worker.ts).    *)
(* A request is its number; what it asks is whether it changes anything.   *)
(***************************************************************************)
EXTENDS Naturals, Sequences, FiniteSets, TLC

CONSTANTS StorageRequests, ChangeRequests, PendingCalls

ASSUME StorageAssumption ==
  /\ StorageRequests \subseteq Nat \ {0} /\ ChangeRequests \subseteq StorageRequests
  /\ PendingCalls \in Nat \ {0}

VARIABLES
  worker,          \* the worker thread: "starting", "up", or "gone"
  handling,        \* what became of the request it handles
  inbox,           \* the requests posted to it, oldest first
  outbox,          \* the replies it posted
  requests,        \* what each caller has been told
  storageClosed,   \* closed: no call is accepted
  exitSeen,        \* the exit of the worker was reported
  closing,         \* closePromise
  stored,          \* the changes in the database
  announced        \* the changes the inventory was told of

storageVars == <<worker, handling, inbox, outbox, requests, storageClosed, exitSeen,
                 closing, stored, announced>>

CloseRequest == 0

StorageTypeOK ==
  /\ worker \in {"starting", "up", "gone"} /\ handling \in {"nothing", "done", "threw"}
  /\ inbox \in Seq(StorageRequests \cup {CloseRequest})
  /\ outbox \in Seq((StorageRequests \cup {CloseRequest}) \X BOOLEAN)
  /\ requests \in [StorageRequests ->
                     {"new", "pending", "answered", "error", "busy", "unavailable"}]
  /\ storageClosed \in BOOLEAN /\ exitSeen \in BOOLEAN
  /\ closing \in {"no", "pending", "terminating", "returned"}
  /\ announced \subseteq stored /\ stored \subseteq ChangeRequests

StorageInit ==
  /\ worker = "starting" /\ handling = "nothing" /\ inbox = <<>> /\ outbox = <<>>
  /\ requests = [r \in StorageRequests |-> "new"]
  /\ storageClosed = FALSE /\ exitSeen = FALSE /\ closing = "no"
  /\ stored = {} /\ announced = {}

(* changesInventory: requests whose success is announced.                  *)
ChangesInventory(r) == r \in ChangeRequests

Waiting == {r \in StorageRequests : requests[r] = "pending"}

(* Mutant: the failed calls leave the repository open.                     *)
FailsPending ==
  /\ requests' = [r \in StorageRequests |->
                    IF r \in Waiting THEN "unavailable" ELSE requests[r]]
  /\ closing' = IF closing = "pending" THEN "terminating" ELSE closing
  /\ UNCHANGED storageClosed

(* fail: every call under way is told that the storage is unavailable, the *)
(* one that closes it included.                                            *)
FailsCalls ==
  /\ storageClosed' = TRUE
  /\ requests' = [r \in StorageRequests |->
                    IF r \in Waiting THEN "unavailable" ELSE requests[r]]
  /\ closing' = IF closing = "pending" THEN "terminating" ELSE closing

-----------------------------------------------------------------------------
(* The worker opens the database and says so, or cannot and ends.          *)
StorageOpens ==
  /\ worker = "starting"
  /\ \E next \in {"up", "gone"} : worker' = next
  /\ UNCHANGED <<handling, inbox, outbox, requests, storageClosed, exitSeen, closing, stored, announced>>

(* A caller exists once the repository was opened.                         *)
MakesCall(r) ==
  /\ worker # "starting" /\ requests[r] = "new"
  /\ \/ /\ storageClosed
        /\ requests' = [requests EXCEPT ![r] = "unavailable"] /\ UNCHANGED inbox
     \/ /\ ~storageClosed
        /\ Cardinality(Waiting) + (IF closing = "pending" THEN 1 ELSE 0) >= PendingCalls
        /\ requests' = [requests EXCEPT ![r] = "busy"] /\ UNCHANGED inbox
     \/ /\ ~storageClosed
        /\ Cardinality(Waiting) + (IF closing = "pending" THEN 1 ELSE 0) < PendingCalls
        /\ \/ /\ requests' = [requests EXCEPT ![r] = "pending"]
              /\ inbox' = Append(inbox, r)
           \/ requests' = [requests EXCEPT ![r] = "unavailable"] /\ UNCHANGED inbox
  /\ UNCHANGED <<worker, handling, outbox, storageClosed, exitSeen, closing, stored, announced>>

(* close: the request to close waits behind those posted before it; after  *)
(* a failure the worker is only terminated.                                *)
ClosesStorage ==
  /\ worker # "starting" /\ closing = "no"
  /\ \/ /\ storageClosed
        /\ closing' = "terminating" /\ UNCHANGED <<inbox, storageClosed>>
     \/ /\ ~storageClosed
        /\ storageClosed' = TRUE /\ closing' = "pending"
        /\ inbox' = Append(inbox, CloseRequest)
  /\ UNCHANGED <<worker, handling, outbox, requests, exitSeen, stored, announced>>

(* The worker runs the oldest request: its transaction commits or throws.  *)
WorkerHandles ==
  /\ worker = "up" /\ handling = "nothing" /\ inbox # <<>>
  /\ \/ /\ handling' = "done"
        /\ stored' = stored \cup {r \in {Head(inbox)} : ChangesInventory(r)}
     \/ /\ Head(inbox) # CloseRequest
        /\ handling' = "threw" /\ UNCHANGED stored
  /\ UNCHANGED <<worker, inbox, outbox, requests, storageClosed, exitSeen, closing, announced>>

(* It posts the reply; having closed the database, it ends.                *)
WorkerReplies ==
  /\ worker = "up" /\ handling # "nothing"
  /\ outbox' = Append(outbox, <<Head(inbox), handling = "done">>)
  /\ inbox' = Tail(inbox) /\ handling' = "nothing"
  /\ worker' = IF Head(inbox) = CloseRequest THEN "gone" ELSE worker
  /\ UNCHANGED <<requests, storageClosed, exitSeen, closing, stored, announced>>

(* The reply of a call that still waits: what it changed is announced      *)
(* before its caller is told. A reply nobody waits for is dropped.         *)
ReplyArrives ==
  /\ outbox # <<>>
  /\ LET r == Head(outbox)[1]  ok == Head(outbox)[2] IN
       /\ outbox' = Tail(outbox)
       /\ requests' = IF r \in Waiting
                      THEN [requests EXCEPT ![r] = IF ok THEN "answered" ELSE "error"]
                      ELSE requests
       /\ announced' = IF ok /\ r \in Waiting /\ ChangesInventory(r)
                       THEN announced \cup {r} ELSE announced
       /\ closing' = IF r = CloseRequest /\ closing = "pending" THEN "terminating" ELSE closing
  /\ UNCHANGED <<worker, handling, inbox, storageClosed, exitSeen, stored>>

(* Thirty seconds without a reply: all calls fail and the worker, which    *)
(* may yet finish what it does, is being terminated.                       *)
CallTimesOut ==
  /\ Waiting # {} \/ closing = "pending"
  /\ FailsCalls
  /\ UNCHANGED <<worker, handling, inbox, outbox, exitSeen, stored, announced>>

(* The worker ends: terminated, or by itself. Replies on their way may be  *)
(* lost with it.                                                           *)
WorkerDies ==
  /\ worker = "up" /\ worker' = "gone"
  /\ handling' = "nothing" /\ inbox' = <<>>
  /\ outbox' \in {outbox, <<>>}
  /\ UNCHANGED <<requests, storageClosed, exitSeen, closing, stored, announced>>

ExitReported ==
  /\ worker = "gone" /\ ~exitSeen /\ exitSeen' = TRUE
  /\ FailsCalls
  /\ UNCHANGED <<worker, handling, inbox, outbox, stored, announced>>

(* close returns once the worker was terminated.                           *)
CloseReturns ==
  /\ closing = "terminating" /\ worker = "gone"
  /\ closing' = "returned"
  /\ UNCHANGED <<worker, handling, inbox, outbox, requests, storageClosed, exitSeen, stored, announced>>

StorageNext ==
  \/ StorageOpens \/ ClosesStorage \/ WorkerHandles \/ WorkerReplies \/ ReplyArrives
  \/ CallTimesOut \/ WorkerDies \/ ExitReported \/ CloseReturns
  \/ \E r \in StorageRequests : MakesCall(r)

StorageSpec == StorageInit /\ [][StorageNext]_storageVars

-----------------------------------------------------------------------------
(* What a caller of the database can rely on: it is told that its change   *)
(* was made only if it is in the database and was announced; no call waits *)
(* for a worker whose end was reported; and when close has returned no     *)
(* call is left waiting for an answer that it could still have got.        *)
CallersToldTheTruth ==
  /\ \A r \in ChangeRequests : requests[r] = "answered" => r \in announced
  /\ exitSeen => Waiting = {} /\ closing # "pending"
  /\ closing = "terminating" => Waiting = {}
=============================================================================
