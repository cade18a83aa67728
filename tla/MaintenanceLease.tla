-------------------------- MODULE MaintenanceLease --------------------------
(***************************************************************************)
(* application/maintenance-lease.ts with its service, its idle probe and   *)
(* the HTTP fence: an updater is granted a lease only on an idle runner,   *)
(* and the lease keeps the runner idle until it is given back or expires.  *)
(*                                                                         *)
(* What the lease holds back is modelled by what it shows of itself: the   *)
(* requests being handled, the processes and captures they leave behind    *)
(* (WorkSource.working), the rows they queue, and one worker that claims   *)
(* those rows (ExecutionService and ProjectCloneService have this shape).  *)
(* A step is what the code does between two awaits.                        *)
(***************************************************************************)
EXTENDS Integers, FiniteSets

CONSTANTS Ids,       \* lease ids updaters may send
          Prepares,  \* prepare calls (bounds how many there are)
          Requests,  \* fenced requests
          None

ASSUME NoneAssumption == None \notin Ids \cup Prepares

VARIABLES
  kind,        \* "free", "probing" or "held"
  holder,      \* leaseId of the fenced state
  reservation, \* the prepare call whose reservation object is the state
  atStart,     \* held since the process started, without a probe
  due,         \* expiresAt has been reached
  timer,       \* the expiry timer of the state is scheduled
  closed,
  announcing,  \* a queued announce() microtask
  listening,   \* the workers have subscribed with onOpen
  call,        \* prepare call -> its await point
  leaseId,     \* prepare call -> the id it asked for
  broken,      \* history: calls whose reservation was opened or replaced
  request,     \* request -> its await point
  background,  \* requests whose processes outlive them
  queued,      \* a queued row is stored
  running,     \* a running row is stored
  worker,      \* await point of the worker's drain()
  wakeRequested

leaseVars == <<kind, holder, reservation, atStart, due, timer>>
callVars  == <<call, leaseId>>
workVars  == <<request, background, queued, running, worker, wakeRequested>>
vars == <<leaseVars, closed, announcing, listening, callVars, broken, workVars>>

CallPoints    == {"unused", "reading", "read", "idle", "busy", "granted", "refused"}
RequestPoints == {"none", "handling", "stored"}
WorkerPoints  == {"idle", "promoting", "claiming", "running"}

TypeOK ==
  /\ kind \in {"free", "probing", "held"}
  /\ holder \in Ids \cup {None} /\ reservation \in Prepares \cup {None}
  /\ atStart \in BOOLEAN /\ due \in BOOLEAN /\ timer \in BOOLEAN
  /\ closed \in BOOLEAN /\ announcing \in BOOLEAN /\ listening \in BOOLEAN
  /\ call \in [Prepares -> CallPoints] /\ leaseId \in [Prepares -> Ids \cup {None}]
  /\ broken \subseteq Prepares
  /\ request \in [Requests -> RequestPoints] /\ background \subseteq Requests
  /\ queued \in BOOLEAN /\ running \in BOOLEAN /\ wakeRequested \in BOOLEAN
  /\ worker \in WorkerPoints

(* The process starts unfenced or with CODEVO_START_MAINTENANCE_LEASE;     *)
(* rows queued before a restart are still there.                           *)
Init ==
  /\ \/ kind = "free" /\ holder = None /\ atStart = FALSE /\ timer = FALSE
     \/ kind = "held" /\ holder \in Ids /\ atStart = TRUE /\ timer = TRUE
  /\ reservation = None /\ due = FALSE
  /\ closed = FALSE /\ announcing = FALSE /\ listening = FALSE
  /\ call = [p \in Prepares |-> "unused"] /\ leaseId = [p \in Prepares |-> None]
  /\ broken = {}
  /\ request = [r \in Requests |-> "none"] /\ background = {}
  /\ queued \in BOOLEAN /\ running = FALSE
  /\ worker = "idle" /\ wakeRequested = FALSE

----------------------------------------------------------------------------
(* The lease.                                                              *)

(* current() opens an expired lease for whoever asks, unless closed; the   *)
(* steps below that ask wait for LazilyExpires.                            *)
Expired == kind # "free" /\ due /\ ~closed
Fenced  == kind # "free" /\ ~Expired

Lost == IF reservation = None THEN broken ELSE broken \cup {reservation}

Open ==
  /\ kind' = "free" /\ holder' = None /\ reservation' = None
  /\ atStart' = FALSE /\ due' = FALSE /\ timer' = FALSE
  /\ announcing' = TRUE
  /\ broken' = Lost

(* enter() replaces the state and its expiry timer.                        *)
Enter(k, id, by, start) ==
  /\ kind' = k /\ holder' = id /\ reservation' = by /\ atStart' = start
  /\ due' = FALSE /\ timer' = TRUE

Elapses == kind # "free" /\ ~due /\ due' = TRUE
  /\ UNCHANGED <<kind, holder, reservation, atStart, timer, closed, announcing, listening>>
  /\ UNCHANGED <<callVars, broken, workVars>>

TimerFires ==
  /\ timer /\ due /\ ~closed
  /\ Open
  /\ UNCHANGED <<closed, listening, callVars, workVars>>

LazilyExpires ==
  /\ Expired
  /\ Open
  /\ UNCHANGED <<closed, listening, callVars, workVars>>

----------------------------------------------------------------------------
(* The worker behind the fence.                                            *)

Drain == worker' = "promoting" /\ wakeRequested' = FALSE
Wake == IF worker = "idle" /\ ~Fenced THEN Drain
                                      ELSE wakeRequested' = TRUE /\ UNCHANGED worker
DrainEnds == IF wakeRequested /\ ~Fenced THEN Drain
                                         ELSE worker' = "idle" /\ UNCHANGED wakeRequested

(* announce() tells nobody when the lease has been taken again meanwhile.  *)
Announce ==
  /\ announcing /\ announcing' = FALSE
  /\ IF kind = "free" /\ listening /\ ~closed THEN Wake ELSE UNCHANGED <<worker, wakeRequested>>
  /\ UNCHANGED <<request, background, queued, running>>
  /\ UNCHANGED <<leaseVars, closed, listening, callVars, broken>>

(* The workers start before the HTTP server listens.                       *)
Initialize ==
  /\ ~listening /\ ~Expired
  /\ listening' = TRUE
  /\ Wake
  /\ UNCHANGED <<request, background, queued, running>>
  /\ UNCHANGED <<leaseVars, closed, announcing, callVars, broken>>

WorkerLooks ==
  /\ worker = "promoting" /\ ~Expired
  /\ IF Fenced THEN DrainEnds ELSE worker' = "claiming" /\ UNCHANGED wakeRequested
  /\ UNCHANGED <<request, background, queued, running>>
  /\ UNCHANGED <<leaseVars, closed, announcing, listening, callVars, broken>>

WorkerClaims ==
  /\ worker = "claiming" /\ ~Expired
  /\ \/ /\ queued /\ queued' = FALSE /\ running' = TRUE
        /\ worker' = "running" /\ UNCHANGED wakeRequested
     \/ ~queued /\ DrainEnds /\ UNCHANGED <<queued, running>>
  /\ UNCHANGED <<request, background>>
  /\ UNCHANGED <<leaseVars, closed, announcing, listening, callVars, broken>>

(* The run records its end, is removed from active and wakes the pump.     *)
WorkerFinishes ==
  /\ worker = "running" /\ ~Expired
  /\ running' = FALSE
  /\ IF Fenced THEN worker' = "idle" /\ wakeRequested' = TRUE ELSE Drain
  /\ UNCHANGED <<request, background, queued>>
  /\ UNCHANGED <<leaseVars, closed, announcing, listening, callVars, broken>>

----------------------------------------------------------------------------
(* Fenced requests: counted from admit() until their handler settles.      *)

Admit(r) ==
  /\ listening /\ request[r] = "none" /\ kind = "free"
  /\ request' = [request EXCEPT ![r] = "handling"]
  /\ UNCHANGED <<background, queued, running, worker, wakeRequested>>
  /\ UNCHANGED <<leaseVars, closed, announcing, listening, callVars, broken>>

RequestQueues(r) ==
  /\ request[r] = "handling"
  /\ request' = [request EXCEPT ![r] = "stored"] /\ queued' = TRUE
  /\ UNCHANGED <<background, running, worker, wakeRequested>>
  /\ UNCHANGED <<leaseVars, closed, announcing, listening, callVars, broken>>

RequestWakes(r) ==
  /\ request[r] = "stored" /\ ~Expired
  /\ request' = [request EXCEPT ![r] = "none"]
  /\ Wake
  /\ UNCHANGED <<background, queued, running>>
  /\ UNCHANGED <<leaseVars, closed, announcing, listening, callVars, broken>>

(* A terminal, Git job or capture that goes on after the response.         *)
RequestEnds(r) ==
  /\ request[r] = "handling"
  /\ request' = [request EXCEPT ![r] = "none"]
  /\ \/ background' = background \cup {r}
     \/ UNCHANGED background
  /\ UNCHANGED <<queued, running, worker, wakeRequested>>
  /\ UNCHANGED <<leaseVars, closed, announcing, listening, callVars, broken>>

BackgroundEnds(r) ==
  /\ r \in background /\ background' = background \ {r}
  /\ UNCHANGED <<request, queued, running, worker, wakeRequested>>
  /\ UNCHANGED <<leaseVars, closed, announcing, listening, callVars, broken>>

----------------------------------------------------------------------------
(* prepare and release.                                                    *)

InFlight == \E r \in Requests : request[r] # "none"
Working  == worker # "idle" \/ background # {}
Answers(p, point) == call' = [call EXCEPT ![p] = point]

(* claim(): a free lease is reserved, which raises the fence, and the      *)
(* probe looks at the workers at once; only then is storage read.          *)
Reserves(p, id) ==
  /\ listening /\ call[p] = "unused" /\ ~closed /\ kind = "free" /\ ~InFlight
  /\ Enter("probing", id, p, FALSE)
  /\ Answers(p, IF Working THEN "busy" ELSE "reading")
  /\ leaseId' = [leaseId EXCEPT ![p] = id]
  /\ UNCHANGED <<closed, announcing, listening, broken, workVars>>

(* Mutant: renewing cancels the timer and schedules no other.              *)
RenewsUntimed(p, id) ==
  /\ listening /\ call[p] = "unused" /\ ~closed /\ kind = "held" /\ ~Expired /\ holder = id
  /\ due' = FALSE /\ timer' = FALSE
  /\ Answers(p, "granted")
  /\ leaseId' = [leaseId EXCEPT ![p] = id]
  /\ UNCHANGED <<kind, holder, reservation, atStart>>
  /\ UNCHANGED <<closed, announcing, listening, broken, workVars>>

Renews(p, id) ==
  /\ listening /\ call[p] = "unused" /\ ~closed /\ kind = "held" /\ ~Expired /\ holder = id
  /\ Enter("held", id, None, atStart)
  /\ Answers(p, "granted")
  /\ leaseId' = [leaseId EXCEPT ![p] = id]
  /\ UNCHANGED <<closed, announcing, listening, broken, workVars>>

(* Storage answers whether rows are queued or running, or fails.           *)
ProbeReads(p) ==
  /\ call[p] = "reading"
  /\ \/ ~queued /\ ~running /\ Answers(p, "read")
     \/ Answers(p, "busy")
  /\ UNCHANGED <<leaseId, leaseVars, closed, announcing, listening, broken, workVars>>

ProbeLooksAgain(p) ==
  /\ call[p] = "read"
  /\ Answers(p, IF Working THEN "busy" ELSE "idle")
  /\ UNCHANGED <<leaseId, leaseVars, closed, announcing, listening, broken, workVars>>

(* Mutant: reservations are told apart by their lease id.                  *)
ConfirmsById(p) ==
  /\ call[p] = "idle" /\ ~Expired
  /\ IF ~closed /\ holder = leaseId[p]
     THEN Enter("held", leaseId[p], None, FALSE) /\ Answers(p, "granted")
     ELSE Answers(p, "refused") /\ UNCHANGED leaseVars
  /\ UNCHANGED <<leaseId, closed, announcing, listening, broken, workVars>>

(* confirm() wants the very reservation object to be the current state.    *)
Confirms(p) ==
  /\ call[p] = "idle" /\ ~Expired
  /\ IF ~closed /\ reservation = p
     THEN Enter("held", leaseId[p], None, FALSE) /\ Answers(p, "granted")
     ELSE Answers(p, "refused") /\ UNCHANGED leaseVars
  /\ UNCHANGED <<leaseId, closed, announcing, listening, broken, workVars>>

(* Mutant: an abandoned reservation frees the lease without an announcement.*)
AbandonsQuietly(p) ==
  /\ call[p] = "busy" /\ ~Expired
  /\ IF reservation = p
     THEN /\ kind' = "free" /\ holder' = None /\ reservation' = None
          /\ atStart' = FALSE /\ due' = FALSE /\ timer' = FALSE
          /\ broken' = Lost
     ELSE UNCHANGED <<leaseVars, broken>>
  /\ Answers(p, "refused")
  /\ UNCHANGED <<leaseId, closed, announcing, listening, workVars>>

Abandons(p) ==
  /\ call[p] = "busy" /\ ~Expired
  /\ IF reservation = p THEN Open ELSE UNCHANGED <<leaseVars, announcing, broken>>
  /\ Answers(p, "refused")
  /\ UNCHANGED <<leaseId, closed, listening, workVars>>

Releases(id) ==
  /\ listening /\ Fenced /\ holder = id
  /\ Open
  /\ UNCHANGED <<closed, listening, callVars, workVars>>

Close ==
  /\ ~closed /\ closed' = TRUE
  /\ timer' = FALSE
  /\ UNCHANGED <<kind, holder, reservation, atStart, due, announcing, listening>>
  /\ UNCHANGED <<callVars, broken, workVars>>

----------------------------------------------------------------------------

WorkerStep == WorkerLooks \/ WorkerClaims \/ WorkerFinishes
RequestStep(r) == \/ Admit(r) \/ RequestQueues(r) \/ RequestWakes(r) \/ RequestEnds(r)
                  \/ BackgroundEnds(r)
ProbeStep(p) == ProbeReads(p) \/ ProbeLooksAgain(p) \/ Confirms(p) \/ Abandons(p)
LeaseStep == Elapses \/ TimerFires \/ LazilyExpires \/ Announce \/ Initialize \/ Close

Next == \/ LeaseStep \/ WorkerStep
        \/ \E r \in Requests : RequestStep(r)
        \/ \E p \in Prepares : ProbeStep(p) \/ \E id \in Ids : Reserves(p, id) \/ Renews(p, id)
        \/ \E id \in Ids : Releases(id)

Spec == Init /\ [][Next]_vars

(* The clock, the microtask queue, timers and the worker go on; nobody is  *)
(* obliged to call prepare, to release a lease or to ask for its state.    *)
Fairness == /\ WF_vars(Elapses) /\ WF_vars(TimerFires) /\ WF_vars(Announce)
            /\ WF_vars(Initialize) /\ WF_vars(WorkerStep)
            /\ \A r \in Requests : WF_vars(RequestWakes(r))
FairSpec == Spec /\ Fairness

----------------------------------------------------------------------------
(* Properties.                                                             *)

Idle == ~InFlight /\ ~Working /\ ~queued /\ ~running

(* "An idle runner stays idle": while a lease granted by prepare is held,  *)
(* also past its expiry until somebody notices, nothing is in flight,      *)
(* nothing works and nothing is stored that could.                         *)
GrantedWhileIdle == kind = "held" /\ ~atStart => Idle

(* A grant after a probe was fenced without a gap from its reservation on: *)
(* a reservation that expired or was released under the probe never turns  *)
(* into a lease, not even when the same id has been reserved anew.         *)
GrantsUnbroken ==
  [][\A p \in Prepares : call[p] = "idle" /\ call'[p] = "granted" => p \notin broken]_vars

(* No wakeup is lost behind the fence: with the lease free, and no         *)
(* announcement on its way, a queued row has a worker awake for it, or a   *)
(* request about to wake one.                                              *)
NoLostOpening ==
  (kind = "free" /\ ~announcing /\ listening /\ ~closed /\ queued)
    => worker # "idle" \/ \E r \in Requests : request[r] = "stored"

(* The fence stops all work while a lease is held and none of it once the  *)
(* lease is gone: GrantedWhileIdle, NoLostOpening.                         *)
FenceHolds == GrantedWhileIdle /\ NoLostOpening

(* Queued work is claimed in the end: a lease nobody renews expires by its *)
(* own timer, with no call needed to notice it.                            *)
QueuedWorkRuns == (queued /\ ~closed) ~> (running \/ closed)
=============================================================================
