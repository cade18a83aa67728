----------------------- MODULE MaintenanceLeaseProofs -----------------------
(***************************************************************************)
(* The maintenance lease is only ever held over an idle runner, grants are *)
(* unbroken and no wakeup is lost behind the fence, for any number of      *)
(* updaters, lease ids and requests.                                       *)
(***************************************************************************)
EXTENDS MaintenanceLease, TLAPS

Quiet  == ~InFlight /\ ~Working
NoRows == ~queued /\ ~running

(* Since a reservation fences the runner at a moment nothing is in flight, *)
(* what its probe has seen stays true for as long as it is the state of    *)
(* the lease; and a call is the state of the lease at most once.           *)
ProbeSeesTruth ==
  /\ kind = "probing" => reservation \in Prepares
  /\ kind # "probing" => reservation = None
  /\ \A p \in Prepares : reservation = p =>
       /\ call[p] \in {"reading", "read", "idle"} => Quiet
       /\ call[p] \in {"read", "idle"} => NoRows
ReservedOnce ==
  \A p \in Prepares : reservation = p \/ p \in broken => call[p] # "unused"
ReservationUnbroken ==
  reservation \notin broken
LeaseInv == TypeOK /\ ProbeSeesTruth /\ ReservedOnce /\ ReservationUnbroken /\ GrantedWhileIdle

LEMMA InitLease == Init => LeaseInv
  BY NoneAssumption DEF Init, LeaseInv, TypeOK, ProbeSeesTruth, ReservedOnce, ReservationUnbroken,
     GrantedWhileIdle, CallPoints, RequestPoints, WorkerPoints

LEMMA OpenKeeps ==
  ASSUME LeaseInv, Open,
         UNCHANGED <<closed, listening, workVars, leaseId>>,
         call' \in [Prepares -> CallPoints],
         \A p \in Prepares : call[p] # "unused" => call'[p] # "unused"
  PROVE  LeaseInv'
<1>1. TypeOK'
  BY DEF LeaseInv, TypeOK, Open, Lost, workVars
<1>2. ProbeSeesTruth' /\ ReservationUnbroken' /\ GrantedWhileIdle'
  BY NoneAssumption DEF LeaseInv, TypeOK, Open, Lost, ProbeSeesTruth, ReservationUnbroken,
     GrantedWhileIdle
<1>3. ReservedOnce'
  BY NoneAssumption DEF LeaseInv, TypeOK, Open, Lost, ReservedOnce
<1>. QED
  BY <1>1, <1>2, <1>3 DEF LeaseInv

(* Steps of the work behind the fence: with the lease reserved or held     *)
(* nothing begins to work.                                                 *)
LEMMA WorkKeeps ==
  ASSUME LeaseInv, UNCHANGED <<leaseVars, callVars, broken>>,
         TypeOK',
         kind # "free" /\ Quiet => Quiet',
         kind # "free" /\ Quiet /\ NoRows => NoRows'
  PROVE  LeaseInv'
<1>1. ReservedOnce' /\ ReservationUnbroken'
  BY DEF LeaseInv, ReservedOnce, ReservationUnbroken, leaseVars, callVars
<1>2. ProbeSeesTruth'
  BY NoneAssumption DEF LeaseInv, ProbeSeesTruth, leaseVars, callVars
<1>3. GrantedWhileIdle'
  BY DEF LeaseInv, GrantedWhileIdle, leaseVars, Idle, Quiet, NoRows
<1>. QED
  BY <1>1, <1>2, <1>3 DEF LeaseInv

LEMMA WakeType ==
  ASSUME worker \in WorkerPoints, wakeRequested \in BOOLEAN
  PROVE  /\ Wake => worker' \in WorkerPoints /\ wakeRequested' \in BOOLEAN
         /\ DrainEnds => worker' \in WorkerPoints /\ wakeRequested' \in BOOLEAN
         /\ Drain => worker' \in WorkerPoints /\ wakeRequested' \in BOOLEAN
  BY DEF Wake, DrainEnds, Drain, WorkerPoints

LEMMA WorkerKeeps == ASSUME LeaseInv, WorkerStep \/ Announce \/ Initialize PROVE LeaseInv'
<1>1. TypeOK'
  <2>0. TypeOK /\ worker \in WorkerPoints /\ wakeRequested \in BOOLEAN
    BY DEF LeaseInv, TypeOK
  <2>1. /\ worker' \in WorkerPoints /\ wakeRequested' \in BOOLEAN
        /\ queued' \in BOOLEAN /\ running' \in BOOLEAN
        /\ announcing' \in BOOLEAN /\ listening' \in BOOLEAN
    <3> USE <2>0, WakeType
    <3>1. CASE WorkerLooks
      BY <3>1 DEF WorkerLooks, WorkerPoints, TypeOK
    <3>2. CASE WorkerClaims
      BY <3>2 DEF WorkerClaims, WorkerPoints, TypeOK
    <3>3. CASE WorkerFinishes
      BY <3>3 DEF WorkerFinishes, WorkerPoints, TypeOK
    <3>4. CASE Announce
      BY <3>4 DEF Announce, TypeOK
    <3>5. CASE Initialize
      BY <3>5 DEF Initialize, TypeOK
    <3>. QED
      BY <3>1, <3>2, <3>3, <3>4, <3>5 DEF WorkerStep
  <2>2. UNCHANGED <<leaseVars, closed, callVars, broken, request, background>>
    BY DEF WorkerStep, WorkerLooks, WorkerClaims, WorkerFinishes, Announce, Initialize
  <2>. QED
    BY <2>0, <2>1, <2>2 DEF TypeOK, leaseVars, callVars
<1>2. UNCHANGED <<leaseVars, callVars, broken>>
  BY DEF WorkerStep, WorkerLooks, WorkerClaims, WorkerFinishes, Announce, Initialize
<1>3. /\ kind # "free" /\ Quiet => Quiet'
      /\ kind # "free" /\ Quiet /\ NoRows => NoRows'
  BY DEF WorkerStep, WorkerLooks, WorkerClaims, WorkerFinishes, Announce, Initialize, Wake,
     DrainEnds, Drain, Quiet, NoRows, InFlight, Working, Fenced
<1>. QED
  BY <1>1, <1>2, <1>3, WorkKeeps

LEMMA RequestKeeps == ASSUME LeaseInv, NEW r \in Requests, RequestStep(r) PROVE LeaseInv'
<1>1. TypeOK'
  <2> USE DEF LeaseInv, TypeOK, RequestPoints, leaseVars, callVars
  <2>1. CASE Admit(r) \/ RequestQueues(r)
    BY <2>1 DEF Admit, RequestQueues
  <2>2. CASE RequestWakes(r)
    <3>1. worker' \in WorkerPoints /\ wakeRequested' \in BOOLEAN
      BY <2>2, WakeType DEF RequestWakes
    <3>. QED
      BY <2>2, <3>1 DEF RequestWakes
  <2>3. CASE RequestEnds(r) \/ BackgroundEnds(r)
    BY <2>3 DEF RequestEnds, BackgroundEnds
  <2>. QED
    BY <2>1, <2>2, <2>3 DEF RequestStep
<1>2. UNCHANGED <<leaseVars, callVars, broken>>
  BY DEF RequestStep, Admit, RequestQueues, RequestWakes, RequestEnds, BackgroundEnds
<1>3. /\ kind # "free" /\ Quiet => Quiet'
      /\ kind # "free" /\ Quiet /\ NoRows => NoRows'
  BY DEF RequestStep, Admit, RequestQueues, RequestWakes, RequestEnds, BackgroundEnds,
     Quiet, NoRows, InFlight, Working
<1>. QED
  BY <1>1, <1>2, <1>3, WorkKeeps

LEMMA ReservesKeeps ==
  ASSUME LeaseInv, NEW p \in Prepares, NEW id \in Ids, Reserves(p, id)
  PROVE  LeaseInv'
<1>1. TypeOK'
  BY DEF LeaseInv, TypeOK, Reserves, Enter, Answers, CallPoints, workVars
<1>2. reservation' = p /\ kind' = "probing" /\ broken' = broken /\ p \notin broken
  BY DEF LeaseInv, TypeOK, ReservedOnce, Reserves, Enter
<1>3. call' = [call EXCEPT ![p] = IF Working THEN "busy" ELSE "reading"] /\ ~InFlight
      /\ call \in [Prepares -> CallPoints] /\ (Working' <=> Working) /\ (InFlight' <=> InFlight)
  BY DEF LeaseInv, TypeOK, Reserves, Answers, workVars, Working, InFlight
<1>4. ProbeSeesTruth'
  BY <1>2, <1>3, NoneAssumption DEF ProbeSeesTruth, Quiet
<1>5. ReservedOnce' /\ ReservationUnbroken' /\ GrantedWhileIdle'
  BY <1>2, <1>3 DEF LeaseInv, ReservedOnce, ReservationUnbroken, GrantedWhileIdle
<1>. QED
  BY <1>1, <1>4, <1>5 DEF LeaseInv

LEMMA RenewsKeeps ==
  ASSUME LeaseInv, NEW p \in Prepares, NEW id \in Ids, Renews(p, id)
  PROVE  LeaseInv'
<1>1. TypeOK'
  BY DEF LeaseInv, TypeOK, Renews, Enter, Answers, CallPoints, workVars
<1>2. /\ kind = "held" /\ kind' = "held" /\ reservation' = None /\ atStart' = atStart
      /\ UNCHANGED <<broken, request, background, worker, queued, running>>
      /\ call' = [call EXCEPT ![p] = "granted"] /\ call \in [Prepares -> CallPoints]
  BY DEF LeaseInv, TypeOK, Renews, Enter, Answers, workVars
<1>3. GrantedWhileIdle'
  BY <1>2 DEF LeaseInv, GrantedWhileIdle, Idle, Working, InFlight
<1>4. ProbeSeesTruth' /\ ReservationUnbroken'
  BY <1>2, NoneAssumption DEF LeaseInv, TypeOK, ProbeSeesTruth, ReservationUnbroken
<1>5. ReservedOnce'
  BY <1>2, NoneAssumption DEF LeaseInv, ReservedOnce
<1>. QED
  BY <1>1, <1>3, <1>4, <1>5 DEF LeaseInv

LEMMA ProbeKeeps == ASSUME LeaseInv, NEW p \in Prepares, ProbeStep(p) PROVE LeaseInv'
<1>0. call \in [Prepares -> CallPoints]
  BY DEF LeaseInv, TypeOK
<1>1. CASE ProbeReads(p) \/ ProbeLooksAgain(p)
  <2>1. TypeOK'
    BY <1>1 DEF LeaseInv, TypeOK, ProbeReads, ProbeLooksAgain, Answers, CallPoints, leaseVars,
       workVars
  <2>2. /\ UNCHANGED <<leaseVars, workVars, broken>>
        /\ \E point \in {"read", "idle", "busy"} : call' = [call EXCEPT ![p] = point]
        /\ call[p] \in {"reading", "read"}
        /\ call'[p] \in {"read", "idle"} => NoRows \/ call[p] = "read"
    BY <1>0, <1>1 DEF ProbeReads, ProbeLooksAgain, Answers, NoRows
  <2>3. ReservedOnce' /\ ReservationUnbroken'
    BY <1>0, <2>2 DEF LeaseInv, ReservedOnce, ReservationUnbroken, leaseVars
  <2>4. ProbeSeesTruth'
    BY <1>0, <2>2 DEF LeaseInv, ProbeSeesTruth, leaseVars, workVars, Quiet, NoRows, InFlight, Working
  <2>5. GrantedWhileIdle'
    BY <2>2 DEF LeaseInv, GrantedWhileIdle, Idle, leaseVars, workVars, InFlight, Working
  <2>. QED
    BY <2>1, <2>3, <2>4, <2>5 DEF LeaseInv
<1>2. CASE Confirms(p) /\ ~closed /\ reservation = p
  <2>1. /\ kind' = "held" /\ reservation' = None /\ call[p] = "idle"
        /\ call' = [call EXCEPT ![p] = "granted"]
        /\ UNCHANGED <<broken, workVars>>
    BY <1>2 DEF Confirms, Enter, Answers
  <2>2. TypeOK'
    BY <1>2 DEF LeaseInv, TypeOK, Confirms, Enter, Answers, CallPoints, workVars
  <2>3. GrantedWhileIdle'
    BY <1>2, <2>1 DEF LeaseInv, ProbeSeesTruth, GrantedWhileIdle, Idle, Quiet, NoRows, workVars,
       InFlight, Working
  <2>4. ProbeSeesTruth' /\ ReservationUnbroken'
    BY <2>1, NoneAssumption DEF LeaseInv, TypeOK, ProbeSeesTruth, ReservationUnbroken
  <2>5. ReservedOnce'
    BY <1>0, <2>1, NoneAssumption DEF LeaseInv, ReservedOnce
  <2>. QED
    BY <2>2, <2>3, <2>4, <2>5 DEF LeaseInv
<1>3. CASE \/ Confirms(p) /\ ~(~closed /\ reservation = p)
           \/ Abandons(p) /\ reservation # p
  <2>1. /\ UNCHANGED <<leaseVars, workVars, broken, closed, announcing, listening, leaseId>>
        /\ call' = [call EXCEPT ![p] = "refused"]
        /\ call[p] # "unused"
    BY <1>3 DEF Confirms, Abandons, Answers
  <2>2. TypeOK'
    BY <2>1 DEF LeaseInv, TypeOK, CallPoints, leaseVars, workVars
  <2>3. ReservedOnce' /\ ReservationUnbroken'
    BY <1>0, <2>1 DEF LeaseInv, ReservedOnce, ReservationUnbroken, leaseVars
  <2>4. ProbeSeesTruth'
    BY <1>0, <2>1 DEF LeaseInv, ProbeSeesTruth, leaseVars, workVars, Quiet, NoRows, InFlight, Working
  <2>5. GrantedWhileIdle'
    BY <2>1 DEF LeaseInv, GrantedWhileIdle, Idle, leaseVars, workVars, InFlight, Working
  <2>. QED
    BY <2>2, <2>3, <2>4, <2>5 DEF LeaseInv
<1>4. CASE Abandons(p) /\ reservation = p
  <2>1. call' = [call EXCEPT ![p] = "refused"]
    BY <1>4 DEF Abandons, Answers
  <2>. QED
    BY <1>0, <1>4, <2>1, OpenKeeps DEF Abandons, CallPoints
<1>. QED
  BY <1>1, <1>2, <1>3, <1>4 DEF ProbeStep

LEMMA LifeKeeps ==
  ASSUME LeaseInv,
         Elapses \/ TimerFires \/ LazilyExpires \/ Close \/ \E id \in Ids : Releases(id)
  PROVE  LeaseInv'
<1>1. CASE Elapses \/ Close
  <2>1. /\ UNCHANGED <<kind, holder, reservation, atStart, announcing, listening, callVars, broken>>
        /\ UNCHANGED workVars
        /\ due' \in BOOLEAN /\ timer' \in BOOLEAN /\ closed' \in BOOLEAN
    BY <1>1 DEF Elapses, Close, LeaseInv, TypeOK
  <2>2. TypeOK'
    BY <2>1 DEF LeaseInv, TypeOK, callVars, workVars
  <2>3. ReservedOnce' /\ ReservationUnbroken'
    BY <2>1 DEF LeaseInv, ReservedOnce, ReservationUnbroken, callVars
  <2>4. ProbeSeesTruth'
    BY <2>1 DEF LeaseInv, ProbeSeesTruth, callVars, workVars, Quiet, NoRows, InFlight, Working
  <2>5. GrantedWhileIdle'
    BY <2>1 DEF LeaseInv, GrantedWhileIdle, Idle, workVars, InFlight, Working
  <2>. QED
    BY <2>2, <2>3, <2>4, <2>5 DEF LeaseInv
<1>2. CASE TimerFires \/ LazilyExpires \/ \E id \in Ids : Releases(id)
  BY <1>2, OpenKeeps DEF TimerFires, LazilyExpires, Releases, callVars, LeaseInv, TypeOK
<1>. QED
  BY <1>1, <1>2

LEMMA StepKeeps == ASSUME LeaseInv, [Next]_vars PROVE LeaseInv'
<1>1. CASE UNCHANGED vars
  BY <1>1, WorkKeeps DEF vars, callVars, workVars, leaseVars, LeaseInv, TypeOK, Quiet, NoRows,
     InFlight, Working
<1>2. CASE Next
  BY <1>2, WorkerKeeps, RequestKeeps, ReservesKeeps, RenewsKeeps, ProbeKeeps, LifeKeeps
     DEF Next, LeaseStep
<1>. QED
  BY <1>1, <1>2

LEMMA LeaseInvariant == Spec => []LeaseInv
  BY InitLease, StepKeeps, PTL DEF Spec

----------------------------------------------------------------------------
(* The theorems.                                                           *)

(* The variables of the lease and of the work behind it keep their types.  *)
THEOREM LeaseTypeCorrect == Spec => []TypeOK
  BY LeaseInvariant, PTL DEF LeaseInv

(* A lease granted by prepare is held over an idle runner.                 *)
THEOREM LeaseHeldIdle == Spec => []GrantedWhileIdle
  BY LeaseInvariant, PTL DEF LeaseInv

(* A grant is fenced without a gap since its reservation.                  *)
THEOREM LeaseGrantsUnbroken == Spec => GrantsUnbroken
<1>1. ASSUME LeaseInv, [Next]_vars
      PROVE  [\A p \in Prepares :
                call[p] = "idle" /\ call'[p] = "granted" => p \notin broken]_vars
  <2>1. SUFFICES ASSUME NEW p \in Prepares, call[p] = "idle", call'[p] = "granted", Next
                 PROVE  p \notin broken
    BY <1>1
  <2>2. Confirms(p) /\ reservation = p
    <3>0. call \in [Prepares -> CallPoints]
      BY <1>1 DEF LeaseInv, TypeOK
    <3>1. call' # call
      BY <2>1
    <3>2. PICK q \in Prepares : ProbeStep(q) \/ \E id \in Ids : Reserves(q, id) \/ Renews(q, id)
      BY <2>1, <3>1 DEF Next, LeaseStep, Elapses, TimerFires, LazilyExpires, Announce, Initialize,
         Close, WorkerStep, WorkerLooks, WorkerClaims, WorkerFinishes, RequestStep, Admit,
         RequestQueues, RequestWakes, RequestEnds, BackgroundEnds, Releases, callVars
    <3>3. \E point \in CallPoints : call' = [call EXCEPT ![q] = point]
      BY <3>2 DEF ProbeStep, ProbeReads, ProbeLooksAgain, Confirms, Abandons, Reserves, Renews,
         Answers, CallPoints
    <3>4. q = p
      BY <2>1, <3>0, <3>3
    <3>. QED
      BY <2>1, <3>0, <3>2, <3>4 DEF ProbeStep, ProbeReads, ProbeLooksAgain, Confirms, Abandons,
         Reserves, Renews, Answers
  <2>. QED
    BY <1>1, <2>2 DEF LeaseInv, ReservationUnbroken
<1>. QED
  BY <1>1, LeaseInvariant, PTL DEF Spec, GrantsUnbroken

(* No opening of the lease is lost on the workers.                         *)
THEOREM LeaseOpeningsHeard == Spec => []NoLostOpening
<1>1. Init => NoLostOpening
  BY DEF Init, NoLostOpening
<1>2. ASSUME LeaseInv, NoLostOpening, [Next]_vars PROVE NoLostOpening'
  <2>0. /\ request \in [Requests -> RequestPoints] /\ worker \in WorkerPoints
        /\ kind \in {"free", "probing", "held"}
    BY <1>2 DEF LeaseInv, TypeOK
  <2>1. CASE TimerFires \/ LazilyExpires \/ \E id \in Ids : Releases(id)
    BY <2>1 DEF TimerFires, LazilyExpires, Releases, Open, NoLostOpening
  <2>2. CASE Announce \/ Initialize
    BY <1>2, <2>2 DEF Announce, Initialize, Wake, Drain, Fenced, NoLostOpening, leaseVars
  <2>3. CASE Close \/ Elapses
    BY <1>2, <2>3 DEF Close, Elapses, NoLostOpening, workVars
  <2>4. CASE WorkerStep
    BY <1>2, <2>4 DEF WorkerStep, WorkerLooks, WorkerClaims, WorkerFinishes, DrainEnds, Drain,
       Fenced, NoLostOpening, leaseVars
  <2>5. ASSUME NEW r \in Requests, RequestStep(r) PROVE NoLostOpening'
    <3>1. CASE RequestWakes(r)
      BY <1>2, <2>0, <3>1 DEF RequestWakes, Wake, Drain, Fenced, NoLostOpening, leaseVars
    <3>2. CASE RequestQueues(r)
      BY <1>2, <2>0, <3>2 DEF RequestQueues, NoLostOpening
    <3>3. CASE Admit(r) \/ RequestEnds(r) \/ BackgroundEnds(r)
      BY <1>2, <2>0, <3>3 DEF Admit, RequestEnds, BackgroundEnds, NoLostOpening, leaseVars
    <3>. QED
      BY <2>5, <3>1, <3>2, <3>3 DEF RequestStep
  <2>6. ASSUME NEW p \in Prepares, ProbeStep(p) \/ \E id \in Ids : Reserves(p, id) \/ Renews(p, id)
        PROVE  NoLostOpening'
    BY <1>2, <2>6 DEF ProbeStep, ProbeReads, ProbeLooksAgain, Confirms, Abandons, Reserves, Renews,
       Enter, Open, NoLostOpening, leaseVars, workVars
  <2>7. CASE UNCHANGED vars
    BY <1>2, <2>7 DEF vars, leaseVars, workVars, NoLostOpening
  <2>. QED
    BY <1>2, <2>1, <2>2, <2>3, <2>4, <2>5, <2>6, <2>7 DEF Next, LeaseStep
<1>. QED
  BY <1>1, <1>2, LeaseInvariant, PTL DEF Spec

(* The fence holds: no work under a lease, no work forgotten behind it.    *)
THEOREM LeaseFenceHolds == Spec => []FenceHolds
  BY LeaseHeldIdle, LeaseOpeningsHeard, PTL DEF FenceHolds
=============================================================================
