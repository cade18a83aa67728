----------------------------- MODULE PortScans ------------------------------
(***************************************************************************)
(* The port lists of conversations and projects: a scan of one scope is    *)
(* shared by those who ask meanwhile and remembered for a moment; one that *)
(* takes too long gives its slot back although it still collects           *)
(* (application/port-preview-service.ts). A scan is its number in the      *)
(* order of their starts, which is also the order of the cache.            *)
(***************************************************************************)
EXTENDS Naturals, FiniteSets

CONSTANTS PortCallers, Scopes, Scans, ConcurrentScans, CachedScopes, FreshScan, ScanTicks

ASSUME PortAssumption ==
  /\ Scans \subseteq Nat /\ ConcurrentScans \in Nat \ {0} /\ CachedScopes \in Nat
  /\ FreshScan \in Nat \ {0} /\ ScanTicks \in Nat /\ Scopes # {} /\ Scans # {}

VARIABLES
  scanClock,    \* the time
  scan,         \* the scans: what each is doing, its scope and when it settled
  portCache,    \* cache: the scans that are remembered
  scanSlots,    \* scans: the slots taken
  portCallers   \* what each caller waits for or was given

portVars == <<scanClock, scan, portCache, scanSlots, portCallers>>

PortTypeOK ==
  /\ scanClock \in 0..ScanTicks
  /\ scan \in [Scans -> [pc : {"unused", "collecting", "settled", "late", "over"},
                         scope : Scopes, at : 0..ScanTicks]]
  /\ portCache \subseteq Scans /\ scanSlots \in Nat
  /\ portCallers \in [PortCallers ->
       [pc : {"new", "waiting", "answered", "refused"}, scan : Scans, scope : Scopes, age : Nat]]

PortInit ==
  /\ scanClock = 0 /\ portCache = {} /\ scanSlots = 0
  /\ scan = [i \in Scans |-> [pc |-> "unused", scope |-> CHOOSE s \in Scopes : TRUE, at |-> 0]]
  /\ portCallers = [c \in PortCallers |-> [pc |-> "new", scan |-> CHOOSE i \in Scans : TRUE,
                                           scope |-> CHOOSE s \in Scopes : TRUE, age |-> 0]]

ScanSettled(i) == scan[i].pc = "settled"

(* Mutant: the oldest leave, whatever they are doing.                      *)
EvictOldest(cache) ==
  {i \in cache : Cardinality({j \in cache : j >= i}) <= CachedScopes}

(* evict: the settled scans that were started first leave until the cache  *)
(* is within its bound; one under way is never forgotten.                  *)
Evict(cache) ==
  {i \in cache : ScanSettled(i) => Cardinality({j \in cache : ScanSettled(j) /\ j <= i})
                                 > Cardinality(cache) - CachedScopes}

CacheHits(s) == {i \in portCache : scan[i].scope = s
                              /\ (~ScanSettled(i) \/ scanClock - scan[i].at < FreshScan)}

-----------------------------------------------------------------------------
(* cached: a caller joins the scan of its scope, is given what the last    *)
(* one found, or starts a scan if a slot is free.                          *)
AsksPorts(c, s) ==
  /\ portCallers[c].pc = "new"
  /\ \/ \E i \in CacheHits(s) :
          /\ portCallers' = [portCallers EXCEPT ![c] =
               [pc |-> IF ScanSettled(i) THEN "answered" ELSE "waiting", scan |-> i, scope |-> s,
                age |-> IF ScanSettled(i) THEN scanClock - scan[i].at ELSE 0]]
          /\ UNCHANGED <<scan, portCache, scanSlots>>
     \/ /\ CacheHits(s) = {} /\ scanSlots >= ConcurrentScans
        /\ portCallers' = [portCallers EXCEPT ![c].pc = "refused"]
        /\ UNCHANGED <<scan, portCache, scanSlots>>
     \/ /\ CacheHits(s) = {} /\ scanSlots < ConcurrentScans
        /\ \E i \in Scans :
             /\ scan[i].pc = "unused" /\ \A j \in Scans : j < i => scan[j].pc # "unused"
             /\ scan' = [scan EXCEPT ![i] = [pc |-> "collecting", scope |-> s, at |-> scanClock]]
             /\ portCallers' = [portCallers EXCEPT ![c] =
                                  [pc |-> "waiting", scan |-> i, scope |-> s, age |-> 0]]
             /\ portCache' = Evict({j \in portCache : scan[j].scope # s} \cup {i})
        /\ scanSlots' = scanSlots + 1
  /\ UNCHANGED scanClock

Tells(i, pc) ==
  portCallers' = [c \in PortCallers |->
    IF portCallers[c].pc = "waiting" /\ portCallers[c].scan = i
    THEN [portCallers[c] EXCEPT !.pc = pc] ELSE portCallers[c]]

(* The collection ends with a list in time: it is remembered from now on.  *)
ScanSettles(i) ==
  /\ scan[i].pc = "collecting"
  /\ scan' = [scan EXCEPT ![i].pc = "settled", ![i].at = scanClock]
  /\ scanSlots' = scanSlots - 1 /\ Tells(i, "answered")
  /\ UNCHANGED <<scanClock, portCache>>

(* It fails, or the deadline and its grace pass first: the scan is         *)
(* forgotten and its slot is free, though it may still be collecting.      *)
ScanFails(i) ==
  /\ scan[i].pc = "collecting"
  /\ \E pc \in {"over", "late"} : scan' = [scan EXCEPT ![i].pc = pc]
  /\ portCache' = portCache \ {i}
  /\ scanSlots' = scanSlots - 1 /\ Tells(i, "refused")
  /\ UNCHANGED scanClock

LateScanEnds(i) ==
  /\ scan[i].pc = "late" /\ scan' = [scan EXCEPT ![i].pc = "over"]
  /\ UNCHANGED <<scanClock, portCache, scanSlots, portCallers>>

ScanTick ==
  /\ scanClock < ScanTicks /\ scanClock' = scanClock + 1
  /\ UNCHANGED <<scan, portCache, scanSlots, portCallers>>

PortNext ==
  \/ ScanTick
  \/ \E i \in Scans : ScanSettles(i) \/ ScanFails(i) \/ LateScanEnds(i)
  \/ \E c \in PortCallers, s \in Scopes : AsksPorts(c, s)

PortSpec == PortInit /\ [][PortNext]_portVars

-----------------------------------------------------------------------------
Scanning == {i \in Scans : scan[i].pc = "collecting"}

(* A scope is never scanned twice at once by scans somebody waits for, the *)
(* slots taken are those of the scans in time, whoever waits waits for     *)
(* one of these, every one of these can be found by the next to ask, and   *)
(* a list that is given again is of the scope asked for and still fresh.   *)
ScansShared ==
  /\ \A i, j \in Scanning : scan[i].scope = scan[j].scope => i = j
  /\ scanSlots = Cardinality(Scanning) /\ scanSlots <= ConcurrentScans
  /\ Scanning \subseteq portCache
  /\ \A c \in PortCallers :
       /\ portCallers[c].pc = "waiting" =>
            portCallers[c].scan \in Scanning /\ scan[portCallers[c].scan].scope = portCallers[c].scope
       /\ portCallers[c].pc = "answered" => portCallers[c].age < FreshScan
=============================================================================
