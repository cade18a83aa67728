--------------------------- MODULE CommandCatalog ---------------------------
(***************************************************************************)
(* The command catalogs of the providers: one probe of a checkout and a    *)
(* provider at a time, its answer fresh for a while and, when later probes *)
(* fail or are refused, good for a while longer                            *)
(* (application/command-catalog-service.ts). A key is a provider and a     *)
(* registered checkout; a catalog is the time it was read.                 *)
(***************************************************************************)
EXTENDS SequencesExt

CONSTANTS CatalogCallers, CatalogKeys, FreshTicks, StaleTicks, CachedKeys,
          ConcurrentProbes, CatalogTicks

ASSUME CatalogAssumption ==
  /\ FreshTicks \in Nat /\ StaleTicks \in Nat \ {0} /\ FreshTicks <= StaleTicks
  /\ CachedKeys \in Nat \ {0} /\ ConcurrentProbes \in Nat \ {0}
  /\ CatalogTicks \in Nat /\ CatalogKeys # {}

VARIABLES
  clock,            \* the time
  catalogs,         \* cache: the catalogs known, the one stored first first
  probes,           \* pending: what the probe of each key is doing
  readers,          \* what each caller waits for or was given
  cancellation      \* "open", "closing" or "closed"

catalogVars == <<clock, catalogs, probes, readers, cancellation>>

CatalogTypeOK ==
  /\ clock \in 0..CatalogTicks
  /\ catalogs \in Seq([key : CatalogKeys, at : 0..CatalogTicks])
  /\ probes \in [CatalogKeys -> {"none", "checkout", "reading"}]
  /\ readers \in [CatalogCallers ->
       [pc : {"new", "project", "waiting", "answered", "refused"}, key : CatalogKeys, age : Nat]]
  /\ cancellation \in {"open", "closing", "closed"}

CatalogInit ==
  /\ clock = 0 /\ catalogs = <<>> /\ cancellation = "open"
  /\ probes = [k \in CatalogKeys |-> "none"]
  /\ readers = [c \in CatalogCallers |-> [pc |-> "new", key |-> CHOOSE k \in CatalogKeys : TRUE, age |-> 0]]

Probing == {k \in CatalogKeys : probes[k] # "none"}

Others(k) == RemoveFirstMatch(catalogs, LAMBDA c : c.key = k)
Of(k) == {catalogs[i].at : i \in {j \in 1..Len(catalogs) : catalogs[j].key = k}}

(* lastGood: when the catalog of a key was read, unless that is too long   *)
(* ago; a catalog found too old is forgotten.                              *)
LastGood(k) == {at \in Of(k) : clock - at < StaleTicks}
ForgetsStale(k) == catalogs' = IF LastGood(k) = {} THEN Others(k) ELSE catalogs

Gets(c, pc, age) == readers' = [readers EXCEPT ![c].pc = pc, ![c].age = age]

-----------------------------------------------------------------------------
(* read, up to the look at the project.                                    *)
AsksCatalog(c, k) ==
  /\ readers[c].pc = "new"
  /\ readers' = [readers EXCEPT ![c] = [pc |-> IF cancellation = "open" THEN "project" ELSE "refused",
                                        key |-> k, age |-> 0]]
  /\ UNCHANGED <<clock, catalogs, probes, cancellation>>

(* Mutant: the service is not asked again whether it is open.              *)
FindsProjectClosed(c) ==
  LET k == readers[c].key IN
  /\ readers[c].pc = "project" /\ k \notin Probing
  /\ probes' = [probes EXCEPT ![k] = "checkout"]
  /\ Gets(c, "waiting", 0)
  /\ UNCHANGED <<clock, catalogs, cancellation>>

(* The rest of read: the project is known, or its registry fails; the      *)
(* service may have been closed meanwhile.                                 *)
FindsProject(c) ==
  LET k == readers[c].key  known == LastGood(k) IN
  /\ readers[c].pc = "project"
  /\ \/ Gets(c, "refused", 0) /\ UNCHANGED <<catalogs, probes>>
     \/ /\ cancellation = "open" /\ ForgetsStale(k)
        /\ \/ \E at \in known : /\ clock - at < FreshTicks
                                /\ Gets(c, "answered", clock - at) /\ UNCHANGED probes
           \/ /\ \A at \in known : clock - at >= FreshTicks
              /\ \/ k \in Probing /\ Gets(c, "waiting", 0) /\ UNCHANGED probes
                 \/ /\ k \notin Probing /\ Cardinality(Probing) >= ConcurrentProbes
                    /\ \/ \E at \in known : Gets(c, "answered", clock - at)
                       \/ known = {} /\ Gets(c, "refused", 0)
                    /\ UNCHANGED probes
                 \/ /\ k \notin Probing /\ Cardinality(Probing) < ConcurrentProbes
                    /\ probes' = [probes EXCEPT ![k] = "checkout"]
                    /\ Gets(c, "waiting", 0)
  /\ UNCHANGED <<clock, cancellation>>

(* The checkout was found in time, and the provider is asked.              *)
ChecksOut(k) ==
  /\ probes[k] = "checkout" /\ cancellation = "open"
  /\ probes' = [probes EXCEPT ![k] = "reading"]
  /\ UNCHANGED <<clock, catalogs, readers, cancellation>>

Settles(k, pc, age) ==
  /\ probes' = [probes EXCEPT ![k] = "none"]
  /\ readers' = [c \in CatalogCallers |->
                   IF readers[c].pc = "waiting" /\ readers[c].key = k
                   THEN [readers[c] EXCEPT !.pc = pc, !.age = age] ELSE readers[c]]

(* store: the catalog is kept as the newest, and the oldest leaves.        *)
StoresCatalog(k) ==
  /\ probes[k] = "reading" /\ cancellation = "open"
  /\ LET all == Append(Others(k), [key |-> k, at |-> clock]) IN
       catalogs' = IF Len(all) > CachedKeys THEN Tail(all) ELSE all
  /\ Settles(k, "answered", 0)
  /\ UNCHANGED <<clock, cancellation>>

(* fallback: the checkout came too late, the provider failed or sent       *)
(* something else, or the service is closing.                              *)
FallsBack(k) ==
  /\ k \in Probing
  /\ \/ /\ cancellation = "open" /\ ForgetsStale(k)
        /\ \/ \E at \in LastGood(k) : Settles(k, "answered", clock - at)
           \/ LastGood(k) = {} /\ Settles(k, "refused", 0)
     \/ cancellation # "open" /\ Settles(k, "refused", 0) /\ UNCHANGED catalogs
  /\ UNCHANGED <<clock, cancellation>>

(* close: no probe starts any more, and once those under way are over the  *)
(* catalogs are forgotten.                                                 *)
ClosesCatalogs ==
  /\ \/ cancellation = "open" /\ cancellation' = "closing" /\ UNCHANGED catalogs
     \/ /\ cancellation = "closing" /\ Probing = {}
        /\ cancellation' = "closed" /\ catalogs' = <<>>
  /\ UNCHANGED <<clock, probes, readers>>

CatalogTick ==
  /\ clock < CatalogTicks /\ clock' = clock + 1
  /\ UNCHANGED <<catalogs, probes, readers, cancellation>>

CatalogNext ==
  \/ ClosesCatalogs \/ CatalogTick
  \/ \E k \in CatalogKeys : ChecksOut(k) \/ StoresCatalog(k) \/ FallsBack(k)
  \/ \E c \in CatalogCallers : FindsProject(c) \/ \E k \in CatalogKeys : AsksCatalog(c, k)

CatalogSpec == CatalogInit /\ [][CatalogNext]_catalogVars

-----------------------------------------------------------------------------
(* Whatever fails, is refused or is shared, nobody is given a catalog that *)
(* is no longer good; every caller that waits waits for a probe; probes    *)
(* and catalogs stay within their bounds; and a closed service has neither.*)
CatalogsServed ==
  /\ \A c \in CatalogCallers :
       /\ readers[c].pc = "answered" => readers[c].age < StaleTicks
       /\ readers[c].pc = "waiting" => readers[c].key \in Probing
  /\ Cardinality(Probing) <= ConcurrentProbes
  /\ Len(catalogs) <= CachedKeys
  /\ cancellation = "closed" => Probing = {} /\ catalogs = <<>>
=============================================================================
